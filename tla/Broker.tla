-------------------------------- MODULE Broker --------------------------------
(***************************************************************************)
(* RabbitMQ, as the API and the executor use it: one queue, query_queue,   *)
(* published to through the default exchange (dataset.py:296-303) and      *)
(* consumed with prefetch_count=1 and manual acknowledgement               *)
(* (executor/app/main.py:448-458).  The broker itself is not in the        *)
(* repository.  A message is the request it carries.                       *)
(*                                                                         *)
(* Messages are published in the order of their request ids and a requeued *)
(* message goes back to its original place, so the queue is a set and its  *)
(* head is the least element.                                              *)
(***************************************************************************)
EXTENDS Environment

VARIABLES
    declared,     \* has query_queue been declared since the broker started
    queue,        \* messages ready for delivery
    unacked,      \* per executor: delivered on its channel, not acknowledged
    accepted      \* history: messages routed to the queue and not lost since

brokerVars == <<declared, queue, unacked, accepted>>

BrokerInit ==
    /\ declared = FALSE
    /\ queue = {}
    /\ unacked = [e \in Executors |-> {}]
    /\ accepted = {}

BrokerTypeOK ==
    /\ declared \in BOOLEAN
    /\ queue \subseteq Requests
    /\ unacked \in [Executors -> SUBSET Requests]
    /\ accepted \subseteq Requests

(* Where the broker still holds the message of r.                          *)
InFlight == UNION {unacked[e] : e \in Executors}
InBroker(r) == r \in queue \/ r \in InFlight

(* queue_declare(durable=True): idempotent.                                *)
QueueDeclare ==
    /\ declared' = TRUE
    /\ UNCHANGED <<queue, unacked, accepted>>

(* basic_publish without the mandatory flag or publisher confirms: a       *)
(* message for a queue that is not declared is dropped without a word.     *)
BasicPublish(r) ==
    /\ queue' = IF declared THEN queue \cup {r} ELSE queue
    /\ accepted' = IF declared THEN accepted \cup {r} ELSE accepted
    /\ UNCHANGED <<declared, unacked>>

(* The head of the queue goes to a consumer with nothing unacknowledged:   *)
(* prefetch_count=1.                                                       *)
BasicDeliver(e, r) ==
    /\ unacked[e] = {}
    /\ r \in queue
    /\ \A q \in queue : r <= q
    /\ queue' = queue \ {r}
    /\ unacked' = [unacked EXCEPT ![e] = @ \cup {r}]
    /\ UNCHANGED <<declared, accepted>>

(* basic_ack: the message is gone for good.                                *)
BasicAck(e, r) ==
    /\ unacked' = [unacked EXCEPT ![e] = @ \ {r}]
    /\ UNCHANGED <<declared, queue, accepted>>

(* The consumer's channel or connection is gone: what it had not           *)
(* acknowledged goes back to its place in the queue.                       *)
Requeue(e) ==
    /\ queue' = queue \cup unacked[e]
    /\ unacked' = [unacked EXCEPT ![e] = {}]
    /\ UNCHANGED <<declared, accepted>>

(* The broker's pod is replaced.  Its deployment mounts its configuration  *)
(* and nothing else (kubernetes/broker-deployment.yaml:28-38), so the      *)
(* durable queue and its persistent messages go with the container.        *)
LoseQueue ==
    /\ declared' = FALSE
    /\ queue' = {}
    /\ unacked' = [e \in Executors |-> {}]
    /\ accepted' = {r \in accepted : ~InBroker(r)}

===============================================================================
