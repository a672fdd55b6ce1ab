-------------------------------- MODULE Geolake --------------------------------
(***************************************************************************)
(* The life of a request through the whole of geolake: the API (Api)       *)
(* writes its row and publishes its message, RabbitMQ (Broker) hands the   *)
(* message to an executor (Executor), whose thread, Dask workers and main  *)
(* thread process it, and the tables (DBManager) carry its status and its  *)
(* download back to the API.  Faults are bounded by MaxFaults.             *)
(***************************************************************************)
EXTENDS Api, Executor

vars == <<faults, files, dbVars, brokerVars, executorVars, apiVars>>

Init ==
    /\ EnvironmentInit
    /\ DBInit
    /\ BrokerInit
    /\ ExecutorInit
    /\ ApiInit

ApiNext ==
    /\ \/ EndpointStep
       \/ ApiFails
       \/ \E r \in Requests : EndpointCall(r)
    /\ UNCHANGED executorVars

ExecutorNext ==
    /\ \/ ExecutorFault
       \/ \E e \in Executors :
             \/ MainStep(e)
             \/ \E r \in Requests : ThreadStep(e, r) \/ WorkerStep(e, r)
    /\ UNCHANGED apiVars

Next == ApiNext \/ ExecutorNext

Spec == Init /\ [][Next]_vars

(* What the deployment keeps going: threads and event loops are scheduled, *)
(* Kubernetes starts an executor that is down, the broker delivers and     *)
(* enforces its consumer_timeout, Python ends a process whose threads have *)
(* ended.  Clients, faults and the Dask workers promise nothing: a thread  *)
(* stops waiting for them by itself.                                       *)
Fairness ==
    /\ WF_vars(EndpointStep /\ UNCHANGED executorVars)
    /\ \A e \in Executors :
          /\ WF_vars(StartExecutor(e) /\ UNCHANGED apiVars)
          /\ WF_vars(ConsumerTimeout(e) /\ UNCHANGED apiVars)
          /\ WF_vars(ProcessExit(e) /\ UNCHANGED apiVars)
          /\ \A r \in Requests :
                /\ WF_vars(OnMessage(e, r) /\ UNCHANGED apiVars)
                /\ WF_vars(AckMessage(e, r) /\ UNCHANGED apiVars)
                /\ WF_vars(ThreadStep(e, r) /\ UNCHANGED apiVars)

FairSpec == Spec /\ Fairness

------------------------------------------------------------------------------
(* Type correctness: every variable of every component keeps its type.     *)
TypeOK ==
    /\ EnvironmentTypeOK
    /\ DBTypeOK
    /\ BrokerTypeOK
    /\ ExecutorTypeOK
    /\ ApiTypeOK

------------------------------------------------------------------------------
(* Safety.                                                                 *)

(* The message of r was routed, and no executor will work on it again.     *)
Settled(r) == r \in accepted /\ ~InBroker(r)

Working(e, r) == pc[e][r] \in PreAck

(* A message is in one place: in the queue or delivered to one executor.   *)
(* on_message starts a thread per delivery and nothing in handle_message   *)
(* excludes a second thread on the same request, so everything depends on  *)
(* the broker not handing a message out twice.                             *)
MessageInOnePlace ==
    /\ \A e \in Executors : queue \cap unacked[e] = {}
    /\ \A e, f \in Executors : e # f => unacked[e] \cap unacked[f] = {}

(* An executor works on one request at a time: handle_message threads      *)
(* share self._dask_client without a lock, and only prefetch_count=1 with  *)
(* the late acknowledgement (main.py:426-427) keeps two of them apart      *)
(* between on_message and the acknowledgement.                             *)
OneJobPerExecutor ==
    \A e \in Executors : \A r, q \in Requests :
        Working(e, r) /\ Working(e, q) => r = q

(* on_message never starts a thread for a request this process still has a *)
(* thread for: the acknowledgement cannot be lost while the process goes   *)
(* on consuming.                                                           *)
NoSecondThread ==
    \A e \in Executors : \A r \in queue :
        main[e] = "up" => pc[e][r] = "idle"

(* Why these three hold.  A consumer has at most one message              *)
(* (prefetch_count=1) ...                                                  *)
Prefetched == \A e \in Executors : \A r, q \in unacked[e] : r = q

(* ... hands over for acknowledgement only what it still has ...           *)
HandedOverIsHeld == \A e \in Executors : ackPending[e] \subseteq unacked[e]

(* ... and has nothing when it is not consuming.                           *)
OnlyConsumersHold == \A e \in Executors : main[e] # "up" => unacked[e] = {}

DownIsQuiet ==
    \A e \in Executors :
        main[e] = "down" => \A r \in Requests : pc[e][r] = "idle"

(* A thread works on a message its executor has and has not handed over.   *)
WorkingHolds ==
    \A e \in Executors, r \in Requests :
        main[e] = "up" /\ Working(e, r) => r \in unacked[e] \ ackPending[e]

(* A thread that goes on after the acknowledgement is met by no second     *)
(* delivery: its message is still on this channel, or gone for good.       *)
NoLateDelivery ==
    \A e \in Executors, r \in Requests :
        main[e] = "up" /\ pc[e][r] # "idle" =>
            r \in unacked[e] \/ ~InBroker(r)

(* A request that is not published yet has no message and no thread.       *)
Unpublished(r) == status[r] = "NOROW" \/ (At("publish") /\ api.req = r)

UnpublishedIsNowhere ==
    \A r \in Requests :
        Unpublished(r) =>
            /\ ~InBroker(r)
            /\ \A e \in Executors : pc[e][r] = "idle"

(* Together they are kept by every step, whatever the faults: no order of  *)
(* deliveries, commits, acknowledgements, lost connections and restarts    *)
(* makes two threads of one executor, or two places of one message, meet.  *)
DeliveryInv ==
    /\ MessageInOnePlace
    /\ OneJobPerExecutor
    /\ Prefetched
    /\ HandedOverIsHeld
    /\ OnlyConsumersHold
    /\ DownIsQuiet
    /\ WorkingHolds
    /\ NoLateDelivery
    /\ UnpublishedIsNowhere

(* A request no executor will work on again may still be written: by a     *)
(* handler thread that outlived the connection of its executor, whose      *)
(* message somebody else has processed meanwhile (nothing tells the thread *)
(* before it hands its acknowledgement over).  By nobody else: an executor *)
(* that is connected writes only what is not settled.                      *)
LateWriterIsStale ==
    [][\A r \in Requests :
          Settled(r) /\ (RowOf(r)' # RowOf(r) \/ downloads'[r] # downloads[r]) =>
             \E e \in Executors : main[e] = "draining" /\ Working(e, r)]_vars

(* With one executor the fail_reason column belongs to the status beside   *)
(* it, through every retry and redelivery: no FAILED without a reason, no  *)
(* reason left over on a request that runs or is done.  (Of two executors  *)
(* one may load the row before the other reports its failure, and its      *)
(* UPDATE then sets the status alone.)                                     *)
ReasonMatchesStatus ==
    \A r \in Requests :
        /\ reason[r] = "error" <=> status[r] = "FAILED"
        /\ reason[r] = "timeout" <=> status[r] = "TIMEOUT"

(* With one executor (replicas: 1, strategy Recreate) a request whose      *)
(* message was routed is either still in the broker or has a final status: *)
(* no crash, disconnection or exception between two steps of the handler   *)
(* makes the system forget it.                                             *)
NoLostRequest ==
    \A r \in Requests : Settled(r) => status[r] \in Terminal

(* With one executor, a settled DONE has the Download row that             *)
(* update_request inserts in its second commit, and when the newest row    *)
(* has a path the file behind it is complete: neither the gap between the  *)
(* two commits nor a redelivery that truncates the file is left behind.    *)
SettledDoneHasResult ==
    \A r \in Requests :
        Settled(r) /\ status[r] = "DONE" =>
            /\ downloads[r] # <<>>
            /\ downloads[r][Len(downloads[r])] = "file" => r \in files

(* Why these two hold.  What is settled is complete; so is what an         *)
(* executor has handed over for acknowledgement, and nothing touches it    *)
(* between the hand-over and the acknowledgement ...                       *)
Complete(r) ==
    /\ status[r] \in Terminal
    /\ status[r] = "DONE" =>
          /\ downloads[r] # <<>>
          /\ downloads[r][Len(downloads[r])] = "file" => r \in files

SettledIsComplete == \A r \in Requests : Settled(r) => Complete(r)

HandedOverIsComplete ==
    \A e \in Executors : \A r \in ackPending[e] : Complete(r)

(* ... a thread has left in the tables what its pc says ...                *)
ThreadKeepsTables ==
    \A e \in Executors, r \in Requests :
        /\ pc[e][r] \in {"submit", "poll", "done", "failed", "timeout"} =>
              status[r] = "RUNNING"
        /\ pc[e][r] = "insert" => status[r] = "DONE"
        /\ pc[e][r] \in {"done", "insert"} =>
              job[e][r] \in {"file", "huge", "empty"}
        /\ pc[e][r] = "ack" => Complete(r)

(* ... a finished task has its file, and a task that will open it is not   *)
(* reported yet ...                                                        *)
TaskKeepsFile ==
    \A e \in Executors, r \in Requests :
        /\ job[e][r] \in {"file", "huge"} => r \in files
        /\ job[e][r] = "queued" =>
              /\ pc[e][r] \notin {"done", "failed", "timeout", "insert", "ack"}
              /\ r \notin ackPending[e]
              /\ ~Settled(r)

(* ... the row a thread has loaded is still the one in the table, so that  *)
(* the UPDATE, which leaves out what the load said already, leaves status  *)
(* and fail_reason as the thread wants them ...                            *)
LoadedIsCurrent ==
    \A e \in Executors, r \in Requests :
        session[e][r] # NoRow =>
            pc[e][r] \in Updating /\ session[e][r] = RowOf(r)

(* ... a thread works on a message the broker still has (or has lost) ...  *)
WorkedOnIsHeld ==
    \A e \in Executors, r \in Requests :
        Working(e, r) => InBroker(r) \/ r \notin accepted

(* ... and no message is routed before it is published.                    *)
UnpublishedIsNotAccepted ==
    \A r \in Requests : Unpublished(r) => r \notin accepted

(* With one executor every step keeps them, whatever the faults.           *)
SettlementInv ==
    /\ SettledIsComplete
    /\ HandedOverIsComplete
    /\ ThreadKeepsTables
    /\ TaskKeepsFile
    /\ LoadedIsCurrent
    /\ WorkedOnIsHeld
    /\ UnpublishedIsNotAccepted

(* A request gets more than one Download row only through faults, at most  *)
(* one more row per fault, however many executors there are.               *)
DuplicateDownloadsNeedFaults ==
    \A r \in Requests : Len(downloads[r]) <= 1 + faults

(* A closed cluster is on its way back: maybe_restart_cluster closes it in *)
(* one step and creates it in another, without a lock, while other threads *)
(* of the process look at its status (main.py:298-315).  Only a thread     *)
(* that dies in between leaves an executor that consumes messages without  *)
(* a cluster to run them on.                                               *)
ClosedHasCreator ==
    \A e \in Executors :
        cluster[e] = "closed" =>
            \/ \E r \in Requests : pc[e][r] = "create"
            \/ faults > 0 /\ "exception" \in FaultKinds

(* A task is torn from a waiting thread only when the cluster failed with  *)
(* a fault, or was closed after another request's TIMEOUT: the thread that *)
(* closes it has given its acknowledgement away by then, so the next       *)
(* request may be on the cluster already (main.py:426-429).                *)
LostJobHasCause ==
    \A e \in Executors, r \in Requests :
        pc[e][r] = "poll" /\ job[e][r] = "lost" =>
            \/ faults > 0
            \/ \E q \in Requests \ {r} : status[q] = "TIMEOUT"

(* The download endpoint sends a file that is being rewritten only after a *)
(* fault: it reads the status and the Download in two transactions and     *)
(* opens the file later still, but without a redelivery nobody reopens the *)
(* file of a request that was DONE.                                        *)
PartialFileNeedsFault ==
    reply.says = "partialFile" => faults > 0

(* A URI is handed out for a request that is not DONE (get_request_uri     *)
(* asks for a Download row and not for the status) only after a fault,     *)
(* when the request is being processed again.                              *)
UriMeansDone ==
    reply.op = "uri" /\ reply.says = "uri" =>
        status[reply.req] = "DONE" \/ faults > 0

------------------------------------------------------------------------------
(* Refinement: with one executor, the system implements RequestLifecycle.  *)

Lifecycle == INSTANCE RequestLifecycle WITH
    Requests <- Requests,
    state <- status,
    results <- {r \in Requests : downloads[r] # <<>>},
    settled <- {r \in Requests : Settled(r)}

(* Every step of API, broker and executor is a step of the promise or no   *)
(* step of it: attempts and results come only while the message is in the  *)
(* broker, and a settled request never changes again.                      *)
RefinesLifecycle == Lifecycle!Spec

------------------------------------------------------------------------------
(* Liveness.                                                               *)

(* A delivery that will never be acknowledged although nothing failed: the *)
(* message does not parse, or what its task came to does not fit the       *)
(* tables.  It holds its consumer's only prefetch slot until the broker    *)
(* closes the channel, and is then delivered again before those behind it. *)
Wedged(r) ==
    \E e \in Executors :
        /\ main[e] = "up"
        /\ r \in unacked[e] \ ackPending[e]
        /\ pc[e][r] = "idle"
        /\ r \in Poison \/ job[e][r] \in {"huge", "longerror"}

HeldUp(r) == \E q \in 1..r : Wedged(q)

(* A routed message is settled in the end, whatever the (finitely many)    *)
(* faults, unless it or one before it is delivered again and again for     *)
(* nothing: the handler gives up on its task after the retries, a wedged   *)
(* consumer is closed by the broker, a dead executor is started again and  *)
(* declares the queue again.  A message is never held up by a later one.   *)
AcceptedIsSettled ==
    \A r \in Requests :
        []<>(r \in accepted => Settled(r) \/ HeldUp(r))

(* The API, blocked by a synchronous query whose message was routed,       *)
(* answers and takes other calls again, unless the message is held up.     *)
SyncQueryAnswered ==
    []<>(At("poll") /\ api.req \in accepted => HeldUp(api.req))

===============================================================================
