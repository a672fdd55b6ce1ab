------------------------------- MODULE Executor -------------------------------
(***************************************************************************)
(* executor/app/main.py: the consumer process that turns a message into a  *)
(* result file and a final status.                                         *)
(*                                                                         *)
(* One process has a main thread, which runs pika's I/O loop (listen), one *)
(* thread per delivered message (on_message starts it on handle_message)   *)
(* and a Dask cluster whose workers run process().  handle_message is      *)
(* split where another process or thread can see or disturb it: at every   *)
(* database query and commit, at the submission, at each poll of the       *)
(* future, at the hand-over of the acknowledgement to the main thread, and *)
(* at the closing and the creation of the cluster.                         *)
(*                                                                         *)
(*   pc         the thread of r is about to ...                            *)
(*   "idle"     (there is no thread for r)                                 *)
(*   "start"    parse the message                                          *)
(*   "running"  set the status to RUNNING                                  *)
(*   "submit"   submit process() to the cluster                            *)
(*   "poll"     look at the future, or give up                             *)
(*   "done", "failed", "timeout"   set the status retry_until_timeout      *)
(*              returned                                                   *)
(*   "insert"   commit the Download row                                    *)
(*   "ack"      hand the acknowledgement over to the main thread           *)
(*   "restart"  run maybe_restart_cluster                                  *)
(*   "create"   create a new cluster, the old one being closed             *)
(***************************************************************************)
EXTENDS DBManager, Broker

CONSTANTS
    Outcomes,     \* what process() may come to, see JobResults
    Poison        \* requests whose message Message() fails to parse

(* "file" a path; "huge" a path whose size or name does not fit its        *)
(* column; "empty" None; "error" an exception; "longerror" an exception    *)
(* whose text does not fit the fail_reason column.                         *)
JobResults == {"file", "huge", "empty", "error", "longerror"}

ASSUME OutcomesAssumption == Outcomes \subseteq JobResults
ASSUME PoisonAssumption == Poison \subseteq Requests

VARIABLES
    main,         \* "down", "up" (consuming) or "draining": the main thread
                  \* has died, the process waits for its other threads
    pc,           \* per executor and request, where the thread is
    session,      \* per executor and request, the row update_request loaded
    timedOut,     \* per executor, the threads whose local status is TIMEOUT
    job,          \* per executor and request, the Dask task
    ackPending,   \* per executor, acknowledgements handed to the main thread
    cluster       \* per executor, the status of self._dask_client.cluster

executorVars == <<main, pc, session, timedOut, job, ackPending, cluster>>

JobStates == {"none", "queued", "writing", "lost"} \cup JobResults

(* The labels at which update_request loads the row and then updates it.   *)
Updating == {"running", "done", "failed", "timeout"}

PreAck == {"start", "running", "submit", "poll", "done", "failed", "timeout",
           "insert", "ack"}
PostAck == {"restart", "create"}

ExecutorInit ==
    /\ main = [e \in Executors |-> "down"]
    /\ pc = [e \in Executors |-> [r \in Requests |-> "idle"]]
    /\ session = [e \in Executors |-> [r \in Requests |-> NoRow]]
    /\ timedOut = [e \in Executors |-> {}]
    /\ job = [e \in Executors |-> [r \in Requests |-> "none"]]
    /\ ackPending = [e \in Executors |-> {}]
    /\ cluster = [e \in Executors |-> "none"]

ExecutorTypeOK ==
    /\ main \in [Executors -> {"down", "up", "draining"}]
    /\ pc \in [Executors -> [Requests -> {"idle"} \cup PreAck \cup PostAck]]
    /\ session \in [Executors -> [Requests -> Rows]]
    /\ timedOut \in [Executors -> SUBSET Requests]
    /\ job \in [Executors -> [Requests -> JobStates]]
    /\ ackPending \in [Executors -> SUBSET Requests]
    /\ cluster \in [Executors -> {"none", "running", "failed", "closed"}]

------------------------------------------------------------------------------
(* Building blocks.                                                        *)

Goto(e, r, label) == pc' = [pc EXCEPT ![e][r] = label]

(* An exception leaves handle_message: the thread is gone, its message is  *)
(* neither acknowledged nor rejected.  What runs on the cluster runs on.   *)
ThreadEnds(e, r) ==
    /\ Goto(e, r, "idle")
    /\ session' = [session EXCEPT ![e][r] = NoRow]
    /\ timedOut' = [timedOut EXCEPT ![e] = @ \ {r}]

(* The thread goes on, with no row loaded.                                 *)
GoOnTo(e, r, label) ==
    /\ Goto(e, r, label)
    /\ UNCHANGED <<session, timedOut>>

(* update_request commits the status with the row it has loaded, and the   *)
(* thread goes on.                                                         *)
Report(e, r, st, why, label) ==
    /\ session[e][r] # NoRow
    /\ CommitStatus(r, session[e][r], st, why)
    /\ session' = [session EXCEPT ![e][r] = NoRow]
    /\ Goto(e, r, label)
    /\ UNCHANGED timedOut

(* A cluster that fails or closes takes its tasks along, a finished one    *)
(* included: its result is kept there until result() fetches it.  A thread *)
(* that reports what it came to has fetched it already.                    *)
JobsLost(e) ==
    job' = [job EXCEPT ![e] =
               [r \in Requests |->
                   IF @[r] = "none" \/ pc[e][r] \in {"done", "failed", "insert"}
                   THEN @[r] ELSE "lost"]]

\* Mutant: listen catches the exception and subscribes again.
MainThreadSurvives(e) ==
    /\ UNCHANGED main
    /\ ackPending' = [ackPending EXCEPT ![e] = {}]

(* The connection to the broker is gone: start_consuming raises, nothing   *)
(* catches it (listen, main.py:460-462), and the callbacks that wait for   *)
(* the main thread are never run.                                          *)
MainThreadDies(e) ==
    /\ main' = [main EXCEPT ![e] = "draining"]
    /\ ackPending' = [ackPending EXCEPT ![e] = {}]

(* All threads and the cluster's processes are gone with the process.      *)
ProcessGone(e) ==
    /\ main' = [main EXCEPT ![e] = "down"]
    /\ pc' = [pc EXCEPT ![e] = [r \in Requests |-> "idle"]]
    /\ session' = [session EXCEPT ![e] = [r \in Requests |-> NoRow]]
    /\ timedOut' = [timedOut EXCEPT ![e] = {}]
    /\ job' = [job EXCEPT ![e] = [r \in Requests |-> "none"]]
    /\ ackPending' = [ackPending EXCEPT ![e] = {}]
    /\ cluster' = [cluster EXCEPT ![e] = "none"]
    /\ UNCHANGED files

------------------------------------------------------------------------------
(* The main thread.                                                        *)

(* __main__: connect, create the cluster, subscribe, listen.               *)
StartExecutor(e) ==
    /\ main[e] = "down"
    /\ main' = [main EXCEPT ![e] = "up"]
    /\ cluster' = [cluster EXCEPT ![e] = "running"]
    /\ QueueDeclare
    /\ UNCHANGED <<pc, session, timedOut, job, ackPending, files, dbVars, faults>>

\* Mutant: the message is acknowledged as it is delivered (auto_ack).
OnMessageAutoAck(e, r) ==
    /\ main[e] = "up"
    /\ r \in queue
    /\ \A q \in queue : r <= q
    /\ queue' = queue \ {r}
    /\ Goto(e, r, "start")
    /\ UNCHANGED <<main, session, timedOut, job, ackPending, cluster, files, dbVars,
                   declared, unacked, accepted, faults>>

(* on_message: a thread of its own for every delivery.                     *)
OnMessage(e, r) ==
    /\ main[e] = "up"
    /\ BasicDeliver(e, r)
    /\ Goto(e, r, "start")
    /\ UNCHANGED <<main, session, timedOut, job, ackPending, cluster, files, dbVars, faults>>

(* ack_message, run by the main thread as the callback it was handed.      *)
AckMessage(e, r) ==
    /\ main[e] = "up"
    /\ r \in ackPending[e]
    /\ BasicAck(e, r)
    /\ ackPending' = [ackPending EXCEPT ![e] = @ \ {r}]
    /\ UNCHANGED <<main, pc, session, timedOut, job, cluster, files, dbVars, faults>>

(* The broker's consumer_timeout: a delivery nobody will ever acknowledge, *)
(* because its thread died, makes the broker close the channel.            *)
ConsumerTimeout(e) ==
    /\ main[e] = "up"
    /\ \E r \in unacked[e] : pc[e][r] = "idle" /\ r \notin ackPending[e]
    /\ MainThreadDies(e)
    /\ Requeue(e)
    /\ UNCHANGED <<pc, session, timedOut, job, cluster, files, dbVars, faults>>

(* The process ends once its last handler thread has ended.                *)
ProcessExit(e) ==
    /\ main[e] = "draining"
    /\ \A r \in Requests : pc[e][r] = "idle"
    /\ ProcessGone(e)
    /\ UNCHANGED <<brokerVars, dbVars, faults>>

------------------------------------------------------------------------------
(* The handler threads.                                                    *)

(* handle_message's parsing of the body: a message that does not parse     *)
(* raises before the database is touched.                                  *)
Begin(e, r) ==
    /\ pc[e][r] = "start"
    /\ \/ r \in Poison /\ ThreadEnds(e, r)
       \/ r \notin Poison /\ GoOnTo(e, r, "running")
    /\ UNCHANGED <<main, job, ackPending, cluster, files, dbVars, brokerVars,
                   faults>>

(* update_request loads the row of the request.                            *)
SelectRequest(e, r) ==
    /\ pc[e][r] \in Updating
    /\ session[e][r] = NoRow
    /\ session' = [session EXCEPT ![e][r] = RowOf(r)]
    /\ UNCHANGED <<main, pc, timedOut, job, ackPending, cluster, files, dbVars,
                   brokerVars, faults>>

ReportRunning(e, r) ==
    /\ pc[e][r] = "running"
    /\ Report(e, r, "RUNNING", "none", "submit")
    /\ UNCHANGED <<main, job, ackPending, cluster, files, brokerVars, faults>>

(* self._dask_client.submit.  While another thread has the cluster closed, *)
(* or it has failed, the client either refuses (the thread ends) or holds  *)
(* a task that will never finish.                                          *)
Submit(e, r) ==
    /\ pc[e][r] = "submit"
    /\ \/ /\ cluster[e] = "running"
          /\ job' = [job EXCEPT ![e][r] = "queued"]
          /\ GoOnTo(e, r, "poll")
       \/ /\ cluster[e] # "running"
          /\ job' = [job EXCEPT ![e][r] = "lost"]
          /\ GoOnTo(e, r, "poll")
       \/ /\ cluster[e] # "running"
          /\ ThreadEnds(e, r)
          /\ UNCHANGED job
    /\ UNCHANGED <<main, ackPending, cluster, files, dbVars, brokerVars,
                   faults>>

(* retry_until_timeout finds the future done: with a result, or with an    *)
(* exception, or cancelled with its cluster.                               *)
GetResult(e, r) ==
    /\ pc[e][r] = "poll"
    /\ \/ /\ job[e][r] \in {"file", "huge", "empty"}
          /\ GoOnTo(e, r, "done")
       \/ /\ job[e][r] \in {"error", "longerror", "lost"}
          /\ GoOnTo(e, r, "failed")
    /\ UNCHANGED <<main, job, ackPending, cluster, files, dbVars, brokerVars,
                   faults>>

(* The retries run out, whatever the future has come to since the last     *)
(* look at it.  cancel() stops a task that has not started, no other.      *)
GiveUp(e, r) ==
    /\ pc[e][r] = "poll"
    /\ Goto(e, r, "timeout")
    /\ timedOut' = [timedOut EXCEPT ![e] = @ \cup {r}]
    /\ job' = [job EXCEPT ![e][r] = IF @ = "queued" THEN "none" ELSE @]
    /\ UNCHANGED <<main, session, ackPending, cluster, files, dbVars,
                   brokerVars, faults>>

\* Mutant: update_request does not insert the Download row.
ReportDoneNoDownload(e, r) ==
    /\ pc[e][r] = "done"
    /\ Report(e, r, "DONE", "none", "ack")
    /\ UNCHANGED <<main, job, ackPending, cluster, files, brokerVars, faults>>

\* Mutant: update_request inserts the Download row before it sets the status.
ReportDoneRowFirst(e, r) ==
    /\ pc[e][r] = "done"
    /\ session[e][r] # NoRow
    /\ CommitDownload(r, "file")
    /\ session' = [session EXCEPT ![e][r] = NoRow]
    /\ Goto(e, r, "insert")
    /\ UNCHANGED <<main, timedOut, job, ackPending, cluster, files,
                   brokerVars, faults>>

(* The first commit of the update_request with the result.                 *)
ReportDone(e, r) ==
    /\ pc[e][r] = "done"
    /\ Report(e, r, "DONE", "none", "insert")
    /\ UNCHANGED <<main, job, ackPending, cluster, files, brokerVars, faults>>

(* The commit raises when the text of the error does not fit String(1000). *)
ReportFailure(e, r) ==
    /\ pc[e][r] = "failed"
    /\ \/ /\ job[e][r] # "longerror"
          /\ Report(e, r, "FAILED", "error", "ack")
       \/ /\ job[e][r] = "longerror"
          /\ ThreadEnds(e, r)
          /\ UNCHANGED dbVars
    /\ UNCHANGED <<main, job, ackPending, cluster, files, brokerVars, faults>>

ReportTimeout(e, r) ==
    /\ pc[e][r] = "timeout"
    /\ Report(e, r, "TIMEOUT", "timeout", "ack")
    /\ UNCHANGED <<main, job, ackPending, cluster, files, brokerVars, faults>>

\* Mutant: the failure comes after the row is committed.
InsertDownloadThenRaises(e, r) ==
    /\ pc[e][r] = "insert"
    /\ CommitDownload(r, IF job[e][r] = "empty" THEN "none" ELSE "file")
    /\ \/ job[e][r] = "huge" /\ ThreadEnds(e, r)
       \/ job[e][r] # "huge" /\ GoOnTo(e, r, "ack")
    /\ UNCHANGED <<main, job, ackPending, cluster, files, brokerVars, faults>>

(* The second commit of update_request; it raises when size_bytes or       *)
(* location_path does not fit its column.                                  *)
InsertDownload(e, r) ==
    /\ pc[e][r] = "insert"
    /\ \/ /\ job[e][r] = "huge"
          /\ ThreadEnds(e, r)
          /\ UNCHANGED dbVars
       \/ /\ job[e][r] # "huge"
          /\ CommitDownload(r, IF job[e][r] = "empty" THEN "none" ELSE "file")
          /\ GoOnTo(e, r, "ack")
    /\ UNCHANGED <<main, job, ackPending, cluster, files, brokerVars, faults>>

\* Mutant: the acknowledgement is forgotten.
ScheduleNoAck(e, r) ==
    /\ pc[e][r] = "ack"
    /\ \/ main[e] = "up" /\ GoOnTo(e, r, "restart")
       \/ main[e] = "draining" /\ ThreadEnds(e, r)
    /\ UNCHANGED <<main, job, ackPending, cluster, files, dbVars, brokerVars,
                   faults>>

(* add_callback_threadsafe: raises when the connection is closed.          *)
ScheduleAck(e, r) ==
    /\ pc[e][r] = "ack"
    /\ \/ /\ main[e] = "up"
          /\ ackPending' = [ackPending EXCEPT ![e] = @ \cup {r}]
          /\ GoOnTo(e, r, "restart")
       \/ /\ main[e] = "draining"
          /\ ThreadEnds(e, r)
          /\ UNCHANGED ackPending
    /\ UNCHANGED <<main, job, cluster, files, dbVars, brokerVars, faults>>

\* Mutant: the cluster is closed after every request, timed out or not.
CloseClusterAlways(e, r) ==
    /\ pc[e][r] = "restart"
    /\ cluster' = [cluster EXCEPT ![e] = "closed"]
    /\ JobsLost(e)
    /\ GoOnTo(e, r, "create")
    /\ UNCHANGED <<main, ackPending, files, dbVars, brokerVars, faults>>

\* Mutant: the closed cluster is not created anew.
CloseClusterOnly(e, r) ==
    /\ pc[e][r] = "restart"
    /\ r \in timedOut[e]
    /\ cluster' = [cluster EXCEPT ![e] = "closed"]
    /\ JobsLost(e)
    /\ ThreadEnds(e, r)
    /\ UNCHANGED <<main, ackPending, files, dbVars, brokerVars, faults>>

(* maybe_restart_cluster, first condition: after a TIMEOUT the cluster is  *)
(* closed, whatever tasks it has by now.                                   *)
CloseCluster(e, r) ==
    /\ pc[e][r] = "restart"
    /\ r \in timedOut[e]
    /\ cluster' = [cluster EXCEPT ![e] = "closed"]
    /\ JobsLost(e)
    /\ GoOnTo(e, r, "create")
    /\ UNCHANGED <<main, ackPending, files, dbVars, brokerVars, faults>>

(* Its other conditions, on the status the cluster has: a failed one is    *)
(* restarted by the nanny or, if that raises, closed; a closed one is      *)
(* created anew; a running one is left alone and the thread ends.          *)
CheckCluster(e, r) ==
    /\ pc[e][r] = "restart"
    /\ r \notin timedOut[e]
    /\ \/ /\ cluster[e] = "failed"
          /\ cluster' = [cluster EXCEPT ![e] = "running"]
          /\ ThreadEnds(e, r)
          /\ UNCHANGED job
       \/ /\ cluster[e] = "failed"
          /\ cluster' = [cluster EXCEPT ![e] = "closed"]
          /\ JobsLost(e)
          /\ GoOnTo(e, r, "create")
       \/ /\ cluster[e] = "closed"
          /\ GoOnTo(e, r, "create")
          /\ UNCHANGED <<job, cluster>>
       \/ /\ cluster[e] = "running"
          /\ ThreadEnds(e, r)
          /\ UNCHANGED <<job, cluster>>
    /\ UNCHANGED <<main, ackPending, files, dbVars, brokerVars, faults>>

(* create_dask_cluster.  After a TIMEOUT the status of the new cluster is  *)
(* looked at too.  Two threads may have found the cluster closed: the port *)
(* of the scheduler is fixed, and the second creation may raise.           *)
CreateCluster(e, r) ==
    /\ pc[e][r] = "create"
    /\ \/ /\ cluster' = [cluster EXCEPT ![e] = "running"]
          /\ Goto(e, r, IF r \in timedOut[e] THEN "restart" ELSE "idle")
          /\ timedOut' = [timedOut EXCEPT ![e] = @ \ {r}]
          /\ UNCHANGED session
       \/ /\ cluster[e] # "closed"
          /\ ThreadEnds(e, r)
          /\ UNCHANGED cluster
    /\ UNCHANGED <<main, job, ackPending, files, dbVars, brokerVars, faults>>

------------------------------------------------------------------------------
(* The Dask workers: process() and the persist functions it calls.         *)

(* persist_datacube and persist_dataset open the result for writing under  *)
(* a path made of the request, so a repeated request truncates its file.   *)
OpenResult(e, r) ==
    /\ cluster[e] = "running"
    /\ job[e][r] = "queued"
    /\ job' = [job EXCEPT ![e][r] = "writing"]
    /\ files' = files \ {r}
    /\ UNCHANGED <<main, pc, session, timedOut, ackPending, cluster, dbVars,
                   brokerVars, faults>>

\* Mutant: process() returns the path without waiting for the data.
ProcessReturnsEarly(e, r, outcome) ==
    /\ cluster[e] = "running"
    /\ job[e][r] = "writing"
    /\ job' = [job EXCEPT ![e][r] = outcome]
    /\ UNCHANGED <<main, pc, session, timedOut, ackPending, cluster, files, dbVars,
                   brokerVars, faults>>

(* process() returns or raises.  A path is returned only once the file is  *)
(* complete, None only when nothing was written.                           *)
ProcessReturns(e, r, outcome) ==
    /\ cluster[e] = "running"
    /\ \/ job[e][r] = "queued" /\ outcome \notin {"file", "huge"}
       \/ job[e][r] = "writing" /\ outcome # "empty"
    /\ job' = [job EXCEPT ![e][r] = outcome]
    /\ files' = IF outcome \in {"file", "huge"} THEN files \cup {r} ELSE files
    /\ UNCHANGED <<main, pc, session, timedOut, ackPending, cluster, dbVars,
                   brokerVars, faults>>

------------------------------------------------------------------------------
(* Faults.                                                                 *)

(* A database, file-system or Dask call of handle_message raises.          *)
ThreadDies(e, r) ==
    /\ Fault("exception")
    /\ pc[e][r] # "idle"
    /\ ThreadEnds(e, r)
    /\ UNCHANGED <<main, job, ackPending, cluster, files, dbVars, brokerVars>>

(* The connection breaks: missed heartbeats, network.                      *)
ConnectionLost(e) ==
    /\ Fault("disconnect")
    /\ main[e] = "up"
    /\ MainThreadDies(e)
    /\ Requeue(e)
    /\ UNCHANGED <<pc, session, timedOut, job, cluster, files, dbVars>>

(* The pod is killed (evicted, out of memory).                             *)
Crash(e) ==
    /\ Fault("crash")
    /\ main[e] # "down"
    /\ ProcessGone(e)
    /\ Requeue(e)
    /\ UNCHANGED dbVars

(* The cluster goes to Status.failed.                                      *)
ClusterFails(e) ==
    /\ Fault("cluster")
    /\ cluster[e] = "running"
    /\ cluster' = [cluster EXCEPT ![e] = "failed"]
    /\ JobsLost(e)
    /\ UNCHANGED <<main, pc, session, timedOut, ackPending, files, dbVars, brokerVars>>

(* The broker restarts: its queue is lost, every consumer is disconnected. *)
BrokerRestart ==
    /\ Fault("broker")
    /\ LoseQueue
    /\ main' = [e \in Executors |->
                   IF main[e] = "up" THEN "draining" ELSE main[e]]
    /\ ackPending' = [e \in Executors |-> {}]
    /\ UNCHANGED <<pc, session, timedOut, job, cluster, files, dbVars>>

------------------------------------------------------------------------------

MainStep(e) ==
    \/ StartExecutor(e)
    \/ ConsumerTimeout(e)
    \/ ProcessExit(e)
    \/ \E r \in Requests : OnMessage(e, r) \/ AckMessage(e, r)

ThreadStep(e, r) ==
    \/ Begin(e, r)
    \/ SelectRequest(e, r)
    \/ ReportRunning(e, r)
    \/ Submit(e, r)
    \/ GetResult(e, r)
    \/ GiveUp(e, r)
    \/ ReportDone(e, r)
    \/ ReportFailure(e, r)
    \/ ReportTimeout(e, r)
    \/ InsertDownload(e, r)
    \/ ScheduleAck(e, r)
    \/ CloseCluster(e, r)
    \/ CheckCluster(e, r)
    \/ CreateCluster(e, r)

WorkerStep(e, r) ==
    \/ OpenResult(e, r)
    \/ \E outcome \in Outcomes : ProcessReturns(e, r, outcome)

ExecutorFault ==
    \/ BrokerRestart
    \/ \E e \in Executors :
          \/ ConnectionLost(e)
          \/ Crash(e)
          \/ ClusterFails(e)
          \/ \E r \in Requests : ThreadDies(e, r)

===============================================================================
