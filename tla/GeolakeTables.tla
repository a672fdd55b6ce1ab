----------------------------- MODULE GeolakeTables -----------------------------
(***************************************************************************)
(* Theorems about the tables and the clusters of Geolake, for any number   *)
(* of requests, executors and faults: a closed cluster is never forgotten, *)
(* and what clients are given while their requests are processed, a file   *)
(* or a URI, is that of a finished request unless there has been a fault.  *)
(***************************************************************************)
EXTENDS GeolakeProofs

------------------------------------------------------------------------------
(* The cluster.                                                            *)

HasCreator(e) ==
    \/ \E r \in Requests : pc[e][r] = "create"
    \/ faults > 0 /\ "exception" \in FaultKinds

(* What the steps of an executor e do to its own cluster, and that they    *)
(* leave the others alone.                                                 *)
LEMMA ThreadKeepsCreator ==
    ASSUME TypeOK, NEW e \in Executors, NEW r \in Requests, ThreadStep(e, r),
           ClosedHasCreator
    PROVE  ClosedHasCreator'
<1>1. /\ pc \in [Executors -> [Requests -> {"idle"} \cup PreAck \cup PostAck]]
      /\ cluster \in [Executors -> {"none", "running", "failed", "closed"}]
  BY DEF TypeOK, ExecutorTypeOK
<1>2. faults' = faults
  BY DEF ThreadStep, Begin, SelectRequest, ReportRunning, Submit, GetResult,
         GiveUp, ReportDone, ReportFailure, ReportTimeout, Report, GoOnTo,
         InsertDownload, ScheduleAck, CloseCluster, CheckCluster,
         CreateCluster
<1>3. \E label :
         /\ pc' = [pc EXCEPT ![e][r] = label]
         /\ \/ cluster' = cluster
            \/ \E s : cluster' = [cluster EXCEPT ![e] = s]
         /\ \/ label = "create"
            \/ cluster'[e] # "closed"
            \/ pc[e][r] # "create" /\ cluster' = cluster
  <2>1. CASE CloseCluster(e, r)
    BY <2>1 DEF CloseCluster, GoOnTo, Goto
  <2>2. CASE CheckCluster(e, r)
    <3>1. pc[e][r] # "create"
      BY <2>2 DEF CheckCluster
    <3>2. QED
      BY <1>1, <2>2, <3>1 DEF CheckCluster, GoOnTo, Goto, ThreadEnds
  <2>3. CASE CreateCluster(e, r)
    BY <1>1, <2>3 DEF CreateCluster, Goto, ThreadEnds
  <2>4. CASE ~(CloseCluster(e, r) \/ CheckCluster(e, r) \/ CreateCluster(e, r))
    <3>1. cluster' = cluster /\ pc[e][r] # "create"
      BY <2>4 DEF ThreadStep, Begin, SelectRequest, Updating, ReportRunning,
         Submit, GetResult, GiveUp, ReportDone, ReportFailure, ReportTimeout,
         InsertDownload, ScheduleAck
    <3>2. QED
      BY <3>1, ThreadStepMoves
  <2>5. QED
    BY <2>1, <2>2, <2>3, <2>4
<1>4. ASSUME NEW f \in Executors, cluster'[f] = "closed" PROVE HasCreator(f)'
  <2>1. CASE f # e
    <3>1. cluster[f] = "closed" /\ pc'[f] = pc[f]
      BY <1>1, <1>3, <1>4, <2>1
    <3>2. QED
      BY <1>2, <3>1 DEF ClosedHasCreator, HasCreator
  <2>2. CASE f = e /\ pc'[e][r] = "create"
    BY <2>2 DEF HasCreator
  <2>3. CASE f = e /\ pc'[e][r] # "create"
    <3>1. pc[e][r] # "create" /\ cluster[e] = "closed"
      BY <1>1, <1>3, <1>4, <2>3
    <3>2. \A q \in Requests : pc[e][q] = "create" => pc'[e][q] = "create"
      BY <1>1, <1>3, <3>1
    <3>3. QED
      BY <1>2, <2>3, <3>1, <3>2 DEF ClosedHasCreator, HasCreator
  <2>4. QED
    BY <2>1, <2>2, <2>3
<1> QED
  BY <1>4 DEF ClosedHasCreator, HasCreator

(* A step of the main thread, a worker or the API, or a fault but the      *)
(* death of a thread, takes no thread away without the whole process.      *)
LEMMA ProcessKeepsCreator ==
    ASSUME TypeOK, ClosedHasCreator, faults' \in {faults, faults + 1},
           \A e \in Executors :
               cluster'[e] = "closed" =>
                   /\ cluster[e] = "closed"
                   /\ \A r \in Requests : pc[e][r] = "create" => pc'[e][r] = "create"
    PROVE  ClosedHasCreator'
<1>1. faults \in Nat
  BY MaxFaultsAssumption DEF TypeOK, EnvironmentTypeOK
<1> QED
  BY <1>1 DEF ClosedHasCreator

LEMMA MainKeepsCreator ==
    ASSUME TypeOK, NoSecondThread, ClosedHasCreator, NEW e \in Executors, MainStep(e)
    PROVE  ClosedHasCreator'
<1>1. /\ pc \in [Executors -> [Requests -> {"idle"} \cup PreAck \cup PostAck]]
      /\ cluster \in [Executors -> {"none", "running", "failed", "closed"}]
  BY DEF TypeOK, ExecutorTypeOK
<1>2. CASE StartExecutor(e) \/ ConsumerTimeout(e)
           \/ \E r \in Requests : AckMessage(e, r)
  BY <1>1, <1>2, ProcessKeepsCreator DEF StartExecutor, ConsumerTimeout, AckMessage
<1>3. CASE ProcessExit(e)
  BY <1>1, <1>3, ProcessKeepsCreator DEF ProcessExit, ProcessGone
<1>4. ASSUME NEW r \in Requests, OnMessage(e, r) PROVE ClosedHasCreator'
  <2>1. pc[e][r] = "idle" /\ UNCHANGED <<cluster, faults>>
    BY <1>4 DEF OnMessage, BasicDeliver, NoSecondThread
  <2>2. \A f \in Executors, q \in Requests :
            pc[f][q] = "create" => pc'[f][q] = "create"
    BY <1>1, <1>4, <2>1 DEF OnMessage, Goto
  <2>3. QED
    BY <2>1, <2>2, ProcessKeepsCreator
<1> QED
  BY <1>2, <1>3, <1>4 DEF MainStep

LEMMA FaultKeepsCreator ==
    ASSUME TypeOK, ClosedHasCreator, ExecutorFault
    PROVE  ClosedHasCreator'
<1>1. /\ pc \in [Executors -> [Requests -> {"idle"} \cup PreAck \cup PostAck]]
      /\ cluster \in [Executors -> {"none", "running", "failed", "closed"}]
      /\ faults \in Nat
  BY MaxFaultsAssumption DEF TypeOK, ExecutorTypeOK, EnvironmentTypeOK
<1>2. faults' = faults + 1
  BY DEF ExecutorFault, BrokerRestart, ConnectionLost, Crash, ClusterFails, ThreadDies, Fault
<1>3. CASE BrokerRestart \/ \E e \in Executors : ConnectionLost(e)
  BY <1>2, <1>3, ProcessKeepsCreator DEF BrokerRestart, ConnectionLost
<1>4. ASSUME NEW e \in Executors, Crash(e) PROVE ClosedHasCreator'
  BY <1>1, <1>2, <1>4, ProcessKeepsCreator DEF Crash, ProcessGone
<1>5. ASSUME NEW e \in Executors, ClusterFails(e) PROVE ClosedHasCreator'
  BY <1>1, <1>2, <1>5, ProcessKeepsCreator DEF ClusterFails
<1>6. ASSUME NEW e \in Executors, NEW r \in Requests, ThreadDies(e, r)
      PROVE  ClosedHasCreator'
  <2>1. faults' > 0 /\ "exception" \in FaultKinds
    BY <1>1, <1>2, <1>6 DEF ThreadDies, Fault
  <2>2. QED
    BY <2>1 DEF ClosedHasCreator
<1> QED
  BY <1>3, <1>4, <1>5, <1>6 DEF ExecutorFault

(* Between the close and the creation of a cluster there is always a       *)
(* thread that will create it, whatever the other threads, timeouts and    *)
(* faults do; only an exception in that thread leaves it closed.           *)
THEOREM ClosedAlwaysHasCreator == Spec => []ClosedHasCreator
<1>1. Init => ClosedHasCreator
  BY DEF Init, ExecutorInit, ClosedHasCreator
<1>2. ASSUME TypeInv, NoSecondThread, ClosedHasCreator, [Next]_vars
      PROVE  ClosedHasCreator'
  <2>1. TypeOK
    BY <1>2 DEF TypeInv
  <2>2. CASE ApiNext
    <3>1. UNCHANGED <<pc, cluster>>
      BY <2>2 DEF ApiNext, executorVars
    <3>2. faults' \in {faults, faults + 1}
      BY <2>2 DEF ApiNext, EndpointStep, Publish, SyncPoll, SyncFetch, GetUriStatus,
         DownloadFetch, ApiFails, Fault, EndpointCall, AcceptQuery, AcceptWorkflow,
         Register, GetStatus, GetSize, GetUri, Download
    <3>3. QED
      BY <1>2, <2>1, <3>1, <3>2, ProcessKeepsCreator
  <2>3. ASSUME NEW e \in Executors, NEW r \in Requests, WorkerStep(e, r)
        PROVE  ClosedHasCreator'
    BY <1>2, <2>1, <2>3, ProcessKeepsCreator DEF WorkerStep, OpenResult, ProcessReturns
  <2>4. ASSUME NEW e \in Executors, NEW r \in Requests, ThreadStep(e, r)
        PROVE  ClosedHasCreator'
    BY <1>2, <2>1, <2>4, ThreadKeepsCreator
  <2>5. ASSUME NEW e \in Executors, MainStep(e) PROVE ClosedHasCreator'
    BY <1>2, <2>1, <2>5, MainKeepsCreator
  <2>6. CASE ExecutorFault
    BY <1>2, <2>1, <2>6, FaultKeepsCreator
  <2>7. CASE UNCHANGED vars
    BY <1>2, <2>1, <2>7, ProcessKeepsCreator DEF vars, executorVars
  <2>8. QED
    BY <1>2, <2>2, <2>3, <2>4, <2>5, <2>6, <2>7 DEF Next, ExecutorNext
<1> QED
  BY <1>1, <1>2, TypeInvAlways, NoSecondThreadAlways, PTL DEF Spec

------------------------------------------------------------------------------
(* What clients read as long as nothing has failed: why a request that has *)
(* a result is not processed again.                                        *)

HasResult(r) == downloads[r] # <<>>

(* A request with a Download row is DONE, and nobody will work on it.      *)
ReportedIsOver ==
    \A r \in Requests :
        HasResult(r) =>
            /\ status[r] = "DONE"
            /\ r \notin queue
            /\ \A e \in Executors :
                  /\ pc[e][r] \notin PreAck \ {"ack"}
                  /\ r \in unacked[e] => r \in ackPending[e] \/ pc[e][r] = "ack"

(* No thread works in a process that no longer consumes.                   *)
DrainingRests ==
    \A e \in Executors : main[e] # "up" => \A r \in Requests : ~Working(e, r)

(* A thread about to insert the row has set the status and has a path.     *)
InsertIsDone ==
    \A e \in Executors, r \in Requests :
        /\ pc[e][r] = "insert" => status[r] = "DONE"
        /\ pc[e][r] \in {"done", "insert"} =>
              job[e][r] \in {"file", "huge", "empty"}

(* Who has a task in the queue of the cluster waits for it, a finished     *)
(* task that is waited for has left its file, and so has a row.            *)
QueuedIsAwaited ==
    \A e \in Executors, r \in Requests : job[e][r] = "queued" => pc[e][r] = "poll"

AwaitedHasFile ==
    \A e \in Executors, r \in Requests :
        pc[e][r] \in {"poll", "done", "insert"} /\ job[e][r] \in {"file", "huge"} =>
            r \in files

RowHasFile ==
    \A r \in Requests :
        \A i \in 1..Len(downloads[r]) : downloads[r][i] = "file" => r \in files

NothingPartial == reply.says # "partialFile"

CalmInv ==
    /\ ReportedIsOver
    /\ DrainingRests
    /\ InsertIsDone
    /\ QueuedIsAwaited
    /\ AwaitedHasFile
    /\ RowHasFile
    /\ NothingPartial

(* These hold whatever fails.                                              *)
UnpublishedHasNoResult == \A r \in Requests : Unpublished(r) => ~HasResult(r)

UriHasRow ==
    reply.op = "uri" /\ reply.says = "uri" =>
        reply.req \in Requests /\ HasResult(reply.req)

ResultInv ==
    (faults = 0 => CalmInv /\ LoadedIsCurrent) /\ UnpublishedHasNoResult /\ UriHasRow

(* A thread that works is alone with its request, which has no result yet  *)
(* unless it is about to acknowledge.                                      *)
LEMMA WorkerIsAlone ==
    ASSUME TypeOK, DeliveryInv, CalmInv,
           NEW e \in Executors, NEW r \in Requests, Working(e, r)
    PROVE  /\ main[e] = "up"
           /\ r \in unacked[e] /\ r \notin ackPending[e] /\ r \notin queue
           /\ \A f \in Executors : f # e => r \notin unacked[f] /\ ~Working(f, r)
           /\ pc[e][r] # "ack" => ~HasResult(r)
<1>1. main[e] = "up"
  BY DEF CalmInv, DrainingRests
<1>2. r \in unacked[e] \ ackPending[e]
  BY <1>1 DEF DeliveryInv, WorkingHolds
<1>3. r \notin queue /\ \A f \in Executors : f # e => r \notin unacked[f]
  BY <1>2 DEF DeliveryInv, MessageInOnePlace
<1>4. ASSUME NEW f \in Executors, f # e, Working(f, r) PROVE FALSE
  <2>1. main[f] = "up"
    BY <1>4 DEF CalmInv, DrainingRests
  <2>2. r \in unacked[f]
    BY <1>4, <2>1 DEF DeliveryInv, WorkingHolds
  <2>3. QED
    BY <1>3, <1>4, <2>2
<1>5. pc[e][r] # "ack" => ~HasResult(r)
  BY DEF CalmInv, ReportedIsOver, Working
<1> QED
  BY <1>1, <1>2, <1>3, <1>4, <1>5

(* What a step of the thread of r at e leaves alone.                       *)
LEMMA ThreadStepLeaves ==
    ASSUME TypeOK, NEW e \in Executors, NEW r \in Requests, ThreadStep(e, r)
    PROVE  /\ UNCHANGED <<queue, unacked, main, files, faults>>
           /\ pc[e][r] # "idle"
           /\ pc'[e][r] \in PreAck => pc[e][r] \in PreAck
           /\ \A f \in Executors, q \in Requests :
                 f # e \/ q # r =>
                     /\ pc'[f][q] = pc[f][q]
                     /\ job'[f][q] = job[f][q]
                        \/ (job'[f][q] = "lost" /\ pc[f][q] \notin {"done", "insert"})
           /\ \A q \in Requests :
                 q # r => status'[q] = status[q] /\ downloads'[q] = downloads[q]
           /\ \A f \in Executors :
                 \/ ackPending'[f] = ackPending[f]
                 \/ f = e /\ ackPending'[f] = ackPending[f] \cup {r}
<1>0. /\ pc \in [Executors -> [Requests -> {"idle"} \cup PreAck \cup PostAck]]
      /\ job \in [Executors -> [Requests -> JobStates]]
      /\ ackPending \in [Executors -> SUBSET Requests]
      /\ status \in [Requests -> RequestStatus \cup {"NOROW"}]
      /\ downloads \in [Requests -> Seq(Paths)]
  BY DEF TypeOK, ExecutorTypeOK, DBTypeOK
<1>1. UNCHANGED <<queue, unacked, main, files, faults>>
  BY DEF ThreadStep, Begin, SelectRequest, ReportRunning, Submit, GetResult,
         GiveUp, ReportDone, ReportFailure, ReportTimeout, Report, GoOnTo,
         InsertDownload, ScheduleAck, CloseCluster, CheckCluster,
         CreateCluster, brokerVars
<1>2. \A q \in Requests \ {r} :
         status'[q] = status[q] /\ downloads'[q] = downloads[q]
  BY ThreadStepWriter
<1>3. \E label :
         /\ pc' = [pc EXCEPT ![e][r] = label]
         /\ pc[e][r] # "idle"
         /\ label \in PreAck => pc[e][r] \in PreAck
  BY ThreadStepMoves
<1>4. \/ UNCHANGED job
      \/ \E state : job' = [job EXCEPT ![e][r] = state]
      \/ JobsLost(e)
  BY DEF ThreadStep, Begin, SelectRequest, ReportRunning, Submit, GetResult,
         GiveUp, ReportDone, ReportFailure, ReportTimeout, Report, GoOnTo,
         InsertDownload, ScheduleAck, CloseCluster, CheckCluster,
         CreateCluster
<1>5. \A f \in Executors, q \in Requests :
         f # e \/ q # r => job'[f][q] = job[f][q]
                           \/ (job'[f][q] = "lost" /\ pc[f][q] \notin {"done", "insert"})
  BY <1>0, <1>4 DEF JobsLost
<1>6. ackPending' = ackPending \/ ackPending' = [ackPending EXCEPT ![e] = @ \cup {r}]
  BY DEF ThreadStep, Begin, SelectRequest, ReportRunning, Submit, GetResult,
         GiveUp, ReportDone, ReportFailure, ReportTimeout, Report, GoOnTo,
         InsertDownload, ScheduleAck, CloseCluster, CheckCluster,
         CreateCluster
<1>7. \A f \in Executors :
         \/ ackPending'[f] = ackPending[f]
         \/ f = e /\ ackPending'[f] = ackPending[f] \cup {r}
  BY <1>0, <1>6
<1>8. /\ pc[e][r] # "idle"
      /\ pc'[e][r] \in PreAck => pc[e][r] \in PreAck
      /\ \A f \in Executors, q \in Requests :
            f # e \/ q # r => pc'[f][q] = pc[f][q]
  BY <1>0, <1>3
<1> QED
  BY <1>1, <1>2, <1>5, <1>7, <1>8

(* What it does to its own request.                                        *)
LEMMA ThreadStepOwn ==
    ASSUME TypeOK, NEW e \in Executors, NEW r \in Requests, LoadedKept(e, r),
           ThreadStep(e, r)
    PROVE  /\ status'[r] # status[r] => pc[e][r] \in Updating
           /\ downloads'[r] # downloads[r] =>
                 /\ pc[e][r] = "insert" /\ pc'[e][r] = "ack" /\ status'[r] = status[r]
                 /\ job[e][r] # "huge"
                 /\ downloads'[r] =
                       Append(downloads[r], IF job[e][r] = "empty" THEN "none" ELSE "file")
           /\ pc'[e][r] = "insert" =>
                 pc[e][r] = "done" /\ status'[r] = "DONE" /\ job'[e][r] = job[e][r]
           /\ pc'[e][r] = "done" =>
                 /\ job'[e][r] = job[e][r]
                 /\ \/ pc[e][r] = "done"
                    \/ pc[e][r] = "poll" /\ job[e][r] \in {"file", "huge", "empty"}
           /\ job'[e][r] = "queued" => pc'[e][r] = "poll" \/ job[e][r] = "queued"
           /\ job[e][r] = "queued" /\ pc[e][r] = "poll" => job'[e][r] # "queued"
           /\ pc'[e][r] = "poll" => job'[e][r] \in {"queued", "lost"}
           /\ pc[e][r] = "ack" => pc'[e][r] \notin PreAck
           /\ pc[e][r] = "ack" /\ main[e] = "up" => r \in ackPending'[e]
<1>0. /\ pc \in [Executors -> [Requests -> {"idle"} \cup PreAck \cup PostAck]]
      /\ job \in [Executors -> [Requests -> JobStates]]
      /\ ackPending \in [Executors -> SUBSET Requests]
      /\ status \in [Requests -> RequestStatus \cup {"NOROW"}]
      /\ downloads \in [Requests -> Seq(Paths)]
  BY DEF TypeOK, ExecutorTypeOK, DBTypeOK
<1>1. CASE Begin(e, r) \/ GetResult(e, r) \/ GiveUp(e, r)
  BY <1>0, <1>1 DEF Begin, GetResult, GiveUp, GoOnTo, Goto, ThreadEnds, dbVars
<1>2. CASE Submit(e, r)
  BY <1>0, <1>2 DEF Submit, GoOnTo, Goto, ThreadEnds, dbVars
<1>3. CASE SelectRequest(e, r)
  BY <1>3 DEF SelectRequest, Updating, dbVars
<1>4. CASE ReportRunning(e, r) \/ ReportDone(e, r) \/ ReportTimeout(e, r)
  <2>1. /\ UNCHANGED downloads
        /\ \/ pc'[e][r] = "submit"
           \/ pc'[e][r] = "insert" /\ pc[e][r] = "done" /\ status'[r] = "DONE"
           \/ pc'[e][r] = "ack"
    BY <1>0, <1>4, ReportWrites DEF ReportRunning, ReportDone, ReportTimeout
  <2>2. UNCHANGED job /\ pc[e][r] \in Updating
    BY <1>4 DEF ReportRunning, ReportDone, ReportTimeout, Updating
  <2>3. pc[e][r] # "poll" /\ pc[e][r] # "ack"
    BY <2>2 DEF Updating
  <2>4. QED
    BY <2>1, <2>2, <2>3
<1>5. CASE ReportFailure(e, r)
  <2>1. /\ UNCHANGED downloads
        /\ pc'[e][r] \in {"ack", "idle"}
    BY <1>0, <1>5, ReportWrites DEF ReportFailure, Goto, ThreadEnds, dbVars
  <2>2. UNCHANGED job /\ pc[e][r] \in Updating /\ pc[e][r] = "failed"
    BY <1>5 DEF ReportFailure, Updating
  <2>3. QED
    BY <2>1, <2>2
<1>6. CASE InsertDownload(e, r)
  BY <1>0, <1>6 DEF InsertDownload, CommitDownload, GoOnTo, Goto, ThreadEnds, dbVars
<1>7. CASE ScheduleAck(e, r)
  BY <1>0, <1>7 DEF ScheduleAck, GoOnTo, Goto, ThreadEnds, dbVars, PreAck
<1>8. CASE CloseCluster(e, r)
  BY <1>0, <1>8 DEF CloseCluster, JobsLost, GoOnTo, Goto, dbVars
<1>9. CASE CheckCluster(e, r)
  BY <1>0, <1>9 DEF CheckCluster, JobsLost, GoOnTo, Goto, ThreadEnds, dbVars
<1>10. CASE CreateCluster(e, r)
  BY <1>0, <1>10 DEF CreateCluster, Goto, ThreadEnds, dbVars
<1> QED
  BY <1>1, <1>2, <1>3, <1>4, <1>5, <1>6, <1>7, <1>8, <1>9, <1>10 DEF ThreadStep

LEMMA OneRow ==
    ASSUME NEW path \in Paths, NEW i \in 1..Len(Append(<<>>, path))
    PROVE  Append(<<>>, path)[i] = path
<1>1. <<>> \in Seq(Paths) /\ Len(<<>>) = 0
  OBVIOUS
<1> QED
  BY <1>1

LEMMA ThreadStepKeepsCalm ==
    ASSUME TypeOK, DeliveryInv, CalmInv, LoadedIsCurrent,
           NEW e \in Executors, NEW r \in Requests, ThreadStep(e, r), UNCHANGED apiVars
    PROVE  CalmInv'
<1>0. LoadedKept(e, r)
  BY DEF LoadedKept, LoadedIsCurrent
<1>1. /\ UNCHANGED <<queue, unacked, main, files>>
      /\ pc'[e][r] \in PreAck => pc[e][r] \in PreAck
      /\ \A f \in Executors, q \in Requests :
            f # e \/ q # r =>
                /\ pc'[f][q] = pc[f][q]
                /\ job'[f][q] = job[f][q]
                   \/ (job'[f][q] = "lost" /\ pc[f][q] \notin {"done", "insert"})
      /\ \A q \in Requests :
            q # r => status'[q] = status[q] /\ downloads'[q] = downloads[q]
      /\ \A f \in Executors :
            \/ ackPending'[f] = ackPending[f]
            \/ f = e /\ ackPending'[f] = ackPending[f] \cup {r}
  BY ThreadStepLeaves
<1>2. Working(e, r) =>
          /\ main[e] = "up"
          /\ r \in unacked[e] /\ r \notin queue
          /\ \A f \in Executors : f # e => r \notin unacked[f] /\ ~Working(f, r)
          /\ pc[e][r] # "ack" => ~HasResult(r)
  BY WorkerIsAlone
<1>3. ReportedIsOver'
  <2> SUFFICES ASSUME NEW q \in Requests, HasResult(q)'
               PROVE  /\ status'[q] = "DONE"
                      /\ q \notin queue'
                      /\ \A f \in Executors :
                            /\ pc'[f][q] \notin PreAck \ {"ack"}
                            /\ q \in unacked'[f] =>
                                  q \in ackPending'[f] \/ pc'[f][q] = "ack"
    BY DEF ReportedIsOver
  <2>1. CASE q # r
    <3>1. HasResult(q)
      BY <1>1, <2>1 DEF HasResult
    <3>2. QED
      BY <1>1, <2>1, <3>1 DEF CalmInv, ReportedIsOver
  <2>2. CASE q = r /\ HasResult(r)
    <3>1. /\ status[r] = "DONE" /\ r \notin queue
          /\ \A f \in Executors :
                /\ pc[f][r] \notin PreAck \ {"ack"}
                /\ r \in unacked[f] => r \in ackPending[f] \/ pc[f][r] = "ack"
      BY <2>2 DEF CalmInv, ReportedIsOver
    <3>2. pc[e][r] \notin Updating
      BY <3>1 DEF PreAck, Updating
    <3>3. status'[r] = "DONE"
      BY <1>0, <3>1, <3>2, ThreadStepOwn
    <3>4. pc'[e][r] \notin PreAck
      <4>1. pc[e][r] \in PreAck => pc[e][r] = "ack"
        BY <3>1
      <4>2. pc[e][r] = "ack" => pc'[e][r] \notin PreAck
        BY <1>0, ThreadStepOwn
      <4>3. QED
        BY <1>1, <4>1, <4>2
    <3>5. pc[e][r] = "ack" => r \in ackPending'[e]
      BY <1>0, <1>2, ThreadStepOwn DEF Working, PreAck
    <3>6. \A f \in Executors : r \in unacked'[f] => r \in ackPending'[f] \/ pc'[f][r] = "ack"
      BY <1>1, <3>1, <3>5
    <3>7. \A f \in Executors : pc'[f][r] \notin PreAck \ {"ack"}
      BY <1>1, <3>1, <3>4
    <3>8. QED
      BY <1>1, <2>2, <3>1, <3>3, <3>6, <3>7
  <2>3. CASE q = r /\ ~HasResult(r)
    <3>1. downloads'[r] # downloads[r]
      BY <2>3 DEF HasResult
    <3>2. pc[e][r] = "insert" /\ pc'[e][r] = "ack" /\ status'[r] = status[r]
      BY <1>0, <3>1, ThreadStepOwn
    <3>3. Working(e, r) /\ status[r] = "DONE"
      BY <3>2 DEF Working, PreAck, CalmInv, InsertIsDone
    <3>4. \A f \in Executors : f # e => pc'[f][r] \notin PreAck /\ r \notin unacked[f]
      BY <1>1, <1>2, <3>3 DEF Working
    <3>5. QED
      BY <1>1, <1>2, <2>3, <3>2, <3>3, <3>4
  <2>4. QED
    BY <2>1, <2>2, <2>3
<1>4. DrainingRests'
  <2>1. \A f \in Executors, q \in Requests : Working(f, q)' => Working(f, q)
    BY <1>1 DEF Working
  <2>2. QED
    BY <1>1, <2>1 DEF CalmInv, DrainingRests
<1>5. InsertIsDone'
  <2> SUFFICES ASSUME NEW f \in Executors, NEW q \in Requests
               PROVE  /\ pc'[f][q] = "insert" => status'[q] = "DONE"
                      /\ pc'[f][q] \in {"done", "insert"} =>
                            job'[f][q] \in {"file", "huge", "empty"}
    BY DEF InsertIsDone
  <2>1. CASE f = e /\ q = r
    BY <1>0, <2>1, ThreadStepOwn DEF CalmInv, InsertIsDone
  <2>2. CASE f # e \/ q # r
    <3>1. /\ pc'[f][q] = pc[f][q]
          /\ pc[f][q] \in {"done", "insert"} => job'[f][q] = job[f][q]
      BY <1>1, <2>2
    <3>2. /\ pc[f][q] = "insert" => status[q] = "DONE"
          /\ pc[f][q] \in {"done", "insert"} => job[f][q] \in {"file", "huge", "empty"}
      BY DEF CalmInv, InsertIsDone
    <3>3. pc[f][q] = "insert" => status'[q] = status[q]
      <4>1. CASE q # r
        BY <1>1, <4>1
      <4>2. CASE q = r /\ pc[f][q] = "insert"
        <5>1. Working(f, r) /\ f # e
          BY <2>2, <4>2 DEF Working, PreAck
        <5>2. ~Working(e, r)
          BY <1>2, <5>1
        <5>3. QED
          BY <4>2, <5>2, ThreadStepWriter DEF dbVars
      <4>3. QED
        BY <4>1, <4>2
    <3>4. QED
      BY <3>1, <3>2, <3>3
  <2>3. QED
    BY <2>1, <2>2
<1>6. QueuedIsAwaited'
  <2> SUFFICES ASSUME NEW f \in Executors, NEW q \in Requests, job'[f][q] = "queued"
               PROVE  pc'[f][q] = "poll"
    BY DEF QueuedIsAwaited
  <2>1. CASE f = e /\ q = r
    BY <1>0, <2>1, ThreadStepOwn DEF CalmInv, QueuedIsAwaited
  <2>2. CASE f # e \/ q # r
    BY <1>1, <2>2 DEF CalmInv, QueuedIsAwaited
  <2>3. QED
    BY <2>1, <2>2
<1>7. AwaitedHasFile'
  <2> SUFFICES ASSUME NEW f \in Executors, NEW q \in Requests,
                      pc'[f][q] \in {"poll", "done", "insert"},
                      job'[f][q] \in {"file", "huge"}
               PROVE  q \in files'
    BY DEF AwaitedHasFile
  <2>1. CASE f = e /\ q = r
    BY <1>0, <1>1, <2>1, ThreadStepOwn DEF CalmInv, AwaitedHasFile
  <2>2. CASE f # e \/ q # r
    BY <1>1, <2>2 DEF CalmInv, AwaitedHasFile
  <2>3. QED
    BY <2>1, <2>2
<1>8. RowHasFile'
  <2> SUFFICES ASSUME NEW q \in Requests, NEW i \in 1..Len(downloads'[q]),
                      downloads'[q][i] = "file"
               PROVE  q \in files'
    BY DEF RowHasFile
  <2>1. CASE downloads'[q] = downloads[q]
    BY <1>1, <2>1 DEF CalmInv, RowHasFile
  <2>2. CASE downloads'[q] # downloads[q]
    <3>1. q = r
      BY <1>1, <2>2
    <3>2. /\ pc[e][r] = "insert" /\ job[e][r] # "huge"
          /\ downloads'[r] =
                Append(downloads[r], IF job[e][r] = "empty" THEN "none" ELSE "file")
      BY <1>0, <2>2, <3>1, ThreadStepOwn
    <3>3. Working(e, r) /\ ~HasResult(r)
      BY <1>2, <3>2 DEF Working, PreAck
    <3>4. PICK path \in Paths :
              /\ path = IF job[e][r] = "empty" THEN "none" ELSE "file"
              /\ downloads'[r] = Append(<<>>, path)
      BY <3>2, <3>3 DEF HasResult, Paths
    <3>5. path = "file"
      BY <3>1, <3>4, OneRow
    <3>6. job[e][r] = "file"
      BY <3>2, <3>4, <3>5 DEF CalmInv, InsertIsDone
    <3>7. QED
      BY <1>1, <3>1, <3>2, <3>6 DEF CalmInv, AwaitedHasFile
  <2>3. QED
    BY <2>1, <2>2
<1>9. NothingPartial'
  BY DEF CalmInv, NothingPartial, apiVars
<1> QED
  BY <1>3, <1>4, <1>5, <1>6, <1>7, <1>8, <1>9 DEF CalmInv

LEMMA WorkerStepKeepsCalm ==
    ASSUME TypeOK, DeliveryInv, CalmInv,
           NEW e \in Executors, NEW r \in Requests, WorkerStep(e, r), UNCHANGED apiVars
    PROVE  CalmInv'
<1>0. job \in [Executors -> [Requests -> JobStates]]
  BY DEF TypeOK, ExecutorTypeOK
<1>1. UNCHANGED <<main, pc, ackPending, status, downloads, queue, unacked, reply>>
  BY DEF WorkerStep, OpenResult, ProcessReturns, dbVars, brokerVars, apiVars
<1>2. /\ job[e][r] \in {"queued", "writing"}
      /\ \A f \in Executors, q \in Requests : f # e \/ q # r => job'[f][q] = job[f][q]
      /\ \/ job'[e][r] = "writing" /\ files' = files \ {r} /\ job[e][r] = "queued"
         \/ /\ job'[e][r] # "queued"
            /\ files \subseteq files'
            /\ job'[e][r] \in {"file", "huge"} => r \in files'
  <2>1. CASE OpenResult(e, r)
    BY <1>0, <2>1 DEF OpenResult
  <2>2. ASSUME NEW outcome \in Outcomes, ProcessReturns(e, r, outcome)
        PROVE  /\ job[e][r] \in {"queued", "writing"}
               /\ \A f \in Executors, q \in Requests :
                     f # e \/ q # r => job'[f][q] = job[f][q]
               /\ job'[e][r] # "queued"
               /\ files \subseteq files'
               /\ job'[e][r] \in {"file", "huge"} => r \in files'
    <3>1. outcome # "queued"
      BY OutcomesAssumption DEF JobResults
    <3>2. QED
      BY <1>0, <2>2, <3>1 DEF ProcessReturns
  <2>3. QED
    BY <2>1, <2>2 DEF WorkerStep
<1>3. ReportedIsOver' /\ DrainingRests' /\ NothingPartial'
  BY <1>1 DEF CalmInv, ReportedIsOver, DrainingRests, NothingPartial, HasResult, Working
<1>4. InsertIsDone'
  BY <1>1, <1>2 DEF CalmInv, InsertIsDone
<1>5. QueuedIsAwaited'
  BY <1>1, <1>2 DEF CalmInv, QueuedIsAwaited
<1>6. CASE files \subseteq files'
  BY <1>1, <1>2, <1>3, <1>4, <1>5, <1>6 DEF CalmInv, AwaitedHasFile, RowHasFile
<1>7. CASE job'[e][r] = "writing" /\ files' = files \ {r} /\ job[e][r] = "queued"
  <2>1. pc[e][r] = "poll"
    BY <1>7 DEF CalmInv, QueuedIsAwaited
  <2>2. Working(e, r) /\ pc[e][r] # "ack"
    BY <2>1 DEF Working, PreAck
  <2>3. ~HasResult(r) /\ \A f \in Executors : f # e => ~Working(f, r)
    BY <2>2, WorkerIsAlone
  <2>4. RowHasFile'
    <3>1. Len(downloads[r]) = 0
      BY <2>3 DEF HasResult
    <3>2. QED
      BY <1>1, <1>7, <3>1 DEF CalmInv, RowHasFile
  <2>5. \A f \in Executors : pc[f][r] \in {"poll", "done", "insert"} => f = e
    BY <2>3 DEF Working, PreAck
  <2>6. AwaitedHasFile'
    BY <1>1, <1>2, <1>7, <2>5 DEF CalmInv, AwaitedHasFile
  <2>7. QED
    BY <1>3, <1>4, <1>5, <2>4, <2>6 DEF CalmInv
<1> QED
  BY <1>2, <1>6, <1>7

(* The broker closes a channel whose only message belongs to a thread that *)
(* is gone: that request has no result.                                    *)
LEMMA MainStepKeepsCalm ==
    ASSUME TypeOK, DeliveryInv, NoSecondThread, CalmInv, NEW e \in Executors, MainStep(e),
           UNCHANGED apiVars
    PROVE  CalmInv'
<1>0. /\ pc \in [Executors -> [Requests -> {"idle"} \cup PreAck \cup PostAck]]
      /\ job \in [Executors -> [Requests -> JobStates]]
      /\ ackPending \in [Executors -> SUBSET Requests]
      /\ unacked \in [Executors -> SUBSET Requests]
      /\ main \in [Executors -> {"down", "up", "draining"}]
  BY DEF TypeOK, ExecutorTypeOK, BrokerTypeOK
<1>1. UNCHANGED <<status, downloads, files, reply>>
  BY DEF MainStep, StartExecutor, ConsumerTimeout, ProcessExit, ProcessGone, OnMessage,
         AckMessage, dbVars, apiVars
<1>2. RowHasFile' /\ NothingPartial'
  BY <1>1 DEF CalmInv, RowHasFile, NothingPartial
<1>3. CASE StartExecutor(e)
  <2>1. UNCHANGED <<pc, job, ackPending, queue, unacked>>
        /\ \A f \in Executors : main'[f] # "up" => main[f] # "up"
    BY <1>0, <1>3 DEF StartExecutor, QueueDeclare
  <2>2. QED
    BY <1>1, <1>2, <2>1 DEF CalmInv, ReportedIsOver, DrainingRests, InsertIsDone,
       QueuedIsAwaited, AwaitedHasFile, HasResult, Working
<1>4. CASE ConsumerTimeout(e)
  <2>1. UNCHANGED <<pc, job>>
    BY <1>4 DEF ConsumerTimeout
  <2>2. PICK d \in unacked[e] : pc[e][d] = "idle" /\ d \notin ackPending[e]
    BY <1>4 DEF ConsumerTimeout
  <2>3. main[e] = "up" /\ unacked[e] = {d} /\ d \in Requests
    BY <1>0, <1>4, <2>2 DEF ConsumerTimeout, DeliveryInv, Prefetched
  <2>4. ~HasResult(d)
    BY <2>2, <2>3 DEF CalmInv, ReportedIsOver
  <2>5. /\ queue' = queue \cup {d}
        /\ unacked'[e] = {}
        /\ \A f \in Executors : f # e => /\ unacked'[f] = unacked[f]
                                         /\ ackPending'[f] = ackPending[f]
                                         /\ main'[f] = main[f]
    BY <1>0, <1>4, <2>3 DEF ConsumerTimeout, Requeue, MainThreadDies
  <2>6. \A q \in Requests : ~Working(e, q)
    <3>1. ASSUME NEW q \in Requests, Working(e, q) PROVE FALSE
      <4>1. q = d
        BY <2>3, <3>1 DEF DeliveryInv, WorkingHolds
      <4>2. QED
        BY <2>2, <3>1, <4>1 DEF Working, PreAck
    <3>2. QED
      BY <3>1
  <2>7. ReportedIsOver'
    BY <1>1, <2>1, <2>4, <2>5 DEF CalmInv, ReportedIsOver, HasResult
  <2>8. DrainingRests'
    BY <2>1, <2>5, <2>6 DEF CalmInv, DrainingRests, Working
  <2>9. InsertIsDone' /\ QueuedIsAwaited' /\ AwaitedHasFile'
    BY <1>1, <2>1 DEF CalmInv, InsertIsDone, QueuedIsAwaited, AwaitedHasFile
  <2>10. QED
    BY <1>2, <2>7, <2>8, <2>9 DEF CalmInv
<1>5. CASE ProcessExit(e)
  <2>1. /\ UNCHANGED <<queue, unacked>>
        /\ unacked[e] = {}
        /\ \A q \in Requests : pc'[e][q] = "idle" /\ job'[e][q] = "none"
        /\ \A f \in Executors : f # e => /\ pc'[f] = pc[f] /\ job'[f] = job[f]
                                         /\ ackPending'[f] = ackPending[f]
                                         /\ main'[f] = main[f]
    BY <1>0, <1>5 DEF ProcessExit, ProcessGone, DeliveryInv, OnlyConsumersHold, brokerVars
  <2>2. ReportedIsOver'
    BY <1>1, <2>1 DEF CalmInv, ReportedIsOver, HasResult, PreAck
  <2>3. DrainingRests'
    BY <2>1 DEF CalmInv, DrainingRests, Working, PreAck
  <2>4. InsertIsDone' /\ QueuedIsAwaited' /\ AwaitedHasFile'
    BY <1>1, <2>1 DEF CalmInv, InsertIsDone, QueuedIsAwaited, AwaitedHasFile
  <2>5. QED
    BY <1>2, <2>2, <2>3, <2>4 DEF CalmInv
<1>6. ASSUME NEW r \in Requests, OnMessage(e, r) PROVE CalmInv'
  <2>1. /\ r \in queue /\ main[e] = "up" /\ pc[e][r] = "idle"
        /\ queue' = queue \ {r}
        /\ UNCHANGED <<main, job, ackPending>>
        /\ pc'[e][r] = "start"
        /\ \A f \in Executors, q \in Requests :
              f # e \/ q # r => pc'[f][q] = pc[f][q] /\ (q \in unacked'[f] => q \in unacked[f])
    BY <1>0, <1>6 DEF OnMessage, BasicDeliver, Goto, NoSecondThread
  <2>2. ~HasResult(r)
    BY <2>1 DEF CalmInv, ReportedIsOver
  <2>3. ReportedIsOver'
    BY <1>1, <2>1, <2>2 DEF CalmInv, ReportedIsOver, HasResult
  <2>4. DrainingRests'
    BY <2>1 DEF CalmInv, DrainingRests, Working
  <2>5. InsertIsDone' /\ QueuedIsAwaited' /\ AwaitedHasFile'
    BY <1>1, <2>1 DEF CalmInv, InsertIsDone, QueuedIsAwaited, AwaitedHasFile
  <2>6. QED
    BY <1>2, <2>3, <2>4, <2>5 DEF CalmInv
<1>7. ASSUME NEW r \in Requests, AckMessage(e, r) PROVE CalmInv'
  <2>1. /\ UNCHANGED <<main, job, pc, queue>>
        /\ r \notin unacked'[e]
        /\ \A f \in Executors, q \in Requests :
              /\ q \in unacked'[f] => q \in unacked[f]
              /\ f # e \/ q # r => (q \in ackPending[f] => q \in ackPending'[f])
    BY <1>0, <1>7 DEF AckMessage, BasicAck
  <2>2. ReportedIsOver'
    BY <1>1, <2>1 DEF CalmInv, ReportedIsOver, HasResult
  <2>3. QED
    BY <1>1, <1>2, <2>1, <2>2 DEF CalmInv, DrainingRests, InsertIsDone,
       QueuedIsAwaited, AwaitedHasFile, Working
<1> QED
  BY <1>3, <1>4, <1>5, <1>6, <1>7 DEF MainStep

(* The API creates rows without result and publishes only those; what it   *)
(* answers comes from the rows and the files.                              *)
LEMMA ApiWrites ==
    ASSUME TypeOK, ApiNext
    PROVE  /\ UNCHANGED <<pc, job, ackPending, main, unacked, downloads, files>>
           /\ \A q \in Requests :
                 /\ q \in queue' => q \in queue \/ (At("publish") /\ q = api.req)
                 /\ status'[q] # status[q] => status[q] = "NOROW" /\ status'[q] # "NOROW"
           /\ At("publish")' => status[api'.req] = "NOROW"
<1>1. UNCHANGED <<pc, job, ackPending, main>>
  BY DEF ApiNext, executorVars
<1>2. CASE Publish
  BY <1>1, <1>2 DEF Publish, BasicPublish, dbVars, GoOn, Answer, At, Idle, TypeOK, ApiTypeOK
<1>3. CASE SyncPoll \/ SyncFetch \/ GetUriStatus \/ DownloadFetch \/ ApiFails
  BY <1>1, <1>3 DEF SyncPoll, SyncFetch, GetUriStatus, DownloadFetch, ApiFails, GoOn,
     Answer, At, Idle, dbVars, brokerVars, TypeOK, ApiTypeOK
<1>4. ASSUME NEW r \in Requests, NEW sync \in BOOLEAN, Register(r, sync)
      PROVE  /\ UNCHANGED <<unacked, queue, downloads, files>>
             /\ \A q \in Requests :
                   status'[q] # status[q] => status[q] = "NOROW" /\ status'[q] # "NOROW"
             /\ status[api'.req] = "NOROW"
  BY <1>4 DEF Register, CreateRequest, brokerVars, TypeOK, DBTypeOK
<1>5. ASSUME NEW r \in Requests, GetStatus(r) \/ GetSize(r) \/ GetUri(r) \/ Download(r)
      PROVE  UNCHANGED <<unacked, queue, status, downloads, files>> /\ ~At("publish")'
  BY <1>5 DEF GetStatus, GetSize, GetUri, Download, Answer, Idle, At, dbVars, brokerVars
<1> QED
  BY <1>1, <1>2, <1>3, <1>4, <1>5
     DEF ApiNext, EndpointStep, EndpointCall, AcceptQuery, AcceptWorkflow

LEMMA FileReadIsWhole ==
    ASSUME TypeOK, RowHasFile, NEW r \in Requests, NEW row \in DownloadOf(r), row = "file"
    PROVE  ReadFile(r) = "file"
<1>1. downloads[r] # <<>>
  BY DEF DownloadOf
<1>2. PICK i \in 1..Len(downloads[r]) : downloads[r][i] = "file"
  BY <1>1 DEF DownloadOf
<1>3. r \in files
  BY <1>2 DEF RowHasFile
<1> QED
  BY <1>3 DEF ReadFile

LEMMA ApiKeepsCalm ==
    ASSUME TypeOK, EndpointHasRow, CalmInv, UnpublishedHasNoResult, ApiNext
    PROVE  CalmInv'
<1>1. /\ UNCHANGED <<pc, job, ackPending, main, unacked, downloads, files>>
      /\ \A q \in Requests :
            /\ q \in queue' => q \in queue \/ (At("publish") /\ q = api.req)
            /\ status'[q] # status[q] => status[q] = "NOROW" /\ status'[q] # "NOROW"
  BY ApiWrites
<1>2. ReportedIsOver'
  <2>1. At("publish") => ~HasResult(api.req)
    BY DEF EndpointHasRow, At, UnpublishedHasNoResult, Unpublished
  <2>2. QED
    BY <1>1, <2>1 DEF CalmInv, ReportedIsOver, HasResult
<1>3. DrainingRests' /\ InsertIsDone' /\ QueuedIsAwaited' /\ AwaitedHasFile' /\ RowHasFile'
  BY <1>1 DEF CalmInv, DrainingRests, InsertIsDone, QueuedIsAwaited, AwaitedHasFile,
     RowHasFile, Working
<1>4. NothingPartial'
  <2>1. CASE UNCHANGED reply
    BY <2>1 DEF CalmInv, NothingPartial
  <2>2. ASSUME NEW op, NEW r, NEW says, NEW detail, Answer(op, r, says, detail),
               says # "partialFile"
        PROVE  NothingPartial'
    BY <2>2 DEF Answer, NothingPartial
  <2>3. CASE Publish \/ SyncPoll
    BY <2>1, <2>2, <2>3 DEF Publish, SyncPoll, GoOn
  <2>4. CASE SyncFetch
    <3>1. api.req \in Requests /\ RowHasFile
      BY <2>4 DEF SyncFetch, At, EndpointHasRow, CalmInv
    <3>2. PICK row \in DownloadOf(api.req) :
              Answer("sync", api.req,
                     IF row = "file" THEN ReadFile(api.req) ELSE "AttributeError", "none")
      BY <2>4 DEF SyncFetch
    <3>3. row = "file" => ReadFile(api.req) = "file"
      BY <3>1, FileReadIsWhole
    <3>4. QED
      BY <2>2, <3>2, <3>3
  <2>5. CASE GetUriStatus
    <3>1. api.req \in Requests
      BY <2>5 DEF GetUriStatus, At, EndpointHasRow
    <3>2. QED
      BY <2>2, <2>5 DEF GetUriStatus
  <2>6. CASE DownloadFetch
    <3>1. api.req \in Requests /\ RowHasFile
      BY <2>6 DEF DownloadFetch, At, EndpointHasRow, CalmInv
    <3>2. DownloadOf(api.req) \subseteq {"absent", "none", "file"}
      BY <3>1 DEF DownloadOf, TypeOK, DBTypeOK, Paths
    <3>3. PICK row \in DownloadOf(api.req) : \E says :
              /\ Answer("download", api.req, says, "none")
              /\ \/ says \in {"AttributeError", "TypeError"}
                 \/ row = "file" /\ says = ReadFile(api.req)
      BY <2>6, <3>2 DEF DownloadFetch
    <3>4. PICK says :
              /\ Answer("download", api.req, says, "none")
              /\ \/ says \in {"AttributeError", "TypeError"}
                 \/ row = "file" /\ says = ReadFile(api.req)
      BY <3>3
    <3>5. says # "partialFile"
      BY <3>1, <3>4, FileReadIsWhole
    <3>6. QED
      BY <2>2, <3>4, <3>5
  <2>7. CASE ApiFails
    BY <2>7 DEF ApiFails, NothingPartial, NoReply
  <2>8. ASSUME NEW r \in Requests, EndpointCall(r) PROVE NothingPartial'
    <3>1. CASE \E sync \in BOOLEAN : Register(r, sync)
      BY <2>1, <3>1 DEF Register
    <3>2. CASE GetStatus(r)
      <4>1. status[r] # "partialFile"
        BY DEF TypeOK, DBTypeOK, RequestStatus
      <4>2. QED
        BY <2>2, <3>2, <4>1 DEF GetStatus
    <3>3. CASE GetSize(r)
      <4>1. DownloadOf(r) \subseteq {"absent", "none", "file"}
        BY DEF DownloadOf, TypeOK, DBTypeOK, Paths
      <4>2. PICK says \in {"RequestNotFound", "AttributeError", "EmptyDatasetError", "size"} :
                Answer("size", r, says, "none")
        BY <3>3, <4>1 DEF GetSize
      <4>3. QED
        BY <2>2, <4>2
    <3>4. CASE GetUri(r) \/ Download(r)
      BY <2>1, <2>2, <3>4 DEF GetUri, Download
    <3>5. QED
      BY <2>8, <3>1, <3>2, <3>3, <3>4 DEF EndpointCall, AcceptQuery, AcceptWorkflow
  <2>9. QED
    BY <2>3, <2>4, <2>5, <2>6, <2>7, <2>8 DEF ApiNext, EndpointStep
<1> QED
  BY <1>2, <1>3, <1>4 DEF CalmInv

(* An executor adds rows, and to no request that is not published.         *)
LEMMA ExecutorKeepsRows ==
    ASSUME TypeOK, DeliveryInv, UnpublishedHasNoResult, UriHasRow, ExecutorNext
    PROVE  UnpublishedHasNoResult' /\ UriHasRow'
<1>0. UNCHANGED <<api, reply>>
  BY DEF ExecutorNext, apiVars
<1>1. CASE UNCHANGED <<status, downloads>>
  BY <1>0, <1>1 DEF UnpublishedHasNoResult, UriHasRow, Unpublished, HasResult, At
<1>2. ASSUME NEW e \in Executors, NEW r \in Requests, ThreadStep(e, r)
      PROVE  UnpublishedHasNoResult' /\ UriHasRow'
  <2>1. pc[e][r] # "idle"
        /\ \A q \in Requests :
              q # r => status'[q] = status[q] /\ downloads'[q] = downloads[q]
    BY <1>2, ThreadStepLeaves
  <2>2. ~Unpublished(r)
    BY <2>1 DEF DeliveryInv, UnpublishedIsNowhere
  <2>3. status'[r] # "NOROW"
    <3>1. status[r] # "NOROW" /\ status \in [Requests -> RequestStatus \cup {"NOROW"}]
      BY <2>2 DEF Unpublished, TypeOK, DBTypeOK
    <3>2. QED
      BY <1>2, <3>1, ThreadStepWrites
         DEF CommitStatus, CommitDownload, dbVars, RequestStatus
  <2>4. ~Unpublished(r)'
    BY <1>0, <2>2, <2>3 DEF Unpublished, At
  <2>5. HasResult(r) => HasResult(r)'
    <3>1. downloads[r] \in Seq(Paths)
      BY DEF TypeOK, DBTypeOK
    <3>2. CASE downloads'[r] = downloads[r]
      BY <3>2 DEF HasResult
    <3>3. CASE downloads'[r] # downloads[r]
      <4>1. PICK path \in Paths : downloads'[r] = Append(downloads[r], path)
        BY <1>2, <3>3, ThreadStepWrites DEF CommitStatus, CommitDownload, dbVars,
           TypeOK, DBTypeOK
      <4>2. QED
        BY <3>1, <4>1 DEF HasResult
    <3>4. QED
      BY <3>2, <3>3
  <2>6. UnpublishedHasNoResult'
    <3>1. \A q \in Requests : q # r /\ Unpublished(q)' => Unpublished(q)
      BY <1>0, <2>1 DEF Unpublished, At
    <3>2. QED
      BY <2>1, <2>4, <3>1 DEF UnpublishedHasNoResult, HasResult
  <2>7. \A q \in Requests : HasResult(q) => HasResult(q)'
    BY <2>1, <2>5 DEF HasResult
  <2>8. UriHasRow'
    BY <1>0, <2>7 DEF UriHasRow
  <2>9. QED
    BY <2>6, <2>8
<1>3. ASSUME ~\E e \in Executors, r \in Requests : ThreadStep(e, r)
      PROVE  UNCHANGED <<status, downloads>>
  <2>1. CASE ExecutorFault
    BY <2>1 DEF ExecutorFault, BrokerRestart, ConnectionLost, Crash, ClusterFails,
       ThreadDies, dbVars
  <2>2. CASE \E e \in Executors : MainStep(e)
    BY <2>2 DEF MainStep, StartExecutor, ConsumerTimeout, ProcessExit, OnMessage,
       AckMessage, dbVars
  <2>3. CASE \E e \in Executors, r \in Requests : WorkerStep(e, r)
    BY <2>3 DEF WorkerStep, OpenResult, ProcessReturns, dbVars
  <2>4. QED
    BY <1>3, <2>1, <2>2, <2>3 DEF ExecutorNext
<1> QED
  BY <1>1, <1>2, <1>3

LEMMA ApiKeepsRows ==
    ASSUME TypeOK, EndpointHasRow, UnpublishedHasNoResult, UriHasRow, ApiNext
    PROVE  UnpublishedHasNoResult' /\ UriHasRow'
<1>1. /\ UNCHANGED downloads
      /\ \A q \in Requests :
            status'[q] # status[q] => status[q] = "NOROW" /\ status'[q] # "NOROW"
      /\ At("publish")' => status[api'.req] = "NOROW"
  BY ApiWrites
<1>2. UnpublishedHasNoResult'
  BY <1>1 DEF UnpublishedHasNoResult, Unpublished, HasResult
<1>3. UriHasRow'
  <2>1. CASE UNCHANGED reply
    BY <1>1, <2>1 DEF UriHasRow, HasResult
  <2>2. ASSUME NEW op, NEW r, NEW says, NEW detail, Answer(op, r, says, detail),
               op # "uri" \/ says # "uri"
        PROVE  UriHasRow'
    BY <2>2 DEF Answer, UriHasRow
  <2>3. CASE Publish \/ SyncPoll
    BY <2>1, <2>2, <2>3 DEF Publish, SyncPoll, GoOn
  <2>4. CASE SyncFetch
    BY <2>2, <2>4 DEF SyncFetch
  <2>5. CASE GetUriStatus
    <3>1. Answer("uri", api.req, "RequestStatusNotDone", status[api.req])
      BY <2>5 DEF GetUriStatus
    <3>2. QED
      BY <2>2, <3>1
  <2>6. CASE DownloadFetch
    <3>1. PICK says : Answer("download", api.req, says, "none")
      BY <2>6 DEF DownloadFetch
    <3>2. QED
      BY <2>2, <3>1
  <2>7. CASE ApiFails
    BY <2>7 DEF ApiFails, UriHasRow, NoReply
  <2>8. ASSUME NEW r \in Requests, EndpointCall(r) PROVE UriHasRow'
    <3>1. CASE \E sync \in BOOLEAN : Register(r, sync)
      BY <2>1, <3>1 DEF Register
    <3>2. CASE GetStatus(r)
      BY <2>2, <3>2 DEF GetStatus
    <3>3. CASE GetSize(r)
      BY <2>2, <3>3 DEF GetSize
    <3>4. CASE Download(r)
      BY <2>1, <2>2, <3>4 DEF Download
    <3>5. CASE GetUri(r)
      <4>1. CASE Answer("uri", r, "uri", "none") /\ "absent" \notin DownloadOf(r)
        <5>1. HasResult(r)
          BY <4>1 DEF HasResult, DownloadOf
        <5>2. QED
          BY <1>1, <4>1, <5>1 DEF Answer, UriHasRow, HasResult
      <4>2. CASE UNCHANGED reply \/ Answer("uri", r, "RequestNotFound", "none")
        BY <2>1, <2>2, <4>2
      <4>3. QED
        BY <3>5, <4>1, <4>2 DEF GetUri
    <3>6. QED
      BY <2>8, <3>1, <3>2, <3>3, <3>4, <3>5 DEF EndpointCall, AcceptQuery, AcceptWorkflow
  <2>9. QED
    BY <2>3, <2>4, <2>5, <2>6, <2>7, <2>8 DEF ApiNext, EndpointStep
<1> QED
  BY <1>2, <1>3

LEMMA FaultsCount ==
    ASSUME TypeInv, Next
    PROVE  /\ faults' = 0 => faults = 0
           /\ ExecutorFault => faults' # 0
<1>1. faults \in Nat
  BY MaxFaultsAssumption DEF TypeInv, TypeOK, EnvironmentTypeOK
<1>2. ExecutorFault => faults' = faults + 1
  BY DEF ExecutorFault, BrokerRestart, ConnectionLost, Crash, ClusterFails, ThreadDies, Fault
<1>3. faults' \in {faults, faults + 1}
  <2>1. CASE ApiNext
    BY <2>1 DEF ApiNext, EndpointStep, Publish, SyncPoll, SyncFetch, GetUriStatus,
       DownloadFetch, ApiFails, Fault, EndpointCall, AcceptQuery, AcceptWorkflow,
       Register, GetStatus, GetSize, GetUri, Download
  <2>2. CASE \E e \in Executors : MainStep(e)
    BY <2>2 DEF MainStep, StartExecutor, ConsumerTimeout, ProcessExit, OnMessage, AckMessage
  <2>3. CASE \E e \in Executors, r \in Requests : WorkerStep(e, r)
    BY <2>3 DEF WorkerStep, OpenResult, ProcessReturns
  <2>4. CASE \E e \in Executors, r \in Requests : ThreadStep(e, r)
    BY <2>4, ThreadStepLeaves DEF TypeInv
  <2>5. QED
    BY <1>2, <2>1, <2>2, <2>3, <2>4 DEF Next, ExecutorNext
<1> QED
  BY <1>1, <1>2, <1>3

LEMMA ResultInvInductive ==
    ASSUME TypeInv, DeliveryInv, NoSecondThread, ResultInv, [Next]_vars
    PROVE  ResultInv'
<1>1. TypeOK /\ EndpointHasRow
  BY DEF TypeInv
<1>2. CASE UNCHANGED vars
  BY <1>2 DEF vars, dbVars, brokerVars, executorVars, apiVars, ResultInv, CalmInv,
     ReportedIsOver, DrainingRests, InsertIsDone, QueuedIsAwaited, AwaitedHasFile,
     RowHasFile, NothingPartial, UnpublishedHasNoResult, UriHasRow, HasResult,
     Unpublished, At, Working, LoadedIsCurrent, RowOf
<1>3. CASE Next
  <2>1. UnpublishedHasNoResult' /\ UriHasRow'
    BY <1>1, <1>3, ApiKeepsRows, ExecutorKeepsRows DEF Next, ResultInv
  <2>2. ASSUME faults' = 0 PROVE CalmInv' /\ LoadedIsCurrent'
    <3>1. CalmInv /\ LoadedIsCurrent /\ ~ExecutorFault
      BY <1>3, <2>2, FaultsCount DEF ResultInv
    <3>2. UnpublishedHasNoResult
      BY DEF ResultInv
    <3>0. ASSUME NEW e \in Executors, NEW r \in Requests, Working(e, r),
                 NEW f \in Executors, f # e
          PROVE  session[f][r] = NoRow
      <4>1. ~Working(f, r)
        BY <1>1, <3>0, <3>1, WorkerIsAlone
      <4>2. QED
        BY <3>1, <4>1 DEF LoadedIsCurrent, Updating, Working, PreAck
    <3>6. LoadedIsCurrent'
      BY <3>0, <3>1, LoadedInductive
    <3>3. ASSUME ApiNext PROVE CalmInv'
      BY <1>1, <3>1, <3>2, <3>3, ApiKeepsCalm
    <3>4. ASSUME ExecutorNext PROVE CalmInv'
      <4>1. UNCHANGED apiVars
        BY <3>4 DEF ExecutorNext
      <4>2. CASE \E e \in Executors : MainStep(e)
        BY <1>1, <3>1, <4>1, <4>2, MainStepKeepsCalm
      <4>3. CASE \E e \in Executors, r \in Requests : ThreadStep(e, r)
        BY <1>1, <3>1, <4>1, <4>3, ThreadStepKeepsCalm
      <4>4. CASE \E e \in Executors, r \in Requests : WorkerStep(e, r)
        BY <1>1, <3>1, <4>1, <4>4, WorkerStepKeepsCalm
      <4>5. QED
        BY <3>1, <3>4, <4>2, <4>3, <4>4 DEF ExecutorNext
    <3>5. QED
      BY <1>3, <3>3, <3>4, <3>6 DEF Next
  <2>3. QED
    BY <2>1, <2>2 DEF ResultInv
<1> QED
  BY <1>2, <1>3

LEMMA InitResultInv == Init => ResultInv
<1> SUFFICES ASSUME Init PROVE ResultInv
  OBVIOUS
<1>1. /\ \A r \in Requests : ~HasResult(r) /\ Len(downloads[r]) = 0
      /\ \A e \in Executors, r \in Requests : pc[e][r] = "idle" /\ job[e][r] = "none"
      /\ reply = NoReply
  BY DEF Init, DBInit, ExecutorInit, ApiInit, HasResult
<1>2. CalmInv
  BY <1>1 DEF CalmInv, ReportedIsOver, DrainingRests, InsertIsDone, QueuedIsAwaited,
     AwaitedHasFile, RowHasFile, NothingPartial, NoReply, Working, PreAck
<1> QED
  BY <1>1, <1>2, LoadedInit DEF ResultInv, UnpublishedHasNoResult, UriHasRow, NoReply

LEMMA ResultInvAlways == Spec => []ResultInv
  BY InitResultInv, ResultInvInductive, TypeInvAlways, DeliveryAlways,
     NoSecondThreadAlways, PTL DEF Spec

LEMMA FaultsAreCounted == TypeInv => faults \in Nat
  BY MaxFaultsAssumption DEF TypeInv, TypeOK, EnvironmentTypeOK

(* As long as nothing has failed no endpoint sends a file that is being    *)
(* written, with any number of executors and for all that clients do       *)
(* between the endpoint's two transactions: who has read DONE finds the    *)
(* Download, and nobody opens the file of a request that has one.          *)
THEOREM PartialFileAlwaysNeedsFault == Spec => []PartialFileNeedsFault
<1>1. TypeInv /\ ResultInv => PartialFileNeedsFault
  BY FaultsAreCounted DEF ResultInv, CalmInv, NothingPartial, PartialFileNeedsFault
<1> QED
  BY <1>1, TypeInvAlways, ResultInvAlways, PTL

(* As long as nothing has failed a request whose URI was handed out is     *)
(* DONE and stays so, although get_request_uri does not look at the status *)
(* when it finds a Download.                                               *)
THEOREM UriAlwaysMeansDone == Spec => []UriMeansDone
<1>1. TypeInv /\ ResultInv => UriMeansDone
  BY FaultsAreCounted DEF ResultInv, CalmInv, ReportedIsOver, UriHasRow, UriMeansDone
<1> QED
  BY <1>1, TypeInvAlways, ResultInvAlways, PTL

================================================================================
