--------------------------- MODULE GeolakeSettlement ---------------------------
(***************************************************************************)
(* Proof that the deployment, with its one executor, forgets no request:   *)
(* the invariant SettlementInv of Geolake, for any number of requests and  *)
(* faults, and what follows from it: a request that nobody will work on    *)
(* again has a final status and its result, the fail_reason agrees with    *)
(* the status, and the system implements RequestLifecycle.                 *)
(*                                                                         *)
(* A second executor breaks the invariant (a thread of an executor that    *)
(* has lost its connection writes the status of a request the other has    *)
(* taken over), so the theorems assume what executor-deployment.yaml says. *)
(***************************************************************************)
EXTENDS GeolakeProofs, SequenceTheorems

OneExecutor == \E e : Executors = {e}

(* The invariant, request by request and thread by thread.                 *)
TablesKept(q) ==
    /\ Settled(q) => Complete(q)
    /\ Unpublished(q) => q \notin accepted

ThreadKept(e, q) ==
    /\ q \in ackPending[e] => Complete(q)
    /\ pc[e][q] \in {"submit", "poll", "done", "failed", "timeout"} =>
          status[q] = "RUNNING"
    /\ pc[e][q] = "insert" => status[q] = "DONE"
    /\ pc[e][q] \in {"done", "insert"} => job[e][q] \in {"file", "huge", "empty"}
    /\ pc[e][q] = "ack" => Complete(q)
    /\ job[e][q] \in {"file", "huge"} => q \in files
    /\ job[e][q] = "queued" =>
          /\ pc[e][q] \notin {"done", "failed", "timeout", "insert", "ack"}
          /\ q \notin ackPending[e]
          /\ ~Settled(q)
    /\ Working(e, q) => InBroker(q) \/ q \notin accepted

AllKept ==
    /\ \A q \in Requests : TablesKept(q)
    /\ \A e \in Executors, q \in Requests : ThreadKept(e, q)

LEMMA SettlementIsAllKept ==
    ASSUME TypeOK
    PROVE  SettlementInv <=> AllKept /\ LoadedIsCurrent
<1>1. \A e \in Executors : ackPending[e] \subseteq Requests
  BY DEF TypeOK, ExecutorTypeOK
<1>2. SettlementInv => AllKept /\ LoadedIsCurrent
  BY DEF SettlementInv, AllKept, TablesKept, ThreadKept, SettledIsComplete,
         HandedOverIsComplete, ThreadKeepsTables, TaskKeepsFile,
         WorkedOnIsHeld, UnpublishedIsNotAccepted
<1>3. AllKept /\ LoadedIsCurrent => SettlementInv
  <2> SUFFICES ASSUME AllKept, LoadedIsCurrent PROVE SettlementInv
    OBVIOUS
  <2>1. SettledIsComplete /\ UnpublishedIsNotAccepted
    BY DEF AllKept, TablesKept, SettledIsComplete, UnpublishedIsNotAccepted
  <2>2. HandedOverIsComplete
    BY <1>1 DEF AllKept, ThreadKept, HandedOverIsComplete
  <2>3. ThreadKeepsTables /\ TaskKeepsFile /\ WorkedOnIsHeld
    BY DEF AllKept, ThreadKept, ThreadKeepsTables, TaskKeepsFile, WorkedOnIsHeld
  <2>4. QED
    BY <2>1, <2>2, <2>3 DEF SettlementInv
<1>4. QED
  BY <1>2, <1>3

LEMMA SettlementInit == Init => SettlementInv
<1> SUFFICES ASSUME Init PROVE SettlementInv
  OBVIOUS
<1>1. /\ accepted = {}
      /\ \A e \in Executors : ackPending[e] = {}
      /\ \A e \in Executors, r \in Requests :
            pc[e][r] = "idle" /\ job[e][r] = "none"
  BY DEF Init, BrokerInit, ExecutorInit
<1>2. QED
  BY <1>1, LoadedInit
     DEF SettlementInv, SettledIsComplete, Settled, HandedOverIsComplete,
         ThreadKeepsTables, TaskKeepsFile, WorkedOnIsHeld, Working, PreAck,
         UnpublishedIsNotAccepted

------------------------------------------------------------------------------
(* What a step does not disturb.                                           *)

(* A request whose row, Download rows and file stay is as complete as it   *)
(* was.                                                                    *)
LEMMA CompleteStays ==
    ASSUME NEW q, status'[q] = status[q], downloads'[q] = downloads[q],
           q \in files => q \in files'
    PROVE  Complete(q) => Complete(q)'
  BY DEF Complete

(* A step that leaves the thread of q where it is, or takes it past its    *)
(* acknowledgement, that at most loses its task, and that makes nothing    *)
(* worse in the tables or the broker.                                      *)
LEMMA ThreadKeptStays ==
    ASSUME NEW e, NEW q, ThreadKept(e, q),
           Complete(q) => Complete(q)',
           status[q] \in {"RUNNING", "DONE"} => status'[q] = status[q],
           q \in files => q \in files',
           Settled(q)' => Settled(q) \/ job[e][q] # "queued",
           InBroker(q) \/ q \notin accepted => (InBroker(q) \/ q \notin accepted)',
           pc'[e][q] = pc[e][q] \/ pc'[e][q] \in {"idle", "restart", "create"},
           \/ job'[e][q] = job[e][q]
           \/ /\ job'[e][q] \notin {"file", "huge", "queued"}
              /\ pc'[e][q] \notin {"done", "insert"},
           q \in ackPending'[e] => q \in ackPending[e]
    PROVE  ThreadKept(e, q)'
<1>1. Working(e, q)' => Working(e, q)
  BY DEF Working, PreAck
<1>2. QED
  BY <1>1 DEF ThreadKept

LEMMA BrokerSteady ==
    ASSUME UNCHANGED brokerVars, NEW q
    PROVE  /\ Settled(q)' <=> Settled(q)
           /\ InBroker(q)' <=> InBroker(q)
           /\ accepted' = accepted
  BY DEF Settled, InBroker, InFlight, brokerVars

(* A thread that works has not handed anything over, and its message is    *)
(* not settled.                                                            *)
LEMMA WorkingIsUnsettled ==
    ASSUME DeliveryInv, AllKept, NEW e \in Executors, NEW r \in Requests,
           Working(e, r)
    PROVE  /\ r \notin ackPending[e]
           /\ ~Settled(r)
           /\ ~Unpublished(r)
<1>1. r \notin ackPending[e]
  BY DEF DeliveryInv, WorkingHolds, HandedOverIsHeld, OnlyConsumersHold
<1>2. ~Settled(r)
  BY DEF AllKept, ThreadKept, Settled
<1>3. ~Unpublished(r)
  BY DEF DeliveryInv, UnpublishedIsNowhere, Working, PreAck
<1>4. QED
  BY <1>1, <1>2, <1>3

------------------------------------------------------------------------------
(* The handler threads.  A step of the thread of r leaves the broker, the  *)
(* files and every other request alone; while the thread works, r is not   *)
(* settled, and only the thread's own state has to be looked at.           *)
LEMMA ThreadStepFrame ==
    ASSUME TypeOK, NEW e \in Executors, NEW r \in Requests, ThreadStep(e, r)
    PROVE  /\ UNCHANGED <<brokerVars, files>>
           /\ \A q \in Requests \ {r} :
                 /\ status'[q] = status[q]
                 /\ downloads'[q] = downloads[q]
                 /\ pc'[e][q] = pc[e][q]
                 /\ \/ job'[e][q] = job[e][q]
                    \/ job'[e][q] = "lost" /\ pc[e][q] \notin {"done", "insert"}
                 /\ q \in ackPending'[e] => q \in ackPending[e]
<1>0. /\ pc \in [Executors -> [Requests -> {"idle"} \cup PreAck \cup PostAck]]
      /\ job \in [Executors -> [Requests -> JobStates]]
      /\ ackPending \in [Executors -> SUBSET Requests]
      /\ status \in [Requests -> RequestStatus \cup {"NOROW"}]
      /\ downloads \in [Requests -> Seq(Paths)]
  BY DEF TypeOK, ExecutorTypeOK, DBTypeOK
<1>1. UNCHANGED <<brokerVars, files>>
  BY DEF ThreadStep, Begin, SelectRequest, ReportRunning, Submit, GetResult,
         GiveUp, ReportDone, ReportFailure, ReportTimeout, Report, GoOnTo,
         InsertDownload, ScheduleAck, CloseCluster, CheckCluster,
         CreateCluster
<1>2. \A q \in Requests \ {r} :
         status'[q] = status[q] /\ downloads'[q] = downloads[q]
  BY ThreadStepWriter
<1>3. \E label : pc' = [pc EXCEPT ![e][r] = label]
  BY ThreadStepMoves
<1>4. \/ UNCHANGED job
      \/ \E state : job' = [job EXCEPT ![e][r] = state]
      \/ JobsLost(e)
  BY DEF ThreadStep, Begin, SelectRequest, ReportRunning, Submit, GetResult,
         GiveUp, ReportDone, ReportFailure, ReportTimeout, Report, GoOnTo,
         InsertDownload, ScheduleAck, CloseCluster, CheckCluster,
         CreateCluster
<1>5. \A q \in Requests \ {r} :
         \/ job'[e][q] = job[e][q]
         \/ job'[e][q] = "lost" /\ pc[e][q] \notin {"done", "insert"}
  BY <1>0, <1>4 DEF JobsLost
<1>6. ackPending' = ackPending \/ ackPending' = [ackPending EXCEPT ![e] = @ \cup {r}]
  BY DEF ThreadStep, Begin, SelectRequest, ReportRunning, Submit, GetResult,
         GiveUp, ReportDone, ReportFailure, ReportTimeout, Report, GoOnTo,
         InsertDownload, ScheduleAck, CloseCluster, CheckCluster,
         CreateCluster
<1>7. QED
  BY <1>0, <1>1, <1>2, <1>3, <1>5, <1>6

(* Before the acknowledgement: the thread keeps its own part.              *)
LEMMA WorkingThreadKept ==
    ASSUME TypeOK, DeliveryInv, AllKept, LoadedIsCurrent,
           NEW e \in Executors, NEW r \in Requests,
           Working(e, r), ThreadStep(e, r)
    PROVE  ThreadKept(e, r)'
<1>0. /\ pc \in [Executors -> [Requests -> {"idle"} \cup PreAck \cup PostAck]]
      /\ job \in [Executors -> [Requests -> JobStates]]
      /\ ackPending \in [Executors -> SUBSET Requests]
      /\ status \in [Requests -> RequestStatus \cup {"NOROW"}]
      /\ downloads \in [Requests -> Seq(Paths)]
  BY DEF TypeOK, ExecutorTypeOK, DBTypeOK
<1>1. /\ r \notin ackPending[e] /\ ~Settled(r)
      /\ InBroker(r) \/ r \notin accepted
      /\ ThreadKept(e, r)
  BY WorkingIsUnsettled DEF AllKept, ThreadKept
<1>2. /\ ~Settled(r)' /\ (InBroker(r) \/ r \notin accepted)'
      /\ files' = files
  BY <1>1, BrokerSteady, ThreadStepFrame
<1>a. ASSUME NEW st, NEW why, NEW label, Report(e, r, st, why, label)
      PROVE  pc'[e][r] = label /\ status'[r] = st
  <2>1. LoadedKept(e, r)
    BY DEF LoadedKept, LoadedIsCurrent
  <2>2. pc' = [pc EXCEPT ![e][r] = label] /\ status' = [status EXCEPT ![r] = st]
    BY <1>a, <2>1, ReportWrites
  <2>3. QED
    BY <1>0, <2>2
<1>3. CASE Begin(e, r)
  <2>1. /\ pc'[e][r] \in {"idle", "running"}
        /\ pc[e][r] = "start"
        /\ UNCHANGED <<job, ackPending>>
    BY <1>0, <1>3 DEF Begin, GoOnTo, Goto, ThreadEnds
  <2>2. QED
    BY <1>1, <1>2, <2>1 DEF ThreadKept
<1>b. CASE SelectRequest(e, r)
  <2>1. UNCHANGED <<pc, job, ackPending, status, downloads>>
    BY <1>b DEF SelectRequest, dbVars
  <2>2. Complete(r) => Complete(r)'
    BY <1>2, <2>1, CompleteStays
  <2>3. QED
    BY <1>1, <1>2, <2>1, <2>2 DEF ThreadKept
<1>c. CASE ReportRunning(e, r)
  <2>1. pc'[e][r] = "submit" /\ status'[r] = "RUNNING"
    BY <1>a, <1>c DEF ReportRunning
  <2>2. UNCHANGED <<job, ackPending>>
    BY <1>c DEF ReportRunning
  <2>3. QED
    BY <1>1, <1>2, <2>1, <2>2 DEF ThreadKept
<1>4. CASE Submit(e, r)
  <2>1. /\ \/ pc'[e][r] = "poll" /\ job'[e][r] \in {"queued", "lost"}
           \/ pc'[e][r] = "idle" /\ UNCHANGED job
        /\ UNCHANGED <<status, ackPending>>
        /\ pc[e][r] = "submit"
    BY <1>0, <1>4 DEF Submit, GoOnTo, Goto, ThreadEnds, dbVars
  <2>2. QED
    BY <1>1, <1>2, <2>1 DEF ThreadKept
<1>d. CASE GetResult(e, r)
  <2>1. /\ \/ pc'[e][r] = "done" /\ job[e][r] \in {"file", "huge", "empty"}
           \/ pc'[e][r] = "failed" /\ job[e][r] # "queued"
        /\ UNCHANGED <<job, ackPending, status>>
        /\ pc[e][r] = "poll"
    BY <1>0, <1>d DEF GetResult, GoOnTo, Goto, dbVars
  <2>2. QED
    BY <1>1, <1>2, <2>1 DEF ThreadKept
<1>e. CASE GiveUp(e, r)
  <2>1. /\ pc'[e][r] = "timeout" /\ pc[e][r] = "poll"
        /\ job'[e][r] = IF job[e][r] = "queued" THEN "none" ELSE job[e][r]
        /\ UNCHANGED <<ackPending, status>>
    BY <1>0, <1>e DEF GiveUp, Goto, dbVars
  <2>2. QED
    BY <1>1, <1>2, <2>1 DEF ThreadKept
<1>5. CASE ReportDone(e, r)
  <2>1. pc'[e][r] = "insert" /\ status'[r] = "DONE"
    BY <1>a, <1>5 DEF ReportDone
  <2>2. pc[e][r] = "done" /\ UNCHANGED <<job, ackPending>>
    BY <1>5 DEF ReportDone
  <2>3. QED
    BY <1>1, <1>2, <2>1, <2>2 DEF ThreadKept
<1>6. CASE ReportFailure(e, r)
  <2>1. \/ pc'[e][r] = "ack" /\ status'[r] = "FAILED"
        \/ pc'[e][r] = "idle"
    BY <1>0, <1>a, <1>6 DEF ReportFailure, Goto, ThreadEnds
  <2>2. pc[e][r] = "failed" /\ UNCHANGED <<job, ackPending>>
    BY <1>6 DEF ReportFailure
  <2>3. QED
    BY <1>1, <1>2, <2>1, <2>2 DEF ThreadKept, Complete, Terminal
<1>7. CASE ReportTimeout(e, r)
  <2>1. pc'[e][r] = "ack" /\ status'[r] = "TIMEOUT"
    BY <1>a, <1>7 DEF ReportTimeout
  <2>2. pc[e][r] = "timeout" /\ UNCHANGED <<job, ackPending>>
    BY <1>7 DEF ReportTimeout
  <2>3. QED
    BY <1>1, <1>2, <2>1, <2>2 DEF ThreadKept, Complete, Terminal
<1>8. CASE InsertDownload(e, r)
  <2>1. /\ status[r] = "DONE" /\ job[e][r] \in {"file", "huge", "empty"}
        /\ job[e][r] = "file" => r \in files
        /\ UNCHANGED <<job, ackPending, status>>
    BY <1>1, <1>8 DEF InsertDownload, ThreadKept, CommitDownload, dbVars
  <2>2. CASE pc'[e][r] = "idle"
    BY <1>1, <1>2, <2>1, <2>2 DEF ThreadKept
  <2>3. CASE /\ job[e][r] # "huge"
             /\ CommitDownload(r, IF job[e][r] = "empty" THEN "none" ELSE "file")
             /\ pc'[e][r] = "ack"
    <3> DEFINE path == IF job[e][r] = "empty" THEN "none" ELSE "file"
    <3>1. downloads'[r] = Append(downloads[r], path)
      BY <1>0, <2>3 DEF CommitDownload
    <3>2. /\ downloads'[r] # <<>>
          /\ downloads'[r][Len(downloads'[r])] = path
      <4>1. downloads[r] \in Seq(Paths) /\ path \in Paths
        BY <1>0 DEF Paths
      <4>2. /\ Append(downloads[r], path) # <<>>
            /\ Len(Append(downloads[r], path)) = Len(downloads[r]) + 1
            /\ Append(downloads[r], path)[Len(downloads[r]) + 1] = path
        BY <4>1, AppendProperties
      <4>3. QED
        BY <3>1, <4>2
    <3>3. path = "file" => r \in files'
      BY <1>2, <2>1, <2>3
    <3>4. Complete(r)'
      BY <2>1, <3>2, <3>3 DEF Complete, Terminal
    <3>5. QED
      BY <1>1, <1>2, <2>1, <2>3, <3>4 DEF ThreadKept
  <2>4. QED
    BY <1>0, <1>8, <2>2, <2>3 DEF InsertDownload, GoOnTo, Goto, ThreadEnds
<1>9. CASE ScheduleAck(e, r)
  <2>1. /\ UNCHANGED <<job, status, downloads>>
        /\ pc[e][r] = "ack" /\ pc'[e][r] \in {"restart", "idle"}
    BY <1>0, <1>9 DEF ScheduleAck, GoOnTo, Goto, ThreadEnds, dbVars
  <2>2. Complete(r) /\ Complete(r)'
    BY <1>1, <1>2, <2>1 DEF ThreadKept, Complete
  <2>3. job'[e][r] # "queued"
    BY <1>1, <2>1 DEF ThreadKept
  <2>4. ~Working(e, r)'
    BY <2>1 DEF Working, PreAck
  <2>5. QED
    BY <1>1, <1>2, <2>1, <2>2, <2>3, <2>4 DEF ThreadKept
<1>10. QED
  BY <1>b, <1>c, <1>d, <1>e, <1>3, <1>4, <1>5, <1>6, <1>7, <1>8, <1>9
     DEF ThreadStep, Working, PreAck, CloseCluster, CheckCluster, CreateCluster

(* After it: only the cluster and the tasks on it are touched.             *)
LEMMA PastAckThreadKept ==
    ASSUME TypeOK, AllKept, NEW e \in Executors, NEW r \in Requests,
           ~Working(e, r), ThreadStep(e, r)
    PROVE  UNCHANGED <<status, downloads>> /\ ThreadKept(e, r)'
<1>0. /\ pc \in [Executors -> [Requests -> {"idle"} \cup PreAck \cup PostAck]]
      /\ job \in [Executors -> [Requests -> JobStates]]
  BY DEF TypeOK, ExecutorTypeOK
<1>1. CloseCluster(e, r) \/ CheckCluster(e, r) \/ CreateCluster(e, r)
  BY DEF ThreadStep, Working, PreAck, Begin, SelectRequest, Updating,
         ReportRunning, Submit, GetResult, GiveUp, ReportDone, ReportFailure,
         ReportTimeout, InsertDownload, ScheduleAck
<1>2. /\ UNCHANGED <<status, downloads, ackPending, files, brokerVars>>
      /\ job' = job \/ JobsLost(e)
      /\ pc'[e][r] \in {"idle", "restart", "create"}
  BY <1>0, <1>1 DEF CloseCluster, CheckCluster, CreateCluster, GoOnTo, Goto,
     ThreadEnds, dbVars
<1>3. job'[e][r] = job[e][r] \/ job'[e][r] = "lost"
  BY <1>0, <1>2 DEF JobsLost
<1>4. ThreadKept(e, r) /\ (Complete(r) => Complete(r)')
  BY <1>2, CompleteStays DEF AllKept
<1>5. (Settled(r)' <=> Settled(r)) /\ (InBroker(r)' <=> InBroker(r))
      /\ accepted' = accepted
  BY <1>2, BrokerSteady
<1>6. ThreadKept(e, r)'
  BY <1>2, <1>3, <1>4, <1>5, ThreadKeptStays
<1>7. QED
  BY <1>2, <1>6

LEMMA ThreadStepSettles ==
    ASSUME OneExecutor, TypeOK, DeliveryInv, AllKept, LoadedIsCurrent,
           NEW e \in Executors, NEW r \in Requests,
           ThreadStep(e, r), UNCHANGED apiVars
    PROVE  AllKept'
<1>1. ThreadKept(e, r)'
  BY WorkingThreadKept, PastAckThreadKept
<1>2. ASSUME NEW q \in Requests \ {r}
      PROVE  ThreadKept(e, q)'
  <2>1. /\ status'[q] = status[q] /\ downloads'[q] = downloads[q]
        /\ pc'[e][q] = pc[e][q] /\ files' = files
        /\ \/ job'[e][q] = job[e][q]
           \/ job'[e][q] = "lost" /\ pc[e][q] \notin {"done", "insert"}
        /\ q \in ackPending'[e] => q \in ackPending[e]
    BY ThreadStepFrame
  <2>2. (Settled(q)' <=> Settled(q)) /\ (InBroker(q)' <=> InBroker(q))
        /\ accepted' = accepted
    BY ThreadStepFrame, BrokerSteady
  <2>3. ThreadKept(e, q) /\ (Complete(q) => Complete(q)')
    BY <2>1, CompleteStays DEF AllKept
  <2>4. QED
    BY <2>1, <2>2, <2>3, ThreadKeptStays
<1>3. ASSUME NEW q \in Requests
      PROVE  TablesKept(q)'
  <2>1. (Settled(q)' <=> Settled(q)) /\ accepted' = accepted /\ files' = files
    BY ThreadStepFrame, BrokerSteady
  <2>2. TablesKept(q)
    BY DEF AllKept
  <2>3. CASE q = r /\ Working(e, r)
    <3>1. ~Settled(r) /\ ~Unpublished(r)
      BY <2>3, WorkingIsUnsettled
    <3>2. ~Unpublished(r)'
      BY <3>1, ThreadStepWrites
         DEF Unpublished, CommitStatus, CommitDownload, RequestStatus, dbVars,
             apiVars, At, TypeOK, DBTypeOK
    <3>3. QED
      BY <2>1, <2>3, <3>1, <3>2 DEF TablesKept
  <2>4. CASE ~(q = r /\ Working(e, r))
    <3>1. status'[q] = status[q] /\ downloads'[q] = downloads[q]
      BY <2>4, ThreadStepFrame, PastAckThreadKept
    <3>2. Complete(q) => Complete(q)'
      BY <2>1, <3>1, CompleteStays
    <3>3. Unpublished(q)' => Unpublished(q)
      BY <3>1 DEF Unpublished, At, apiVars
    <3>4. QED
      BY <2>1, <2>2, <3>2, <3>3 DEF TablesKept
  <2>5. QED
    BY <2>3, <2>4
<1>4. QED
  BY <1>1, <1>2, <1>3 DEF AllKept, OneExecutor

------------------------------------------------------------------------------
(* The Dask workers: a file is truncated only while its request is not     *)
(* reported, and what a task returns is there.                             *)
LEMMA WorkerStepSettles ==
    ASSUME OneExecutor, TypeOK, DeliveryInv, AllKept,
           NEW e \in Executors, NEW r \in Requests,
           WorkerStep(e, r), UNCHANGED apiVars
    PROVE  AllKept'
<1>0. job \in [Executors -> [Requests -> JobStates]]
  BY DEF TypeOK, ExecutorTypeOK
<1>1. UNCHANGED <<pc, ackPending, status, downloads, brokerVars, api>>
  BY DEF WorkerStep, OpenResult, ProcessReturns, dbVars, apiVars
<1>2. \A q : /\ Settled(q)' <=> Settled(q)
             /\ InBroker(q)' <=> InBroker(q)
             /\ Unpublished(q)' <=> Unpublished(q)
             /\ accepted' = accepted
  BY <1>1, BrokerSteady DEF Unpublished, At
<1>3. \A q \in Requests \ {r} :
         job'[e][q] = job[e][q] /\ (q \in files => q \in files')
  BY <1>0 DEF WorkerStep, OpenResult, ProcessReturns
<1>4. ASSUME NEW q \in Requests \ {r}
      PROVE  TablesKept(q)' /\ ThreadKept(e, q)'
  <2>1. Complete(q) => Complete(q)'
    BY <1>1, <1>3, CompleteStays
  <2>2. ThreadKept(e, q)'
    BY <1>1, <1>2, <1>3, <2>1, ThreadKeptStays DEF AllKept
  <2>3. TablesKept(q)'
    BY <1>2, <2>1 DEF AllKept, TablesKept
  <2>4. QED
    BY <2>2, <2>3
<1>5. TablesKept(r)' /\ ThreadKept(e, r)'
  <2>0. ThreadKept(e, r) /\ TablesKept(r) /\ (Working(e, r)' <=> Working(e, r))
    BY <1>1 DEF AllKept, Working
  <2>1. CASE OpenResult(e, r)
    <3>1. job[e][r] = "queued" /\ job'[e][r] = "writing"
      BY <1>0, <2>1 DEF OpenResult
    <3>2. /\ pc[e][r] \notin {"done", "failed", "timeout", "insert", "ack"}
          /\ r \notin ackPending[e] /\ ~Settled(r)
      BY <2>0, <3>1 DEF ThreadKept
    <3>3. ThreadKept(e, r)'
      BY <1>1, <1>2, <2>0, <3>1, <3>2 DEF ThreadKept
    <3>4. QED
      BY <1>2, <2>0, <3>2, <3>3 DEF TablesKept
  <2>2. ASSUME NEW outcome \in Outcomes, ProcessReturns(e, r, outcome)
        PROVE  TablesKept(r)' /\ ThreadKept(e, r)'
    <3>1. /\ job[e][r] \in {"queued", "writing"}
          /\ job'[e][r] = outcome
          /\ r \in files => r \in files'
          /\ outcome \in {"file", "huge"} => r \in files'
      BY <1>0, <2>2 DEF ProcessReturns
    <3>2. outcome # "queued" /\ pc[e][r] \notin {"done", "insert"}
      BY <2>0, <3>1, OutcomesAssumption DEF ThreadKept, JobResults
    <3>3. Complete(r) => Complete(r)'
      BY <1>1, <3>1, CompleteStays
    <3>4. ThreadKept(e, r)'
      BY <1>1, <1>2, <2>0, <3>1, <3>2, <3>3 DEF ThreadKept
    <3>5. QED
      BY <1>2, <2>0, <3>3, <3>4 DEF TablesKept
  <2>3. QED
    BY <2>1, <2>2 DEF WorkerStep
<1>6. QED
  BY <1>4, <1>5 DEF AllKept, OneExecutor

------------------------------------------------------------------------------
(* The main thread and the faults write no table and no file.  They end    *)
(* threads and lose tasks; a message goes back to the queue, or is settled *)
(* by its acknowledgement, or is lost with the whole queue.                *)
TablesSteady == UNCHANGED <<status, downloads, files, api>>

ThreadsNoWorse(e) ==
    \A q \in Requests :
        /\ pc'[e][q] = pc[e][q] \/ pc'[e][q] \in {"idle", "restart", "create"}
        /\ \/ job'[e][q] = job[e][q]
           \/ /\ job'[e][q] \notin {"file", "huge", "queued"}
              /\ pc'[e][q] \notin {"done", "insert"}
        /\ q \in ackPending'[e] => q \in ackPending[e]

BrokerNoWorse ==
    /\ accepted' \subseteq accepted
    /\ \A q \in Requests :
          /\ Settled(q)' => Settled(q)
          /\ InBroker(q) \/ q \notin accepted =>
                (InBroker(q) \/ q \notin accepted)'

LEMMA QuietStepSettles ==
    ASSUME OneExecutor, TypeOK, AllKept, NEW e \in Executors,
           TablesSteady, ThreadsNoWorse(e), BrokerNoWorse
    PROVE  AllKept'
<1>1. ASSUME NEW q \in Requests PROVE TablesKept(q)' /\ ThreadKept(e, q)'
  <2>1. Complete(q) => Complete(q)'
    BY CompleteStays DEF TablesSteady
  <2>2. ThreadKept(e, q)'
    BY <2>1, ThreadKeptStays DEF AllKept, TablesSteady, ThreadsNoWorse, BrokerNoWorse
  <2>3. Unpublished(q)' => Unpublished(q)
    BY DEF Unpublished, At, TablesSteady
  <2>4. TablesKept(q)'
    BY <2>1, <2>3 DEF AllKept, TablesKept, BrokerNoWorse
  <2>5. QED
    BY <2>2, <2>4
<1>2. QED
  BY <1>1 DEF AllKept, OneExecutor

LEMMA UnchangedBroker ==
    ASSUME UNCHANGED <<queue, unacked, accepted>>
    PROVE  BrokerNoWorse
  BY DEF BrokerNoWorse, Settled, InBroker, InFlight

LEMMA RequeueSteady ==
    ASSUME TypeOK, NEW e \in Executors, Requeue(e)
    PROVE  BrokerNoWorse /\ \A q : Settled(q)' <=> Settled(q)
<1>1. unacked \in [Executors -> SUBSET Requests]
  BY DEF TypeOK, BrokerTypeOK
<1>2. \A q : InBroker(q)' <=> InBroker(q)
  BY <1>1 DEF Requeue, InBroker, InFlight
<1>3. accepted' = accepted
  BY DEF Requeue
<1>4. QED
  BY <1>2, <1>3 DEF Settled, BrokerNoWorse

(* A message is delivered: its new thread has done nothing yet.            *)
LEMMA OnMessageSettles ==
    ASSUME OneExecutor, TypeOK, DeliveryInv, AllKept,
           NEW e \in Executors, NEW r \in Requests,
           OnMessage(e, r), UNCHANGED apiVars
    PROVE  AllKept'
<1>0. /\ pc \in [Executors -> [Requests -> {"idle"} \cup PreAck \cup PostAck]]
      /\ unacked \in [Executors -> SUBSET Requests]
  BY DEF TypeOK, ExecutorTypeOK, BrokerTypeOK
<1>1. /\ UNCHANGED <<status, downloads, files, api, job, ackPending, accepted>>
      /\ pc'[e][r] = "start" /\ r \in queue
      /\ \A q \in Requests \ {r} : pc'[e][q] = pc[e][q]
  BY <1>0 DEF OnMessage, BasicDeliver, Goto, dbVars, apiVars
<1>2. \A q : InBroker(q)' <=> InBroker(q)
  BY <1>0 DEF OnMessage, BasicDeliver, InBroker, InFlight
<1>3. \A q : Settled(q)' <=> Settled(q)
  BY <1>1, <1>2 DEF Settled
<1>4. ASSUME NEW q \in Requests PROVE TablesKept(q)' /\ ThreadKept(e, q)'
  <2>1. Complete(q) => Complete(q)'
    BY <1>1, CompleteStays
  <2>2. TablesKept(q)'
    BY <1>1, <1>3, <2>1 DEF AllKept, TablesKept, Unpublished, At
  <2>3. CASE q = r
    <3>1. InBroker(r)' /\ ThreadKept(e, r)
      BY <1>1, <1>2 DEF InBroker, AllKept
    <3>2. QED
      BY <1>1, <1>3, <2>1, <2>2, <2>3, <3>1 DEF ThreadKept
  <2>4. CASE q # r
    BY <1>1, <1>2, <1>3, <2>1, <2>2, <2>4, ThreadKeptStays DEF AllKept
  <2>5. QED
    BY <2>3, <2>4
<1>5. QED
  BY <1>4 DEF AllKept, OneExecutor

(* An acknowledgement settles a request, and only a complete one has been  *)
(* handed over.                                                            *)
LEMMA AckSettles ==
    ASSUME TypeOK, DeliveryInv, AllKept,
           NEW e \in Executors, NEW r \in Requests, AckMessage(e, r)
    PROVE  /\ Complete(r) /\ job[e][r] # "queued"
           /\ accepted' = accepted
           /\ \A q : q # r => (InBroker(q)' <=> InBroker(q))
           /\ ~InBroker(r)'
           /\ \A q : Settled(q)' <=> Settled(q) \/ (q = r /\ r \in accepted)
<1>0. unacked \in [Executors -> SUBSET Requests]
  BY DEF TypeOK, BrokerTypeOK
<1>1. /\ r \in ackPending[e] /\ UNCHANGED <<queue, accepted>>
      /\ unacked'[e] = unacked[e] \ {r}
      /\ \A f \in Executors \ {e} : unacked'[f] = unacked[f]
  BY <1>0 DEF AckMessage, BasicAck
<1>2. Complete(r) /\ job[e][r] # "queued"
  BY <1>1 DEF AllKept, ThreadKept
<1>3. r \in unacked[e]
  BY <1>1 DEF DeliveryInv, HandedOverIsHeld
<1>4. ~InBroker(r)'
  BY <1>1, <1>3 DEF DeliveryInv, MessageInOnePlace, InBroker, InFlight
<1>5. \A q : q # r => (InBroker(q)' <=> InBroker(q))
  BY <1>1 DEF InBroker, InFlight
<1>6. \A q : Settled(q)' <=> Settled(q) \/ (q = r /\ r \in accepted)
  <2>1. InBroker(r)
    BY <1>3 DEF InBroker, InFlight
  <2>2. QED
    BY <1>1, <1>4, <1>5, <2>1 DEF Settled
<1>7. QED
  BY <1>1, <1>2, <1>4, <1>5, <1>6

LEMMA AckMessageSettles ==
    ASSUME OneExecutor, TypeOK, DeliveryInv, AllKept,
           NEW e \in Executors, NEW r \in Requests,
           AckMessage(e, r), UNCHANGED apiVars
    PROVE  AllKept'
<1>1. /\ UNCHANGED <<status, downloads, files, api, pc, job>>
      /\ \A q \in Requests : q \in ackPending'[e] => q \in ackPending[e]
  BY DEF AckMessage, dbVars, apiVars, TypeOK, ExecutorTypeOK
<1>2. ~Working(e, r)
  BY WorkingIsUnsettled DEF AckMessage
<1>3. /\ accepted' = accepted
      /\ \A q : Settled(q)' => Settled(q) \/ (Complete(q) /\ job[e][q] # "queued")
      /\ \A q : q # r => (InBroker(q)' <=> InBroker(q))
  BY AckSettles
<1>4. ASSUME NEW q \in Requests PROVE TablesKept(q)' /\ ThreadKept(e, q)'
  <2>1. Complete(q) => Complete(q)'
    BY <1>1, CompleteStays
  <2>2. TablesKept(q)'
    BY <1>1, <1>3, <2>1 DEF AllKept, TablesKept, Unpublished, At
  <2>3. ThreadKept(e, q) /\ (Working(e, q)' <=> Working(e, q))
    BY <1>1 DEF AllKept, Working
  <2>4. QED
    BY <1>1, <1>2, <1>3, <2>1, <2>2, <2>3 DEF ThreadKept
<1>5. QED
  BY <1>4 DEF AllKept, OneExecutor

LEMMA MainStepSettles ==
    ASSUME OneExecutor, TypeOK, DeliveryInv, AllKept,
           NEW e \in Executors, MainStep(e), UNCHANGED apiVars
    PROVE  AllKept'
<1>0. /\ ackPending \in [Executors -> SUBSET Requests]
      /\ pc \in [Executors -> [Requests -> {"idle"} \cup PreAck \cup PostAck]]
      /\ job \in [Executors -> [Requests -> JobStates]]
  BY DEF TypeOK, ExecutorTypeOK
<1>1. CASE StartExecutor(e)
  <2>1. TablesSteady
    BY <1>1 DEF TablesSteady, StartExecutor, dbVars, apiVars
  <2>2. ThreadsNoWorse(e)
    BY <1>1 DEF ThreadsNoWorse, StartExecutor
  <2>3. BrokerNoWorse
    BY <1>1, UnchangedBroker DEF StartExecutor, QueueDeclare
  <2>4. QED
    BY <2>1, <2>2, <2>3, QuietStepSettles
<1>2. CASE ConsumerTimeout(e)
  <2>1. TablesSteady
    BY <1>2 DEF TablesSteady, ConsumerTimeout, dbVars, apiVars
  <2>2. ThreadsNoWorse(e)
    BY <1>0, <1>2 DEF ThreadsNoWorse, ConsumerTimeout, MainThreadDies
  <2>3. BrokerNoWorse
    BY <1>2, RequeueSteady DEF ConsumerTimeout
  <2>4. QED
    BY <2>1, <2>2, <2>3, QuietStepSettles
<1>3. CASE ProcessExit(e)
  <2>1. TablesSteady
    BY <1>3 DEF TablesSteady, ProcessExit, ProcessGone, dbVars, apiVars
  <2>2. ThreadsNoWorse(e)
    BY <1>0, <1>3 DEF ThreadsNoWorse, ProcessExit, ProcessGone
  <2>3. BrokerNoWorse
    BY <1>3, UnchangedBroker DEF ProcessExit, brokerVars
  <2>4. QED
    BY <2>1, <2>2, <2>3, QuietStepSettles
<1>4. QED
  BY <1>1, <1>2, <1>3, OnMessageSettles, AckMessageSettles DEF MainStep

(* The broker's restart forgets the messages it holds: what it had settled *)
(* stays settled, the rest was never accepted.                             *)
LEMMA LoseQueueSteady ==
    ASSUME TypeOK, LoseQueue
    PROVE  BrokerNoWorse /\ \A q : Settled(q)' <=> Settled(q)
<1>1. \A q : ~InBroker(q)'
  BY DEF LoseQueue, InBroker, InFlight
<1>2. accepted' = {r \in accepted : ~InBroker(r)}
  BY DEF LoseQueue
<1>3. \A q : q \in accepted' <=> Settled(q)
  BY <1>2 DEF Settled
<1>4. \A q : Settled(q)' <=> Settled(q)
  BY <1>1, <1>3 DEF Settled
<1>5. \A q : InBroker(q) \/ q \notin accepted => q \notin accepted'
  BY <1>3 DEF Settled
<1>6. QED
  BY <1>2, <1>4, <1>5 DEF BrokerNoWorse

LEMMA ExecutorFaultSettles ==
    ASSUME OneExecutor, TypeOK, DeliveryInv, AllKept, ExecutorFault,
           UNCHANGED apiVars, NEW e \in Executors
    PROVE  AllKept'
<1>0. /\ ackPending \in [Executors -> SUBSET Requests]
      /\ pc \in [Executors -> [Requests -> {"idle"} \cup PreAck \cup PostAck]]
      /\ job \in [Executors -> [Requests -> JobStates]]
  BY DEF TypeOK, ExecutorTypeOK
<1>1. CASE BrokerRestart
  <2>1. TablesSteady
    BY <1>1 DEF TablesSteady, BrokerRestart, dbVars, apiVars
  <2>2. ThreadsNoWorse(e)
    BY <1>1 DEF ThreadsNoWorse, BrokerRestart
  <2>3. BrokerNoWorse
    BY <1>1, LoseQueueSteady DEF BrokerRestart
  <2>4. QED
    BY <2>1, <2>2, <2>3, QuietStepSettles
<1>2. CASE ConnectionLost(e)
  <2>1. TablesSteady
    BY <1>2 DEF TablesSteady, ConnectionLost, dbVars, apiVars
  <2>2. ThreadsNoWorse(e)
    BY <1>0, <1>2 DEF ThreadsNoWorse, ConnectionLost, MainThreadDies
  <2>3. BrokerNoWorse
    BY <1>2, RequeueSteady DEF ConnectionLost
  <2>4. QED
    BY <2>1, <2>2, <2>3, QuietStepSettles
<1>3. CASE Crash(e)
  <2>1. TablesSteady
    BY <1>3 DEF TablesSteady, Crash, ProcessGone, dbVars, apiVars
  <2>2. ThreadsNoWorse(e)
    BY <1>0, <1>3 DEF ThreadsNoWorse, Crash, ProcessGone
  <2>3. BrokerNoWorse
    BY <1>3, RequeueSteady DEF Crash
  <2>4. QED
    BY <2>1, <2>2, <2>3, QuietStepSettles
<1>4. CASE ClusterFails(e)
  <2>1. TablesSteady
    BY <1>4 DEF TablesSteady, ClusterFails, dbVars, apiVars
  <2>2. ThreadsNoWorse(e)
    BY <1>0, <1>4 DEF ThreadsNoWorse, ClusterFails, JobsLost
  <2>3. BrokerNoWorse
    BY <1>4, UnchangedBroker DEF ClusterFails, brokerVars
  <2>4. QED
    BY <2>1, <2>2, <2>3, QuietStepSettles
<1>5. ASSUME NEW r \in Requests, ThreadDies(e, r)
      PROVE  AllKept'
  <2>1. TablesSteady
    BY <1>5 DEF TablesSteady, ThreadDies, dbVars, apiVars
  <2>2. ThreadsNoWorse(e)
    BY <1>0, <1>5 DEF ThreadsNoWorse, ThreadDies, ThreadEnds, Goto
  <2>3. BrokerNoWorse
    BY <1>5, UnchangedBroker DEF ThreadDies, brokerVars
  <2>4. QED
    BY <2>1, <2>2, <2>3, QuietStepSettles
<1>6. QED
  BY <1>1, <1>2, <1>3, <1>4, <1>5 DEF ExecutorFault, OneExecutor

------------------------------------------------------------------------------
(* The API.                                                                *)
LEMMA ApiBroker ==
    ASSUME TypeOK, EndpointHasRow, AllKept, ApiNext, NEW q
    PROVE  /\ Settled(q)' <=> Settled(q)
           /\ InBroker(q) \/ q \notin accepted => (InBroker(q) \/ q \notin accepted)'
<1>1. unacked' = unacked
  BY ApiFrame
<1>2. CASE UNCHANGED <<queue, accepted>>
  BY <1>1, <1>2 DEF Settled, InBroker, InFlight
<1>3. CASE /\ Publish
           /\ queue' = queue \cup {api.req}
           /\ accepted' = accepted \cup {api.req}
  <2>1. api.req \in queue'
    BY <1>3
  <2>2. api.req \notin accepted
    BY <1>3 DEF Publish, EndpointHasRow, At, Unpublished, AllKept, TablesKept
  <2>3. CASE q = api.req
    BY <1>3, <2>1, <2>2, <2>3 DEF Settled, InBroker
  <2>4. CASE q # api.req
    BY <1>1, <1>3, <2>4 DEF Settled, InBroker, InFlight
  <2>5. QED
    BY <2>3, <2>4
<1>4. QED
  BY <1>2, <1>3, ApiFrame

LEMMA ApiStepSettles ==
    ASSUME TypeOK, EndpointHasRow, AllKept, ApiNext
    PROVE  AllKept'
<1>0. status \in [Requests -> RequestStatus \cup {"NOROW"}]
  BY DEF TypeOK, DBTypeOK
<1>1. /\ UNCHANGED <<pc, job, ackPending, files, downloads>>
      /\ \A q \in Requests : status[q] # "NOROW" => status'[q] = status[q]
  BY ApiFrame
<1>2. ASSUME NEW q \in Requests PROVE Complete(q) => Complete(q)'
  BY <1>1 DEF Complete, Terminal
<1>3. ASSUME NEW q \in Requests PROVE TablesKept(q)'
  <2>1. Settled(q)' => Complete(q)'
    BY <1>2, ApiBroker DEF AllKept, TablesKept
  <2>2. ASSUME Unpublished(q)' PROVE q \notin accepted'
    <3>1. Unpublished(q) /\ ~(Publish /\ q = api.req)
      BY <2>2, ApiUnpublished
    <3>2. q \notin accepted
      BY <3>1 DEF AllKept, TablesKept
    <3>3. QED
      BY <3>1, <3>2, ApiFrame
  <2>3. QED
    BY <2>1, <2>2 DEF TablesKept
<1>4. ASSUME NEW e \in Executors, NEW q \in Requests PROVE ThreadKept(e, q)'
  BY <1>1, <1>2, ApiBroker, ThreadKeptStays DEF AllKept
<1>5. QED
  BY <1>3, <1>4 DEF AllKept

------------------------------------------------------------------------------
LEMMA SettlementInductive ==
    ASSUME OneExecutor
    PROVE  TypeInv /\ TypeInv' /\ DeliveryInv /\ SettlementInv /\ [Next]_vars
               => SettlementInv'
<1> SUFFICES ASSUME TypeInv, TypeInv', DeliveryInv, SettlementInv, [Next]_vars
             PROVE  SettlementInv'
  OBVIOUS
<1>0. TypeOK /\ TypeOK' /\ EndpointHasRow
  BY DEF TypeInv
<1>1. AllKept /\ LoadedIsCurrent
  BY <1>0, SettlementIsAllKept
<1>2. PICK e \in Executors : TRUE
  BY DEF OneExecutor
<1>3. SUFFICES AllKept'
  <2>1. (SettlementInv <=> AllKept /\ LoadedIsCurrent)'
    BY <1>0, SettlementIsAllKept, PTL
  <2>2. LoadedIsCurrent'
    BY <1>1, LoadedInductive DEF OneExecutor
  <2>3. QED
    BY <2>1, <2>2
<1>4. CASE ApiNext
  BY <1>0, <1>1, <1>4, ApiStepSettles
<1>5. CASE ExecutorNext
  BY <1>0, <1>1, <1>2, <1>5, MainStepSettles, ThreadStepSettles,
     WorkerStepSettles, ExecutorFaultSettles DEF ExecutorNext
<1>6. CASE UNCHANGED vars
  <2>1. TablesSteady
    BY <1>6 DEF TablesSteady, vars, dbVars, apiVars
  <2>2. ThreadsNoWorse(e)
    BY <1>6 DEF ThreadsNoWorse, vars, executorVars
  <2>3. BrokerNoWorse
    BY <1>6, UnchangedBroker DEF vars, brokerVars
  <2>4. QED
    BY <1>0, <1>1, <1>2, <2>1, <2>2, <2>3, QuietStepSettles
<1>7. QED
  BY <1>4, <1>5, <1>6 DEF Next

(* With one executor, whatever the faults and however many the requests.   *)
THEOREM SettlementAlways ==
    ASSUME OneExecutor
    PROVE  Spec => []SettlementInv
<1>1. TypeInv /\ TypeInv' /\ DeliveryInv /\ SettlementInv /\ [Next]_vars
         => SettlementInv'
  BY SettlementInductive
<1>2. QED
  BY <1>1, SettlementInit, DeliveryAlways, TypeInvAlways, PTL DEF Spec

(* No request whose message was routed is forgotten: once the broker holds *)
(* it no more, its row says DONE, FAILED or TIMEOUT.                       *)
THEOREM NoLostRequestAlways ==
    ASSUME OneExecutor
    PROVE  Spec => []NoLostRequest
<1>1. SettlementInv => NoLostRequest
  BY DEF SettlementInv, SettledIsComplete, Complete, NoLostRequest
<1>2. QED
  BY <1>1, SettlementAlways, PTL

(* A settled DONE has its Download row, and the file of the newest row is  *)
(* complete.                                                               *)
THEOREM SettledDoneHasResultAlways ==
    ASSUME OneExecutor
    PROVE  Spec => []SettledDoneHasResult
<1>1. SettlementInv => SettledDoneHasResult
  BY DEF SettlementInv, SettledIsComplete, Complete, SettledDoneHasResult
<1>2. QED
  BY <1>1, SettlementAlways, PTL

------------------------------------------------------------------------------
(* The refinement: threads, commits, deliveries, lost connections and      *)
(* restarts come to the five steps of RequestLifecycle, or to no step of   *)
(* it.  The invariants do the work: a thread that is about to write a      *)
(* status works on a message that is in the broker or lost with it, so its *)
(* request is not settled; what is acknowledged is complete.               *)

(* One step of the promise, or none.                                       *)
Promised == [Lifecycle!Next]_(Lifecycle!lifecycleVars)

(* What commits nothing and settles nothing is no step of the promise.     *)
LEMMA QuietIsStutter ==
    ASSUME UNCHANGED <<status, downloads>>,
           \A q \in Requests : Settled(q)' <=> Settled(q)
    PROVE  Promised
<1>1. {r \in Requests : downloads[r] # <<>>}' = {r \in Requests : downloads[r] # <<>>}
  OBVIOUS
<1>2. {r \in Requests : Settled(r)}' = {r \in Requests : Settled(r)}
  OBVIOUS
<1>3. QED
  BY <1>1, <1>2 DEF Promised, Lifecycle!lifecycleVars

(* What writes a status and settles nothing leaves results and settled.    *)
LEMMA StatusWriteFrame ==
    ASSUME UNCHANGED downloads,
           \A q \in Requests : Settled(q)' <=> Settled(q)
    PROVE  /\ {r \in Requests : downloads[r] # <<>>}'
                 = {r \in Requests : downloads[r] # <<>>}
           /\ {r \in Requests : Settled(r)}' = {r \in Requests : Settled(r)}
  OBVIOUS

LEMMA InitIsPromised ==
    Init => Lifecycle!Init
<1> SUFFICES ASSUME Init PROVE Lifecycle!Init
  OBVIOUS
<1>1. status = [r \in Requests |-> "NOROW"]
  BY DEF Init, DBInit
<1>2. {r \in Requests : downloads[r] # <<>>} = {}
  BY DEF Init, DBInit
<1>3. {r \in Requests : Settled(r)} = {}
  BY DEF Init, BrokerInit, Settled
<1>4. QED
  BY <1>1, <1>2, <1>3 DEF Lifecycle!Init

(* The API creates rows, and publishes what is not settled before or after.*)
LEMMA ApiStepPromised ==
    ASSUME TypeOK, EndpointHasRow, AllKept, ApiNext
    PROVE  Promised
<1>1. \A q \in Requests : Settled(q)' <=> Settled(q)
  BY ApiBroker
<1>2. UNCHANGED downloads
  BY ApiFrame
<1>3. \/ UNCHANGED status
      \/ \E r \in Requests : CreateRequest(r)
  BY DEF ApiNext, EndpointStep, EndpointCall, ApiFails, AcceptQuery,
         AcceptWorkflow, Register, Publish, SyncPoll, SyncFetch, GetStatus,
         GetSize, GetUri, GetUriStatus, Download, DownloadFetch, dbVars
<1>4. CASE UNCHANGED status
  BY <1>1, <1>2, <1>4, QuietIsStutter
<1>5. ASSUME NEW r \in Requests, CreateRequest(r) PROVE Promised
  <2>1. Lifecycle!Create(r)
    BY <1>1, <1>2, <1>5, StatusWriteFrame DEF Lifecycle!Create, CreateRequest
  <2>2. QED
    BY <2>1 DEF Promised, Lifecycle!Next
<1>6. QED
  BY <1>3, <1>4, <1>5

(* A commit of the first kind is an attempt, or the end of one.            *)
LEMMA CommitPromised ==
    ASSUME TypeOK, NEW r \in Requests, NEW st,
           status' = [status EXCEPT ![r] = st], UNCHANGED downloads, ~Settled(r),
           \A q \in Requests : Settled(q)' <=> Settled(q),
           \/ st = "RUNNING" /\ status[r] # "NOROW"
           \/ st \in Terminal /\ status[r] = "RUNNING"
    PROVE  Promised
<1>2. r \notin {q \in Requests : Settled(q)}
  OBVIOUS
<1>3. CASE st = "RUNNING" /\ status[r] # "NOROW"
  <2>1. Lifecycle!Attempt(r)
    BY <1>2, <1>3, StatusWriteFrame DEF Lifecycle!Attempt
  <2>2. QED
    BY <2>1 DEF Promised, Lifecycle!Next
<1>4. CASE st \in Terminal /\ status[r] = "RUNNING"
  <2>1. Lifecycle!Finish(r)
    BY <1>2, <1>4, StatusWriteFrame
       DEF Lifecycle!Finish, Lifecycle!Final, Terminal
  <2>2. QED
    BY <2>1 DEF Promised, Lifecycle!Next
<1>5. QED
  BY <1>3, <1>4

(* A commit of the second kind is a delivery.                              *)
LEMMA CommitDownloadPromised ==
    ASSUME TypeOK, NEW r \in Requests, NEW path,
           CommitDownload(r, path), ~Settled(r), status[r] = "DONE",
           \A q \in Requests : Settled(q)' <=> Settled(q)
    PROVE  Promised
<1>1. downloads \in [Requests -> Seq(Paths)]
  BY DEF TypeOK, DBTypeOK
<1>2. downloads' = [downloads EXCEPT ![r] = Append(@, path)] /\ UNCHANGED status
  BY DEF CommitDownload
<1>3. downloads'[r] = Append(downloads[r], path)
  BY <1>1, <1>2
<1>4. downloads[r] \in Seq(Paths)
  BY <1>1
<1>5. downloads'[r] # <<>>
  BY <1>3, <1>4
<1>6. \A q \in Requests : q # r => downloads'[q] = downloads[q]
  BY <1>1, <1>2
<1>7. {q \in Requests : downloads[q] # <<>>}'
        = {q \in Requests : downloads[q] # <<>>} \cup {r}
  BY <1>5, <1>6
<1>8. {q \in Requests : Settled(q)}' = {q \in Requests : Settled(q)}
  OBVIOUS
<1>9. Lifecycle!Deliver(r)
  BY <1>2, <1>7, <1>8 DEF Lifecycle!Deliver
<1>10. QED
  BY <1>9 DEF Promised, Lifecycle!Next

LEMMA ThreadStepPromised ==
    ASSUME TypeOK, DeliveryInv, AllKept, LoadedIsCurrent,
           NEW e \in Executors, NEW r \in Requests, ThreadStep(e, r)
    PROVE  Promised
<1>1. \A q \in Requests : Settled(q)' <=> Settled(q)
  BY ThreadStepFrame, BrokerSteady
<1>2. Working(e, r) => ~Settled(r) /\ status[r] # "NOROW"
  BY WorkingIsUnsettled DEF Unpublished
<1>3. ThreadKept(e, r)
  BY DEF AllKept
<1>4. CASE UNCHANGED <<status, downloads>>
  BY <1>1, <1>4, QuietIsStutter
<1>5. ASSUME NEW st, NEW why, NEW label, Report(e, r, st, why, label),
             \/ st = "RUNNING" /\ pc[e][r] = "running"
             \/ st \in Terminal /\ pc[e][r] \in {"done", "failed", "timeout"}
      PROVE  Promised
  <2>1. /\ Working(e, r)
        /\ st \in Terminal => status[r] = "RUNNING"
    BY <1>3, <1>5 DEF Working, PreAck, ThreadKept, Terminal
  <2>2. LoadedKept(e, r)
    BY DEF LoadedKept, LoadedIsCurrent
  <2>3. status' = [status EXCEPT ![r] = st] /\ UNCHANGED downloads
    BY <1>5, <2>2, ReportWrites
  <2>4. QED
    BY <1>1, <1>2, <1>5, <2>1, <2>3, CommitPromised
<1>6. CASE \/ ReportRunning(e, r) \/ ReportDone(e, r)
           \/ ReportFailure(e, r) \/ ReportTimeout(e, r)
  <2>1. CASE UNCHANGED dbVars
    BY <1>4, <2>1 DEF dbVars
  <2>2. CASE ReportRunning(e, r)
    BY <1>5, <2>2 DEF ReportRunning
  <2>3. CASE ~UNCHANGED dbVars /\ ~ReportRunning(e, r)
    <3>1. \/ pc[e][r] = "done" /\ Report(e, r, "DONE", "none", "insert")
          \/ pc[e][r] = "failed" /\ Report(e, r, "FAILED", "error", "ack")
          \/ pc[e][r] = "timeout" /\ Report(e, r, "TIMEOUT", "timeout", "ack")
      BY <1>6, <2>3 DEF ReportDone, ReportFailure, ReportTimeout
    <3>2. {"DONE", "FAILED", "TIMEOUT"} \subseteq Terminal
      BY DEF Terminal
    <3>3. QED
      BY <1>5, <3>1, <3>2
  <2>4. QED
    BY <2>1, <2>2, <2>3
<1>7. CASE pc[e][r] = "insert" /\ \E path : CommitDownload(r, path)
  <2>1. Working(e, r) /\ status[r] = "DONE"
    BY <1>3, <1>7 DEF Working, PreAck, ThreadKept
  <2>2. QED
    BY <1>1, <1>2, <1>7, <2>1, CommitDownloadPromised
<1>8. CASE ~(\/ ReportRunning(e, r) \/ ReportDone(e, r)
             \/ ReportFailure(e, r) \/ ReportTimeout(e, r))
  <2>1. \/ UNCHANGED <<status, downloads>>
        \/ pc[e][r] = "insert" /\ \E path : CommitDownload(r, path)
    BY <1>8 DEF ThreadStep, Begin, SelectRequest, Submit, GetResult, GiveUp,
       InsertDownload, ScheduleAck, CloseCluster, CheckCluster, CreateCluster,
       dbVars
  <2>2. QED
    BY <1>4, <1>7, <2>1
<1>9. QED
  BY <1>6, <1>8

(* The acknowledgement settles the request, if its message was not lost.   *)
LEMMA AckMessagePromised ==
    ASSUME TypeOK, DeliveryInv, AllKept,
           NEW e \in Executors, NEW r \in Requests, AckMessage(e, r)
    PROVE  Promised
<1>1. /\ Complete(r)
      /\ accepted' = accepted
      /\ \A q : q # r => (InBroker(q)' <=> InBroker(q))
      /\ ~InBroker(r)'
  BY AckSettles
<1>2. UNCHANGED <<status, downloads>>
  BY DEF AckMessage, dbVars
<1>3. \A q : q # r => (Settled(q)' <=> Settled(q))
  BY <1>1 DEF Settled
<1>4. Settled(r)' <=> r \in accepted
  BY <1>1 DEF Settled
<1>5. CASE r \notin accepted
  <2>1. \A q \in Requests : Settled(q)' <=> Settled(q)
    BY <1>3, <1>4, <1>5 DEF Settled
  <2>2. QED
    BY <1>2, <2>1, QuietIsStutter
<1>6. CASE r \in accepted
  <2>1. {q \in Requests : Settled(q)}' = {q \in Requests : Settled(q)} \cup {r}
    BY <1>3, <1>4, <1>6
  <2>2. status[r] \in Lifecycle!Final
    BY <1>1 DEF Complete, Terminal, Lifecycle!Final
  <2>3. status[r] = "DONE" => r \in {q \in Requests : downloads[q] # <<>>}
    BY <1>1 DEF Complete
  <2>4. {q \in Requests : downloads[q] # <<>>}'
          = {q \in Requests : downloads[q] # <<>>}
    BY <1>2
  <2>5. Lifecycle!Settle(r)
    BY <1>2, <2>1, <2>2, <2>3, <2>4 DEF Lifecycle!Settle
  <2>6. QED
    BY <2>5 DEF Promised, Lifecycle!Next
<1>7. QED
  BY <1>5, <1>6

(* A delivery takes a message from the queue to a consumer: it is in the   *)
(* broker before and after.                                                *)
LEMMA OnMessagePromised ==
    ASSUME TypeOK, NEW e \in Executors, NEW r \in Requests, OnMessage(e, r)
    PROVE  Promised
<1>1. unacked \in [Executors -> SUBSET Requests]
  BY DEF TypeOK, BrokerTypeOK
<1>2. /\ r \in queue
      /\ queue' = queue \ {r}
      /\ unacked' = [unacked EXCEPT ![e] = @ \cup {r}]
      /\ accepted' = accepted
      /\ UNCHANGED <<status, downloads>>
  BY DEF OnMessage, BasicDeliver, dbVars
<1>3. ASSUME NEW q PROVE InBroker(q)' <=> InBroker(q)
  <2>1. unacked'[e] = unacked[e] \cup {r}
    BY <1>1, <1>2
  <2>2. \A f \in Executors : f # e => unacked'[f] = unacked[f]
    BY <1>1, <1>2
  <2>3. q \in InFlight' <=> q \in InFlight \/ q = r
    BY <2>1, <2>2 DEF InFlight
  <2>4. QED
    BY <1>2, <2>3 DEF InBroker
<1>4. \A q \in Requests : Settled(q)' <=> Settled(q)
  BY <1>2, <1>3 DEF Settled
<1>5. QED
  BY <1>2, <1>4, QuietIsStutter

LEMMA MainStepPromised ==
    ASSUME TypeOK, DeliveryInv, AllKept, NEW e \in Executors, MainStep(e)
    PROVE  Promised
<1>1. CASE StartExecutor(e)
  <2>1. UNCHANGED <<queue, unacked, accepted, status, downloads>>
    BY <1>1 DEF StartExecutor, QueueDeclare, dbVars
  <2>2. \A q \in Requests : Settled(q)' <=> Settled(q)
    BY <2>1 DEF Settled, InBroker, InFlight
  <2>3. QED
    BY <2>1, <2>2, QuietIsStutter
<1>2. CASE ConsumerTimeout(e)
  BY <1>2, RequeueSteady, QuietIsStutter DEF ConsumerTimeout, dbVars
<1>3. CASE ProcessExit(e)
  BY <1>3, BrokerSteady, QuietIsStutter DEF ProcessExit, dbVars
<1>4. CASE \E r \in Requests : OnMessage(e, r) \/ AckMessage(e, r)
  BY <1>4, OnMessagePromised, AckMessagePromised
<1>5. QED
  BY <1>1, <1>2, <1>3, <1>4 DEF MainStep

LEMMA WorkerStepPromised ==
    ASSUME NEW e \in Executors, NEW r \in Requests, WorkerStep(e, r)
    PROVE  Promised
  BY BrokerSteady, QuietIsStutter DEF WorkerStep, OpenResult, ProcessReturns, dbVars

(* A fault writes nothing and settles nothing: what is lost with the       *)
(* broker is no longer among the messages that were routed.                *)
LEMMA ExecutorFaultPromised ==
    ASSUME TypeOK, ExecutorFault
    PROVE  Promised
<1>1. UNCHANGED <<status, downloads>>
  BY DEF ExecutorFault, BrokerRestart, ConnectionLost, Crash, ClusterFails,
         ThreadDies, dbVars
<1>2. \A q \in Requests : Settled(q)' <=> Settled(q)
  BY LoseQueueSteady, RequeueSteady, BrokerSteady
     DEF ExecutorFault, BrokerRestart, ConnectionLost, Crash, ClusterFails,
         ThreadDies
<1>3. QED
  BY <1>1, <1>2, QuietIsStutter

LEMMA StepPromised ==
    TypeInv /\ DeliveryInv /\ SettlementInv /\ [Next]_vars => Promised
<1> SUFFICES ASSUME TypeInv, DeliveryInv, SettlementInv, [Next]_vars
             PROVE  Promised
  OBVIOUS
<1>1. TypeOK /\ EndpointHasRow /\ AllKept /\ LoadedIsCurrent
  BY SettlementIsAllKept DEF TypeInv
<1>2. CASE ApiNext
  BY <1>1, <1>2, ApiStepPromised
<1>3. CASE ExecutorNext
  BY <1>1, <1>3, ThreadStepPromised, MainStepPromised, WorkerStepPromised,
     ExecutorFaultPromised DEF ExecutorNext
<1>4. CASE UNCHANGED vars
  BY <1>4, BrokerSteady, QuietIsStutter DEF vars, dbVars
<1>5. QED
  BY <1>2, <1>3, <1>4 DEF Next

(* With one executor, every behaviour of API, tables, broker, executor and *)
(* faults is one that RequestLifecycle allows: attempts, results and final *)
(* states come in its order, and nothing of a settled request changes.     *)
THEOREM ImplementsLifecycle ==
    ASSUME OneExecutor
    PROVE  Spec => RefinesLifecycle
<1>1. TypeInv /\ DeliveryInv /\ SettlementInv /\ [Next]_vars
         => [Lifecycle!Next]_(Lifecycle!lifecycleVars)
  BY StepPromised DEF Promised
<1>2. QED
  BY <1>1, InitIsPromised, TypeInvAlways, DeliveryAlways, SettlementAlways, PTL
     DEF Spec, RefinesLifecycle, Lifecycle!Spec

------------------------------------------------------------------------------
(* The status and the fail_reason.                                         *)

Match(st, why) ==
    /\ why = "error" <=> st = "FAILED"
    /\ why = "timeout" <=> st = "TIMEOUT"

(* The pairs update_request is called with.                                *)
LEMMA ReportsMatch ==
    ASSUME TypeOK, NEW e \in Executors, NEW r \in Requests, ThreadStep(e, r)
    PROVE  \/ UNCHANGED <<status, reason>>
           \/ \E st, why, label : Report(e, r, st, why, label) /\ Match(st, why)
<1>1. CASE ReportRunning(e, r)
  <2>1. Report(e, r, "RUNNING", "none", "submit")
    BY <1>1 DEF ReportRunning
  <2>2. QED
    BY <2>1 DEF Match
<1>2. CASE ReportDone(e, r)
  <2>1. Report(e, r, "DONE", "none", "insert")
    BY <1>2 DEF ReportDone
  <2>2. QED
    BY <2>1 DEF Match
<1>3. CASE ReportFailure(e, r)
  <2>1. UNCHANGED dbVars \/ Report(e, r, "FAILED", "error", "ack")
    BY <1>3 DEF ReportFailure
  <2>2. QED
    BY <2>1 DEF Match, dbVars
<1>4. CASE ReportTimeout(e, r)
  <2>1. Report(e, r, "TIMEOUT", "timeout", "ack")
    BY <1>4 DEF ReportTimeout
  <2>2. QED
    BY <2>1 DEF Match
<1>5. CASE ~(\/ ReportRunning(e, r) \/ ReportDone(e, r)
             \/ ReportFailure(e, r) \/ ReportTimeout(e, r))
  BY <1>5 DEF ThreadStep, Begin, SelectRequest, Submit, GetResult, GiveUp,
              InsertDownload, CommitDownload, ScheduleAck, CloseCluster,
              CheckCluster, CreateCluster, dbVars
<1>6. QED
  BY <1>1, <1>2, <1>3, <1>4, <1>5

LEMMA ReportKeepsMatch ==
    ASSUME TypeOK, LoadedIsCurrent, ReasonMatchesStatus,
           NEW e \in Executors, NEW r \in Requests, NEW st, NEW why, NEW label,
           Report(e, r, st, why, label), Match(st, why)
    PROVE  ReasonMatchesStatus'
<1>1. LoadedKept(e, r)
  BY DEF LoadedIsCurrent, LoadedKept
<1>2. /\ status' = [status EXCEPT ![r] = st]
      /\ reason' = [reason EXCEPT ![r] = why]
      /\ status \in [Requests -> RequestStatus \cup {"NOROW"}]
      /\ reason \in [Requests -> Reasons]
  BY <1>1, ReportWrites DEF TypeOK, DBTypeOK
<1>3. status'[r] = st /\ reason'[r] = why
  BY <1>2
<1>4. \A q \in Requests : q # r => status'[q] = status[q] /\ reason'[q] = reason[q]
  BY <1>2
<1>5. QED
  BY <1>3, <1>4 DEF ReasonMatchesStatus, Match

LEMMA RegisterKeepsMatch ==
    ASSUME TypeOK, ReasonMatchesStatus, NEW r \in Requests, CreateRequest(r)
    PROVE  ReasonMatchesStatus'
<1>1. status[r] = "NOROW" /\ reason' = reason /\ status'[r] = "PENDING"
      /\ \A q \in Requests : q # r => status'[q] = status[q]
  BY DEF CreateRequest, TypeOK, DBTypeOK
<1>2. reason[r] # "error" /\ reason[r] # "timeout"
  BY <1>1 DEF ReasonMatchesStatus
<1>3. QED
  BY <1>1, <1>2 DEF ReasonMatchesStatus

LEMMA OthersKeepTables ==
    ASSUME Next
    PROVE  \/ UNCHANGED <<status, reason>>
           \/ \E r \in Requests : CreateRequest(r)
           \/ \E e \in Executors, r \in Requests : ThreadStep(e, r)
<1>1. CASE ApiNext
  BY <1>1 DEF ApiNext, EndpointStep, Publish, SyncPoll, SyncFetch, GetUriStatus,
     DownloadFetch, ApiFails, EndpointCall, AcceptQuery, AcceptWorkflow, Register,
     GetStatus, GetSize, GetUri, Download, dbVars
<1>2. CASE ExecutorFault
  BY <1>2 DEF ExecutorFault, BrokerRestart, ConnectionLost, Crash, ClusterFails,
     ThreadDies, dbVars
<1>3. CASE \E e \in Executors : MainStep(e)
  BY <1>3 DEF MainStep, StartExecutor, ConsumerTimeout, ProcessExit, OnMessage,
     AckMessage, dbVars
<1>4. CASE \E e \in Executors, r \in Requests : WorkerStep(e, r)
  BY <1>4 DEF WorkerStep, OpenResult, ProcessReturns, dbVars
<1> QED
  BY <1>1, <1>2, <1>3, <1>4 DEF Next, ExecutorNext

LEMMA MatchInductive ==
    TypeInv /\ LoadedIsCurrent /\ ReasonMatchesStatus /\ [Next]_vars
       => ReasonMatchesStatus'
<1> SUFFICES ASSUME TypeInv, LoadedIsCurrent, ReasonMatchesStatus, [Next]_vars
             PROVE  ReasonMatchesStatus'
  OBVIOUS
<1>1. TypeOK
  BY DEF TypeInv
<1>2. CASE UNCHANGED <<status, reason>>
  BY <1>2 DEF ReasonMatchesStatus
<1>3. ASSUME NEW r \in Requests, CreateRequest(r) PROVE ReasonMatchesStatus'
  BY <1>1, <1>3, RegisterKeepsMatch
<1>4. ASSUME NEW e \in Executors, NEW r \in Requests, ThreadStep(e, r)
      PROVE  ReasonMatchesStatus'
  BY <1>1, <1>2, <1>4, ReportsMatch, ReportKeepsMatch
<1>5. CASE UNCHANGED vars
  BY <1>2, <1>5 DEF vars, dbVars
<1>6. QED
  BY <1>2, <1>3, <1>4, <1>5, OthersKeepTables

(* With one executor there is no FAILED or TIMEOUT without its reason and  *)
(* no reason without its status, through every retry and redelivery: the   *)
(* row update_request has loaded is still the one in the table when it     *)
(* commits, so the columns its UPDATE leaves out are as they should be.    *)
THEOREM ReasonAlwaysMatches ==
    ASSUME OneExecutor
    PROVE  Spec => []ReasonMatchesStatus
<1>1. Init => ReasonMatchesStatus
  BY DEF Init, DBInit, ReasonMatchesStatus
<1>2. SettlementInv => LoadedIsCurrent
  BY DEF SettlementInv
<1>3. QED
  BY <1>1, <1>2, MatchInductive, TypeInvAlways, SettlementAlways, PTL DEF Spec

================================================================================
