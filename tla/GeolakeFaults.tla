------------------------------ MODULE GeolakeFaults ------------------------------
(***************************************************************************)
(* What it takes to get a second Download row or to lose a task, for any   *)
(* number of requests, executors and faults.                               *)
(*                                                                         *)
(* A row is inserted by a thread that was started with the request's       *)
(* message: who holds the message or works on it has one row to come,      *)
(* every delivery, commit and end of a thread hands this on or uses it up, *)
(* and only a fault brings another.  A task is lost with its cluster, and  *)
(* without a fault a cluster goes only after a TIMEOUT, which nobody will  *)
(* overwrite, because its request is as over as one with a row.            *)
(***************************************************************************)
EXTENDS GeolakeTables, FiniteSetTheorems

(* A thread that may still insert a row of r or end without acknowledging, *)
(* and all executors with one.                                             *)
Inserting(e, r) ==
    pc[e][r] \in {"start", "running", "submit", "poll", "done", "failed",
                  "timeout", "insert"}
Inserters(r) == {e \in Executors : Inserting(e, r)}

(* The message of r may start another: it is in the queue, or will be      *)
(* there again because its thread is gone.                                 *)
MayRestart(r) ==
    \/ r \in queue
    \/ \E e \in Executors :
          r \in unacked[e] /\ r \notin ackPending[e] /\ pc[e][r] = "idle"

Restarts(r) == IF MayRestart(r) THEN 1 ELSE 0

RowCount(r) == Len(downloads[r])

Allowed == 1 + faults

RowsAreCounted(r) ==
    /\ IsFiniteSet(Inserters(r))
    /\ RowCount(r) + Cardinality(Inserters(r)) + Restarts(r) <= Allowed

(* A thread past the hand-over has handed over what its executor has.      *)
PastAckIsHandedOver ==
    \A e \in Executors, r \in Requests :
        pc[e][r] \in PostAck /\ r \in unacked[e] => r \in ackPending[e]

RowInv == PastAckIsHandedOver /\ \A r \in Requests : RowsAreCounted(r)

RowTypes ==
    /\ faults \in Nat
    /\ Allowed \in Nat \ {0}
    /\ \A r \in Requests : RowCount(r) \in Nat

LEMMA TypesOfRows == TypeInv => RowTypes
<1>1. \A f \in Nat : 1 + f \in Nat \ {0}
  OBVIOUS
<1>2. QED
  BY <1>1, MaxFaultsAssumption
     DEF TypeInv, TypeOK, EnvironmentTypeOK, DBTypeOK, RowTypes, RowCount, Allowed

LEMMA TypesOfRowsNext == ASSUME TypeInv' PROVE RowTypes'
<1>1. \A f \in Nat : 1 + f \in Nat \ {0}
  OBVIOUS
<1>2. faults' \in Nat /\ downloads' \in [Requests -> Seq(Paths)]
  BY MaxFaultsAssumption DEF TypeInv, TypeOK, EnvironmentTypeOK, DBTypeOK
<1>3. 1 + faults' \in Nat \ {0}
  BY <1>1, <1>2
<1>4. \A r \in Requests : Len(downloads'[r]) \in Nat
  BY <1>2
<1>5. QED
  BY <1>2, <1>3, <1>4 DEF RowTypes, Allowed, RowCount

------------------------------------------------------------------------------
(* The arithmetic of the steps.                                            *)

(* Nothing is added.                                                       *)
LEMMA QuietKeepsCount ==
    ASSUME RowTypes, RowTypes', NEW r \in Requests, RowsAreCounted(r),
           \A e \in Executors : Inserting(e, r)' => Inserting(e, r),
           RowCount(r)' = RowCount(r),
           \/ (MayRestart(r)' => MayRestart(r)) /\ Allowed <= Allowed'
           \/ Allowed' = Allowed + 1
    PROVE  RowsAreCounted(r)'
<1>1. Inserters(r)' \in SUBSET Inserters(r)
  BY DEF Inserters
<1>2. /\ IsFiniteSet(Inserters(r)) /\ IsFiniteSet(Inserters(r)')
      /\ Cardinality(Inserters(r)') <= Cardinality(Inserters(r))
  BY <1>1, FS_Subset DEF RowsAreCounted
<1>3. /\ Cardinality(Inserters(r)) \in Nat /\ Cardinality(Inserters(r)') \in Nat
      /\ Restarts(r) \in {0, 1} /\ Restarts(r)' \in {0, 1}
  BY <1>2, FS_CardinalityType DEF Restarts
<1>4. \/ Restarts(r)' <= Restarts(r) /\ Allowed <= Allowed'
      \/ Allowed' = Allowed + 1
  BY DEF Restarts
<1>5. RowCount(r) \in Nat /\ Allowed \in Nat /\ Allowed' \in Nat
  BY DEF RowTypes
<1>6. QED
  BY <1>2, <1>3, <1>4, <1>5 DEF RowsAreCounted

(* A thread stops inserting: its row is there, or its message is free.     *)
LEMMA SpentKeepsCount ==
    ASSUME RowTypes, RowTypes', NEW r \in Requests, RowsAreCounted(r),
           NEW e \in Executors, Inserting(e, r), ~Inserting(e, r)',
           \A f \in Executors : f # e => (Inserting(f, r)' <=> Inserting(f, r)),
           \/ RowCount(r)' = RowCount(r) + 1 /\ (MayRestart(r)' => MayRestart(r))
           \/ RowCount(r)' = RowCount(r),
           Allowed' = Allowed
    PROVE  RowsAreCounted(r)'
<1>1. Inserters(r)' = Inserters(r) \ {e}
  BY DEF Inserters
<1>2. e \in Inserters(r) /\ IsFiniteSet(Inserters(r))
  BY DEF Inserters, RowsAreCounted
<1>3. /\ IsFiniteSet(Inserters(r)')
      /\ Cardinality(Inserters(r)') = Cardinality(Inserters(r)) - 1
  BY <1>1, <1>2, FS_RemoveElement
<1>4. /\ Cardinality(Inserters(r)) \in Nat /\ Cardinality(Inserters(r)') \in Nat
      /\ Restarts(r) \in {0, 1} /\ Restarts(r)' \in {0, 1}
  BY <1>2, <1>3, FS_CardinalityType DEF Restarts
<1>5. \/ RowCount(r)' = RowCount(r) + 1 /\ Restarts(r)' <= Restarts(r)
      \/ RowCount(r)' = RowCount(r)
  BY DEF Restarts
<1>6. RowCount(r) \in Nat /\ RowCount(r)' \in Nat /\ Allowed \in Nat
  BY DEF RowTypes
<1>7. QED
  BY <1>3, <1>4, <1>5, <1>6 DEF RowsAreCounted

(* The message starts a thread, and no other.                              *)
LEMMA StartedKeepsCount ==
    ASSUME RowTypes, RowTypes', NEW r \in Requests, RowsAreCounted(r),
           NEW e \in Executors,
           \A f \in Executors : f # e => (Inserting(f, r)' <=> Inserting(f, r)),
           MayRestart(r), ~MayRestart(r)',
           RowCount(r)' = RowCount(r), Allowed' = Allowed
    PROVE  RowsAreCounted(r)'
<1>1. Inserters(r)' \in SUBSET (Inserters(r) \cup {e})
  BY DEF Inserters
<1>2. IsFiniteSet(Inserters(r)) /\ Cardinality(Inserters(r)) \in Nat
  BY FS_CardinalityType DEF RowsAreCounted
<1>3. /\ IsFiniteSet(Inserters(r) \cup {e})
      /\ \/ Cardinality(Inserters(r) \cup {e}) = Cardinality(Inserters(r))
         \/ Cardinality(Inserters(r) \cup {e}) = Cardinality(Inserters(r)) + 1
  BY <1>2, FS_AddElement
<1>4. /\ IsFiniteSet(Inserters(r)')
      /\ Cardinality(Inserters(r)') <= Cardinality(Inserters(r) \cup {e})
  BY <1>1, <1>3, FS_Subset
<1>5. Cardinality(Inserters(r)') \in Nat /\ Cardinality(Inserters(r) \cup {e}) \in Nat
  BY <1>3, <1>4, FS_CardinalityType
<1>6. Restarts(r) = 1 /\ Restarts(r)' = 0
  BY DEF Restarts
<1>7. RowCount(r) \in Nat /\ Allowed \in Nat
  BY DEF RowTypes
<1>8. QED
  BY <1>2, <1>3, <1>4, <1>5, <1>6, <1>7 DEF RowsAreCounted

------------------------------------------------------------------------------
(* The steps.                                                              *)

LEMMA QuietKeepsRows ==
    ASSUME RowTypes, RowTypes', RowInv, PastAckIsHandedOver',
           \A e \in Executors, r \in Requests : Inserting(e, r)' => Inserting(e, r),
           UNCHANGED downloads,
           \/ (\A r \in Requests : MayRestart(r)' => MayRestart(r)) /\ Allowed <= Allowed'
           \/ Allowed' = Allowed + 1
    PROVE  RowInv'
<1>1. \A r \in Requests : RowCount(r)' = RowCount(r)
  BY DEF RowCount
<1>2. QED
  BY <1>1, QuietKeepsCount DEF RowInv

LEMMA AllowedStays ==
    ASSUME RowTypes, faults' = faults
    PROVE  Allowed' = Allowed /\ Allowed <= Allowed'
  BY DEF Allowed, RowTypes

(* Where handle_message goes from where.                                   *)
LEMMA ThreadMoves ==
    ASSUME TypeOK, NEW e \in Executors, NEW r \in Requests, ThreadStep(e, r)
    PROVE  /\ Inserting(e, r)' => Inserting(e, r)
           /\ pc'[e][r] \in {"idle"} \cup PostAck =>
                 \/ Inserting(e, r) /\ pc'[e][r] = "idle"
                 \/ pc[e][r] \in PostAck
                 \/ pc[e][r] = "ack" /\ main[e] = "up" /\ r \in ackPending'[e]
                 \/ pc[e][r] = "ack" /\ main[e] # "up"
<1>0. /\ pc \in [Executors -> [Requests -> {"idle"} \cup PreAck \cup PostAck]]
      /\ ackPending \in [Executors -> SUBSET Requests]
  BY DEF TypeOK, ExecutorTypeOK
<1>1. CASE Begin(e, r) \/ Submit(e, r) \/ GetResult(e, r) \/ GiveUp(e, r)
  BY <1>0, <1>1 DEF Begin, Submit, GetResult, GiveUp, GoOnTo, Goto, ThreadEnds,
                    Inserting, PostAck
<1>2. CASE SelectRequest(e, r)
  BY <1>2 DEF SelectRequest, Updating, Inserting, PostAck
<1>3. CASE ReportRunning(e, r) \/ ReportDone(e, r) \/ ReportFailure(e, r)
              \/ ReportTimeout(e, r)
  <2>1. Inserting(e, r) /\ pc'[e][r] \in {"submit", "insert", "ack", "idle"}
    BY <1>0, <1>3 DEF ReportRunning, ReportDone, ReportFailure, ReportTimeout,
                      Report, Goto, ThreadEnds, Inserting
  <2>2. QED
    BY <2>1 DEF PostAck
<1>4. CASE InsertDownload(e, r)
  BY <1>0, <1>4 DEF InsertDownload, GoOnTo, Goto, ThreadEnds, Inserting, PostAck
<1>5. CASE ScheduleAck(e, r)
  BY <1>0, <1>5 DEF ScheduleAck, GoOnTo, Goto, ThreadEnds, Inserting, PostAck
<1>6. CASE CloseCluster(e, r) \/ CheckCluster(e, r) \/ CreateCluster(e, r)
  BY <1>0, <1>6 DEF CloseCluster, CheckCluster, CreateCluster, GoOnTo, Goto, ThreadEnds,
     Inserting, PostAck
<1>7. QED
  BY <1>1, <1>2, <1>3, <1>4, <1>5, <1>6 DEF ThreadStep

(* It writes the status before it stops inserting, and a row as it does.   *)
LEMMA ThreadInserts ==
    ASSUME TypeOK, NEW e \in Executors, NEW r \in Requests, ThreadStep(e, r)
    PROVE  /\ status'[r] # status[r] => Inserting(e, r)
           /\ downloads'[r] # downloads[r] =>
                 /\ Inserting(e, r) /\ pc'[e][r] = "ack"
                 /\ \E path \in Paths : downloads'[r] = Append(downloads[r], path)
<1>1. CASE InsertDownload(e, r)
  BY <1>1 DEF InsertDownload, CommitDownload, GoOnTo, Goto, Inserting, Paths, dbVars,
     TypeOK, DBTypeOK, ExecutorTypeOK
<1>2. CASE ReportRunning(e, r) \/ ReportDone(e, r) \/ ReportFailure(e, r)
              \/ ReportTimeout(e, r)
  BY <1>2 DEF ReportRunning, ReportDone, ReportFailure, ReportTimeout, Report,
     CommitStatus, Inserting, dbVars
<1>3. CASE ~(\/ ReportRunning(e, r) \/ ReportDone(e, r) \/ ReportFailure(e, r)
             \/ ReportTimeout(e, r) \/ InsertDownload(e, r))
  BY <1>3 DEF ThreadStep, Begin, SelectRequest, Submit, GetResult, GiveUp,
     ScheduleAck, CloseCluster, CheckCluster, CreateCluster, dbVars
<1>4. QED
  BY <1>1, <1>2, <1>3

(* Only a thread that ends before it has inserted frees its message.       *)
LEMMA OthersFreeNothing ==
    ASSUME TypeOK, DeliveryInv, PastAckIsHandedOver,
           NEW e \in Executors, NEW r \in Requests, ThreadStep(e, r),
           ~(Inserting(e, r) /\ ~Inserting(e, r)')
    PROVE  MayRestart(r)' => MayRestart(r)
<1>1. /\ UNCHANGED <<queue, unacked>>
      /\ \A f \in Executors : f # e => pc'[f][r] = pc[f][r]
      /\ \A f \in Executors : ackPending[f] \subseteq ackPending'[f]
  BY ThreadStepLeaves
<1>2. CASE pc'[e][r] = "idle" /\ r \in unacked[e] /\ r \notin ackPending[e]
  <2>1. main[e] = "up"
    BY <1>2 DEF DeliveryInv, OnlyConsumersHold
  <2>2. ~Inserting(e, r)'
    BY <1>2 DEF Inserting
  <2>3. pc[e][r] \in PostAck \/ r \in ackPending'[e]
    BY <1>2, <2>1, <2>2, ThreadMoves
  <2>4. r \in ackPending'[e]
    BY <1>2, <2>3 DEF PastAckIsHandedOver
  <2>5. QED
    BY <1>1, <2>4 DEF MayRestart
<1>3. CASE ~(pc'[e][r] = "idle" /\ r \in unacked[e] /\ r \notin ackPending[e])
  BY <1>1, <1>3 DEF MayRestart
<1>4. QED
  BY <1>2, <1>3

LEMMA ThreadKeepsRows ==
    ASSUME TypeOK, DeliveryInv, RowTypes, RowTypes', RowInv,
           NEW e \in Executors, NEW r \in Requests, ThreadStep(e, r)
    PROVE  RowInv'
<1>1. /\ UNCHANGED <<queue, unacked, faults>>
      /\ \A f \in Executors, q \in Requests : f # e \/ q # r => pc'[f][q] = pc[f][q]
      /\ \A q \in Requests : q # r => RowCount(q)' = RowCount(q)
      /\ \A f \in Executors : ackPending[f] \subseteq ackPending'[f]
  BY ThreadStepLeaves DEF RowCount
<1>2. \A q \in Requests : RowsAreCounted(q)
  BY DEF RowInv
<1>3. Allowed' = Allowed /\ Allowed <= Allowed'
  BY <1>1, AllowedStays
<1>4. PastAckIsHandedOver'
  <2> SUFFICES ASSUME NEW f \in Executors, NEW q \in Requests,
                      pc'[f][q] \in PostAck, q \in unacked'[f]
               PROVE  q \in ackPending'[f]
    BY DEF PastAckIsHandedOver
  <2>1. CASE f # e \/ q # r
    BY <1>1, <2>1 DEF RowInv, PastAckIsHandedOver
  <2>2. CASE f = e /\ q = r
    <3>1. pc'[e][r] # "idle" /\ r \in unacked[e]
      BY <1>1, <2>2 DEF PostAck
    <3>2. main[e] = "up"
      BY <3>1 DEF DeliveryInv, OnlyConsumersHold
    <3>3. pc[e][r] \in PostAck \/ r \in ackPending'[e]
      BY <2>2, <3>1, <3>2, ThreadMoves
    <3>4. QED
      BY <1>1, <2>2, <3>1, <3>3 DEF RowInv, PastAckIsHandedOver
  <2>3. QED
    BY <2>1, <2>2
<1>5. ASSUME NEW q \in Requests, q # r PROVE RowsAreCounted(q)'
  <2>1. MayRestart(q)' => MayRestart(q)
    BY <1>1, <1>5 DEF MayRestart
  <2>2. \A f \in Executors : Inserting(f, q)' => Inserting(f, q)
    BY <1>1, <1>5 DEF Inserting
  <2>3. QED
    BY <1>1, <1>2, <1>3, <1>5, <2>1, <2>2, QuietKeepsCount
<1>6. \A f \in Executors : f # e => (Inserting(f, r)' <=> Inserting(f, r))
  BY <1>1 DEF Inserting
<1>7. pc'[e][r] # "idle" => (MayRestart(r)' => MayRestart(r))
  BY <1>1 DEF MayRestart
<1>8. ASSUME Inserting(e, r), ~Inserting(e, r)' PROVE RowsAreCounted(r)'
  <2>1. CASE downloads'[r] = downloads[r]
    <3>1. RowCount(r)' = RowCount(r)
      BY <2>1 DEF RowCount
    <3>2. QED
      BY <1>2, <1>3, <1>6, <1>8, <3>1, SpentKeepsCount
  <2>2. CASE downloads'[r] # downloads[r]
    <3>1. PICK path \in Paths :
             pc'[e][r] = "ack" /\ downloads'[r] = Append(downloads[r], path)
      BY <2>2, ThreadInserts
    <3>2. downloads[r] \in Seq(Paths)
      BY DEF TypeOK, DBTypeOK
    <3>3. RowCount(r)' = RowCount(r) + 1
      BY <3>1, <3>2 DEF RowCount
    <3>4. QED
      BY <1>2, <1>3, <1>6, <1>7, <1>8, <3>1, <3>3, SpentKeepsCount
  <2>3. QED
    BY <2>1, <2>2
<1>9. ASSUME ~(Inserting(e, r) /\ ~Inserting(e, r)') PROVE RowsAreCounted(r)'
  <2>1. RowCount(r)' = RowCount(r)
    BY <1>9, ThreadInserts DEF Inserting, RowCount
  <2>2. \A f \in Executors : Inserting(f, r)' => Inserting(f, r)
    BY <1>6, ThreadMoves
  <2>3. MayRestart(r)' => MayRestart(r)
    BY <1>9, OthersFreeNothing DEF RowInv
  <2>4. QED
    BY <1>2, <1>3, <2>1, <2>2, <2>3, QuietKeepsCount
<1>10. QED
  BY <1>4, <1>5, <1>8, <1>9 DEF RowInv

(* A delivery turns the message in the queue into a thread.                *)
LEMMA OnMessageKeepsRows ==
    ASSUME TypeOK, DeliveryInv, RowTypes, RowTypes', RowInv,
           NEW e \in Executors, NEW r \in Requests, OnMessage(e, r)
    PROVE  RowInv'
<1>0. /\ pc \in [Executors -> [Requests -> {"idle"} \cup PreAck \cup PostAck]]
      /\ unacked \in [Executors -> SUBSET Requests]
  BY DEF TypeOK, ExecutorTypeOK, BrokerTypeOK
<1>1. /\ r \in queue /\ queue' = queue \ {r}
      /\ unacked' = [unacked EXCEPT ![e] = @ \cup {r}] /\ unacked[e] = {}
      /\ pc' = [pc EXCEPT ![e][r] = "start"]
      /\ UNCHANGED <<ackPending, downloads, faults>>
  BY DEF OnMessage, BasicDeliver, Goto, dbVars
<1>2. /\ pc'[e][r] = "start"
      /\ \A f \in Executors, q \in Requests : f # e \/ q # r => pc'[f][q] = pc[f][q]
      /\ unacked'[e] = {r}
      /\ \A f \in Executors : f # e => unacked'[f] = unacked[f]
  BY <1>0, <1>1
<1>3. \A q \in Requests : RowsAreCounted(q)
  BY DEF RowInv
<1>4. /\ \A q \in Requests : RowCount(q)' = RowCount(q)
      /\ Allowed' = Allowed /\ Allowed <= Allowed'
  BY <1>1, AllowedStays DEF RowCount
<1>5. PastAckIsHandedOver'
  BY <1>1, <1>2 DEF RowInv, PastAckIsHandedOver, PostAck
<1>6. ASSUME NEW q \in Requests, q # r PROVE RowsAreCounted(q)'
  <2>1. MayRestart(q)' => MayRestart(q)
    BY <1>1, <1>2, <1>6 DEF MayRestart
  <2>2. \A f \in Executors : Inserting(f, q)' => Inserting(f, q)
    BY <1>2, <1>6 DEF Inserting
  <2>3. QED
    BY <1>3, <1>4, <2>1, <2>2, QuietKeepsCount
<1>7. RowsAreCounted(r)'
  <2>1. MayRestart(r)
    BY <1>1 DEF MayRestart
  <2>2. \A f \in Executors : r \notin unacked[f]
    BY <1>1 DEF DeliveryInv, MessageInOnePlace
  <2>3. ~MayRestart(r)'
    BY <1>1, <1>2, <2>2 DEF MayRestart
  <2>4. \A f \in Executors : f # e => (Inserting(f, r)' <=> Inserting(f, r))
    BY <1>2 DEF Inserting
  <2>5. QED
    BY <1>3, <1>4, <2>1, <2>3, <2>4, StartedKeepsCount
<1>8. QED
  BY <1>5, <1>6, <1>7 DEF RowInv

(* The main thread frees no message that was not free before.              *)
LEMMA MainMoves ==
    ASSUME TypeOK, DeliveryInv, PastAckIsHandedOver, NEW e \in Executors,
           MainStep(e), ~\E r \in Requests : OnMessage(e, r)
    PROVE  /\ PastAckIsHandedOver'
           /\ \A q \in Requests : MayRestart(q)' => MayRestart(q)
           /\ \A f \in Executors, q \in Requests : pc'[f][q] \in {pc[f][q], "idle"}
<1>0. /\ pc \in [Executors -> [Requests -> {"idle"} \cup PreAck \cup PostAck]]
      /\ unacked \in [Executors -> SUBSET Requests]
      /\ ackPending \in [Executors -> SUBSET Requests]
  BY DEF TypeOK, ExecutorTypeOK, BrokerTypeOK
<1>1. CASE StartExecutor(e)
  <2>1. UNCHANGED <<pc, ackPending, queue, unacked>>
    BY <1>1 DEF StartExecutor, QueueDeclare
  <2>2. QED
    BY <2>1 DEF PastAckIsHandedOver, MayRestart
<1>2. CASE ConsumerTimeout(e)
  <2>1. /\ UNCHANGED pc
        /\ queue' = queue \cup unacked[e]
        /\ unacked'[e] = {}
        /\ \A f \in Executors : f # e =>
              unacked'[f] = unacked[f] /\ ackPending'[f] = ackPending[f]
    BY <1>0, <1>2 DEF ConsumerTimeout, Requeue, MainThreadDies
  <2>2. \A q \in unacked[e] : pc[e][q] = "idle" /\ q \notin ackPending[e]
    BY <1>2 DEF ConsumerTimeout, DeliveryInv, Prefetched
  <2>3. PastAckIsHandedOver'
    BY <2>1 DEF PastAckIsHandedOver
  <2>4. \A q \in Requests : MayRestart(q)' => MayRestart(q)
    BY <2>1, <2>2 DEF MayRestart
  <2>5. QED
    BY <2>1, <2>3, <2>4
<1>3. CASE ProcessExit(e)
  <2>1. /\ \A q \in Requests : pc'[e][q] = "idle"
        /\ \A f \in Executors : f # e => pc'[f] = pc[f] /\ ackPending'[f] = ackPending[f]
        /\ UNCHANGED <<queue, unacked>>
    BY <1>0, <1>3 DEF ProcessExit, ProcessGone, brokerVars
  <2>2. unacked[e] = {}
    BY <1>3 DEF ProcessExit, DeliveryInv, OnlyConsumersHold
  <2>3. PastAckIsHandedOver'
    BY <2>1, <2>2 DEF PastAckIsHandedOver
  <2>4. \A q \in Requests : MayRestart(q)' => MayRestart(q)
    BY <2>1, <2>2 DEF MayRestart
  <2>5. QED
    BY <2>1, <2>3, <2>4
<1>4. ASSUME NEW r \in Requests, AckMessage(e, r)
      PROVE  /\ PastAckIsHandedOver'
             /\ \A q \in Requests : MayRestart(q)' => MayRestart(q)
             /\ UNCHANGED pc
  <2>1. /\ UNCHANGED <<pc, queue>>
        /\ unacked'[e] = unacked[e] \ {r} /\ ackPending'[e] = ackPending[e] \ {r}
        /\ \A f \in Executors : f # e =>
              unacked'[f] = unacked[f] /\ ackPending'[f] = ackPending[f]
    BY <1>0, <1>4 DEF AckMessage, BasicAck
  <2>2. PastAckIsHandedOver'
    BY <2>1 DEF PastAckIsHandedOver
  <2>3. QED
    BY <2>1, <2>2 DEF MayRestart
<1>5. QED
  BY <1>1, <1>2, <1>3, <1>4 DEF MainStep

LEMMA MainKeepsRows ==
    ASSUME TypeOK, DeliveryInv, RowTypes, RowTypes', RowInv,
           NEW e \in Executors, MainStep(e)
    PROVE  RowInv'
<1>1. UNCHANGED downloads /\ Allowed <= Allowed'
  BY AllowedStays DEF MainStep, StartExecutor, ConsumerTimeout, ProcessExit, OnMessage,
     AckMessage, dbVars
<1>2. CASE \E r \in Requests : OnMessage(e, r)
  BY <1>2, OnMessageKeepsRows
<1>3. CASE ~\E r \in Requests : OnMessage(e, r)
  <2>1. /\ PastAckIsHandedOver'
        /\ \A q \in Requests : MayRestart(q)' => MayRestart(q)
        /\ \A f \in Executors, q \in Requests : pc'[f][q] \in {pc[f][q], "idle"}
    BY <1>3, MainMoves DEF RowInv
  <2>2. \A f \in Executors, q \in Requests : Inserting(f, q)' => Inserting(f, q)
    BY <2>1 DEF Inserting
  <2>3. QED
    BY <1>1, <2>1, <2>2, QuietKeepsRows
<1>4. QED
  BY <1>2, <1>3

(* A fault may bring a message back, and pays for it.                      *)
LEMMA FaultKeepsRows ==
    ASSUME TypeOK, RowTypes, RowTypes', RowInv, ExecutorFault
    PROVE  RowInv'
<1>0. /\ pc \in [Executors -> [Requests -> {"idle"} \cup PreAck \cup PostAck]]
      /\ unacked \in [Executors -> SUBSET Requests]
      /\ ackPending \in [Executors -> SUBSET Requests]
  BY DEF TypeOK, ExecutorTypeOK, BrokerTypeOK
<1>1. UNCHANGED downloads /\ faults' = faults + 1
  BY DEF ExecutorFault, BrokerRestart, ConnectionLost, Crash, ClusterFails,
     ThreadDies, Fault, dbVars
<1>2. Allowed' = Allowed + 1
  BY <1>1 DEF Allowed, RowTypes
<1>3. \A f \in Executors, q \in Requests :
          /\ pc'[f][q] \in {pc[f][q], "idle"}
          /\ q \in unacked'[f] => q \in unacked[f] /\ ackPending'[f] = ackPending[f]
  <2>1. CASE BrokerRestart
    BY <1>0, <2>1 DEF BrokerRestart, LoseQueue
  <2>2. ASSUME NEW e \in Executors, ConnectionLost(e) \/ Crash(e)
        PROVE  \A f \in Executors, q \in Requests :
                   /\ pc'[f][q] \in {pc[f][q], "idle"}
                   /\ q \in unacked'[f] => q \in unacked[f] /\ ackPending'[f] = ackPending[f]
    BY <1>0, <2>2 DEF ConnectionLost, Crash, ProcessGone, MainThreadDies, Requeue
  <2>3. ASSUME NEW e \in Executors,
               ClusterFails(e) \/ \E r \in Requests : ThreadDies(e, r)
        PROVE  \A f \in Executors, q \in Requests :
                   /\ pc'[f][q] \in {pc[f][q], "idle"}
                   /\ q \in unacked'[f] => q \in unacked[f] /\ ackPending'[f] = ackPending[f]
    BY <1>0, <2>3 DEF ClusterFails, ThreadDies, ThreadEnds, Goto, brokerVars
  <2>4. QED
    BY <2>1, <2>2, <2>3 DEF ExecutorFault
<1>4. PastAckIsHandedOver'
  BY <1>3 DEF RowInv, PastAckIsHandedOver, PostAck
<1>5. \A f \in Executors, q \in Requests : Inserting(f, q)' => Inserting(f, q)
  BY <1>3 DEF Inserting
<1>6. QED
  BY <1>1, <1>2, <1>4, <1>5, QuietKeepsRows

(* The API publishes the message of a request that has no rows yet.        *)
LEMMA ApiKeepsCount ==
    ASSUME TypeOK, EndpointHasRow, DeliveryInv, UnpublishedHasNoResult,
           RowTypes, RowTypes', RowInv, ApiNext
    PROVE  RowInv'
<1>1. /\ UNCHANGED <<pc, ackPending, unacked, downloads>>
      /\ \A q \in Requests : q \in queue' => q \in queue \/ (At("publish") /\ q = api.req)
  BY ApiWrites
<1>2. Allowed <= Allowed' \/ Allowed' = Allowed + 1
  <2>1. faults' = faults \/ faults' = faults + 1
    BY DEF ApiNext, EndpointStep, Publish, SyncPoll, SyncFetch, GetUriStatus,
       DownloadFetch, ApiFails, Fault, EndpointCall, AcceptQuery, AcceptWorkflow,
       Register, GetStatus, GetSize, GetUri, Download
  <2>2. CASE faults' = faults + 1
    BY <2>2 DEF Allowed, RowTypes
  <2>3. QED
    BY <2>1, <2>2, AllowedStays
<1>3. PastAckIsHandedOver'
  BY <1>1 DEF RowInv, PastAckIsHandedOver
<1>4. ASSUME NEW q \in Requests, ~(At("publish") /\ q = api.req)
      PROVE  RowsAreCounted(q)'
  <2>1. MayRestart(q)' => MayRestart(q)
    BY <1>1, <1>4 DEF MayRestart
  <2>2. \A f \in Executors : Inserting(f, q)' => Inserting(f, q)
    BY <1>1 DEF Inserting
  <2>3. RowsAreCounted(q)
    BY DEF RowInv
  <2>4. RowCount(q)' = RowCount(q)
    BY <1>1 DEF RowCount
  <2>5. QED
    BY <1>2, <2>1, <2>2, <2>3, <2>4, QuietKeepsCount
<1>5. ASSUME NEW q \in Requests, At("publish"), q = api.req
      PROVE  RowsAreCounted(q)'
  <2>1. downloads[q] = <<>> /\ \A e \in Executors : pc[e][q] = "idle"
    BY <1>5 DEF Unpublished, UnpublishedHasNoResult, HasResult, DeliveryInv,
       UnpublishedIsNowhere
  <2>2. Inserters(q)' = {}
    BY <1>1, <2>1 DEF Inserters, Inserting
  <2>3. IsFiniteSet(Inserters(q)') /\ Cardinality(Inserters(q)') = 0
    BY <2>2, FS_EmptySet
  <2>4. RowCount(q)' = 0 /\ Allowed' \in Nat /\ 1 <= Allowed'
    BY <1>1, <2>1 DEF RowCount, RowTypes
  <2>5. Restarts(q)' \in {0, 1}
    BY DEF Restarts
  <2>6. QED
    BY <2>3, <2>4, <2>5 DEF RowsAreCounted
<1>6. QED
  BY <1>3, <1>4, <1>5 DEF RowInv

LEMMA RowInvInductive ==
    ASSUME TypeInv, TypeInv', DeliveryInv, ResultInv, RowInv, [Next]_vars
    PROVE  RowInv'
<1>1. TypeOK /\ EndpointHasRow /\ UnpublishedHasNoResult
  BY DEF TypeInv, ResultInv
<1>2. RowTypes /\ RowTypes'
  BY TypesOfRows, TypesOfRowsNext
<1>3. CASE ApiNext
  BY <1>1, <1>2, <1>3, ApiKeepsCount
<1>4. CASE ExecutorFault
  BY <1>1, <1>2, <1>4, FaultKeepsRows
<1>5. ASSUME NEW e \in Executors, MainStep(e) PROVE RowInv'
  BY <1>1, <1>2, <1>5, MainKeepsRows
<1>6. ASSUME NEW e \in Executors, NEW r \in Requests, ThreadStep(e, r) PROVE RowInv'
  BY <1>1, <1>2, <1>6, ThreadKeepsRows
<1>7. CASE UNCHANGED <<pc, queue, unacked, ackPending, downloads, faults>>
  <2>1. Allowed <= Allowed'
    BY <1>2, <1>7, AllowedStays
  <2>2. QED
    BY <1>2, <1>7, <2>1, QuietKeepsRows
       DEF RowInv, PastAckIsHandedOver, Inserting, MayRestart
<1>8. ASSUME NEW e \in Executors, NEW r \in Requests, WorkerStep(e, r) PROVE RowInv'
  BY <1>7, <1>8 DEF WorkerStep, OpenResult, ProcessReturns, dbVars, brokerVars
<1>9. CASE UNCHANGED vars
  BY <1>7, <1>9 DEF vars, dbVars, brokerVars, executorVars
<1>10. QED
  BY <1>3, <1>4, <1>5, <1>6, <1>8, <1>9 DEF Next, ExecutorNext

LEMMA InitRowInv == Init => RowInv
<1> SUFFICES ASSUME Init PROVE RowInv
  OBVIOUS
<1>1. /\ \A r \in Requests : downloads[r] = <<>>
      /\ queue = {} /\ \A e \in Executors : unacked[e] = {}
      /\ \A e \in Executors, r \in Requests : pc[e][r] = "idle"
      /\ faults = 0
  BY DEF Init, EnvironmentInit, DBInit, BrokerInit, ExecutorInit
<1>2. ASSUME NEW r \in Requests PROVE RowsAreCounted(r)
  <2>1. Inserters(r) = {} /\ Restarts(r) = 0
    BY <1>1 DEF Inserters, Inserting, Restarts, MayRestart
  <2>2. IsFiniteSet(Inserters(r)) /\ Cardinality(Inserters(r)) = 0
    BY <2>1, FS_EmptySet
  <2>3. QED
    BY <1>1, <2>1, <2>2 DEF RowsAreCounted, RowCount, Allowed
<1>3. QED
  BY <1>1, <1>2 DEF RowInv, PastAckIsHandedOver

LEMMA RowInvAlways == Spec => []RowInv
  BY InitRowInv, RowInvInductive, TypeInvAlways, DeliveryAlways, ResultInvAlways,
     PTL DEF Spec

(* However many executors there are, whatever is redelivered to whom: a    *)
(* request has at most one Download row more than there have been faults,  *)
(* so without a fault process() is never reported twice.                   *)
THEOREM DuplicatesAlwaysNeedFaults == Spec => []DuplicateDownloadsNeedFaults
<1>1. TypeInv /\ RowInv => DuplicateDownloadsNeedFaults
  <2> SUFFICES ASSUME TypeInv, RowInv, NEW r \in Requests
               PROVE  RowCount(r) <= Allowed
    BY DEF DuplicateDownloadsNeedFaults, RowCount, Allowed
  <2>1. RowTypes /\ RowsAreCounted(r)
    BY TypesOfRows DEF RowInv
  <2>2. Cardinality(Inserters(r)) \in Nat /\ Restarts(r) \in Nat
    BY <2>1, FS_CardinalityType DEF RowsAreCounted, Restarts
  <2>3. QED
    BY <2>1, <2>2 DEF RowsAreCounted, RowTypes
<1>2. QED
  BY <1>1, TypeInvAlways, RowInvAlways, PTL

------------------------------------------------------------------------------
(* Lost tasks.                                                             *)

SomeTimeout == \E q \in Requests : status[q] = "TIMEOUT"

(* Nobody will work on r.                                                  *)
Over(r) ==
    /\ ~MayRestart(r)
    /\ \A e \in Executors : ~Inserting(e, r)
    /\ ~Unpublished(r)

TimeoutIsOver == \A r \in Requests : status[r] = "TIMEOUT" => Over(r)

(* A thread that gave up says so, a cluster that cannot be used was    *)
(* closed by such a thread, and took the tasks along.                      *)
MarkIsTimeout ==
    \A e \in Executors : \A r \in timedOut[e] :
        pc[e][r] = "timeout" \/ status[r] = "TIMEOUT"

ClusterHasCause ==
    \A e \in Executors :
        /\ main[e] # "down" => cluster[e] # "none"
        /\ cluster[e] \in {"closed", "failed"} => SomeTimeout

LostHasTimeout ==
    \A e \in Executors, r \in Requests :
        pc[e][r] = "poll" /\ job[e][r] = "lost" => SomeTimeout

TornInv ==
    /\ TimeoutIsOver
    /\ MarkIsTimeout
    /\ ClusterHasCause
    /\ LostHasTimeout

(* Without a fault, that is.                                               *)
CauseInv == faults = 0 => TornInv

(* A TIMEOUT stays, and its request stays over.                            *)
LEMMA TimeoutStays ==
    ASSUME TypeOK, DeliveryInv, PastAckIsHandedOver, TimeoutIsOver,
           NEW e \in Executors, NEW r \in Requests, ThreadStep(e, r),
           UNCHANGED apiVars, NEW q \in Requests, status[q] = "TIMEOUT"
    PROVE  status'[q] = "TIMEOUT" /\ Over(q)'
<1>1. /\ UNCHANGED <<queue, unacked>>
      /\ \A f \in Executors, p \in Requests : f # e \/ p # r => pc'[f][p] = pc[f][p]
      /\ \A p \in Requests : p # r => status'[p] = status[p]
      /\ \A f \in Executors : ackPending[f] \subseteq ackPending'[f]
  BY ThreadStepLeaves
<1>2. Over(q)
  BY DEF TimeoutIsOver
<1>3. status'[q] = "TIMEOUT"
  <2>1. CASE q # r
    BY <1>1, <2>1
  <2>2. CASE q = r
    BY <1>2, <2>2, ThreadInserts DEF Over
  <2>3. QED
    BY <2>1, <2>2
<1>4. \A f \in Executors : ~Inserting(f, q)'
  <2>1. CASE q # r
    BY <1>1, <1>2, <2>1 DEF Over, Inserting
  <2>2. CASE q = r
    <3>1. ~Inserting(e, r)'
      BY <1>2, <2>2, ThreadMoves DEF Over
    <3>2. QED
      BY <1>1, <1>2, <2>2, <3>1 DEF Over, Inserting
  <2>3. QED
    BY <2>1, <2>2
<1>5. ~MayRestart(q)'
  <2>1. CASE q # r
    BY <1>1, <1>2, <2>1 DEF Over, MayRestart
  <2>2. CASE q = r
    BY <1>2, <2>2, OthersFreeNothing DEF Over
  <2>3. QED
    BY <2>1, <2>2
<1>6. ~Unpublished(q)'
  BY <1>2, <1>3 DEF Over, Unpublished, At, apiVars
<1>7. QED
  BY <1>3, <1>4, <1>5, <1>6 DEF Over

(* So is a new one: the thread that gives up is the only one.              *)
LEMMA NewTimeoutIsOver ==
    ASSUME TypeOK, DeliveryInv, CalmInv,
           NEW e \in Executors, NEW r \in Requests, ThreadStep(e, r),
           UNCHANGED apiVars, status[r] # "TIMEOUT", status'[r] = "TIMEOUT"
    PROVE  Over(r)'
<1>1. /\ UNCHANGED <<queue, unacked>>
      /\ \A f \in Executors : f # e => pc'[f][r] = pc[f][r]
  BY ThreadStepLeaves
<1>2. ReportTimeout(e, r)
  BY DEF ThreadStep, Begin, SelectRequest, ReportRunning, Submit, GetResult,
         GiveUp, ReportDone, ReportFailure, ReportTimeout, Report, GoOnTo,
         InsertDownload, ScheduleAck, CloseCluster, CheckCluster,
         CreateCluster, CommitStatus, CommitDownload, dbVars, TypeOK,
         DBTypeOK
<1>3. pc[e][r] = "timeout" /\ pc'[e][r] = "ack"
  BY <1>2 DEF ReportTimeout, Report, Goto, TypeOK, ExecutorTypeOK
<1>4. Working(e, r)
  BY <1>3 DEF Working, PreAck
<1>5. r \notin queue /\ \A f \in Executors : f # e => r \notin unacked[f] /\ ~Working(f, r)
  BY <1>4, WorkerIsAlone
<1>6. ~MayRestart(r)'
  BY <1>1, <1>3, <1>5 DEF MayRestart
<1>7. \A f \in Executors : ~Inserting(f, r)'
  BY <1>1, <1>3, <1>5 DEF Inserting, Working, PreAck
<1>8. ~Unpublished(r)
  BY <1>3 DEF DeliveryInv, UnpublishedIsNowhere
<1>9. ~Unpublished(r)'
  BY <1>8 DEF Unpublished, At, apiVars
<1>10. QED
  BY <1>6, <1>7, <1>9 DEF Over

(* What a thread does to marks, clusters and tasks.                        *)
LEMMA ThreadTears ==
    ASSUME TypeOK, NEW e \in Executors, NEW r \in Requests, ThreadStep(e, r)
    PROVE  /\ UNCHANGED main
           /\ \A f \in Executors : f # e =>
                 /\ timedOut'[f] = timedOut[f] /\ cluster'[f] = cluster[f]
                 /\ pc'[f] = pc[f] /\ job'[f] = job[f]
           /\ \/ timedOut'[e] \subseteq timedOut[e]
              \/ timedOut'[e] = timedOut[e] \cup {r} /\ pc'[e][r] = "timeout"
           /\ pc[e][r] = "timeout" /\ r \in timedOut'[e] =>
                 pc'[e][r] = "timeout" \/ ReportTimeout(e, r)
           /\ \/ cluster'[e] \in {cluster[e], "running"}
              \/ /\ cluster'[e] = "closed"
                 /\ (r \in timedOut[e] /\ pc[e][r] = "restart") \/ cluster[e] = "failed"
           /\ pc'[e][r] = "poll" => pc[e][r] # "idle"
           /\ pc'[e][r] = "poll" /\ job'[e][r] = "lost" => cluster[e] # "running"
           /\ \A q \in Requests : q # r =>
                 /\ pc'[e][q] = pc[e][q]
                 /\ job'[e][q] = "lost" =>
                       \/ job[e][q] = "lost"
                       \/ r \in timedOut[e] /\ pc[e][r] = "restart"
                       \/ cluster[e] = "failed"
<1>0. /\ pc \in [Executors -> [Requests -> {"idle"} \cup PreAck \cup PostAck]]
      /\ job \in [Executors -> [Requests -> JobStates]]
      /\ timedOut \in [Executors -> SUBSET Requests]
      /\ cluster \in [Executors -> {"none", "running", "failed", "closed"}]
  BY DEF TypeOK, ExecutorTypeOK
<1>1. CASE Begin(e, r) \/ SelectRequest(e, r)
  BY <1>0, <1>1 DEF Begin, SelectRequest, GoOnTo, Goto, ThreadEnds, Updating
<1>2. CASE Submit(e, r)
  BY <1>0, <1>2 DEF Submit, GoOnTo, Goto, ThreadEnds
<1>3. CASE GetResult(e, r)
  BY <1>0, <1>3 DEF GetResult, GoOnTo, Goto
<1>4. CASE GiveUp(e, r)
  BY <1>0, <1>4 DEF GiveUp, Goto
<1>5. CASE ReportRunning(e, r) \/ ReportDone(e, r) \/ ReportFailure(e, r)
              \/ ReportTimeout(e, r)
  BY <1>0, <1>5 DEF ReportRunning, ReportDone, ReportFailure, ReportTimeout,
                    Report, Goto, ThreadEnds
<1>6. CASE InsertDownload(e, r)
  BY <1>0, <1>6 DEF InsertDownload, GoOnTo, Goto, ThreadEnds
<1>7. CASE ScheduleAck(e, r)
  BY <1>0, <1>7 DEF ScheduleAck, GoOnTo, Goto, ThreadEnds
<1>8. CASE CloseCluster(e, r)
  BY <1>0, <1>8 DEF CloseCluster, GoOnTo, Goto, JobsLost
<1>9. CASE CheckCluster(e, r)
  BY <1>0, <1>9 DEF CheckCluster, GoOnTo, Goto, JobsLost, ThreadEnds
<1>10. CASE CreateCluster(e, r)
  BY <1>0, <1>10 DEF CreateCluster, Goto, ThreadEnds
<1>11. QED
  BY <1>1, <1>2, <1>3, <1>4, <1>5, <1>6, <1>7, <1>8, <1>9, <1>10 DEF ThreadStep

LEMMA ThreadKeepsCause ==
    ASSUME TypeOK, DeliveryInv, CalmInv, LoadedIsCurrent, PastAckIsHandedOver,
           TornInv, NEW e \in Executors, NEW r \in Requests, ThreadStep(e, r),
           UNCHANGED apiVars
    PROVE  TornInv'
<1>1. \A q \in Requests : status[q] = "TIMEOUT" => status'[q] = "TIMEOUT" /\ Over(q)'
  BY TimeoutStays DEF TornInv
<1>2. SomeTimeout => SomeTimeout'
  BY <1>1 DEF SomeTimeout
<1>3. TimeoutIsOver'
  <2>1. \A q \in Requests : q # r => status'[q] = status[q]
    BY ThreadStepLeaves
  <2>2. QED
    BY <1>1, <2>1, NewTimeoutIsOver DEF TimeoutIsOver
<1>4. MarkIsTimeout'
  <2> SUFFICES ASSUME NEW f \in Executors, NEW q \in timedOut'[f]
               PROVE  pc'[f][q] = "timeout" \/ status'[q] = "TIMEOUT"
    BY DEF MarkIsTimeout
  <2>1. q \in timedOut[f] \/ (f = e /\ q = r /\ pc'[e][r] = "timeout")
    BY ThreadTears
  <2>2. CASE q \in timedOut[f] /\ status[q] = "TIMEOUT"
    BY <1>1, <2>2 DEF TypeOK, ExecutorTypeOK
  <2>3. CASE q \in timedOut[f] /\ pc[f][q] = "timeout" /\ ~(f = e /\ q = r)
    <3>1. q \in Requests
      BY <2>3 DEF TypeOK, ExecutorTypeOK
    <3>2. pc'[f][q] = pc[f][q]
      BY <2>3, <3>1, ThreadStepLeaves
    <3>3. QED
      BY <2>3, <3>2
  <2>4. CASE q \in timedOut[f] /\ pc[f][q] = "timeout" /\ f = e /\ q = r
    <3>1. pc'[e][r] = "timeout" \/ ReportTimeout(e, r)
      BY <2>4, ThreadTears
    <3>2. CASE ReportTimeout(e, r)
      <4>1. Report(e, r, "TIMEOUT", "timeout", "ack") /\ LoadedKept(e, r)
        BY <3>2 DEF ReportTimeout, LoadedIsCurrent, LoadedKept
      <4>2. status' = [status EXCEPT ![r] = "TIMEOUT"]
        BY <4>1, ReportWrites
      <4>3. QED
        BY <2>4, <4>2 DEF TypeOK, DBTypeOK
    <3>3. QED
      BY <2>4, <3>1, <3>2
  <2>5. QED
    BY <2>1, <2>2, <2>3, <2>4 DEF TornInv, MarkIsTimeout
<1>5. \A f \in Executors : r \in timedOut[f] /\ pc[f][r] = "restart" => SomeTimeout
  BY DEF TornInv, MarkIsTimeout, SomeTimeout
<1>6. ClusterHasCause'
  BY <1>2, <1>5, ThreadTears DEF TornInv, ClusterHasCause
<1>7. LostHasTimeout'
  <2>1. \A f \in Executors, q \in Requests :
            pc[f][q] # "idle" /\ cluster[f] # "running" => SomeTimeout
    BY DEF TornInv, ClusterHasCause, DeliveryInv, DownIsQuiet, TypeOK, ExecutorTypeOK
  <2>2. \A f \in Executors : cluster[f] = "failed" => SomeTimeout
    BY DEF TornInv, ClusterHasCause
  <2>3. QED
    BY <1>2, <1>5, <2>1, <2>2, ThreadTears DEF TornInv, LostHasTimeout
<1>8. QED
  BY <1>3, <1>4, <1>6, <1>7 DEF TornInv

(* What the steps of the others do, who commit no TIMEOUT and close nothing. *)
LEMMA OthersKeepCause ==
    ASSUME TypeOK, TornInv,
           \A q \in Requests :
              /\ status'[q] = "TIMEOUT" <=> status[q] = "TIMEOUT"
              /\ status[q] = "TIMEOUT" /\ Over(q) => Over(q)',
           \A e \in Executors :
              /\ timedOut'[e] \subseteq timedOut[e]
              /\ \A r \in timedOut'[e] :
                    pc[e][r] = "timeout" => pc'[e][r] = "timeout"
              /\ \/ main'[e] = main[e] /\ cluster'[e] = cluster[e]
                 \/ main[e] = "up" /\ cluster'[e] = cluster[e]
                 \/ main'[e] = "up" /\ cluster'[e] = "running"
                 \/ main'[e] = "down" /\ cluster'[e] = "none",
           \A e \in Executors, r \in Requests :
              pc'[e][r] = "poll" /\ job'[e][r] = "lost" =>
                  pc[e][r] = "poll" /\ job[e][r] = "lost"
    PROVE  TornInv'
<1>1. SomeTimeout <=> SomeTimeout'
  BY DEF SomeTimeout
<1>2. TimeoutIsOver'
  BY DEF TornInv, TimeoutIsOver
<1>3. MarkIsTimeout'
  BY DEF TornInv, MarkIsTimeout, TypeOK, ExecutorTypeOK
<1>4. ClusterHasCause'
  BY <1>1 DEF TornInv, ClusterHasCause
<1>5. LostHasTimeout'
  BY <1>1 DEF TornInv, LostHasTimeout
<1>6. QED
  BY <1>2, <1>3, <1>4, <1>5 DEF TornInv

LEMMA MainKeepsCause ==
    ASSUME TypeOK, DeliveryInv, PastAckIsHandedOver, TornInv,
           NEW e \in Executors, MainStep(e), UNCHANGED apiVars
    PROVE  TornInv'
<1>0. /\ pc \in [Executors -> [Requests -> {"idle"} \cup PreAck \cup PostAck]]
      /\ job \in [Executors -> [Requests -> JobStates]]
      /\ timedOut \in [Executors -> SUBSET Requests]
      /\ main \in [Executors -> {"down", "up", "draining"}]
      /\ cluster \in [Executors -> {"none", "running", "failed", "closed"}]
      /\ unacked \in [Executors -> SUBSET Requests]
  BY DEF TypeOK, ExecutorTypeOK, BrokerTypeOK
<1>1. UNCHANGED <<status, api>>
  BY DEF MainStep, StartExecutor, ConsumerTimeout, ProcessExit, OnMessage,
     AckMessage, dbVars, apiVars
<1>2. \A f \in Executors :
          /\ timedOut'[f] \subseteq timedOut[f]
          /\ \A q \in timedOut'[f] :
                pc[f][q] = "timeout" => pc'[f][q] = "timeout"
          /\ \/ main'[f] = main[f] /\ cluster'[f] = cluster[f]
             \/ main[f] = "up" /\ cluster'[f] = cluster[f]
             \/ main'[f] = "up" /\ cluster'[f] = "running"
             \/ main'[f] = "down" /\ cluster'[f] = "none"
  <2>1. CASE StartExecutor(e)
    BY <1>0, <2>1 DEF StartExecutor
  <2>2. CASE ConsumerTimeout(e)
    BY <1>0, <2>2 DEF ConsumerTimeout, MainThreadDies
  <2>3. CASE ProcessExit(e)
    BY <1>0, <2>3 DEF ProcessExit, ProcessGone
  <2>4. CASE \E r \in Requests : AckMessage(e, r)
    BY <2>4 DEF AckMessage
  <2>5. ASSUME NEW r \in Requests, OnMessage(e, r)
        PROVE  /\ UNCHANGED <<timedOut, main, cluster>>
               /\ \A f \in Executors, q \in Requests :
                     pc[f][q] = "timeout" => pc'[f][q] = "timeout"
    <3>1. /\ UNCHANGED <<timedOut, main, cluster>>
          /\ pc' = [pc EXCEPT ![e][r] = "start"]
          /\ main[e] = "up" /\ r \in queue /\ r \notin unacked[e]
      BY <2>5 DEF OnMessage, BasicDeliver, Goto
    <3>2. pc[e][r] # "timeout"
      BY <3>1 DEF DeliveryInv, NoLateDelivery, InBroker
    <3>3. QED
      BY <1>0, <3>1, <3>2
  <2>6. QED
    BY <1>0, <2>1, <2>2, <2>3, <2>4, <2>5 DEF MainStep
<1>3. \A f \in Executors, q \in Requests :
          pc'[f][q] = "poll" /\ job'[f][q] = "lost" =>
              pc[f][q] = "poll" /\ job[f][q] = "lost"
  <2>1. CASE StartExecutor(e) \/ ConsumerTimeout(e) \/ \E r \in Requests : AckMessage(e, r)
    BY <2>1 DEF StartExecutor, ConsumerTimeout, AckMessage
  <2>2. CASE ProcessExit(e)
    BY <1>0, <2>2 DEF ProcessExit, ProcessGone
  <2>3. CASE \E r \in Requests : OnMessage(e, r)
    BY <1>0, <2>3 DEF OnMessage, Goto
  <2>4. QED
    BY <2>1, <2>2, <2>3 DEF MainStep
<1>4. ASSUME NEW q \in Requests, Over(q) PROVE Over(q)'
  <2>1. (~Unpublished(q))'
    BY <1>1, <1>4 DEF Over, Unpublished, At
  <2>2. CASE ~\E r \in Requests : OnMessage(e, r)
    BY <1>4, <2>1, <2>2, MainMoves DEF Over, Inserting
  <2>3. ASSUME NEW r \in Requests, OnMessage(e, r) PROVE Over(q)'
    <3>1. /\ r \in queue /\ queue' = queue \ {r}
          /\ pc'[e][r] = "start" /\ unacked'[e] = unacked[e] \cup {r}
          /\ \A f \in Executors, p \in Requests : f # e \/ p # r => pc'[f][p] = pc[f][p]
          /\ \A f \in Executors : f # e => unacked'[f] = unacked[f]
          /\ UNCHANGED ackPending
      BY <1>0, <2>3 DEF OnMessage, BasicDeliver, Goto
    <3>2. q # r
      BY <1>4, <3>1 DEF Over, MayRestart
    <3>3. QED
      BY <1>4, <2>1, <3>1, <3>2 DEF Over, MayRestart, Inserting
  <2>4. QED
    BY <2>2, <2>3
<1>5. QED
  BY <1>1, <1>2, <1>3, <1>4, OthersKeepCause

LEMMA ApiKeepsCause ==
    ASSUME TypeOK, EndpointHasRow, DeliveryInv, TornInv, ApiNext
    PROVE  TornInv'
<1>1. /\ UNCHANGED <<pc, job, ackPending, main, unacked, timedOut, cluster>>
      /\ \A q \in Requests :
            /\ q \in queue' => q \in queue \/ (At("publish") /\ q = api.req)
            /\ status'[q] # status[q] => status[q] = "NOROW"
  BY ApiWrites DEF ApiNext, executorVars
<1>2. \A q \in Requests : status'[q] = "TIMEOUT" <=> status[q] = "TIMEOUT"
  <2>1. \/ UNCHANGED status
        \/ \E r \in Requests : CreateRequest(r)
    BY DEF ApiNext, EndpointStep, Publish, SyncPoll, SyncFetch, GetUriStatus,
       DownloadFetch, ApiFails, EndpointCall, AcceptQuery, AcceptWorkflow, Register,
       GetStatus, GetSize, GetUri, Download, dbVars
  <2>2. QED
    BY <2>1 DEF CreateRequest, TypeOK, DBTypeOK
<1>3. ASSUME NEW q \in Requests, Over(q) PROVE Over(q)'
  <2>1. ~Unpublished(q)'
    BY <1>3, ApiUnpublished DEF Over
  <2>2. ~(At("publish") /\ q = api.req)
    BY <1>3 DEF Over, Unpublished
  <2>3. QED
    BY <1>1, <1>3, <2>1, <2>2 DEF Over, MayRestart, Inserting
<1>4. QED
  BY <1>1, <1>2, <1>3, OthersKeepCause

LEMMA WorkerKeepsCause ==
    ASSUME TypeOK, TornInv, NEW e \in Executors, NEW r \in Requests,
           WorkerStep(e, r), UNCHANGED apiVars
    PROVE  TornInv'
<1>1. UNCHANGED <<main, pc, timedOut, ackPending, cluster, status, queue, unacked, api>>
  BY DEF WorkerStep, OpenResult, ProcessReturns, dbVars, brokerVars, apiVars
<1>2. PICK j : job' = [job EXCEPT ![e][r] = j] /\ j # "lost"
  BY OutcomesAssumption DEF WorkerStep, OpenResult, ProcessReturns, JobResults
<1>3. \A f \in Executors, q \in Requests : job'[f][q] = "lost" => job[f][q] = "lost"
  BY <1>2 DEF TypeOK, ExecutorTypeOK
<1>4. \A q \in Requests : Over(q) => Over(q)'
  BY <1>1 DEF Over, MayRestart, Inserting, Unpublished, At
<1>5. QED
  BY <1>1, <1>3, <1>4, OthersKeepCause

LEMMA CauseInvInductive ==
    ASSUME TypeInv, DeliveryInv, ResultInv, RowInv, CauseInv, [Next]_vars
    PROVE  CauseInv'
<1>1. CASE UNCHANGED vars
  BY <1>1 DEF vars, dbVars, brokerVars, executorVars, apiVars, CauseInv, TornInv,
     TimeoutIsOver, MarkIsTimeout, ClusterHasCause, LostHasTimeout, SomeTimeout,
     Over, MayRestart, Inserting, Unpublished, At
<1>2. CASE Next
  <2> SUFFICES ASSUME faults' = 0 PROVE TornInv'
    BY DEF CauseInv
  <2>1. /\ ~ExecutorFault /\ TornInv /\ CalmInv /\ LoadedIsCurrent
        /\ TypeOK /\ EndpointHasRow /\ PastAckIsHandedOver
    BY <1>2, FaultsCount DEF CauseInv, ResultInv, TypeInv, RowInv
  <2>2. CASE ApiNext
    BY <2>1, <2>2, ApiKeepsCause
  <2>3. CASE ExecutorNext
    BY <2>1, <2>3, MainKeepsCause, ThreadKeepsCause, WorkerKeepsCause DEF ExecutorNext
  <2>4. QED
    BY <1>2, <2>2, <2>3 DEF Next
<1>3. QED
  BY <1>1, <1>2

LEMMA InitCauseInv == Init => CauseInv
<1> SUFFICES ASSUME Init PROVE TornInv
  BY DEF CauseInv
<1>1. /\ \A r \in Requests : status[r] = "NOROW"
      /\ \A e \in Executors : timedOut[e] = {} /\ main[e] = "down" /\ cluster[e] = "none"
      /\ \A e \in Executors, r \in Requests : pc[e][r] = "idle"
  BY DEF Init, DBInit, ExecutorInit
<1>2. QED
  BY <1>1 DEF TornInv, TimeoutIsOver, MarkIsTimeout, ClusterHasCause, LostHasTimeout

LEMMA CauseInvAlways == Spec => []CauseInv
  BY InitCauseInv, CauseInvInductive, TypeInvAlways, DeliveryAlways, ResultInvAlways,
     RowInvAlways, PTL DEF Spec

(* A task is torn from a waiting thread only after a fault or by the close *)
(* that follows the TIMEOUT of another request, with any number of         *)
(* executors.                                                              *)
THEOREM LostJobAlwaysHasCause == Spec => []LostJobHasCause
<1>1. TypeInv /\ CauseInv => LostJobHasCause
  <2> SUFFICES ASSUME TypeInv, CauseInv, NEW e \in Executors, NEW r \in Requests,
                      pc[e][r] = "poll", job[e][r] = "lost", faults = 0
               PROVE  \E q \in Requests \ {r} : status[q] = "TIMEOUT"
    BY FaultsAreCounted DEF LostJobHasCause
  <2>1. PICK q \in Requests : status[q] = "TIMEOUT"
    BY DEF CauseInv, TornInv, LostHasTimeout, SomeTimeout
  <2>2. q # r
    BY <2>1 DEF CauseInv, TornInv, TimeoutIsOver, Over, Inserting
  <2>3. QED
    BY <2>1, <2>2
<1>2. QED
  BY <1>1, TypeInvAlways, CauseInvAlways, PTL

================================================================================
