----------------------------- MODULE GeolakeProofs -----------------------------
(***************************************************************************)
(* Theorems about Geolake, for every number of requests, executors and     *)
(* faults: its types, and that deliveries, threads and acknowledgements    *)
(* never meet.                                                             *)
(***************************************************************************)
EXTENDS Geolake, TLAPS

(* Type correctness holds initially.                                       *)
LEMMA InitTypeOK == Init => TypeOK
<1> SUFFICES ASSUME Init PROVE TypeOK
  OBVIOUS
<1> USE MaxRequestAssumption, MaxFaultsAssumption DEF Init
<1>1. EnvironmentTypeOK
  BY DEF EnvironmentInit, EnvironmentTypeOK
<1>2. DBTypeOK
  BY DEF DBInit, DBTypeOK, Reasons
<1>3. BrokerTypeOK
  BY DEF BrokerInit, BrokerTypeOK
<1>4. ExecutorTypeOK
  <2>1. NoRow \in Rows
    BY DEF NoRow, Rows, Reasons
  <2>2. QED
    BY <2>1 DEF ExecutorInit, ExecutorTypeOK, JobStates, JobResults
<1>5. ApiTypeOK
  BY DEF ApiInit, ApiTypeOK, Idle, NoReply, Reasons
<1>6. QED
  BY <1>1, <1>2, <1>3, <1>4, <1>5 DEF TypeOK

(* A fault stays within its bound.                                         *)
LEMMA FaultTypeOK ==
    ASSUME NEW kind, EnvironmentTypeOK, Fault(kind)
    PROVE  faults' \in 0..MaxFaults
  BY MaxFaultsAssumption DEF EnvironmentTypeOK, Fault

(* The operations of the tables keep the types of the tables.              *)
LEMMA CreateRequestType ==
    ASSUME DBTypeOK, NEW r \in Requests, CreateRequest(r)
    PROVE  DBTypeOK'
  BY DEF DBTypeOK, CreateRequest, RequestStatus

LEMMA CommitStatusType ==
    ASSUME DBTypeOK, NEW r \in Requests, NEW row, NEW st \in RequestStatus,
           NEW why \in Reasons, CommitStatus(r, row, st, why)
    PROVE  DBTypeOK'
  BY DEF DBTypeOK, CommitStatus

LEMMA RowOfType ==
    ASSUME DBTypeOK, NEW r \in Requests
    PROVE  RowOf(r) \in Rows
  BY DEF DBTypeOK, RowOf, Rows

LEMMA CommitDownloadType ==
    ASSUME DBTypeOK, NEW r \in Requests, NEW path \in Paths,
           CommitDownload(r, path)
    PROVE  DBTypeOK'
<1>1. downloads \in [Requests -> Seq(Paths)]
  BY DEF DBTypeOK
<1>2. Append(downloads[r], path) \in Seq(Paths)
  BY <1>1
<1>3. downloads' \in [Requests -> Seq(Paths)]
  BY <1>1, <1>2 DEF CommitDownload
<1>4. QED
  BY <1>3 DEF DBTypeOK, CommitDownload

(* An endpoint that answers, or goes on, keeps the types of the API.       *)
LEMMA AnswerType ==
    ASSUME NEW op \in Endpoints, NEW r \in Requests \cup {0},
           NEW says \in Answers, NEW detail \in RequestStatus \cup Reasons,
           Answer(op, r, says, detail)
    PROVE  ApiTypeOK'
  BY DEF ApiTypeOK, Answer, Idle

LEMMA GoOnType ==
    ASSUME ApiTypeOK, ~At("idle"),
           NEW label \in {"poll", "syncRow"}, GoOn(label)
    PROVE  ApiTypeOK'
  BY DEF ApiTypeOK, GoOn, At

LEMMA BeginEndpointType ==
    ASSUME ApiTypeOK, NEW r \in Requests, NEW sync \in BOOLEAN,
           NEW label \in {"publish", "downloadRow", "uriStatus"},
           api' = [pc |-> label, req |-> r, sync |-> sync],
           UNCHANGED reply
    PROVE  ApiTypeOK'
  BY DEF ApiTypeOK

(* Each endpoint keeps the types of the API.                               *)
LEMMA EndpointStepType ==
    ASSUME TypeOK, EndpointHasRow, EndpointStep
    PROVE  ApiTypeOK'
<1> DEFINE r == api.req
<1>1. ApiTypeOK /\ DBTypeOK
  BY DEF TypeOK
<1>2. ~At("idle") => r \in Requests /\ status[r] \in RequestStatus
  BY <1>1 DEF EndpointHasRow, DBTypeOK
<1>3. "none" \in RequestStatus \cup Reasons
  BY DEF Reasons
<1>4. CASE Publish
  <2>1. At("publish") /\ ~At("idle")
    BY <1>4 DEF Publish, At
  <2>2. CASE api.sync
    BY <1>1, <1>4, <2>1, <2>2, GoOnType DEF Publish
  <2>3. CASE ~api.sync
    BY <1>2, <1>3, <1>4, <2>1, <2>3, AnswerType DEF Publish, Endpoints, Answers
  <2>4. QED
    BY <2>2, <2>3
<1>5. CASE SyncPoll
  <2>1. At("poll") /\ ~At("idle") /\ status[r] \in Terminal
    BY <1>5 DEF SyncPoll, At
  <2>2. CASE status[r] = "DONE"
    BY <1>1, <1>5, <2>1, <2>2, GoOnType DEF SyncPoll
  <2>3. CASE status[r] # "DONE"
    <3>1. status[r] \in RequestStatus \cup Reasons
      BY <2>1 DEF Terminal, RequestStatus
    <3>2. "sync" \in Endpoints /\ "ProductRetrievingError" \in Answers
      BY DEF Endpoints, Answers
    <3>3. Answer("sync", r, "ProductRetrievingError", status[r])
      BY <1>5, <2>3 DEF SyncPoll
    <3>4. QED
      BY <1>2, <2>1, <3>1, <3>2, <3>3, AnswerType
  <2>4. QED
    BY <2>2, <2>3
<1>6. CASE SyncFetch
  <2>1. ~At("idle")
    BY <1>6 DEF SyncFetch, At
  <2>2. PICK says \in Answers : Answer("sync", r, says, "none")
    BY <1>6 DEF SyncFetch, ReadFile, Answers
  <2>3. "sync" \in Endpoints
    BY DEF Endpoints
  <2>4. QED
    BY <1>2, <1>3, <2>1, <2>2, <2>3, AnswerType
<1>7. CASE GetUriStatus
  <2>1. ~At("idle")
    BY <1>7 DEF GetUriStatus, At
  <2>2. "uri" \in Endpoints /\ "RequestStatusNotDone" \in Answers
    BY DEF Endpoints, Answers
  <2>3. Answer("uri", r, "RequestStatusNotDone", status[r])
    BY <1>7 DEF GetUriStatus
  <2>4. QED
    BY <1>2, <2>1, <2>2, <2>3, AnswerType
<1>8. CASE DownloadFetch
  <2>1. ~At("idle")
    BY <1>8 DEF DownloadFetch, At
  <2>2. DownloadOf(r) \subseteq {"absent", "none", "file"}
    BY <1>1, <1>2, <2>1 DEF DownloadOf, DBTypeOK, Paths
  <2>3. PICK says \in Answers : Answer("download", r, says, "none")
    BY <1>8, <2>2 DEF DownloadFetch, ReadFile, Answers
  <2>4. QED
    BY <1>2, <1>3, <2>1, <2>3, AnswerType DEF Endpoints
<1>9. QED
  BY <1>4, <1>5, <1>6, <1>7, <1>8 DEF EndpointStep

LEMMA EndpointCallType ==
    ASSUME TypeOK, NEW r \in Requests, EndpointCall(r)
    PROVE  ApiTypeOK'
<1>1. ApiTypeOK /\ DBTypeOK
  BY DEF TypeOK
<1>2. "none" \in RequestStatus \cup Reasons
  BY DEF Reasons
<1>3. reason[r] \in RequestStatus \cup Reasons
  BY <1>1 DEF DBTypeOK
<1>4. status[r] # "NOROW" => status[r] \in RequestStatus
  BY <1>1 DEF DBTypeOK
<1>5. DownloadOf(r) \subseteq {"absent", "none", "file"}
  BY <1>1 DEF DBTypeOK, DownloadOf, Paths
<1>6. ASSUME NEW sync \in BOOLEAN, Register(r, sync)
      PROVE  ApiTypeOK'
  BY <1>1, <1>6, BeginEndpointType DEF Register
<1>7. CASE GetStatus(r)
  <2>1. CASE status[r] = "NOROW"
    BY <1>2, <1>7, <2>1, AnswerType DEF GetStatus, Answers, Endpoints
  <2>2. CASE status[r] # "NOROW"
    <3>1. "status" \in Endpoints /\ status[r] \in Answers
      BY <1>4, <2>2 DEF Endpoints, Answers
    <3>2. Answer("status", r, status[r], reason[r])
      BY <1>7, <2>2 DEF GetStatus
    <3>3. QED
      BY <1>3, <3>1, <3>2, AnswerType
  <2>3. QED
    BY <2>1, <2>2
<1>8. CASE GetSize(r)
  <2>1. PICK says \in Answers : Answer("size", r, says, "none")
    BY <1>5, <1>8 DEF GetSize, Answers
  <2>2. QED
    BY <1>2, <2>1, AnswerType DEF Endpoints
<1>9. CASE GetUri(r)
  <2>1. CASE Answer("uri", r, "RequestNotFound", "none")
    BY <1>2, <2>1, AnswerType DEF Answers, Endpoints
  <2>2. CASE Answer("uri", r, "uri", "none")
    BY <1>2, <2>2, AnswerType DEF Answers, Endpoints
  <2>3. CASE /\ api' = [pc |-> "uriStatus", req |-> r, sync |-> FALSE]
             /\ UNCHANGED reply
    BY <1>1, <2>3, BeginEndpointType
  <2>4. QED
    BY <1>9, <2>1, <2>2, <2>3 DEF GetUri
<1>10. CASE Download(r)
  <2>1. CASE Answer("download", r, "IndexError", "none")
    BY <1>2, <2>1, AnswerType DEF Answers, Endpoints
  <2>2. CASE /\ status[r] \in RequestStatus \ {"DONE"}
             /\ Answer("download", r, "RequestNotYetAccomplished", status[r])
    BY <2>2, AnswerType DEF Answers, Endpoints
  <2>3. CASE /\ api' = [pc |-> "downloadRow", req |-> r, sync |-> FALSE]
             /\ UNCHANGED reply
    BY <1>1, <2>3, BeginEndpointType
  <2>4. QED
    BY <1>10, <2>1, <2>2, <2>3 DEF Download
<1>11. QED
  BY <1>6, <1>7, <1>8, <1>9, <1>10 DEF EndpointCall, AcceptQuery, AcceptWorkflow

(* A step of the API keeps every type.                                     *)
LEMMA ApiStepType ==
    ASSUME TypeOK, EndpointHasRow, ApiNext
    PROVE  TypeOK' /\ EndpointHasRow'
<1>1. ExecutorTypeOK'
  BY DEF ApiNext, executorVars, TypeOK, ExecutorTypeOK
<1>2. CASE EndpointStep
  <2>1. ApiTypeOK'
    BY <1>2, EndpointStepType
  <2>2. UNCHANGED <<dbVars, files, faults>>
    BY <1>2 DEF EndpointStep, Publish, SyncPoll, SyncFetch, GetUriStatus,
                DownloadFetch
  <2>3. BrokerTypeOK'
    <3>1. CASE Publish
      <4>1. api.req \in Requests
        BY <3>1 DEF Publish, At, EndpointHasRow
      <4>2. QED
        BY <3>1, <4>1 DEF Publish, BasicPublish, TypeOK, BrokerTypeOK
    <3>2. CASE ~Publish
      BY <1>2, <3>2 DEF EndpointStep, SyncPoll, SyncFetch, GetUriStatus,
         DownloadFetch, brokerVars, TypeOK, BrokerTypeOK
    <3>3. QED
      BY <3>1, <3>2
  <2>4. EndpointHasRow'
    <3>1. \/ api' = Idle
          \/ \E label \in {"poll", "syncRow"} : api' = [api EXCEPT !.pc = label]
      BY <1>2 DEF EndpointStep, Publish, SyncPoll, SyncFetch, GetUriStatus,
                  DownloadFetch, Answer, GoOn
    <3>2. ~At("idle")
      BY <1>2 DEF EndpointStep, Publish, SyncPoll, SyncFetch, GetUriStatus,
                  DownloadFetch, At
    <3>3. QED
      BY <2>2, <3>1, <3>2 DEF EndpointHasRow, At, Idle, dbVars, TypeOK, ApiTypeOK
  <2>5. QED
    BY <1>1, <2>1, <2>2, <2>3, <2>4
       DEF TypeOK, dbVars, DBTypeOK, EnvironmentTypeOK
<1>3. CASE ApiFails
  <2>1. ApiTypeOK'
    BY <1>3 DEF ApiFails, ApiTypeOK, Idle, NoReply, Reasons
  <2>2. faults' \in 0..MaxFaults
    BY <1>3, FaultTypeOK DEF ApiFails, TypeOK
  <2>3. EndpointHasRow'
    BY <1>3 DEF ApiFails, EndpointHasRow, At, Idle
  <2>4. QED
    BY <1>1, <1>3, <2>1, <2>2, <2>3
       DEF ApiFails, TypeOK, dbVars, brokerVars, DBTypeOK, BrokerTypeOK,
           EnvironmentTypeOK
<1>4. ASSUME NEW r \in Requests, EndpointCall(r)
      PROVE  TypeOK' /\ EndpointHasRow'
  <2>1. ApiTypeOK'
    BY <1>4, EndpointCallType
  <2>2. UNCHANGED <<brokerVars, files, faults>>
    BY <1>4 DEF EndpointCall, AcceptQuery, AcceptWorkflow, Register, GetStatus,
                GetSize, GetUri, Download
  <2>3. CASE \E sync \in BOOLEAN : Register(r, sync)
    <3>1. CreateRequest(r)
      BY <2>3 DEF Register
    <3>2. DBTypeOK'
      BY <3>1, CreateRequestType DEF TypeOK
    <3>3. EndpointHasRow'
      BY <2>3, <3>1 DEF Register, CreateRequest, EndpointHasRow, At, TypeOK,
                        DBTypeOK
    <3>4. QED
      BY <1>1, <2>1, <2>2, <3>2, <3>3
         DEF TypeOK, brokerVars, BrokerTypeOK, EnvironmentTypeOK
  <2>4. CASE GetStatus(r) \/ GetSize(r) \/ GetUri(r) \/ Download(r)
    <3>1. UNCHANGED dbVars
      BY <2>4 DEF GetStatus, GetSize, GetUri, Download
    <3>2. \/ api' = Idle
          \/ status[r] # "NOROW" /\ api'.req = r
      BY <2>4 DEF GetStatus, GetSize, GetUri, Download, Answer
    <3>3. EndpointHasRow'
      BY <3>1, <3>2 DEF EndpointHasRow, At, Idle, dbVars
    <3>4. QED
      BY <1>1, <2>1, <2>2, <3>1, <3>3
         DEF TypeOK, dbVars, brokerVars, DBTypeOK, BrokerTypeOK,
             EnvironmentTypeOK
  <2>5. QED
    BY <1>4, <2>3, <2>4 DEF EndpointCall, AcceptQuery, AcceptWorkflow
<1>5. QED
  BY <1>2, <1>3, <1>4 DEF ApiNext

------------------------------------------------------------------------------
(* The executor.                                                           *)

(* The building blocks of the executor keep the types they touch.          *)
LEMMA ThreadEndsType ==
    ASSUME ExecutorTypeOK, NEW e \in Executors, NEW r \in Requests,
           ThreadEnds(e, r)
    PROVE  /\ pc' \in [Executors ->
                         [Requests -> {"idle"} \cup PreAck \cup PostAck]]
           /\ session' \in [Executors -> [Requests -> Rows]]
           /\ timedOut' \in [Executors -> SUBSET Requests]
<1>1. NoRow \in Rows
  BY DEF NoRow, Rows, Reasons
<1>2. QED
  BY <1>1 DEF ExecutorTypeOK, ThreadEnds, Goto

LEMMA GotoType ==
    ASSUME ExecutorTypeOK, NEW e \in Executors, NEW r \in Requests,
           NEW label \in {"idle"} \cup PreAck \cup PostAck, Goto(e, r, label)
    PROVE  pc' \in [Executors ->
                      [Requests -> {"idle"} \cup PreAck \cup PostAck]]
  BY DEF ExecutorTypeOK, Goto

LEMMA GoOnToType ==
    ASSUME ExecutorTypeOK, NEW e \in Executors, NEW r \in Requests,
           NEW label \in PreAck \cup PostAck, GoOnTo(e, r, label)
    PROVE  /\ pc' \in [Executors ->
                         [Requests -> {"idle"} \cup PreAck \cup PostAck]]
           /\ session' \in [Executors -> [Requests -> Rows]]
           /\ timedOut' \in [Executors -> SUBSET Requests]
  BY GotoType DEF ExecutorTypeOK, GoOnTo

LEMMA ReportType ==
    ASSUME ExecutorTypeOK, NEW e \in Executors, NEW r \in Requests,
           NEW st, NEW why, NEW label \in PreAck, Report(e, r, st, why, label)
    PROVE  /\ pc' \in [Executors ->
                         [Requests -> {"idle"} \cup PreAck \cup PostAck]]
           /\ session' \in [Executors -> [Requests -> Rows]]
           /\ timedOut' \in [Executors -> SUBSET Requests]
<1>1. NoRow \in Rows
  BY DEF NoRow, Rows, Reasons
<1>2. QED
  BY <1>1, GotoType DEF ExecutorTypeOK, Report

LEMMA JobsLostType ==
    ASSUME ExecutorTypeOK, NEW e \in Executors, JobsLost(e)
    PROVE  job' \in [Executors -> [Requests -> JobStates]]
  BY DEF ExecutorTypeOK, JobsLost, JobStates

LEMMA ProcessGoneType ==
    ASSUME ExecutorTypeOK, NEW e \in Executors, ProcessGone(e)
    PROVE  ExecutorTypeOK'
<1>1. NoRow \in Rows
  BY DEF NoRow, Rows, Reasons
<1>2. session' \in [Executors -> [Requests -> Rows]]
  BY <1>1 DEF ExecutorTypeOK, ProcessGone
<1>3. QED
  BY <1>2 DEF ExecutorTypeOK, ProcessGone, JobStates

LEMMA RequeueType ==
    ASSUME BrokerTypeOK, NEW e \in Executors, Requeue(e)
    PROVE  BrokerTypeOK'
  BY DEF BrokerTypeOK, Requeue

LEMMA MainStepType ==
    ASSUME TypeOK, NEW e \in Executors, MainStep(e), UNCHANGED apiVars
    PROVE  TypeOK'
<1>0. ExecutorTypeOK /\ BrokerTypeOK /\ DBTypeOK
  BY DEF TypeOK
<1>1. UNCHANGED <<dbVars, files, faults>>
  BY DEF MainStep, StartExecutor, ConsumerTimeout, ProcessExit, ProcessGone,
         OnMessage, AckMessage
<1>2. EnvironmentTypeOK' /\ DBTypeOK' /\ ApiTypeOK'
  BY <1>1 DEF TypeOK, EnvironmentTypeOK, DBTypeOK, dbVars, ApiTypeOK, apiVars
<1>3. CASE StartExecutor(e)
  BY <1>0, <1>2, <1>3
     DEF StartExecutor, QueueDeclare, TypeOK, BrokerTypeOK, ExecutorTypeOK
<1>4. CASE ConsumerTimeout(e)
  <2>1. BrokerTypeOK'
    BY <1>0, <1>4, RequeueType DEF ConsumerTimeout
  <2>2. ExecutorTypeOK'
    BY <1>0, <1>4 DEF ConsumerTimeout, MainThreadDies, ExecutorTypeOK
  <2>3. QED
    BY <1>2, <2>1, <2>2 DEF TypeOK
<1>5. CASE ProcessExit(e)
  BY <1>0, <1>2, <1>5, ProcessGoneType
     DEF ProcessExit, TypeOK, BrokerTypeOK, brokerVars
<1>6. ASSUME NEW r \in Requests, OnMessage(e, r)
      PROVE  TypeOK'
  <2>1. BrokerTypeOK'
    BY <1>0, <1>6 DEF OnMessage, BasicDeliver, BrokerTypeOK
  <2>2. ExecutorTypeOK'
    <3>1. "start" \in PreAck
      BY DEF PreAck
    <3>2. QED
      BY <1>0, <1>6, <3>1, GotoType DEF OnMessage, ExecutorTypeOK
  <2>3. QED
    BY <1>2, <2>1, <2>2 DEF TypeOK
<1>7. ASSUME NEW r \in Requests, AckMessage(e, r)
      PROVE  TypeOK'
  <2>1. BrokerTypeOK'
    BY <1>0, <1>7 DEF AckMessage, BasicAck, BrokerTypeOK
  <2>2. ExecutorTypeOK'
    BY <1>0, <1>7 DEF AckMessage, ExecutorTypeOK
  <2>3. QED
    BY <1>2, <2>1, <2>2 DEF TypeOK
<1>8. QED
  BY <1>3, <1>4, <1>5, <1>6, <1>7 DEF MainStep

(* An executor's thread writes the database through CommitStatus and       *)
(* CommitDownload only.                                                    *)
LEMMA ThreadStepWrites ==
    ASSUME TypeOK, NEW e \in Executors, NEW r \in Requests, ThreadStep(e, r)
    PROVE  \/ UNCHANGED dbVars
           \/ \E row \in Rows, st \in RequestStatus, why \in Reasons :
              CommitStatus(r, row, st, why)
           \/ \E path \in Paths : CommitDownload(r, path)
<1>1. session[e][r] \in Rows
  BY DEF TypeOK, ExecutorTypeOK
<1>2. ASSUME NEW st, NEW why, NEW label, Report(e, r, st, why, label)
      PROVE  CommitStatus(r, session[e][r], st, why)
  BY <1>2 DEF Report
<1>3. CASE \/ ReportRunning(e, r) \/ ReportDone(e, r)
           \/ ReportFailure(e, r) \/ ReportTimeout(e, r)
  <2>1. \/ UNCHANGED dbVars
        \/ \E st \in RequestStatus, why \in Reasons :
              CommitStatus(r, session[e][r], st, why)
    BY <1>2, <1>3 DEF ReportRunning, ReportDone, ReportFailure, ReportTimeout,
                      RequestStatus, Reasons
  <2>2. QED
    BY <1>1, <2>1
<1>4. CASE InsertDownload(e, r)
  BY <1>4 DEF InsertDownload, Paths
<1>5. CASE ~(\/ ReportRunning(e, r) \/ ReportDone(e, r)
             \/ ReportFailure(e, r) \/ ReportTimeout(e, r)
             \/ InsertDownload(e, r))
  BY <1>5 DEF ThreadStep, Begin, SelectRequest, Submit, GetResult, GiveUp,
              ScheduleAck, CloseCluster, CheckCluster, CreateCluster
<1>6. QED
  BY <1>3, <1>4, <1>5

LEMMA ThreadStepType ==
    ASSUME TypeOK, NEW e \in Executors, NEW r \in Requests,
           ThreadStep(e, r), UNCHANGED apiVars
    PROVE  TypeOK'
<1>0. ExecutorTypeOK /\ BrokerTypeOK /\ DBTypeOK
  BY DEF TypeOK
<1>1. UNCHANGED <<brokerVars, files, faults>>
  BY DEF ThreadStep, Begin, SelectRequest, ReportRunning, Submit, GetResult,
         GiveUp, ReportDone, ReportFailure, ReportTimeout, Report, GoOnTo,
         InsertDownload, ScheduleAck, CloseCluster, CheckCluster,
         CreateCluster
<1>2. EnvironmentTypeOK' /\ BrokerTypeOK' /\ ApiTypeOK'
  BY <1>1 DEF TypeOK, EnvironmentTypeOK, BrokerTypeOK, brokerVars, ApiTypeOK,
              apiVars
<1>3. DBTypeOK'
  <2>1. CASE UNCHANGED dbVars
    BY <1>0, <2>1 DEF DBTypeOK, dbVars
  <2>2. CASE \E row \in Rows, st \in RequestStatus, why \in Reasons :
               CommitStatus(r, row, st, why)
    BY <1>0, <2>2, CommitStatusType
  <2>3. CASE \E path \in Paths : CommitDownload(r, path)
    BY <1>0, <2>3, CommitDownloadType
  <2>4. QED
    BY <2>1, <2>2, <2>3, ThreadStepWrites
<1>4. ExecutorTypeOK'
  <2> USE <1>0
  <2>0. /\ {"start", "running", "submit", "poll", "done", "failed", "timeout",
            "insert", "ack"} \subseteq PreAck
        /\ {"restart", "create"} \subseteq PostAck
    BY DEF PreAck, PostAck
  <2>1. CASE Begin(e, r)
    BY <2>0, <2>1, ThreadEndsType, GoOnToType DEF Begin, ExecutorTypeOK
  <2>2. CASE Submit(e, r)
    <3>1. /\ pc' \in [Executors -> [Requests -> {"idle"} \cup PreAck \cup PostAck]]
          /\ session' \in [Executors -> [Requests -> Rows]]
          /\ timedOut' \in [Executors -> SUBSET Requests]
      BY <2>0, <2>2, ThreadEndsType, GoOnToType DEF Submit
    <3>2. job' \in [Executors -> [Requests -> JobStates]]
      <4>1. \/ job' = job
            \/ \E j \in JobStates : job' = [job EXCEPT ![e][r] = j]
        BY <2>2 DEF Submit, JobStates
      <4>2. ASSUME NEW j \in JobStates
            PROVE  [job EXCEPT ![e][r] = j] \in [Executors -> [Requests -> JobStates]]
        BY DEF ExecutorTypeOK
      <4>3. job \in [Executors -> [Requests -> JobStates]]
        BY DEF ExecutorTypeOK
      <4>4. QED
        BY <4>1, <4>2, <4>3
    <3>3. QED
      BY <2>2, <3>1, <3>2 DEF Submit, ExecutorTypeOK
  <2>3. CASE SelectRequest(e, r)
    <3>1. RowOf(r) \in Rows
      BY RowOfType
    <3>2. session' \in [Executors -> [Requests -> Rows]]
      BY <2>3, <3>1 DEF SelectRequest, ExecutorTypeOK
    <3>3. QED
      BY <2>3, <3>2 DEF SelectRequest, ExecutorTypeOK
  <2>4. CASE ReportRunning(e, r) \/ ReportDone(e, r) \/ ReportTimeout(e, r)
    <3>1. \/ Report(e, r, "RUNNING", "none", "submit")
          \/ Report(e, r, "DONE", "none", "insert")
          \/ Report(e, r, "TIMEOUT", "timeout", "ack")
      BY <2>4 DEF ReportRunning, ReportDone, ReportTimeout
    <3>2. UNCHANGED <<main, job, ackPending, cluster>>
      BY <2>4 DEF ReportRunning, ReportDone, ReportTimeout
    <3>3. QED
      BY <2>0, <3>1, <3>2, ReportType DEF ExecutorTypeOK
  <2>5. CASE ReportFailure(e, r)
    <3>1. \/ Report(e, r, "FAILED", "error", "ack")
          \/ ThreadEnds(e, r)
      BY <2>5 DEF ReportFailure
    <3>2. QED
      BY <2>0, <2>5, <3>1, ReportType, ThreadEndsType
         DEF ReportFailure, ExecutorTypeOK
  <2>12. CASE GetResult(e, r)
    BY <2>0, <2>12, GoOnToType DEF GetResult, ExecutorTypeOK
  <2>13. CASE GiveUp(e, r)
    <3>1. job' \in [Executors -> [Requests -> JobStates]]
      BY <2>13 DEF GiveUp, ExecutorTypeOK, JobStates
    <3>2. timedOut' \in [Executors -> SUBSET Requests]
      BY <2>13 DEF GiveUp, ExecutorTypeOK
    <3>3. QED
      BY <2>0, <2>13, <3>1, <3>2, GotoType DEF GiveUp, ExecutorTypeOK
  <2>6. CASE InsertDownload(e, r)
    BY <2>0, <2>6, ThreadEndsType, GoOnToType DEF InsertDownload, ExecutorTypeOK
  <2>7. CASE ScheduleAck(e, r)
    <3>1. /\ pc' \in [Executors -> [Requests -> {"idle"} \cup PreAck \cup PostAck]]
          /\ session' \in [Executors -> [Requests -> Rows]]
          /\ timedOut' \in [Executors -> SUBSET Requests]
      BY <2>0, <2>7, ThreadEndsType, GoOnToType DEF ScheduleAck
    <3>2. ackPending' \in [Executors -> SUBSET Requests]
      BY <2>7 DEF ScheduleAck, ExecutorTypeOK
    <3>3. QED
      BY <2>7, <3>1, <3>2 DEF ScheduleAck, ExecutorTypeOK
  <2>8. CASE CloseCluster(e, r)
    BY <2>0, <2>8, JobsLostType, GoOnToType DEF CloseCluster, ExecutorTypeOK
  <2>9. CASE CheckCluster(e, r)
    <3>1. /\ pc' \in [Executors -> [Requests -> {"idle"} \cup PreAck \cup PostAck]]
          /\ session' \in [Executors -> [Requests -> Rows]]
          /\ timedOut' \in [Executors -> SUBSET Requests]
      BY <2>0, <2>9, ThreadEndsType, GoOnToType DEF CheckCluster
    <3>3. job' \in [Executors -> [Requests -> JobStates]]
      BY <2>9, JobsLostType DEF CheckCluster, ExecutorTypeOK
    <3>4. cluster' \in [Executors -> {"none", "running", "failed", "closed"}]
      BY <2>9 DEF CheckCluster, ExecutorTypeOK
    <3>5. main' = main /\ ackPending' = ackPending
      BY <2>9 DEF CheckCluster
    <3>6. QED
      BY <3>1, <3>3, <3>4, <3>5 DEF ExecutorTypeOK
  <2>10. CASE CreateCluster(e, r)
    <3>1. pc' \in [Executors -> [Requests -> {"idle"} \cup PreAck \cup PostAck]]
      BY <2>0, <2>10, ThreadEndsType, GotoType DEF CreateCluster
    <3>2. /\ timedOut' \in [Executors -> SUBSET Requests]
          /\ session' \in [Executors -> [Requests -> Rows]]
      BY <2>10, ThreadEndsType DEF CreateCluster, ExecutorTypeOK
    <3>3. QED
      BY <2>10, <3>1, <3>2 DEF CreateCluster, ExecutorTypeOK
  <2>11. QED
    BY <2>1, <2>2, <2>3, <2>4, <2>5, <2>6, <2>7, <2>8, <2>9, <2>10, <2>12,
       <2>13 DEF ThreadStep
<1>5. QED
  BY <1>2, <1>3, <1>4 DEF TypeOK

LEMMA WorkerStepType ==
    ASSUME TypeOK, NEW e \in Executors, NEW r \in Requests,
           WorkerStep(e, r), UNCHANGED apiVars
    PROVE  TypeOK'
<1>0. Outcomes \subseteq JobStates /\ "writing" \in JobStates
  BY OutcomesAssumption DEF JobStates
<1>1. ExecutorTypeOK'
  <2>1. PICK j \in JobStates : job' = [job EXCEPT ![e][r] = j]
    BY <1>0 DEF WorkerStep, OpenResult, ProcessReturns
  <2>2. job' \in [Executors -> [Requests -> JobStates]]
    BY <2>1 DEF TypeOK, ExecutorTypeOK
  <2>3. UNCHANGED <<main, pc, session, timedOut, ackPending, cluster>>
    BY DEF WorkerStep, OpenResult, ProcessReturns
  <2>4. QED
    BY <2>2, <2>3 DEF TypeOK, ExecutorTypeOK
<1>2. EnvironmentTypeOK'
  BY DEF WorkerStep, OpenResult, ProcessReturns, TypeOK, EnvironmentTypeOK
<1>3. UNCHANGED <<dbVars, brokerVars>>
  BY DEF WorkerStep, OpenResult, ProcessReturns
<1>4. QED
  BY <1>1, <1>2, <1>3
     DEF TypeOK, dbVars, brokerVars, apiVars, DBTypeOK, BrokerTypeOK, ApiTypeOK

LEMMA ExecutorFaultType ==
    ASSUME TypeOK, ExecutorFault, UNCHANGED apiVars
    PROVE  TypeOK'
<1>0. ExecutorTypeOK /\ BrokerTypeOK /\ DBTypeOK /\ EnvironmentTypeOK
  BY DEF TypeOK
<1>1. UNCHANGED <<dbVars, files>> /\ \E kind : Fault(kind)
  BY DEF ExecutorFault, BrokerRestart, ConnectionLost, Crash, ProcessGone,
         ClusterFails, ThreadDies
<1>2. EnvironmentTypeOK' /\ DBTypeOK' /\ ApiTypeOK'
  BY <1>0, <1>1, FaultTypeOK
     DEF TypeOK, EnvironmentTypeOK, DBTypeOK, dbVars, ApiTypeOK, apiVars
<1>3. CASE BrokerRestart
  <2>1. BrokerTypeOK'
    BY <1>0, <1>3 DEF BrokerRestart, LoseQueue, BrokerTypeOK
  <2>2. ExecutorTypeOK'
    BY <1>0, <1>3 DEF BrokerRestart, ExecutorTypeOK
  <2>3. QED
    BY <1>2, <2>1, <2>2 DEF TypeOK
<1>4. ASSUME NEW e \in Executors, ConnectionLost(e)
      PROVE  TypeOK'
  <2>1. ExecutorTypeOK'
    BY <1>0, <1>4 DEF ConnectionLost, MainThreadDies, ExecutorTypeOK
  <2>2. QED
    BY <1>0, <1>2, <1>4, <2>1, RequeueType DEF ConnectionLost, TypeOK
<1>5. ASSUME NEW e \in Executors, Crash(e)
      PROVE  TypeOK'
  BY <1>0, <1>2, <1>5, ProcessGoneType, RequeueType DEF Crash, TypeOK
<1>6. ASSUME NEW e \in Executors, ClusterFails(e)
      PROVE  TypeOK'
  <2>1. ExecutorTypeOK'
    BY <1>0, <1>6, JobsLostType DEF ClusterFails, ExecutorTypeOK
  <2>2. QED
    BY <1>0, <1>2, <1>6, <2>1 DEF ClusterFails, TypeOK, BrokerTypeOK, brokerVars
<1>7. ASSUME NEW e \in Executors, NEW r \in Requests, ThreadDies(e, r)
      PROVE  TypeOK'
  <2>1. ExecutorTypeOK'
    BY <1>0, <1>7, ThreadEndsType DEF ThreadDies, ExecutorTypeOK
  <2>2. QED
    BY <1>0, <1>2, <1>7, <2>1 DEF ThreadDies, TypeOK, BrokerTypeOK, brokerVars
<1>8. QED
  BY <1>3, <1>4, <1>5, <1>6, <1>7 DEF ExecutorFault

(* No step of the executor takes a row away.                               *)
LEMMA ExecutorStepHasRow ==
    ASSUME TypeOK, EndpointHasRow, ExecutorNext
    PROVE  EndpointHasRow'
<1>1. UNCHANGED apiVars
  BY DEF ExecutorNext
<1>2. \/ UNCHANGED status
      \/ \E r \in Requests, st \in RequestStatus :
            status' \in {status, [status EXCEPT ![r] = st]}
  <2>1. CASE \E e \in Executors, r \in Requests : ThreadStep(e, r)
    <3>1. PICK e \in Executors, r \in Requests : ThreadStep(e, r)
      BY <2>1
    <3>2. ASSUME NEW row, NEW st \in RequestStatus, NEW why,
                 CommitStatus(r, row, st, why)
          PROVE  status' \in {status, [status EXCEPT ![r] = st]}
      BY <3>2 DEF CommitStatus, TypeOK, DBTypeOK
    <3>3. QED
      BY <3>1, <3>2, ThreadStepWrites DEF CommitDownload, dbVars
  <2>2. CASE ExecutorFault
    BY <2>2 DEF ExecutorFault, BrokerRestart, ConnectionLost, Crash,
                ClusterFails, ThreadDies, dbVars
  <2>3. CASE \E e \in Executors : MainStep(e)
    BY <2>3 DEF MainStep, StartExecutor, ConsumerTimeout, ProcessExit,
                OnMessage, AckMessage, dbVars
  <2>4. CASE \E e \in Executors, r \in Requests : WorkerStep(e, r)
    BY <2>4 DEF WorkerStep, OpenResult, ProcessReturns, dbVars
  <2>5. QED
    BY <2>1, <2>2, <2>3, <2>4 DEF ExecutorNext
<1>3. QED
  BY <1>1, <1>2
     DEF EndpointHasRow, At, apiVars, TypeOK, DBTypeOK, RequestStatus

LEMMA ExecutorStepType ==
    ASSUME TypeOK, ExecutorNext
    PROVE  TypeOK'
  BY MainStepType, ThreadStepType, WorkerStepType, ExecutorFaultType
     DEF ExecutorNext

(* The types, and what makes them inductive: a running endpoint has a row. *)
TypeInv == TypeOK /\ EndpointHasRow

LEMMA TypeInvInductive == TypeInv /\ [Next]_vars => TypeInv'
<1>1. ASSUME TypeInv, ApiNext PROVE TypeInv'
  BY <1>1, ApiStepType DEF TypeInv
<1>2. ASSUME TypeInv, ExecutorNext PROVE TypeInv'
  BY <1>2, ExecutorStepType, ExecutorStepHasRow DEF TypeInv
<1>3. ASSUME TypeInv, UNCHANGED vars PROVE TypeInv'
  BY <1>3 DEF TypeInv, vars, dbVars, brokerVars, executorVars, apiVars, TypeOK,
     EnvironmentTypeOK, DBTypeOK, BrokerTypeOK, ExecutorTypeOK, ApiTypeOK,
     EndpointHasRow, At
<1>4. QED
  BY <1>1, <1>2, <1>3 DEF Next

LEMMA TypeInvAlways == Spec => []TypeInv
<1>1. Init => TypeInv
  BY InitTypeOK DEF TypeInv, Init, ApiInit, EndpointHasRow, At, Idle
<1>2. QED
  BY <1>1, TypeInvInductive, PTL DEF Spec

(* Every variable of API, tables, broker and executor keeps its type, for  *)
(* any number of requests, executors and faults.                           *)
THEOREM TypeCorrect == Spec => []TypeOK
<1>1. TypeInv => TypeOK
  BY DEF TypeInv
<1>2. QED
  BY <1>1, TypeInvAlways, PTL

------------------------------------------------------------------------------
(* Deliveries, threads and acknowledgements: the invariant DeliveryInv of  *)
(* Geolake, and the three properties that follow from it.                  *)

(* Init establishes the invariant.                                         *)
LEMMA DeliveryInit == Init => DeliveryInv
<1> SUFFICES ASSUME Init PROVE DeliveryInv
  OBVIOUS
<1>1. /\ queue = {}
      /\ \A e \in Executors : unacked[e] = {} /\ ackPending[e] = {}
      /\ \A e \in Executors, r \in Requests : pc[e][r] = "idle"
      /\ \A e \in Executors : main[e] = "down"
  BY DEF Init, BrokerInit, ExecutorInit
<1>2. \A r \in Requests : ~InBroker(r)
  BY <1>1 DEF InBroker, InFlight
<1>3. QED
  BY <1>1, <1>2
     DEF DeliveryInv, MessageInOnePlace, OneJobPerExecutor, Prefetched,
         HandedOverIsHeld, OnlyConsumersHold, DownIsQuiet, WorkingHolds,
         NoLateDelivery, UnpublishedIsNowhere, Working, PreAck

(* A step that leaves the broker, the main threads and the API alone keeps *)
(* the invariant if it creates no row, starts no thread, takes none back   *)
(* before its acknowledgement, and hands over only the message of a thread *)
(* that gets past its acknowledgement.                                     *)
LEMMA LocalStepKeeps ==
    ASSUME DeliveryInv,
           UNCHANGED <<brokerVars, main, api>>,
           \A r \in Requests : status'[r] = "NOROW" => status[r] = "NOROW",
           \A e \in Executors, r \in Requests :
              /\ pc[e][r] = "idle" => pc'[e][r] = "idle"
              /\ pc'[e][r] \in PreAck => pc[e][r] \in PreAck,
           \A e \in Executors :
              \/ ackPending'[e] = ackPending[e]
              \/ /\ main[e] = "up"
                 /\ \E r \in Requests :
                       /\ pc[e][r] \in PreAck
                       /\ pc'[e][r] \notin PreAck
                       /\ ackPending'[e] = ackPending[e] \cup {r}
    PROVE  DeliveryInv'
<1> USE DEF DeliveryInv
<1>1. \A r : InBroker(r)' <=> InBroker(r)
  BY DEF InBroker, InFlight, brokerVars
<1>2. MessageInOnePlace' /\ Prefetched' /\ OnlyConsumersHold'
  BY DEF MessageInOnePlace, Prefetched, OnlyConsumersHold, brokerVars
<1>3. OneJobPerExecutor'
  BY DEF OneJobPerExecutor, Working
<1>4. HandedOverIsHeld'
  BY DEF HandedOverIsHeld, WorkingHolds, Working, brokerVars
<1>5. DownIsQuiet'
  BY DEF DownIsQuiet
<1>6. WorkingHolds'
  <2> SUFFICES ASSUME NEW e \in Executors, NEW q \in Requests,
                      main'[e] = "up", Working(e, q)'
               PROVE  q \in unacked'[e] \ ackPending'[e]
    BY DEF WorkingHolds
  <2>1. Working(e, q) /\ main[e] = "up"
    BY DEF Working
  <2>2. q \in unacked[e] \ ackPending[e]
    BY <2>1 DEF WorkingHolds
  <2>3. q \notin ackPending'[e]
    BY <2>2 DEF Working
  <2>4. QED
    BY <2>2, <2>3 DEF brokerVars
<1>7. NoLateDelivery'
  BY <1>1 DEF NoLateDelivery, brokerVars
<1>8. UnpublishedIsNowhere'
  BY <1>1 DEF UnpublishedIsNowhere, Unpublished, At
<1>9. QED
  BY <1>2, <1>3, <1>4, <1>5, <1>6, <1>7, <1>8

(* A thread's step moves this thread, which is there, and none goes back   *)
(* before its acknowledgement.                                             *)
LEMMA ThreadStepMoves ==
    ASSUME NEW e \in Executors, NEW r \in Requests, ThreadStep(e, r),
           TypeOK
    PROVE  \E label :
              /\ pc' = [pc EXCEPT ![e][r] = label]
              /\ pc[e][r] # "idle"
              /\ label \in PreAck => pc[e][r] \in PreAck
<1>1. CASE \/ Begin(e, r) \/ Submit(e, r) \/ GetResult(e, r) \/ GiveUp(e, r)
           \/ InsertDownload(e, r) \/ ScheduleAck(e, r)
  BY <1>1 DEF Begin, Submit, GetResult, GiveUp, InsertDownload, ScheduleAck,
              GoOnTo, Goto, ThreadEnds, PreAck
<1>2. CASE SelectRequest(e, r)
  <2>1. pc' = [pc EXCEPT ![e][r] = pc[e][r]]
    BY <1>2 DEF SelectRequest, TypeOK, ExecutorTypeOK
  <2>2. QED
    BY <1>2, <2>1 DEF SelectRequest, Updating
<1>3. CASE \/ ReportRunning(e, r) \/ ReportDone(e, r)
           \/ ReportFailure(e, r) \/ ReportTimeout(e, r)
  <2>1. pc[e][r] \in PreAck \ {"idle"}
    BY <1>3 DEF ReportRunning, ReportDone, ReportFailure, ReportTimeout, PreAck
  <2>2. \E label : Goto(e, r, label)
    BY <1>3 DEF ReportRunning, ReportDone, ReportFailure, ReportTimeout, Report,
                ThreadEnds
  <2>3. QED
    BY <2>1, <2>2 DEF Goto
<1>4. CASE CloseCluster(e, r) \/ CheckCluster(e, r) \/ CreateCluster(e, r)
  BY <1>4 DEF CloseCluster, CheckCluster, CreateCluster, GoOnTo, Goto,
              ThreadEnds, PreAck
<1>5. QED
  BY <1>1, <1>2, <1>3, <1>4 DEF ThreadStep

(* The steps of the threads are such local steps.                          *)
LEMMA ThreadStepIsLocal ==
    ASSUME TypeOK, DeliveryInv, NEW e \in Executors, NEW r \in Requests,
           ThreadStep(e, r), UNCHANGED apiVars
    PROVE  DeliveryInv'
<1>0. pc \in [Executors -> [Requests -> {"idle"} \cup PreAck \cup PostAck]]
  BY DEF TypeOK, ExecutorTypeOK
<1>1. UNCHANGED <<brokerVars, main, api>>
  BY DEF ThreadStep, Begin, SelectRequest, ReportRunning, Submit, GetResult,
         GiveUp, ReportDone, ReportFailure, ReportTimeout, Report, GoOnTo,
         InsertDownload, ScheduleAck, CloseCluster, CheckCluster,
         CreateCluster, apiVars
<1>2. \A q \in Requests : status'[q] = "NOROW" => status[q] = "NOROW"
  BY ThreadStepWrites
     DEF CommitStatus, CommitDownload, RequestStatus, dbVars, TypeOK, DBTypeOK
<1>3. \E label :
         /\ pc' = [pc EXCEPT ![e][r] = label]
         /\ pc[e][r] # "idle"
         /\ label \in PreAck => pc[e][r] \in PreAck
  BY ThreadStepMoves
<1>4. \A f \in Executors, q \in Requests :
         /\ pc[f][q] = "idle" => pc'[f][q] = "idle"
         /\ pc'[f][q] \in PreAck => pc[f][q] \in PreAck
  BY <1>0, <1>3
<1>5. \A f \in Executors :
         \/ ackPending'[f] = ackPending[f]
         \/ /\ main[f] = "up"
            /\ \E q \in Requests :
                  /\ pc[f][q] \in PreAck
                  /\ pc'[f][q] \notin PreAck
                  /\ ackPending'[f] = ackPending[f] \cup {q}
  <2>1. CASE ScheduleAck(e, r) /\ main[e] = "up"
    <3>1. /\ pc[e][r] \in PreAck
          /\ pc'[e][r] \notin PreAck
      BY <1>0, <2>1 DEF ScheduleAck, GoOnTo, Goto, PreAck
    <3>2. ackPending' = [ackPending EXCEPT ![e] = @ \cup {r}]
      BY <2>1 DEF ScheduleAck
    <3>3. QED
      BY <2>1, <3>1, <3>2 DEF TypeOK, ExecutorTypeOK
  <2>2. CASE ~(ScheduleAck(e, r) /\ main[e] = "up")
    BY <2>2 DEF ThreadStep, Begin, SelectRequest, ReportRunning, Submit,
                GetResult, GiveUp, ReportDone, ReportFailure, ReportTimeout,
                Report, GoOnTo, InsertDownload, ScheduleAck, CloseCluster,
                CheckCluster, CreateCluster
  <2>3. QED
    BY <2>1, <2>2
<1>6. QED
  BY <1>1, <1>2, <1>4, <1>5, LocalStepKeeps

(* So are the workers' steps, and the faults that stay inside a process.   *)
LEMMA QuietStepKeeps ==
    ASSUME DeliveryInv, UNCHANGED <<brokerVars, main, api, pc, ackPending, dbVars>>
    PROVE  DeliveryInv'
  BY LocalStepKeeps DEF dbVars

LEMMA ThreadDiesKeeps ==
    ASSUME TypeOK, DeliveryInv, NEW e \in Executors, NEW r \in Requests,
           ThreadDies(e, r), UNCHANGED apiVars
    PROVE  DeliveryInv'
<1>1. \A f \in Executors, q \in Requests :
         /\ pc[f][q] = "idle" => pc'[f][q] = "idle"
         /\ pc'[f][q] \in PreAck => pc[f][q] \in PreAck
  BY DEF ThreadDies, ThreadEnds, Goto, TypeOK, ExecutorTypeOK, PreAck
<1>2. UNCHANGED <<brokerVars, main, api, ackPending, status>>
  BY DEF ThreadDies, apiVars, dbVars
<1>3. QED
  BY <1>1, <1>2, LocalStepKeeps

(* A closed channel puts its messages back and leaves a process that does  *)
(* not consume: threads that work on, or none.                             *)
LEMMA RequeueKeeps ==
    ASSUME TypeOK, DeliveryInv, NEW e \in Executors, Requeue(e),
           UNCHANGED <<api, status>>,
           main'[e] # "up", ackPending'[e] = {},
           \A f \in Executors \ {e} :
              main'[f] = main[f] /\ ackPending'[f] = ackPending[f],
           \/ main[e] = "up" /\ main'[e] = "draining" /\ pc' = pc
           \/ pc' = [pc EXCEPT ![e] = [r \in Requests |-> "idle"]]
    PROVE  DeliveryInv'
<1> USE DEF DeliveryInv
<1>0. /\ unacked \in [Executors -> SUBSET Requests]
      /\ main \in [Executors -> {"down", "up", "draining"}]
      /\ pc \in [Executors -> [Requests -> {"idle"} \cup PreAck \cup PostAck]]
      /\ ackPending \in [Executors -> SUBSET Requests]
  BY DEF TypeOK, BrokerTypeOK, ExecutorTypeOK
<1>1. /\ queue' = queue \cup unacked[e]
      /\ unacked'[e] = {}
      /\ \A f \in Executors \ {e} : unacked'[f] = unacked[f]
  BY <1>0 DEF Requeue
<1>2. \A r : InBroker(r)' <=> InBroker(r)
  BY <1>1 DEF InBroker, InFlight
<1>3. MessageInOnePlace'
  BY <1>1 DEF MessageInOnePlace
<1>4. \A f \in Executors, q \in Requests : pc'[f][q] = pc[f][q] \/ pc'[f][q] = "idle"
  BY <1>0
<1>5. OneJobPerExecutor'
  BY <1>4 DEF OneJobPerExecutor, Working, PreAck
<1>6. Prefetched' /\ HandedOverIsHeld' /\ OnlyConsumersHold'
  <2>1. \A f \in Executors :
           \/ unacked'[f] = {} /\ ackPending'[f] = {}
           \/ /\ unacked'[f] = unacked[f]
              /\ ackPending'[f] = ackPending[f]
              /\ main'[f] = main[f]
    BY <1>1
  <2>2. Prefetched'
    BY <2>1 DEF Prefetched
  <2>3. HandedOverIsHeld'
    BY <2>1 DEF HandedOverIsHeld
  <2>4. OnlyConsumersHold'
    BY <2>1 DEF OnlyConsumersHold
  <2>5. QED
    BY <2>2, <2>3, <2>4
<1>7. DownIsQuiet'
  BY <1>0 DEF DownIsQuiet
<1>8. \A f \in Executors :
         main'[f] = "up" =>
            /\ f # e /\ main[f] = "up"
            /\ unacked'[f] = unacked[f] /\ ackPending'[f] = ackPending[f]
            /\ \A q \in Requests : pc'[f][q] = pc[f][q]
  BY <1>0, <1>1
<1>9. WorkingHolds'
  BY <1>8 DEF WorkingHolds, Working
<1>10. NoLateDelivery'
  BY <1>2, <1>8 DEF NoLateDelivery
<1>11. UnpublishedIsNowhere'
  BY <1>2, <1>4 DEF UnpublishedIsNowhere, Unpublished, At
<1>12. QED
  BY <1>3, <1>5, <1>6, <1>7, <1>9, <1>10, <1>11

(* The main thread: a delivery, an acknowledgement, the start and the end  *)
(* of the process.                                                         *)
LEMMA OnMessageKeeps ==
    ASSUME TypeOK, DeliveryInv, NEW e \in Executors, NEW r \in Requests,
           OnMessage(e, r), UNCHANGED apiVars
    PROVE  DeliveryInv'
<1> USE DEF DeliveryInv
<1>0. /\ unacked \in [Executors -> SUBSET Requests]
      /\ pc \in [Executors -> [Requests -> {"idle"} \cup PreAck \cup PostAck]]
  BY DEF TypeOK, BrokerTypeOK, ExecutorTypeOK
<1>1. /\ UNCHANGED <<main, ackPending, status, api>>
      /\ main[e] = "up" /\ r \in queue /\ unacked[e] = {}
      /\ queue' = queue \ {r}
      /\ pc' = [pc EXCEPT ![e][r] = "start"]
      /\ unacked' = [unacked EXCEPT ![e] = @ \cup {r}]
  BY DEF OnMessage, BasicDeliver, Goto, dbVars, apiVars
<1>2. /\ unacked'[e] = {r}
      /\ \A f \in Executors \ {e} : unacked'[f] = unacked[f]
  BY <1>0, <1>1
<1>3. \A f \in Executors, q \in Requests :
         pc'[f][q] = IF f = e /\ q = r THEN "start" ELSE pc[f][q]
  BY <1>0, <1>1
<1>4. \A q : InBroker(q)' <=> InBroker(q)
  BY <1>1, <1>2 DEF InBroker, InFlight
<1>5. MessageInOnePlace'
  BY <1>1, <1>2 DEF MessageInOnePlace
<1>6. \A q \in Requests : ~Working(e, q)
  BY <1>1 DEF WorkingHolds
<1>7. OneJobPerExecutor'
  <2>1. \A q \in Requests : Working(e, q)' => q = r
    BY <1>3, <1>6 DEF Working
  <2>2. \A f \in Executors \ {e}, q \in Requests : Working(f, q)' <=> Working(f, q)
    BY <1>3 DEF Working
  <2>3. QED
    BY <2>1, <2>2 DEF OneJobPerExecutor
<1>8. Prefetched' /\ OnlyConsumersHold'
  BY <1>1, <1>2 DEF Prefetched, OnlyConsumersHold
<1>9. HandedOverIsHeld'
  BY <1>1, <1>2 DEF HandedOverIsHeld
<1>10. DownIsQuiet'
  BY <1>1, <1>3 DEF DownIsQuiet
<1>11. WorkingHolds'
  <2> SUFFICES ASSUME NEW f \in Executors, NEW q \in Requests,
                      main'[f] = "up", Working(f, q)'
               PROVE  q \in unacked'[f] \ ackPending'[f]
    BY DEF WorkingHolds
  <2>1. CASE f = e
    <3>1. q = r
      BY <1>3, <1>6, <2>1 DEF Working
    <3>2. ackPending[e] = {}
      BY <1>1 DEF HandedOverIsHeld
    <3>3. QED
      BY <1>1, <1>2, <2>1, <3>1, <3>2
  <2>2. CASE f # e
    BY <1>1, <1>2, <1>3, <2>2 DEF WorkingHolds, Working
  <2>3. QED
    BY <2>1, <2>2
<1>12. NoLateDelivery'
  <2> SUFFICES ASSUME NEW f \in Executors, NEW q \in Requests,
                      main'[f] = "up", pc'[f][q] # "idle"
               PROVE  q \in unacked'[f] \/ ~InBroker(q)'
    BY DEF NoLateDelivery
  <2>1. CASE f = e /\ q = r
    BY <1>2, <2>1
  <2>2. CASE ~(f = e /\ q = r)
    <3>1. q \in unacked[f] \/ ~InBroker(q)
      BY <1>1, <1>3, <2>2 DEF NoLateDelivery
    <3>2. unacked[f] \subseteq unacked'[f]
      BY <1>1, <1>2
    <3>3. QED
      BY <1>4, <3>1, <3>2
  <2>3. QED
    BY <2>1, <2>2
<1>13. UnpublishedIsNowhere'
  <2>1. InBroker(r)
    BY <1>1 DEF InBroker
  <2>2. \A q \in Requests : Unpublished(q)' => Unpublished(q) /\ q # r
    BY <1>1, <2>1 DEF UnpublishedIsNowhere, Unpublished, At
  <2>3. QED
    BY <1>3, <1>4, <2>2 DEF UnpublishedIsNowhere
<1>14. QED
  BY <1>5, <1>7, <1>8, <1>9, <1>10, <1>11, <1>12, <1>13

LEMMA AckMessageKeeps ==
    ASSUME TypeOK, DeliveryInv, NEW e \in Executors, NEW r \in Requests,
           AckMessage(e, r), UNCHANGED apiVars
    PROVE  DeliveryInv'
<1> USE DEF DeliveryInv
<1>0. /\ unacked \in [Executors -> SUBSET Requests]
      /\ ackPending \in [Executors -> SUBSET Requests]
  BY DEF TypeOK, BrokerTypeOK, ExecutorTypeOK
<1>1. /\ UNCHANGED <<main, pc, status, api, queue>>
      /\ main[e] = "up" /\ r \in ackPending[e]
  BY DEF AckMessage, BasicAck, dbVars, apiVars
<1>2. /\ unacked'[e] = unacked[e] \ {r}
      /\ ackPending'[e] = ackPending[e] \ {r}
      /\ \A f \in Executors \ {e} :
            unacked'[f] = unacked[f] /\ ackPending'[f] = ackPending[f]
  BY <1>0 DEF AckMessage, BasicAck
<1>3. \A f \in Executors : unacked'[f] \subseteq unacked[f]
  BY <1>2
<1>4. \A q : InBroker(q)' => InBroker(q)
  BY <1>1, <1>3 DEF InBroker, InFlight
<1>5. r \in unacked[e] /\ ~InBroker(r)'
  <2>1. r \in unacked[e]
    BY <1>1 DEF HandedOverIsHeld
  <2>2. r \notin queue /\ \A f \in Executors \ {e} : r \notin unacked[f]
    BY <2>1 DEF MessageInOnePlace
  <2>3. QED
    BY <1>1, <1>2, <2>1, <2>2 DEF InBroker, InFlight
<1>6. MessageInOnePlace' /\ OneJobPerExecutor' /\ Prefetched'
  BY <1>1, <1>3 DEF MessageInOnePlace, OneJobPerExecutor, Working, Prefetched
<1>7. HandedOverIsHeld' /\ OnlyConsumersHold' /\ DownIsQuiet'
  BY <1>1, <1>2 DEF HandedOverIsHeld, OnlyConsumersHold, DownIsQuiet
<1>8. WorkingHolds'
  BY <1>1, <1>2 DEF WorkingHolds, Working
<1>9. NoLateDelivery'
  <2> SUFFICES ASSUME NEW f \in Executors, NEW q \in Requests,
                      main'[f] = "up", pc'[f][q] # "idle"
               PROVE  q \in unacked'[f] \/ ~InBroker(q)'
    BY DEF NoLateDelivery
  <2>1. CASE q = r
    BY <1>5, <2>1
  <2>2. CASE q # r
    BY <1>1, <1>2, <1>4, <2>2 DEF NoLateDelivery
  <2>3. QED
    BY <2>1, <2>2
<1>10. UnpublishedIsNowhere'
  BY <1>1, <1>4 DEF UnpublishedIsNowhere, Unpublished, At
<1>11. QED
  BY <1>6, <1>7, <1>8, <1>9, <1>10

LEMMA MainStepKeeps ==
    ASSUME TypeOK, DeliveryInv, NEW e \in Executors, MainStep(e),
           UNCHANGED apiVars
    PROVE  DeliveryInv'
<1>0. main \in [Executors -> {"down", "up", "draining"}]
      /\ ackPending \in [Executors -> SUBSET Requests]
      /\ unacked \in [Executors -> SUBSET Requests]
  BY DEF TypeOK, BrokerTypeOK, ExecutorTypeOK
<1>1. CASE StartExecutor(e)
  <2> USE DEF DeliveryInv
  <2>1. /\ UNCHANGED <<pc, ackPending, status, api, queue, unacked>>
        /\ main[e] = "down"
        /\ main' = [main EXCEPT ![e] = "up"]
    BY <1>1 DEF StartExecutor, QueueDeclare, dbVars, apiVars
  <2>2. \A q : InBroker(q)' <=> InBroker(q)
    BY <2>1 DEF InBroker, InFlight
  <2>3. \A q \in Requests : pc[e][q] = "idle"
    BY <2>1 DEF DownIsQuiet
  <2>4. \A f \in Executors : main'[f] = IF f = e THEN "up" ELSE main[f]
    BY <1>0, <2>1
  <2>5. MessageInOnePlace' /\ OneJobPerExecutor' /\ Prefetched' /\ HandedOverIsHeld'
    BY <2>1 DEF MessageInOnePlace, OneJobPerExecutor, Working, Prefetched,
                HandedOverIsHeld
  <2>6. OnlyConsumersHold' /\ DownIsQuiet'
    BY <2>1, <2>4 DEF OnlyConsumersHold, DownIsQuiet
  <2>7. WorkingHolds' /\ NoLateDelivery'
    BY <2>1, <2>2, <2>3, <2>4 DEF WorkingHolds, NoLateDelivery, Working, PreAck
  <2>8. UnpublishedIsNowhere'
    BY <2>1, <2>2 DEF UnpublishedIsNowhere, Unpublished, At
  <2>9. QED
    BY <2>5, <2>6, <2>7, <2>8
<1>2. CASE ConsumerTimeout(e)
  <2>1. /\ Requeue(e) /\ UNCHANGED <<api, status, pc>>
        /\ main[e] = "up"
        /\ MainThreadDies(e)
    BY <1>2 DEF ConsumerTimeout, apiVars, dbVars
  <2>2. /\ main'[e] = "draining" /\ ackPending'[e] = {}
        /\ \A f \in Executors \ {e} :
              main'[f] = main[f] /\ ackPending'[f] = ackPending[f]
    BY <1>0, <2>1 DEF MainThreadDies
  <2>3. QED
    BY <2>1, <2>2, RequeueKeeps
<1>3. CASE ProcessExit(e)
  <2>1. /\ UNCHANGED <<api, status, brokerVars>>
        /\ main[e] = "draining"
        /\ ProcessGone(e)
        /\ \A q \in Requests : pc[e][q] = "idle"
    BY <1>3 DEF ProcessExit, apiVars, dbVars
  <2>2. unacked[e] = {}
    BY <2>1 DEF DeliveryInv, OnlyConsumersHold
  <2>3. Requeue(e)
    BY <1>0, <2>1, <2>2 DEF Requeue, brokerVars, TypeOK, BrokerTypeOK
  <2>4. /\ main'[e] = "down" /\ ackPending'[e] = {}
        /\ \A f \in Executors \ {e} :
              main'[f] = main[f] /\ ackPending'[f] = ackPending[f]
        /\ pc' = [pc EXCEPT ![e] = [q \in Requests |-> "idle"]]
    BY <1>0, <2>1 DEF ProcessGone
  <2>5. QED
    BY <2>1, <2>3, <2>4, RequeueKeeps
<1>4. QED
  BY <1>1, <1>2, <1>3, OnMessageKeeps, AckMessageKeeps DEF MainStep

LEMMA ExecutorFaultKeeps ==
    ASSUME TypeOK, DeliveryInv, ExecutorFault, UNCHANGED apiVars
    PROVE  DeliveryInv'
<1>0. /\ main \in [Executors -> {"down", "up", "draining"}]
      /\ ackPending \in [Executors -> SUBSET Requests]
  BY DEF TypeOK, ExecutorTypeOK
<1>1. CASE BrokerRestart
  <2> USE DEF DeliveryInv
  <2>1. /\ UNCHANGED <<pc, status, api>>
        /\ queue' = {}
        /\ \A e \in Executors :
              /\ unacked'[e] = {} /\ ackPending'[e] = {}
              /\ main'[e] = IF main[e] = "up" THEN "draining" ELSE main[e]
    BY <1>1 DEF BrokerRestart, LoseQueue, apiVars, dbVars
  <2>2. \A q : ~InBroker(q)'
    BY <2>1 DEF InBroker, InFlight
  <2>3. \A e \in Executors : main'[e] # "up"
    BY <1>0, <2>1
  <2>4. MessageInOnePlace' /\ OneJobPerExecutor' /\ Prefetched'
        /\ HandedOverIsHeld' /\ OnlyConsumersHold'
    BY <2>1 DEF MessageInOnePlace, OneJobPerExecutor, Working, Prefetched,
                HandedOverIsHeld, OnlyConsumersHold
  <2>5. DownIsQuiet'
    BY <2>1 DEF DownIsQuiet
  <2>6. WorkingHolds' /\ NoLateDelivery'
    BY <2>3 DEF WorkingHolds, NoLateDelivery
  <2>7. UnpublishedIsNowhere'
    BY <2>1, <2>2 DEF UnpublishedIsNowhere, Unpublished, At
  <2>8. QED
    BY <2>4, <2>5, <2>6, <2>7
<1>2. ASSUME NEW e \in Executors, ConnectionLost(e)
      PROVE  DeliveryInv'
  <2>1. /\ Requeue(e) /\ UNCHANGED <<api, status, pc>>
        /\ main[e] = "up"
        /\ MainThreadDies(e)
    BY <1>2 DEF ConnectionLost, apiVars, dbVars
  <2>2. /\ main'[e] = "draining" /\ ackPending'[e] = {}
        /\ \A f \in Executors \ {e} :
              main'[f] = main[f] /\ ackPending'[f] = ackPending[f]
    BY <1>0, <2>1 DEF MainThreadDies
  <2>3. QED
    BY <2>1, <2>2, RequeueKeeps
<1>3. ASSUME NEW e \in Executors, Crash(e)
      PROVE  DeliveryInv'
  <2>1. Requeue(e) /\ ProcessGone(e) /\ UNCHANGED <<api, status>>
    BY <1>3 DEF Crash, apiVars, dbVars
  <2>2. /\ main'[e] = "down" /\ ackPending'[e] = {}
        /\ \A f \in Executors \ {e} :
              main'[f] = main[f] /\ ackPending'[f] = ackPending[f]
        /\ pc' = [pc EXCEPT ![e] = [q \in Requests |-> "idle"]]
    BY <1>0, <2>1 DEF ProcessGone
  <2>3. QED
    BY <2>1, <2>2, RequeueKeeps
<1>4. ASSUME NEW e \in Executors, ClusterFails(e)
      PROVE  DeliveryInv'
  BY <1>4, QuietStepKeeps DEF ClusterFails, apiVars
<1>5. QED
  BY <1>1, <1>2, <1>3, <1>4, ThreadDiesKeeps DEF ExecutorFault

LEMMA ExecutorKeeps ==
    ASSUME TypeOK, DeliveryInv, ExecutorNext
    PROVE  DeliveryInv'
<1>1. ASSUME NEW e \in Executors, NEW r \in Requests, WorkerStep(e, r),
             UNCHANGED apiVars
      PROVE  DeliveryInv'
  BY <1>1, QuietStepKeeps DEF WorkerStep, OpenResult, ProcessReturns, apiVars
<1>2. QED
  BY <1>1, MainStepKeeps, ThreadStepIsLocal, ExecutorFaultKeeps
     DEF ExecutorNext

------------------------------------------------------------------------------
(* No request becomes unpublished but by getting its row, which it had not *)
(* before.                                                                 *)
LEMMA ApiUnpublished ==
    ASSUME TypeOK, EndpointHasRow, ApiNext, NEW q \in Requests, Unpublished(q)'
    PROVE  Unpublished(q) /\ ~(Publish /\ q = api.req)
<1>1. CASE \E r \in Requests, sync \in BOOLEAN : Register(r, sync)
  BY <1>1 DEF Register, CreateRequest, Unpublished, At, Publish, TypeOK, DBTypeOK
<1>2. CASE EndpointStep \/ ApiFails \/ \E r \in Requests :
              GetStatus(r) \/ GetSize(r) \/ GetUri(r) \/ Download(r)
  <2>1. status' = status
    BY <1>2 DEF EndpointStep, Publish, SyncPoll, SyncFetch, GetUriStatus,
       DownloadFetch, ApiFails, GetStatus, GetSize, GetUri, Download, dbVars
  <2>2. ~At("publish")'
    BY <1>2 DEF EndpointStep, Publish, SyncPoll, SyncFetch, GetUriStatus,
       DownloadFetch, ApiFails, GetStatus, GetSize, GetUri, Download,
       Answer, GoOn, Idle, At, TypeOK, ApiTypeOK
  <2>3. QED
    BY <2>1, <2>2 DEF Unpublished, Publish, EndpointHasRow, At
<1>3. QED
  BY <1>1, <1>2 DEF ApiNext, EndpointCall, AcceptQuery, AcceptWorkflow

(* The API publishes a message that is nowhere yet; its other steps leave  *)
(* the broker alone, and whichever request becomes unpublished had no row. *)
LEMMA ApiKeeps ==
    ASSUME TypeOK, EndpointHasRow, DeliveryInv, ApiNext
    PROVE  DeliveryInv'
<1> USE DEF DeliveryInv
<1>0. UNCHANGED <<main, pc, ackPending>>
  BY DEF ApiNext, executorVars
<1>1. CASE Publish /\ declared
  <2> DEFINE r == api.req
  <2>1. /\ r \in Requests
        /\ Unpublished(r)
        /\ queue' = queue \cup {r}
        /\ UNCHANGED <<unacked, status>>
        /\ \/ api' = Idle
           \/ api' = [api EXCEPT !.pc = "poll"]
    BY <1>1 DEF Publish, BasicPublish, GoOn, Answer, dbVars, EndpointHasRow,
                At, Unpublished
  <2>2. ~InBroker(r) /\ \A e \in Executors : pc[e][r] = "idle"
    BY <2>1 DEF UnpublishedIsNowhere
  <2>3. \A q : InBroker(q)' <=> InBroker(q) \/ q = r
    BY <2>1 DEF InBroker, InFlight
  <2>4. MessageInOnePlace'
    BY <2>1, <2>2 DEF MessageInOnePlace, InBroker, InFlight
  <2>5. OneJobPerExecutor' /\ Prefetched' /\ HandedOverIsHeld'
        /\ OnlyConsumersHold' /\ DownIsQuiet' /\ WorkingHolds'
    BY <1>0, <2>1 DEF OneJobPerExecutor, Working, Prefetched, HandedOverIsHeld,
       OnlyConsumersHold, DownIsQuiet, WorkingHolds
  <2>6. NoLateDelivery'
    BY <1>0, <2>1, <2>2, <2>3 DEF NoLateDelivery
  <2>7. \A q \in Requests : Unpublished(q)' => Unpublished(q) /\ q # r
    BY <1>1, ApiUnpublished
  <2>8. UnpublishedIsNowhere'
    BY <1>0, <2>3, <2>7 DEF UnpublishedIsNowhere
  <2>9. QED
    BY <2>4, <2>5, <2>6, <2>8
<1>2. CASE ~(Publish /\ declared)
  <2>1. UNCHANGED <<queue, unacked>>
    BY <1>2 DEF ApiNext, EndpointStep, Publish, BasicPublish, SyncPoll,
       SyncFetch, GetUriStatus, DownloadFetch, ApiFails, EndpointCall,
       AcceptQuery, AcceptWorkflow, Register, GetStatus, GetSize, GetUri,
       Download, brokerVars
  <2>2. \A q : InBroker(q)' <=> InBroker(q)
    BY <2>1 DEF InBroker, InFlight
  <2>3. \A q \in Requests : Unpublished(q)' => Unpublished(q)
    BY ApiUnpublished
  <2>4. MessageInOnePlace' /\ OneJobPerExecutor' /\ Prefetched'
        /\ HandedOverIsHeld' /\ OnlyConsumersHold' /\ DownIsQuiet'
        /\ WorkingHolds'
    BY <1>0, <2>1 DEF MessageInOnePlace, OneJobPerExecutor, Working,
       Prefetched, HandedOverIsHeld, OnlyConsumersHold, DownIsQuiet,
       WorkingHolds
  <2>5. NoLateDelivery'
    BY <1>0, <2>1, <2>2 DEF NoLateDelivery
  <2>6. UnpublishedIsNowhere'
    BY <1>0, <2>2, <2>3 DEF UnpublishedIsNowhere
  <2>7. QED
    BY <2>4, <2>5, <2>6
<1>3. QED
  BY <1>1, <1>2

LEMMA DeliveryInductive ==
    TypeInv /\ DeliveryInv /\ [Next]_vars => DeliveryInv'
<1>1. ASSUME TypeInv, DeliveryInv, Next PROVE DeliveryInv'
  BY <1>1, ApiKeeps, ExecutorKeeps DEF Next, TypeInv
<1>2. ASSUME DeliveryInv, UNCHANGED vars PROVE DeliveryInv'
  <2>1. UNCHANGED <<brokerVars, main, api, pc, ackPending, dbVars>>
    BY <1>2 DEF vars, executorVars, apiVars
  <2>2. QED
    BY <1>2, <2>1, QuietStepKeeps
<1>3. QED
  BY <1>1, <1>2

(* The invariant holds always, for any number of requests, executors and   *)
(* faults.                                                                 *)
THEOREM DeliveryAlways == Spec => []DeliveryInv
  BY DeliveryInit, DeliveryInductive, TypeInvAlways, PTL DEF Spec

(* An executor never has two threads between the start of handle_message   *)
(* and the hand-over of its acknowledgement.                               *)
THEOREM OneJobAlways == Spec => []OneJobPerExecutor
<1>1. DeliveryInv => OneJobPerExecutor
  BY DEF DeliveryInv
<1>2. QED
  BY <1>1, DeliveryAlways, PTL

LEMMA DeliveryMeetsNoThread == TypeInv /\ DeliveryInv => NoSecondThread
  BY DEF DeliveryInv, NoLateDelivery, MessageInOnePlace, NoSecondThread,
         InBroker, TypeInv, TypeOK, BrokerTypeOK

(* on_message never meets a thread of the same request in its process.     *)
THEOREM NoSecondThreadAlways == Spec => []NoSecondThread
  BY DeliveryMeetsNoThread, DeliveryAlways, TypeInvAlways, PTL

------------------------------------------------------------------------------
(* Who writes the tables.                                                  *)

(* The API: a row is created where there was none, a message is published  *)
(* that was never routed; nothing else changes.                            *)
LEMMA ApiFrame ==
    ASSUME TypeOK, ApiNext
    PROVE  /\ UNCHANGED <<pc, job, ackPending, files, downloads, unacked>>
           /\ \A q \in Requests : status[q] # "NOROW" => status'[q] = status[q]
           /\ UNCHANGED <<reason, session>>
           /\ \/ UNCHANGED <<queue, accepted>>
              \/ /\ Publish
                 /\ queue' = queue \cup {api.req}
                 /\ accepted' = accepted \cup {api.req}
<1>1. UNCHANGED <<pc, job, ackPending, session>>
  BY DEF ApiNext, executorVars
<1>2. CASE EndpointStep
  BY <1>1, <1>2 DEF EndpointStep, Publish, BasicPublish, SyncPoll, SyncFetch,
     GetUriStatus, DownloadFetch, brokerVars, dbVars
<1>3. CASE ApiFails \/ \E r \in Requests :
              GetStatus(r) \/ GetSize(r) \/ GetUri(r) \/ Download(r)
  BY <1>1, <1>3 DEF ApiFails, GetStatus, GetSize, GetUri, Download,
     brokerVars, dbVars
<1>4. ASSUME NEW r \in Requests, NEW sync \in BOOLEAN, Register(r, sync)
      PROVE  /\ UNCHANGED <<files, downloads, reason, unacked, queue, accepted>>
             /\ \A q \in Requests : status[q] # "NOROW" => status'[q] = status[q]
  BY <1>4 DEF Register, CreateRequest, brokerVars, TypeOK, DBTypeOK
<1>5. QED
  BY <1>1, <1>2, <1>3, <1>4 DEF ApiNext, EndpointCall, AcceptQuery, AcceptWorkflow

(* A thread writes its own request, before its acknowledgement.            *)
LEMMA ThreadStepWriter ==
    ASSUME TypeOK, NEW e \in Executors, NEW r \in Requests, ThreadStep(e, r)
    PROVE  /\ ~Working(e, r) => UNCHANGED dbVars
           /\ \A q \in Requests \ {r} :
                 /\ status'[q] = status[q] /\ reason'[q] = reason[q]
                 /\ downloads'[q] = downloads[q]
<1>1. ASSUME ~Working(e, r) PROVE UNCHANGED dbVars
  BY <1>1 DEF ThreadStep, Working, PreAck, Begin, SelectRequest, ReportRunning,
     Submit, GetResult, GiveUp, ReportDone, ReportFailure, ReportTimeout,
     InsertDownload, ScheduleAck, CloseCluster, CheckCluster, CreateCluster
<1>2. \A q \in Requests \ {r} :
         /\ status'[q] = status[q] /\ reason'[q] = reason[q]
         /\ downloads'[q] = downloads[q]
  BY ThreadStepWrites
     DEF CommitStatus, CommitDownload, dbVars, TypeOK, DBTypeOK
<1>3. QED
  BY <1>1, <1>2

(* The other steps of an executor write no table.                          *)
LEMMA OthersWriteNothing ==
    ASSUME \/ ExecutorFault
           \/ \E e \in Executors : MainStep(e)
           \/ \E e \in Executors, r \in Requests : WorkerStep(e, r)
    PROVE  UNCHANGED dbVars
<1>1. CASE ExecutorFault
  BY <1>1 DEF ExecutorFault, BrokerRestart, ConnectionLost, Crash, ClusterFails,
              ThreadDies
<1>2. CASE \E e \in Executors : MainStep(e)
  BY <1>2 DEF MainStep, StartExecutor, ConsumerTimeout, ProcessExit, OnMessage,
              AckMessage
<1>3. CASE \E e \in Executors, r \in Requests : WorkerStep(e, r)
  BY <1>3 DEF WorkerStep, OpenResult, ProcessReturns
<1>4. QED
  BY <1>1, <1>2, <1>3

(* No message is routed before it is published, however many executors.    *)
LEMMA NotAcceptedInductive ==
    TypeInv /\ UnpublishedIsNotAccepted /\ [Next]_vars
        => UnpublishedIsNotAccepted'
<1> SUFFICES ASSUME TypeInv, UnpublishedIsNotAccepted, [Next]_vars,
                    NEW q \in Requests, Unpublished(q)'
             PROVE  q \notin accepted'
  BY DEF UnpublishedIsNotAccepted
<1>0. TypeOK /\ EndpointHasRow
  BY DEF TypeInv
<1>1. CASE ApiNext
  <2>1. Unpublished(q) /\ ~(Publish /\ q = api.req)
    BY <1>0, <1>1, ApiUnpublished
  <2>2. QED
    BY <1>0, <1>1, <2>1, ApiFrame DEF UnpublishedIsNotAccepted
<1>2. CASE ExecutorNext
  <2>1. accepted' \subseteq accepted
    <3>1. CASE ExecutorFault
      BY <3>1 DEF ExecutorFault, BrokerRestart, LoseQueue, ConnectionLost, Crash,
                  Requeue, ClusterFails, ThreadDies, brokerVars
    <3>2. CASE \E e \in Executors : MainStep(e)
      BY <3>2 DEF MainStep, StartExecutor, QueueDeclare, ConsumerTimeout,
                  Requeue, ProcessExit, OnMessage, BasicDeliver, AckMessage,
                  BasicAck, brokerVars
    <3>3. CASE \E e \in Executors, r \in Requests : WorkerStep(e, r)
      BY <3>3 DEF WorkerStep, OpenResult, ProcessReturns, brokerVars
    <3>4. CASE \E e \in Executors, r \in Requests : ThreadStep(e, r)
      BY <3>4 DEF ThreadStep, Begin, SelectRequest, ReportRunning, Submit,
         GetResult, GiveUp, ReportDone, ReportFailure, ReportTimeout,
         InsertDownload, ScheduleAck, CloseCluster, CheckCluster,
         CreateCluster, brokerVars
    <3>5. QED
      BY <1>2, <3>1, <3>2, <3>3, <3>4 DEF ExecutorNext
  <2>2. UNCHANGED api
    BY <1>2 DEF ExecutorNext, apiVars
  <2>3. status'[q] = "NOROW" => status[q] = "NOROW"
    <3>1. CASE \E e \in Executors, r \in Requests : ThreadStep(e, r)
      BY <1>0, <3>1, ThreadStepWrites
         DEF CommitStatus, CommitDownload, RequestStatus, dbVars, TypeOK, DBTypeOK
    <3>2. CASE ~\E e \in Executors, r \in Requests : ThreadStep(e, r)
      BY <1>2, <3>2, OthersWriteNothing DEF ExecutorNext, dbVars
    <3>3. QED
      BY <3>1, <3>2
  <2>4. Unpublished(q)
    BY <2>2, <2>3 DEF Unpublished, At
  <2>5. QED
    BY <2>1, <2>4 DEF UnpublishedIsNotAccepted
<1>3. CASE UNCHANGED vars
  BY <1>3 DEF vars, brokerVars, dbVars, apiVars, Unpublished, At,
              UnpublishedIsNotAccepted
<1>4. QED
  BY <1>1, <1>2, <1>3 DEF Next

LEMMA NotAcceptedAlways == Spec => []UnpublishedIsNotAccepted
<1>1. Init => UnpublishedIsNotAccepted
  BY DEF Init, BrokerInit, UnpublishedIsNotAccepted
<1>2. QED
  BY <1>1, NotAcceptedInductive, TypeInvAlways, PTL DEF Spec

(* A step that writes a settled request is one of a thread that works, and *)
(* a thread that works on what its executor does not hold is one that has  *)
(* outlived the connection.                                                *)
LEMMA LateWriterStep ==
    ASSUME TypeInv, DeliveryInv, UnpublishedIsNotAccepted, [Next]_vars,
           NEW r \in Requests, Settled(r),
           RowOf(r)' # RowOf(r) \/ downloads'[r] # downloads[r]
    PROVE  \E e \in Executors : main[e] = "draining" /\ Working(e, r)
<1>0. TypeOK
  BY DEF TypeInv
<1>1. ~UNCHANGED <<status, reason, downloads>>
  BY DEF RowOf
<1>2. CASE ApiNext
  <2>1. status[r] # "NOROW"
    BY DEF Settled, Unpublished, UnpublishedIsNotAccepted
  <2>2. QED
    BY <1>0, <1>2, <2>1, ApiFrame DEF RowOf
<1>3. CASE ExecutorNext
  <2>1. PICK e \in Executors, q \in Requests : ThreadStep(e, q)
    BY <1>1, <1>3, OthersWriteNothing DEF ExecutorNext, dbVars
  <2>2. q = r
    BY <1>0, <2>1, ThreadStepWriter DEF RowOf
  <2>3. Working(e, r)
    BY <1>0, <1>1, <2>1, <2>2, ThreadStepWriter DEF dbVars
  <2>4. main[e] # "up"
    <3>1. r \notin unacked[e]
      BY DEF Settled, InBroker, InFlight
    <3>2. QED
      BY <2>3, <3>1 DEF DeliveryInv, WorkingHolds
  <2>5. main[e] # "down"
    BY <2>3 DEF DeliveryInv, DownIsQuiet, Working, PreAck
  <2>6. QED
    BY <1>0, <2>3, <2>4, <2>5 DEF TypeOK, ExecutorTypeOK
<1>4. CASE UNCHANGED vars
  BY <1>1, <1>4 DEF vars, dbVars
<1>5. QED
  BY <1>2, <1>3, <1>4 DEF Next

(* A request that is settled is written only by a thread that has outlived *)
(* the connection of its executor, for any number of executors, whatever   *)
(* the faults.                                                             *)
THEOREM LateWriterAlwaysStale == Spec => LateWriterIsStale
<1>1. TypeInv /\ DeliveryInv /\ UnpublishedIsNotAccepted /\ [Next]_vars =>
         [\A r \in Requests :
             Settled(r) /\ (RowOf(r)' # RowOf(r) \/ downloads'[r] # downloads[r]) =>
                \E e \in Executors : main[e] = "draining" /\ Working(e, r)]_vars
  BY LateWriterStep
<1>2. QED
  BY <1>1, NotAcceptedAlways, DeliveryAlways, TypeInvAlways, PTL
     DEF Spec, LateWriterIsStale

------------------------------------------------------------------------------
(* The row a thread has loaded.                                            *)

LoadedKept(e, r) ==
    session[e][r] # NoRow =>
        pc[e][r] \in Updating /\ session[e][r] = RowOf(r)

(* While the loaded row is the current one, the commit sets both columns.  *)
LEMMA ReportWrites ==
    ASSUME TypeOK, NEW e \in Executors, NEW r \in Requests, LoadedKept(e, r),
           NEW st, NEW why, NEW label, Report(e, r, st, why, label)
    PROVE  /\ status' = [status EXCEPT ![r] = st]
           /\ reason' = [reason EXCEPT ![r] = why]
           /\ UNCHANGED downloads
           /\ pc' = [pc EXCEPT ![e][r] = label]
<1>1. /\ session[e][r].status = status[r]
      /\ session[e][r].reason = reason[r]
  BY DEF Report, LoadedKept, RowOf
<1>2. status \in [Requests -> RequestStatus \cup {"NOROW"}]
      /\ reason \in [Requests -> Reasons]
  BY DEF TypeOK, DBTypeOK
<1>3. CommitStatus(r, session[e][r], st, why) /\ Goto(e, r, label)
  BY DEF Report
<1>4. status' = [status EXCEPT ![r] = st]
  BY <1>1, <1>2, <1>3 DEF CommitStatus
<1>5. reason' = [reason EXCEPT ![r] = why]
  BY <1>1, <1>2, <1>3 DEF CommitStatus
<1>6. QED
  BY <1>3, <1>4, <1>5 DEF CommitStatus, Goto

(* The step of a thread keeps its own part; the row stays loaded only      *)
(* until it is written.                                                    *)
LEMMA ThreadLoadedKept ==
    ASSUME TypeOK, NEW e \in Executors, NEW r \in Requests, LoadedKept(e, r),
           ThreadStep(e, r)
    PROVE  LoadedKept(e, r)'
<1>0. /\ pc \in [Executors -> [Requests -> {"idle"} \cup PreAck \cup PostAck]]
      /\ session \in [Executors -> [Requests -> Rows]]
  BY DEF TypeOK, ExecutorTypeOK
<1>1. CASE SelectRequest(e, r)
  BY <1>0, <1>1 DEF SelectRequest, LoadedKept, RowOf, dbVars
<1>2. CASE \/ ReportRunning(e, r) \/ ReportDone(e, r)
           \/ ReportFailure(e, r) \/ ReportTimeout(e, r)
  <2>1. session' = [session EXCEPT ![e][r] = NoRow]
    BY <1>2 DEF ReportRunning, ReportDone, ReportFailure, ReportTimeout, Report,
                ThreadEnds
  <2>2. session'[e][r] = NoRow
    BY <1>0, <2>1
  <2>3. QED
    BY <2>2 DEF LoadedKept
<1>3. CASE \/ Begin(e, r) \/ Submit(e, r) \/ GetResult(e, r) \/ GiveUp(e, r)
           \/ InsertDownload(e, r) \/ ScheduleAck(e, r) \/ CloseCluster(e, r)
           \/ CheckCluster(e, r) \/ CreateCluster(e, r)
  <2>1. pc[e][r] \notin Updating
    BY <1>3 DEF Begin, Submit, GetResult, GiveUp, InsertDownload, ScheduleAck,
                CloseCluster, CheckCluster, CreateCluster, Updating
  <2>2. session[e][r] = NoRow
    BY <2>1 DEF LoadedKept
  <2>3. session' \in {session, [session EXCEPT ![e][r] = NoRow]}
    BY <1>3 DEF Begin, Submit, GetResult, GiveUp, InsertDownload, ScheduleAck,
                CloseCluster, CheckCluster, CreateCluster, GoOnTo, ThreadEnds
  <2>4. session'[e][r] = NoRow
    BY <1>0, <2>2, <2>3
  <2>5. QED
    BY <2>4 DEF LoadedKept
<1>4. QED
  BY <1>1, <1>2, <1>3 DEF ThreadStep

(* It leaves what other threads have loaded.                               *)
LEMMA ThreadStepSession ==
    ASSUME TypeOK, NEW e \in Executors, NEW r \in Requests, ThreadStep(e, r)
    PROVE  \E row : session' = [session EXCEPT ![e][r] = row]
<1>1. session = [session EXCEPT ![e][r] = session[e][r]]
  BY DEF TypeOK, ExecutorTypeOK
<1>2. \/ session' = session
      \/ \E row : session' = [session EXCEPT ![e][r] = row]
  BY DEF ThreadStep, Begin, SelectRequest, ReportRunning, Submit, GetResult,
         GiveUp, ReportDone, ReportFailure, ReportTimeout, Report, GoOnTo,
         InsertDownload, ScheduleAck, CloseCluster, CheckCluster,
         CreateCluster, ThreadEnds
<1>3. QED
  BY <1>1, <1>2

(* A row that stays as it is, and a thread that stays where it is or has   *)
(* nothing loaded.                                                         *)
LEMMA LoadedStays ==
    ASSUME NEW e, NEW q, LoadedKept(e, q),
           status'[q] = status[q], reason'[q] = reason[q],
           \/ session'[e][q] = NoRow
           \/ session'[e][q] = session[e][q] /\ pc'[e][q] = pc[e][q]
    PROVE  LoadedKept(e, q)'
  BY DEF LoadedKept, RowOf

(* Where no other executor has the row loaded that a thread works on, the  *)
(* loaded rows stay the current ones.                                      *)
LEMMA LoadedInductive ==
    ASSUME TypeInv, DeliveryInv, LoadedIsCurrent, [Next]_vars,
           \A e \in Executors, r \in Requests :
              ThreadStep(e, r) /\ Working(e, r) =>
                 \A f \in Executors : f # e => session[f][r] = NoRow
    PROVE  LoadedIsCurrent'
<1> SUFFICES ASSUME NEW f \in Executors, NEW q \in Requests
             PROVE  LoadedKept(f, q)'
  BY DEF LoadedKept, LoadedIsCurrent
<1>0. TypeOK /\ NoSecondThread /\ LoadedKept(f, q)
  BY DeliveryMeetsNoThread DEF TypeInv, LoadedKept, LoadedIsCurrent
<1>00. /\ pc \in [Executors -> [Requests -> {"idle"} \cup PreAck \cup PostAck]]
       /\ session \in [Executors -> [Requests -> Rows]]
  BY <1>0 DEF TypeOK, ExecutorTypeOK
<1>1. CASE ApiNext
  <2>1. /\ UNCHANGED <<pc, session, reason>>
        /\ status[q] # "NOROW" => status'[q] = status[q]
    BY <1>0, <1>1, ApiFrame
  <2>2. CASE status[q] = "NOROW"
    <3>1. pc[f][q] = "idle"
      BY <2>2 DEF Unpublished, DeliveryInv, UnpublishedIsNowhere
    <3>2. QED
      BY <1>0, <2>1, <3>1 DEF LoadedKept, Updating
  <2>3. QED
    BY <1>0, <2>1, <2>2, LoadedStays
<1>2. ASSUME NEW e \in Executors, NEW r \in Requests, ThreadStep(e, r)
      PROVE  LoadedKept(f, q)'
  <2>1. CASE f = e /\ q = r
    BY <1>0, <1>2, <2>1, ThreadLoadedKept
  <2>2. CASE f # e \/ q # r
    <3>1. session'[f][q] = session[f][q] /\ pc'[f][q] = pc[f][q]
      BY <1>0, <1>00, <1>2, <2>2, ThreadStepSession, ThreadStepMoves
    <3>2. CASE q # r
      BY <1>0, <1>2, <3>1, <3>2, ThreadStepWriter, LoadedStays
    <3>3. CASE q = r /\ f # e /\ Working(e, r)
      BY <1>2, <3>1, <3>3 DEF LoadedKept
    <3>4. CASE ~Working(e, r)
      BY <1>0, <1>2, <3>1, <3>4, ThreadStepWriter, LoadedStays DEF dbVars
    <3>5. QED
      BY <2>2, <3>2, <3>3, <3>4
  <2>3. QED
    BY <2>1, <2>2
<1>3. ASSUME NEW e \in Executors, MainStep(e)
      PROVE  LoadedKept(f, q)'
  <2>1. status' = status /\ reason' = reason
    BY <1>3, OthersWriteNothing DEF dbVars
  <2>2. CASE ProcessExit(e)
    <3>1. \/ session'[f][q] = NoRow
          \/ session'[f][q] = session[f][q] /\ pc'[f][q] = pc[f][q]
      BY <1>00, <2>2 DEF ProcessExit, ProcessGone
    <3>2. QED
      BY <1>0, <2>1, <3>1, LoadedStays
  <2>3. ASSUME NEW r \in Requests, OnMessage(e, r)
        PROVE  LoadedKept(f, q)'
    <3>1. /\ session' = session
          /\ f # e \/ q # r => pc'[f][q] = pc[f][q]
      BY <1>00, <2>3 DEF OnMessage, Goto
    <3>2. pc[e][r] = "idle"
      BY <1>0, <2>3 DEF NoSecondThread, OnMessage, BasicDeliver
    <3>3. f = e /\ q = r => session[f][q] = NoRow
      BY <1>0, <3>2 DEF LoadedKept, Updating
    <3>4. QED
      BY <1>0, <2>1, <3>1, <3>3, LoadedStays
  <2>4. CASE \/ StartExecutor(e) \/ ConsumerTimeout(e)
             \/ \E r \in Requests : AckMessage(e, r)
    <3>1. session' = session /\ pc' = pc
      BY <2>4 DEF StartExecutor, ConsumerTimeout, AckMessage
    <3>2. QED
      BY <1>0, <2>1, <3>1, LoadedStays
  <2>5. QED
    BY <1>3, <2>2, <2>3, <2>4 DEF MainStep
<1>4. ASSUME NEW e \in Executors, NEW r \in Requests, WorkerStep(e, r)
      PROVE  LoadedKept(f, q)'
  <2>1. UNCHANGED <<status, reason, session, pc>>
    BY <1>4 DEF WorkerStep, OpenResult, ProcessReturns, dbVars
  <2>2. QED
    BY <1>0, <2>1, LoadedStays
<1>5. CASE ExecutorFault
  <2>1. status' = status /\ reason' = reason
    BY <1>5, OthersWriteNothing DEF dbVars
  <2>2. \/ session'[f][q] = NoRow
        \/ session'[f][q] = session[f][q] /\ pc'[f][q] = pc[f][q]
    <3>1. CASE BrokerRestart \/ \E e \in Executors : ConnectionLost(e) \/ ClusterFails(e)
      BY <3>1 DEF BrokerRestart, ConnectionLost, ClusterFails
    <3>2. ASSUME NEW e \in Executors, Crash(e)
          PROVE  \/ session'[f][q] = NoRow
                 \/ session'[f][q] = session[f][q] /\ pc'[f][q] = pc[f][q]
      BY <1>00, <3>2 DEF Crash, ProcessGone
    <3>3. ASSUME NEW e \in Executors, NEW r \in Requests, ThreadDies(e, r)
          PROVE  \/ session'[f][q] = NoRow
                 \/ session'[f][q] = session[f][q] /\ pc'[f][q] = pc[f][q]
      BY <1>00, <3>3 DEF ThreadDies, ThreadEnds, Goto
    <3>4. QED
      BY <1>5, <3>1, <3>2, <3>3 DEF ExecutorFault
  <2>3. QED
    BY <1>0, <2>1, <2>2, LoadedStays
<1>6. CASE UNCHANGED vars
  BY <1>0, <1>6, LoadedStays DEF vars, dbVars, executorVars
<1>7. QED
  BY <1>1, <1>2, <1>3, <1>4, <1>5, <1>6 DEF Next, ExecutorNext

(* An executor that starts has loaded nothing.                             *)
LEMMA LoadedInit == Init => LoadedIsCurrent
  BY DEF Init, ExecutorInit, LoadedIsCurrent

================================================================================
