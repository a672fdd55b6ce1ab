---------------------------------- MODULE Api ----------------------------------
(***************************************************************************)
(* api/app: the endpoints that create, follow and deliver requests.        *)
(*                                                                         *)
(* The API is one uvicorn process whose endpoints are coroutines that      *)
(* never await, so the event loop runs one of them to its end before it    *)
(* looks at the next; a synchronous query keeps it in a time.sleep loop    *)
(* until its request is finished.  Another process can act only between    *)
(* the database and broker calls of that one endpoint, which is where its  *)
(* steps are split.                                                        *)
(*                                                                         *)
(*   api.pc                                                                *)
(*   "idle"         no endpoint is running                                 *)
(*   "publish"      async_query/run_workflow has its row, not its message  *)
(*   "poll"         sync_query sleeps and reads the status                 *)
(*   "syncRow"      sync_query has read DONE                               *)
(*   "downloadRow"  download_request_result has read DONE                  *)
(*   "uriStatus"    get_request_uri has found no Download                  *)
(***************************************************************************)
EXTENDS DBManager, Broker

CONSTANT
    Reads     \* which of the read endpoints the clients use

ASSUME ReadsAssumption == Reads \subseteq {"sync", "status", "size", "uri",
                                           "download"}

VARIABLES
    api,      \* the running endpoint: its pc, its request (0: none), and
              \* whether it is a synchronous query
    reply     \* the last answer: endpoint, request, what it says

apiVars == <<api, reply>>

Idle == [pc |-> "idle", req |-> 0, sync |-> FALSE]
NoReply == [op |-> "none", req |-> 0, says |-> "nothing", detail |-> "none"]

ApiInit ==
    /\ api = Idle
    /\ reply = NoReply

Endpoints == {"execute", "sync", "status", "size", "uri", "download"}

(* What an endpoint may answer: a value, one of the documented exceptions  *)
(* or a Python exception nobody catches.                                   *)
Answers == RequestStatus \cup
    {"id", "size", "uri", "file", "partialFile",
     "RequestNotFound", "EmptyDatasetError", "RequestStatusNotDone",
     "RequestNotYetAccomplished", "ProductRetrievingError",
     "AttributeError", "TypeError", "IndexError"}

ApiTypeOK ==
    /\ api \in [pc : {"idle", "publish", "poll", "syncRow", "downloadRow",
                      "uriStatus"},
                req : Requests \cup {0},
                sync : BOOLEAN]
    /\ reply \in [op : Endpoints \cup {"none"},
                  req : Requests \cup {0},
                  says : Answers \cup {"nothing"},
                  detail : RequestStatus \cup Reasons]

At(label) == api.pc = label

(* A running endpoint works on a request that has a row.                   *)
EndpointHasRow ==
    ~At("idle") => api.req \in Requests /\ status[api.req] # "NOROW"

(* The endpoint returns or raises.                                         *)
Answer(op, r, says, detail) ==
    /\ api' = Idle
    /\ reply' = [op |-> op, req |-> r, says |-> says, detail |-> detail]

GoOn(label) ==
    /\ api' = [api EXCEPT !.pc = label]
    /\ UNCHANGED reply

(* The file behind a path, as the moment finds it.  It exists from the     *)
(* first time process() opens it.                                          *)
ReadFile(r) == IF r \in files THEN "file" ELSE "partialFile"

------------------------------------------------------------------------------
(* POST /datasets/{dataset}/{product}/execute and POST /datasets/workflow. *)

(* The row is committed; its message is not published yet.                 *)
Register(r, sync) ==
    /\ At("idle")
    /\ CreateRequest(r)
    /\ api' = [pc |-> "publish", req |-> r, sync |-> sync]
    /\ UNCHANGED <<reply, files, brokerVars, faults>>

(* async_query, by itself or called by sync_query, up to create_request.   *)
(* A rejected estimate or an unreachable broker raises before this and     *)
(* changes nothing.                                                        *)
AcceptQuery(r, sync) ==
    /\ sync => "sync" \in Reads
    /\ Register(r, sync)

(* run_workflow makes no estimate and is otherwise the same.               *)
AcceptWorkflow(r) == Register(r, FALSE)

(* basic_publish and the return of the request id; sync_query goes on with *)
(* its polling loop.                                                       *)
Publish ==
    /\ At("publish")
    /\ BasicPublish(api.req)
    /\ IF api.sync THEN GoOn("poll")
                   ELSE Answer("execute", api.req, "id", "none")
    /\ UNCHANGED <<files, dbVars, faults>>

\* Mutant: the loop waits for DONE or FAILED only.
SyncPollMissesTimeout ==
    /\ At("poll")
    /\ status[api.req] \in {"DONE", "FAILED"}
    /\ IF status[api.req] = "DONE" THEN GoOn("syncRow")
       ELSE Answer("sync", api.req, "ProductRetrievingError",
                   status[api.req])
    /\ UNCHANGED <<files, dbVars, brokerVars, faults>>

(* One turn of sync_query's loop that ends it.                             *)
SyncPoll ==
    /\ At("poll")
    /\ status[api.req] \in Terminal
    /\ IF status[api.req] = "DONE" THEN GoOn("syncRow")
       ELSE Answer("sync", api.req, "ProductRetrievingError",
                   status[api.req])
    /\ UNCHANGED <<files, dbVars, brokerVars, faults>>

(* sync_query's read of the Download.  None has no location_path and a     *)
(* location_path that is None has no split: both are AttributeErrors.      *)
SyncFetch ==
    /\ At("syncRow")
    /\ \E row \in DownloadOf(api.req) :
          Answer("sync", api.req,
                 IF row = "file" THEN ReadFile(api.req) ELSE "AttributeError",
                 "none")
    /\ UNCHANGED <<files, dbVars, brokerVars, faults>>

------------------------------------------------------------------------------
(* GET /requests/{id}/status, /size, /uri.                                 *)

(* get_request_status: the status and the fail_reason, from one read.      *)
GetStatus(r) ==
    /\ "status" \in Reads
    /\ At("idle")
    /\ IF status[r] = "NOROW"
       THEN Answer("status", r, "RequestNotFound", "none")
       ELSE Answer("status", r, status[r], reason[r])
    /\ UNCHANGED <<files, dbVars, brokerVars, faults>>

(* get_request_resulting_size: request and Download from one read.         *)
GetSize(r) ==
    /\ "size" \in Reads
    /\ At("idle")
    /\ IF status[r] = "NOROW"
       THEN Answer("size", r, "RequestNotFound", "none")
       ELSE \E row \in DownloadOf(r) :
               Answer("size", r,
                      CASE row = "absent" -> "AttributeError"
                        [] row = "none" -> "EmptyDatasetError"
                        [] row = "file" -> "size",
                      "none")
    /\ UNCHANGED <<files, dbVars, brokerVars, faults>>

(* get_request_uri reads the Download first ...                            *)
GetUri(r) ==
    /\ "uri" \in Reads
    /\ At("idle")
    /\ \/ /\ status[r] = "NOROW"
          /\ Answer("uri", r, "RequestNotFound", "none")
       \/ /\ status[r] # "NOROW"
          /\ "absent" \notin DownloadOf(r)
          /\ Answer("uri", r, "uri", "none")
       \/ /\ status[r] # "NOROW"
          /\ "absent" \in DownloadOf(r)
          /\ api' = [pc |-> "uriStatus", req |-> r, sync |-> FALSE]
          /\ UNCHANGED reply
    /\ UNCHANGED <<files, dbVars, brokerVars, faults>>

(* ... and, when there is none, the status to report, in a second read.    *)
GetUriStatus ==
    /\ At("uriStatus")
    /\ Answer("uri", api.req, "RequestStatusNotDone", status[api.req])
    /\ UNCHANGED <<files, dbVars, brokerVars, faults>>

------------------------------------------------------------------------------
(* GET /download/{id}.                                                     *)

(* download_request_result reads the status first; it does not catch the   *)
(* IndexError of an unknown id ...                                         *)
Download(r) ==
    /\ "download" \in Reads
    /\ At("idle")
    /\ \/ /\ status[r] = "NOROW"
          /\ Answer("download", r, "IndexError", "none")
       \/ /\ status[r] \in RequestStatus \ {"DONE"}
          /\ Answer("download", r, "RequestNotYetAccomplished", status[r])
       \/ /\ status[r] = "DONE"
          /\ api' = [pc |-> "downloadRow", req |-> r, sync |-> FALSE]
          /\ UNCHANGED reply
    /\ UNCHANGED <<files, dbVars, brokerVars, faults>>

(* ... and, when it is DONE, the Download in a second read.  The path is   *)
(* tested for existence, so None raises and a partial file passes.         *)
DownloadFetch ==
    /\ At("downloadRow")
    /\ \E row \in DownloadOf(api.req) :
          Answer("download", api.req,
                 CASE row = "absent" -> "AttributeError"
                   [] row = "none" -> "TypeError"
                   [] row = "file" -> ReadFile(api.req),
                 "none")
    /\ UNCHANGED <<files, dbVars, brokerVars, faults>>

------------------------------------------------------------------------------

(* The API process is killed, or one of its database or broker calls       *)
(* raises: the endpoint is gone, its client gets no answer.                *)
ApiFails ==
    /\ Fault("api")
    /\ ~At("idle")
    /\ api' = Idle
    /\ reply' = NoReply
    /\ UNCHANGED <<files, dbVars, brokerVars>>

(* What an endpoint does once it has begun.                                *)
EndpointStep ==
    \/ Publish
    \/ SyncPoll
    \/ SyncFetch
    \/ GetUriStatus
    \/ DownloadFetch

(* A client's call.                                                        *)
EndpointCall(r) ==
    \/ \E sync \in BOOLEAN : AcceptQuery(r, sync)
    \/ AcceptWorkflow(r)
    \/ GetStatus(r)
    \/ GetSize(r)
    \/ GetUri(r)
    \/ Download(r)

===============================================================================
