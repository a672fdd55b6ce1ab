------------------------------ MODULE DBManager ------------------------------
(***************************************************************************)
(* The request tables of datastore/dbmanager/dbmanager.py.                 *)
(*                                                                         *)
(* Every operator below is what one session.commit() makes visible to the  *)
(* other processes.  update_request loads the row first (SELECT) and       *)
(* commits twice when the status is DONE, the request and then its         *)
(* Download row.  Its callers take a step for each: RowOf, CommitStatus    *)
(* with the row as it was loaded, CommitDownload.                          *)
(*                                                                         *)
(* A Download row is abstracted to its location_path: "file" when          *)
(* process() returned a path, "none" when it returned None.                *)
(***************************************************************************)
EXTENDS Environment, Sequences

VARIABLES
    status,       \* Request.status; "NOROW" before the row exists
    reason,       \* Request.fail_reason, by what wrote it
    downloads     \* the Download rows that refer to a request, oldest first

dbVars == <<status, reason, downloads>>

\* Mutant: the enumeration lacks one of the states update_request is given.
RequestStatusNoTimeout == {"PENDING", "RUNNING", "DONE", "FAILED"}

RequestStatus == {"PENDING", "RUNNING", "DONE", "FAILED", "TIMEOUT"}

Terminal == {"DONE", "FAILED", "TIMEOUT"}

Reasons == {"none", "error", "timeout"}

Paths == {"file", "none"}

(* A row of the request table as a session holds it, and no row.           *)
Rows == [status : RequestStatus \cup {"NOROW"}, reason : Reasons]
NoRow == [status |-> "NOROW", reason |-> "none"]

DBInit ==
    /\ status = [r \in Requests |-> "NOROW"]
    /\ reason = [r \in Requests |-> "none"]
    /\ downloads = [r \in Requests |-> <<>>]

DBTypeOK ==
    /\ status \in [Requests -> RequestStatus \cup {"NOROW"}]
    /\ reason \in [Requests -> Reasons]
    /\ downloads \in [Requests -> Seq(Paths)]

(* create_request: a new row under the next primary key, PENDING.          *)
CreateRequest(r) ==
    /\ status[r] = "NOROW"
    /\ \A q \in Requests : q < r => status[q] # "NOROW"
    /\ status' = [status EXCEPT ![r] = "PENDING"]
    /\ UNCHANGED <<reason, downloads>>

(* session.query(Request).get(request_id)                                  *)
RowOf(r) == [status |-> status[r], reason |-> reason[r]]

\* Mutant: the first commit keeps the fail_reason a previous update wrote.
CommitStatusKeepsReason(r, row, st, why) ==
    /\ status' = [status EXCEPT ![r] = IF st = row.status THEN @ ELSE st]
    /\ reason' = [reason EXCEPT ![r] = IF why = "none" THEN @ ELSE why]
    /\ UNCHANGED downloads

(* First commit of update_request.  The UPDATE sets the columns whose      *)
(* values differ from the loaded ones and leaves the others as they are by *)
(* now.  The texts of two errors may be the same or differ.                *)
CommitStatus(r, row, st, why) ==
    /\ status' = [status EXCEPT ![r] = IF st = row.status THEN @ ELSE st]
    /\ \/ /\ why # row.reason \/ why = "error"
          /\ reason' = [reason EXCEPT ![r] = why]
       \/ /\ why = row.reason
          /\ UNCHANGED reason
    /\ UNCHANGED downloads

(* Second commit of update_request, only after a DONE: the Download row.   *)
CommitDownload(r, path) ==
    /\ downloads' = [downloads EXCEPT ![r] = Append(@, path)]
    /\ UNCHANGED <<status, reason>>

(* Request.download is read with uselist=False: one of the rows, in an     *)
(* order the query does not fix, or None ("absent") when there is no row.  *)
DownloadOf(r) ==
    IF downloads[r] = <<>> THEN {"absent"}
    ELSE {downloads[r][i] : i \in 1..Len(downloads[r])}

==============================================================================
