---------------------------- MODULE DocumentedClaims ----------------------------
(***************************************************************************)
(* What docstrings and names of the repository say of the program, and the *)
(* program does not do.  Each formula states one of them; the run that     *)
(* checks it ends in a counterexample.                                     *)
(***************************************************************************)
EXTENDS Geolake

(* "Get request status and the reason of the eventual fail.  The second    *)
(* item is None, it status is other than failed." (request.py:38-39).      *)
(* A TIMEOUT carries a reason too.                                         *)
ReasonOnlyWhenFailed ==
    reply.op = "status" /\ reply.says \in RequestStatus \ {"FAILED"} =>
        reply.detail = "none"

(* The download endpoint returns the path or raises                        *)
(* RequestNotYetAccomplished or FileNotFoundError (file.py:36-46).  Even   *)
(* for a request that exists (the IndexError of one that does not is left  *)
(* aside) it may find DONE without a Download, between the two commits of  *)
(* update_request, and fail on None.                                       *)
DownloadAnswersDocumented ==
    reply.op = "download" =>
        reply.says \in {"file", "partialFile", "RequestNotYetAccomplished",
                        "FileNotFoundError", "IndexError"}

(* "Query the data and return the result of the request." (dataset.py:319) *)
(* A synchronous query returns or raises.  When the queue was not declared *)
(* its message is dropped, the status stays PENDING, and the only process  *)
(* of the API sleeps in the loop for ever, with a live executor.           *)
SyncQueryReturns == At("poll") ~> At("idle")

===============================================================================
