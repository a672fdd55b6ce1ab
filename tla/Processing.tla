------------------------------- MODULE Processing -------------------------------
(***************************************************************************)
(* The content of one request: how the query of a client becomes the       *)
(* message of the executor (module GeoQuery), and how process() and the    *)
(* persist functions of executor/app/main.py turn it into files below      *)
(* /downloads/<request id>, through any number of deliveries.              *)
(*                                                                         *)
(* The executor may be killed anywhere, and the message is delivered       *)
(* again: the names of the files are made of the request, so an attempt    *)
(* works over what the one before it has left.  A datacube is read when it *)
(* is written (it is a Dask Delayed until then), and the data of the       *)
(* product may change between two attempts, or two cubes of one.           *)
(*                                                                         *)
(* File i > 0 is that of the i-th datacube of a Dataset; file 0 is the     *)
(* archive, or the one file of a DataCube.                                 *)
(*                                                                         *)
(*   run.pc                                                                *)
(*   "new"        the API has the body of the request                      *)
(*   "sent"       ... and has put the query into its message               *)
(*   "unread"     ... which the executor fails to parse (of Poison in      *)
(*                module Executor)                                         *)
(*   "idle"       no attempt is running                                    *)
(*   "process"    process() has evaluated the query or the workflow        *)
(*   "part"       persist_dataset looks at datacube run.at                 *)
(*   "partOpen"   ... is writing its file                                  *)
(*   "zip"        ... is writing the archive                               *)
(*   "remove"     ... removes the files that are in the archive            *)
(*   "cube"       persist_datacube is about to write its file              *)
(*   "cubeOpen"   ... is writing it                                        *)
(*   "returned"   process() has returned run.result                        *)
(*   "raised"     process() has raised what this request always comes to   *)
(*   "failed"     ... or what this attempt has met: no space, no memory,   *)
(*                data that could not be read                              *)
(***************************************************************************)
EXTENDS GeoQuery, FiniteSets, FiniteSetsExt

CONSTANTS
    MaxCubes,      \* datacubes in the Dataset
    MaxAttempts,   \* bound: deliveries of the message
    MaxChanges     \* bound: changes of the product's data

ASSUME MaxCubesAssumption == MaxCubes \in Nat \ {0}
ASSUME BoundsAssumption == MaxAttempts \in Nat /\ MaxChanges \in Nat

VARIABLES
    submitted,   \* the body, what the API made of it, what the executor got
    message,     \* what of the message process() depends on
    kind,        \* what the query or the workflow evaluates to
    cubes,       \* the datacubes of the product: "data" or "empty"
    files,       \* the request's directory
    run,         \* the running attempt
    ended,       \* history: what the attempts that ended came to
    rows,        \* location_path of the Download rows
    attempts, changes

vars == <<submitted, message, kind, cubes, files, run, ended, rows, attempts,
          changes>>

Cubes == 1..MaxCubes
Files == 0..MaxCubes

(* What process() comes to: a file, None, an exception for what it was     *)
(* given, or one of the calls it makes that went wrong this time.          *)
None == MaxCubes + 1
Raised == MaxCubes + 2
Failed == MaxCubes + 3

NoFile == [is |-> "absent", holds |-> {}]
Partial == [is |-> "partial", holds |-> {}]
Complete(holds) == [is |-> "complete", holds |-> holds]

NotRunning == [pc |-> "idle", at |-> 0, paths |-> {}, read |-> {}, result |-> None]

(* What a query or a workflow evaluates to: a DataCube (or a Field, made   *)
(* into one), a Dataset or something else.  The files of the downscaled    *)
(* projections have names of their own, with dates when the query has a    *)
(* range of time.                                                          *)
DataCubes == {"datacube", "downscaled", "downscaledInTime"}
Kinds == DataCubes \cup {"dataset", "other"}

(* The bodies a client may send, and the queries the API makes itself.     *)
Partials(names, values) == UNION {[S -> values] : S \in SUBSET names}

Bodies ==
    LET plains == {Join(Join(f, g), h) :
                     f \in Partials({"area", "location"}, {"null", "value"}),
                     g \in Partials({"format_args", "pasture"}, {"null", "value", "split"}),
                     h \in Partials({"format"}, {"null", "netcdf", "png", "zarr"})}
        filters == {Join(f, g) : f \in Partials({"pasture"}, {"null", "value", "split"}),
                                 g \in Partials({"area", "filters"}, {"value"})} IN
    {Object(p, tag, Empty) : p \in plains, tag \in {"absent", "null"}} \cup
    {Object(p, "given", f) : p \in plains, f \in filters}

Nothing == [outcome |-> "none"]

Init ==
    /\ submitted = Nothing
    /\ message = [type |-> "query", format |-> "null", args |-> "null"]
    /\ kind = "none"
    /\ cubes \in [Cubes -> {"data", "empty"}]
    /\ files = [i \in Files |-> NoFile]
    /\ run = [NotRunning EXCEPT !.pc = "new"]
    /\ ended = {}
    /\ rows = {}
    /\ attempts = 0
    /\ changes = 0

TypeOK ==
    /\ submitted.outcome \in {"none", "sent", "KeyError", "TypeError", "IndexError"}
    /\ message \in [type : {"query", "workflow"},
                    format : Formats \cup {"null"}, args : {"null", "value"}]
    /\ kind \in Kinds \cup {"none"}
    /\ cubes \in [Cubes -> {"data", "empty"}]
    /\ files \in [Files -> [is : {"absent", "partial", "complete"},
                            holds : SUBSET (Files \X (0..MaxChanges))]]
    /\ run \in [pc : {"new", "sent", "unread", "idle", "process", "part", "partOpen",
                      "zip", "remove", "cube", "cubeOpen", "returned", "raised",
                      "failed"},
                at : 0..None, paths : SUBSET Cubes,
                read : SUBSET (Files \X (0..MaxChanges)), result : Files \cup {None}]
    /\ ended \subseteq Files \cup {None, Raised, Failed}
    /\ rows \subseteq Files \cup {None}
    /\ attempts \in 0..MaxAttempts
    /\ changes \in 0..MaxChanges

------------------------------------------------------------------------------
(* The way to the executor.                                                *)

At(label) == run.pc = label
Goto(label) == run' = [run EXCEPT !.pc = label]

Process == <<kind, cubes, files, ended, rows, attempts, changes>>

Refuse(outcome) ==
    /\ submitted' = [outcome |-> outcome]
    /\ UNCHANGED <<message, run>>

(* async_query with the query q: the row, then the message, its parts      *)
(* joined with MESSAGE_SEPARATOR.  The executor splits and parses what it  *)
(* receives; when that raises, no delivery gets any further.               *)
Send(q) ==
    IF OriginalRaises(q) THEN Refuse("TypeError")
    ELSE LET got == Parse(Json(q)) IN
         /\ submitted' = [outcome |-> "sent", query |-> q, got |-> got,
                          raises |-> MessageRaises(Json(q)),
                          row |-> Parse(OriginalJson(q))]
         /\ IF MessageRaises(Json(q)) THEN Goto("unread") /\ UNCHANGED message
            ELSE /\ Goto("sent")
                 /\ message' = [type |-> "query", format |-> got.fields["format"],
                                args |-> got.fields["format_args"]]

(* POST .../execute and /estimate: FastAPI makes the GeoQuery of the body. *)
SubmitBody(o) ==
    /\ IF ParseRaises(o) THEN Refuse("KeyError") ELSE Send(Parse(o))
    /\ UNCHANGED Process

(* GET .../map and .../items, with and without a path of filters: values   *)
(* on the path and names in the product's metadata.                        *)
SubmitMap(format, bbox, values, names, value) ==
    /\ IF FilterRaises(values, names) THEN Refuse("IndexError")
       ELSE Send(MapToGeoquery(format, bbox,
                    IF values = 0 THEN Empty ELSE [pasture |-> value]))
    /\ UNCHANGED Process

(* POST /datasets/workflow: a TaskList has no format.  Its JSON is one     *)
(* part of the message, and is split at a separator like that of a query.  *)
SubmitWorkflow(splits) ==
    /\ IF splits THEN Goto("unread") /\ UNCHANGED message
       ELSE /\ Goto("sent")
            /\ message' = [type |-> "workflow", format |-> "netcdf", args |-> "null"]
    /\ UNCHANGED submitted
    /\ UNCHANGED Process

------------------------------------------------------------------------------
(* process().                                                              *)

(* It returns, and the executor may commit the Download row; or it raises. *)
Return(path) ==
    /\ run' = [run EXCEPT !.pc = "returned", !.result = path]
    /\ ended' = ended \cup {path}

Raise ==
    /\ run' = [run EXCEPT !.pc = "raised"]
    /\ ended' = ended \cup {Raised}

Steady == UNCHANGED <<submitted, message, kind, cubes, rows, attempts, changes>>

(* A delivery: the first one, or one more after a crash or a lost          *)
(* acknowledgement.  The query, or the workflow, is evaluated: lazily.     *)
Deliver(k) ==
    /\ run.pc \in {"sent", "idle", "returned", "raised", "failed"}
    /\ attempts < MaxAttempts
    /\ attempts' = attempts + 1
    /\ kind' = IF kind = "none" THEN k ELSE kind
    /\ submitted' = Nothing
    /\ run' = [NotRunning EXCEPT !.pc = "process"]
    /\ UNCHANGED <<message, cubes, files, ended, rows, changes>>

\* Mutant: persist_dataset goes on where an earlier attempt has left.
StartPersistResumes ==
    /\ At("process")
    /\ IF kind \in DataCubes THEN Goto("cube") /\ UNCHANGED ended
       ELSE IF kind = "dataset" /\ message.type = "query"
       THEN /\ run' = [run EXCEPT
                  !.pc = "part",
                  !.at = IF files[1].is = "absent" THEN 1 ELSE 2]
            /\ UNCHANGED ended
       ELSE Raise
    /\ UNCHANGED files /\ Steady

(* process() hands the kube to the function for its type.  persist_dataset *)
(* reads format_args, which it has not assigned unless the content of the  *)
(* message is a GeoQuery; anything but a DataCube or a Dataset is a        *)
(* TypeError.                                                              *)
StartPersist ==
    /\ At("process")
    /\ IF kind \in DataCubes THEN Goto("cube") /\ UNCHANGED ended
       ELSE IF kind = "dataset" /\ message.type = "query"
       THEN run' = [run EXCEPT !.pc = "part", !.at = 1] /\ UNCHANGED ended
       ELSE Raise
    /\ UNCHANGED files /\ Steady

(* get_file_name_for_climate_downscaled takes the content of the message   *)
(* for a GeoQuery, and needs a first and a last time for the dates.        *)
HasName ==
    /\ kind # "datacube" => message.type = "query"
    /\ kind = "downscaledInTime" => cubes[1] = "data"

(* persist_datacube: one file in any of the formats, whatever is in it;    *)
(* to_image wants its arguments.                                           *)
OpenCube ==
    /\ At("cube")
    /\ IF /\ HasName
          /\ message.format \in Formats
          /\ ~(message.format \in {"png", "jpeg"} /\ message.args = "null")
       THEN /\ files' = [files EXCEPT ![0] = Partial]
            /\ run' = [run EXCEPT !.pc = "cubeOpen", !.read = {<<0, changes>>}]
            /\ UNCHANGED ended
       ELSE Raise /\ UNCHANGED files
    /\ Steady

CloseCube ==
    /\ At("cubeOpen")
    /\ files' = [files EXCEPT ![0] = Complete(run.read)]
    /\ Return(0)
    /\ Steady

\* Mutant: a datacube without data is written like any other.
OpenPartEmptyToo ==
    /\ At("part")
    /\ run.at \in Cubes
    /\ IF message.format \in Formats \ {"zarr"}
       THEN /\ files' = [files EXCEPT ![run.at] = Partial]
            /\ run' = [run EXCEPT !.pc = "partOpen",
                         !.read = IF cubes[run.at] = "empty" THEN @
                                  ELSE @ \cup {<<run.at, changes>>}]
            /\ UNCHANGED ended
       ELSE Raise /\ UNCHANGED files
    /\ Steady

(* _persist_single_datacube on the next of dset.data: an empty one has no  *)
(* path; a format it has no case for leaves full_path unassigned.          *)
OpenPart ==
    /\ At("part")
    /\ run.at \in Cubes
    /\ IF cubes[run.at] = "empty"
       THEN run' = [run EXCEPT !.at = @ + 1] /\ UNCHANGED <<files, ended>>
       ELSE IF message.format \in Formats \ {"zarr"}
       THEN /\ files' = [files EXCEPT ![run.at] = Partial]
            /\ run' = [run EXCEPT !.pc = "partOpen",
                                  !.read = @ \cup {<<run.at, changes>>}]
            /\ UNCHANGED ended
       ELSE Raise /\ UNCHANGED files
    /\ Steady

ClosePart ==
    /\ At("partOpen")
    /\ files' = [files EXCEPT ![run.at] =
                    Complete({c \in run.read : c[1] = run.at})]
    /\ run' = [run EXCEPT !.pc = "part", !.paths = @ \cup {run.at}, !.at = @ + 1]
    /\ UNCHANGED ended
    /\ Steady

(* None, the path of the one file, or an archive: ZipFile(path, "w").      *)
Collect ==
    /\ At("part")
    /\ run.at \notin Cubes
    /\ IF run.paths = {} THEN Return(None) /\ UNCHANGED files
       ELSE \/ \E i \in run.paths :
                  run.paths = {i} /\ Return(i) /\ UNCHANGED files
            \/ /\ Cardinality(run.paths) > 1
               /\ files' = [files EXCEPT ![0] = Partial]
               /\ Goto("zip") /\ UNCHANGED ended
    /\ Steady

CloseArchive ==
    /\ At("zip")
    /\ files' = [files EXCEPT ![0] =
                    Complete(@.holds \cup UNION {files[i].holds : i \in run.paths})]
    /\ Goto("remove")
    /\ UNCHANGED ended
    /\ Steady

\* Mutant: the files are removed up to the last one.
RemovePartsButOne ==
    /\ At("remove")
    /\ LET i == Min(run.paths) IN
          /\ files' = [files EXCEPT ![i] = NoFile]
          /\ IF Cardinality(run.paths) = 2 THEN Return(0)
             ELSE run' = [run EXCEPT !.paths = @ \ {i}] /\ UNCHANGED ended
    /\ Steady

(* os.remove of the files that are in the archive, one after another.      *)
RemovePart ==
    /\ At("remove")
    /\ LET i == Min(run.paths) IN
          /\ files' = [files EXCEPT ![i] = NoFile]
          /\ IF run.paths = {i} THEN Return(0)
             ELSE run' = [run EXCEPT !.paths = @ \ {i}] /\ UNCHANGED ended
    /\ Steady

Running == run.pc \in {"process", "part", "partOpen", "zip", "remove", "cube", "cubeOpen"}

(* Any of the calls above may raise on the way: the product cannot be read,*)
(* the file not be opened, written or removed.  What is on the disk stays  *)
(* as it is; the request fails, and its message is acknowledged.           *)
PersistFails ==
    /\ Running
    /\ run' = [run EXCEPT !.pc = "failed"]
    /\ ended' = ended \cup {Failed}
    /\ UNCHANGED files
    /\ Steady

(* update_request inserts the Download row of the attempt.                 *)
CommitRow ==
    /\ At("returned")
    /\ run.result \notin rows
    /\ rows' = rows \cup {run.result}
    /\ UNCHANGED <<submitted, message, kind, cubes, files, run, ended, attempts,
                   changes>>

------------------------------------------------------------------------------
(* The environment.                                                        *)

(* The executor, or its worker, is killed.                                 *)
Crash ==
    /\ Running
    /\ run' = NotRunning
    /\ UNCHANGED <<files, ended>>
    /\ Steady

(* The data of the product change once they are being read: a datacube     *)
(* gets data or loses them, or has others.                                 *)
ChangeData(i, content) ==
    /\ run.pc \notin {"new", "sent", "unread"}
    /\ changes < MaxChanges
    /\ changes' = changes + 1
    /\ cubes' = [cubes EXCEPT ![i] = content]
    /\ UNCHANGED <<submitted, message, kind, files, run, ended, rows, attempts>>

(* The API handles the request: once.                                      *)
Submission ==
    /\ At("new")
    /\ submitted = Nothing
    /\ \/ \E o \in Bodies : SubmitBody(o)
       \/ \E format \in {"png", "geojson"}, bbox \in BOOLEAN, values, names \in 0..2,
             value \in {"value", "split"} : SubmitMap(format, bbox, values, names, value)
       \/ \E splits \in BOOLEAN : SubmitWorkflow(splits)

PersistStep ==
    \/ StartPersist
    \/ OpenCube
    \/ CloseCube
    \/ OpenPart
    \/ ClosePart
    \/ Collect
    \/ CloseArchive
    \/ RemovePart
    \/ PersistFails
    \/ CommitRow

Next ==
    \/ Submission
    \/ \E k \in Kinds : Deliver(k)
    \/ PersistStep
    \/ Crash
    \/ \E i \in Cubes, content \in {"data", "empty"} : ChangeData(i, content)

Spec == Init /\ [][Next]_vars

------------------------------------------------------------------------------
(* The executor works on the query the API has accepted and estimated:     *)
(* nothing is lost or added on the way, and the validators that ran on the *)
(* body do not raise on what was made of it.  The only message the         *)
(* executor cannot read is one whose query holds the separator: a request  *)
(* that was accepted, has its row, and whose handler dies on every         *)
(* delivery.                                                               *)
MessageKeepsQuery ==
    submitted.outcome = "sent" =>
        IF submitted.raises THEN Splits(Json(submitted.query))
        ELSE submitted.got = submitted.query

(* The query column of the row, which is another rendering of the query,   *)
(* means the same query when it is submitted again, but for filters that   *)
(* are null, for one that is named "filters", and for names the body had   *)
(* beside its filters.                                                     *)
RowKeepsQuery ==
    submitted.outcome = "sent" =>
        \/ submitted.row = submitted.query
        \/ DOMAIN submitted.query.extra # {}
        \/ "filters" \in DOMAIN submitted.query.nested
        \/ \E name \in DOMAIN submitted.query.nested :
              submitted.query.nested[name] = "null"

(* A path process() returns names a complete file with all the data of the *)
(* product the attempt has read, one datacube after another, and nothing   *)
(* else; None is returned only when there were none.  Files that an        *)
(* attempt before has left half written do not come into it.               *)
ResultIsComplete ==
    At("returned") =>
        IF run.result = None THEN run.read = {}
        ELSE run.read # {} /\ files[run.result] = Complete(run.read)

(* Processing a request again is harmless while the data stay as they are: *)
(* every attempt comes to the same unless it is killed or one of its calls *)
(* fails, so all rows of the request name one file, and that is complete   *)
(* when an attempt has returned.  An attempt that fails where another one  *)
(* has returned is what makes a DONE request FAILED when its message is    *)
(* delivered again.                                                        *)
AttemptsAgree ==
    changes = 0 =>
        /\ Cardinality(ended \ {Failed}) <= 1
        /\ rows \subseteq ended
        /\ At("returned") =>
              \A path \in rows \ {None} : files[path].is = "complete"

(* An attempt that was killed or failed in the middle leaves files that    *)
(* are no result.  The next attempt that returns has removed them.         *)
NothingLeftBehind ==
    At("returned") /\ changes = 0 =>
        \A i \in Files : files[i].is # "absent" => i = run.result

(* process() rejects what it cannot persist with "expected                 *)
(* geokube.DataCube or geokube.Dataset, but passed ..." (main.py:250-252), *)
(* so a workflow that evaluates to one of these is persisted.              *)
WorkflowResultIsPersisted ==
    At("raised") /\ message.type = "workflow" =>
        kind \notin {"datacube", "dataset"}

===============================================================================
