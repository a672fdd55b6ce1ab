--------------------------- MODULE RequestLifecycle ---------------------------
(***************************************************************************)
(* What geolake promises about a request, without queue, threads, files or *)
(* commits: it is created once, may be attempted more than once, and each  *)
(* attempt ends in a final state; once the request is settled its state    *)
(* and its result never change again, and a settled DONE has its result.   *)
(***************************************************************************)
EXTENDS FiniteSets

CONSTANT Requests

VARIABLES
    state,     \* what the request's row says
    results,   \* requests that have a result to deliver
    settled    \* requests no executor will ever work on again

lifecycleVars == <<state, results, settled>>

Final == {"DONE", "FAILED", "TIMEOUT"}

Init ==
    /\ state = [r \in Requests |-> "NOROW"]
    /\ results = {}
    /\ settled = {}

Create(r) ==
    /\ state[r] = "NOROW"
    /\ state' = [state EXCEPT ![r] = "PENDING"]
    /\ UNCHANGED <<results, settled>>

(* An attempt begins, the first or, after a failure of the executor, one   *)
(* more.                                                                   *)
Attempt(r) ==
    /\ state[r] # "NOROW"
    /\ r \notin settled
    /\ state' = [state EXCEPT ![r] = "RUNNING"]
    /\ UNCHANGED <<results, settled>>

Finish(r) ==
    /\ state[r] = "RUNNING"
    /\ r \notin settled
    /\ \E final \in Final : state' = [state EXCEPT ![r] = final]
    /\ UNCHANGED <<results, settled>>

(* Results are only added for requests that are DONE and not settled.      *)
Deliver(r) ==
    /\ state[r] = "DONE"
    /\ r \notin settled
    /\ results' = results \cup {r}
    /\ UNCHANGED <<state, settled>>

Settle(r) ==
    /\ state[r] \in Final
    /\ state[r] = "DONE" => r \in results
    /\ settled' = settled \cup {r}
    /\ UNCHANGED <<state, results>>

Next ==
    \E r \in Requests :
        Create(r) \/ Attempt(r) \/ Finish(r) \/ Deliver(r) \/ Settle(r)

Spec == Init /\ [][Next]_lifecycleVars

===============================================================================
