----------------------------- MODULE Environment -----------------------------
(***************************************************************************)
(* What every component of geolake shares: the requests it may create, the *)
(* executors that may run, and the faults the environment may inject.      *)
(*                                                                         *)
(* A request is its primary key.  The database hands the keys out in order *)
(* (datastore/dbmanager/dbmanager.py:105), so a request is a number and    *)
(* the order of numbers is the order of creation.                          *)
(***************************************************************************)
EXTENDS Naturals

CONSTANTS
    MaxRequest,   \* bound: requests the clients make in one behaviour
    Executors,    \* processes running executor/app/main.py
    MaxFaults,    \* bound: faults the environment injects in one behaviour
    FaultKinds    \* which kinds of fault it may choose from

ASSUME MaxRequestAssumption == MaxRequest \in Nat \ {0}
ASSUME MaxFaultsAssumption == MaxFaults \in Nat

VARIABLES
    faults,       \* how many faults have happened
    files         \* the downloads volume, mounted by the API and executors:
                  \* the requests whose result file is complete on it

Requests == 1..MaxRequest

EnvironmentInit ==
    /\ faults = 0
    /\ files = {}

EnvironmentTypeOK ==
    /\ faults \in 0..MaxFaults
    /\ files \subseteq Requests

(* One more fault of the given kind, while the bound allows.               *)
Fault(kind) ==
    /\ kind \in FaultKinds
    /\ faults < MaxFaults
    /\ faults' = faults + 1

==============================================================================
