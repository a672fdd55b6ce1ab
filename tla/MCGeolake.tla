------------------------------- MODULE MCGeolake -------------------------------
(***************************************************************************)
(* Instances of Geolake for TLC.  The .cfg files choose the constants; the *)
(* sets they choose from are named here.                                   *)
(***************************************************************************)
EXTENDS Geolake, TLC

(* Executors are interchangeable: no action or safety property names one.  *)
ExecutorSymmetry == Permutations(Executors)

==============================================================================
