--------------------------- MODULE MCOrchestrator ---------------------------
(***************************************************************************)
(* Instances of Orchestrator for TLC.                                       *)
(***************************************************************************)
EXTENDS Orchestrator, TLC

(* Requests are interchangeable.  Only for runs without liveness properties.*)
RequestSymmetry == Permutations(Requests)
=============================================================================
