---------------------------- MODULE MCMitScheduler ----------------------------
(***************************************************************************)
(* Instances of MitScheduler for TLC.  No symmetry: the run checks liveness. *)
(***************************************************************************)
EXTENDS MitScheduler
=============================================================================
