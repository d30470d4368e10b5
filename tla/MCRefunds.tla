------------------------------ MODULE MCRefunds ------------------------------
(***************************************************************************)
(* Instances of Refunds for TLC.  No symmetry: the run checks liveness.       *)
(***************************************************************************)
EXTENDS Refunds
=============================================================================
