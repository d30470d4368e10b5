------------------------------- MODULE MCWsHub -------------------------------
(***************************************************************************)
(* Instances of WsHub for TLC.  No symmetry: the run checks liveness.        *)
(***************************************************************************)
EXTENDS WsHub
=============================================================================
