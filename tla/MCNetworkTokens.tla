--------------------------- MODULE MCNetworkTokens ---------------------------
(***************************************************************************)
(* Instances of NetworkTokens for TLC.                                      *)
(***************************************************************************)
EXTENDS NetworkTokens
=============================================================================
