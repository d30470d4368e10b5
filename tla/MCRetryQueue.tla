---------------------------- MODULE MCRetryQueue ----------------------------
(***************************************************************************)
(* Instances of RetryQueue for TLC.                                         *)
(***************************************************************************)
EXTENDS RetryQueue, TLC

(* Entries are interchangeable, and so are the requests that cancel.  Only   *)
(* for runs without liveness properties.                                    *)
QueueSymmetry == Permutations(Entries) \cup Permutations(Cancellers)
=============================================================================
