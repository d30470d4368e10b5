------------------------------ MODULE MCBilling -----------------------------
(***************************************************************************)
(* Instances of Billing for TLC: periods of two and of three days.          *)
(***************************************************************************)
EXTENDS Billing, TLC

MCLength == [c \in Cycles |-> IF c = "monthly" THEN 2 ELSE 3]

(* Rows of retry_queue are interchangeable.  Only without liveness properties. *)
BillingSymmetry == Permutations(Entries)

(* Where the run stops: OncePerPeriod claims nothing of a subscription that is  *)
(* faulty, raced or stray, and nothing makes it whole again.  One that was     *)
(* being worked off at midnight is followed until the last day.             *)
SomeoneIsOrderly ==
    /\ Subscriptions \ (faulty \cup raced \cup stray) # {}
    /\ Whole # {} \/ today < LastDay
=============================================================================
