-------------------------- MODULE IdempotentCharge --------------------------
(***************************************************************************)
(* What POST /orchestrator/charge promises for an idempotency key: money is *)
(* captured at most once, and every caller is told the same: that it was,   *)
(* or, once and for all, that it was not.                                   *)
(***************************************************************************)
EXTENDS Naturals

CONSTANT Keys

VARIABLES
    captures,   \* how often money was captured under each key
    told        \* the verdicts callers were given: TRUE for a success

Init ==
    /\ captures = [k \in Keys |-> 0]
    /\ told = [k \in Keys |-> {}]

(* A charge nobody was told about yet may be captured, once.                *)
Capture(k) ==
    /\ captures[k] = 0 /\ told[k] = {}
    /\ captures' = [captures EXCEPT ![k] = 1]
    /\ UNCHANGED told

Tell(k) ==
    /\ told' = [told EXCEPT ![k] = @ \cup {captures[k] = 1}]
    /\ UNCHANGED captures

Next == \E k \in Keys : Capture(k) \/ Tell(k)

Spec == Init /\ [][Next]_<<captures, told>>
=============================================================================
