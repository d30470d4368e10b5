------------------------------ MODULE Refunds ------------------------------
(***************************************************************************)
(* Refunds: processRefund of cmd/payment-orchestrator, and the two mock     *)
(* processors with their switches and the handlers of both charges and      *)
(* refunds.  Of processCharge, which is module Orchestrator, there is here  *)
(* what decides whether a refund finds its charge: the order of the         *)
(* processors and the row it leaves.  One action is one message, one        *)
(* statement, or one section under a processor's lock.                     *)
(***************************************************************************)
EXTENDS Naturals

CONSTANTS
    Charges,    \* calls of POST /orchestrator/charge
    Refunds,    \* calls of POST /orchestrator/refund
    Prices,     \* amounts of charges, in half dollars: an odd one is no whole amount
    Asks,       \* amounts refunds ask for
    Currencies, \* currencies of charges
    Foreign,    \* those processor B does not support
    Lossy,      \* may replies be lost, or come after the client's 5 s?
    MaxAdmin,   \* bound on the operators' calls of the admin endpoints
    None

A == "processor_a"
B == "processor_b"
Processors == {A, B}

ASSUME RefundsAssumption ==
    /\ Charges \cap Refunds = {} /\ None \notin Charges
    /\ Prices \subseteq Nat \ {0} /\ Asks \subseteq Nat
    /\ Foreign \subseteq Currencies /\ Lossy \in BOOLEAN /\ MaxAdmin \in Nat

VARIABLES
    up, rate,   \* isHealthy, and what failureRate makes of a draw
    due,        \* each charge: its amount and currency
    at,         \* the processor it is at, or where processCharge is
    handler,    \* the handler of each charge at each processor
    result,     \* the row it will leave
    rows,       \* transactions: what a refund reads of each charge
    pc, of, ask,    \* each refund: where processRefund is, its charge and amount
    sentTo,     \* the processor it went to
    back,       \* the handler of the refund there
    answer,     \* what the caller of the refund was told
    admin,      \* calls of the admin endpoints so far
    lost        \* history: calls one of whose replies, or whose row, was lost

switches == <<up, rate, admin>>
charging == <<due, at, handler, result, rows>>
refunding == <<pc, of, ask, sentTo, back, answer>>
vars == <<switches, charging, refunding, lost>>

Rates == {"never", "sometimes", "always"}
NoRow == [by |-> None, ptx |-> None, amount |-> 0]

Init ==
    /\ up = [p \in Processors |-> TRUE] /\ rate = [p \in Processors |-> "sometimes"]
    /\ due \in [Charges -> [amount : Prices, currency : Currencies]]
    /\ at = [t \in Charges |-> "idle"]
    /\ handler = [t \in Charges |-> [p \in Processors |-> "none"]]
    /\ result = [t \in Charges |-> NoRow] /\ rows = [t \in Charges |-> NoRow]
    /\ pc = [r \in Refunds |-> "idle"] /\ of = [r \in Refunds |-> None]
    /\ ask = [r \in Refunds |-> 0] /\ sentTo = [r \in Refunds |-> None]
    /\ back = [r \in Refunds |-> "none"] /\ answer = [r \in Refunds |-> "none"]
    /\ admin = 0 /\ lost = {}

Handled(t, p, s) == handler' = [handler EXCEPT ![t][p] = s]

(* The processors decode amounts as integers.                                *)
Whole(a) == a % 2 = 0

-----------------------------------------------------------------------------
(* A processor: charges.  Both switches are read under one lock; the rest of   *)
(* the handler counts what nothing but the statistics reads, and replies:     *)
(* 402 if the processor declines, another status for all that is an error.    *)
Valid(t, p) == Whole(due[t].amount) /\ (p = B => due[t].currency \notin Foreign)

Outcomes(p) ==
    IF ~up[p] THEN {"refused"}
    ELSE (IF rate[p] = "never" THEN {} ELSE {"refused", "declined"})
         \cup (IF rate[p] = "always" THEN {} ELSE {"captured"})

Charge(t, p) ==
    /\ handler[t][p] = "sent"
    /\ \E s \in IF Valid(t, p) THEN Outcomes(p) ELSE {"invalid"} : Handled(t, p, s)
    /\ UNCHANGED <<switches, due, at, result, rows, refunding, lost>>

(* setFailureRate and toggleStatus.                                          *)
SetFailureRate(p, x) ==
    /\ admin < MaxAdmin /\ admin' = admin + 1
    /\ rate' = [rate EXCEPT ![p] = x]
    /\ UNCHANGED <<up, charging, refunding, lost>>

ToggleStatus(p) ==
    /\ admin < MaxAdmin /\ admin' = admin + 1
    /\ up' = [up EXCEPT ![p] = ~@]
    /\ UNCHANGED <<rate, charging, refunding, lost>>

-----------------------------------------------------------------------------
(* processCharge.  A processor whose health flag is down is passed over; the   *)
(* flags are module Orchestrator's.                                         *)
Row_OwnId(t, p, x) == [by |-> p, ptx |-> t, amount |-> due[t].amount]

(* The id the processor gave is kept before the reply's is replaced by the     *)
(* orchestrator's own.                                                      *)
Row(t, p, x) == [by |-> p, ptx |-> x, amount |-> due[t].amount]

Settle(t, row) ==
    /\ at' = [at EXCEPT ![t] = "store"]
    /\ result' = [result EXCEPT ![t] = row]
    /\ UNCHANGED handler

GoOn(t, processors) ==
    \/ \E p \in processors :
         at' = [at EXCEPT ![t] = p] /\ Handled(t, p, "sent") /\ UNCHANGED result
    \/ Settle(t, Row(t, "none", t))    \* where the id is the orchestrator's own

SendCharge(t) ==
    /\ at[t] = "idle"
    /\ GoOn(t, Processors)
    /\ UNCHANGED <<switches, due, rows, refunding, lost>>

HearCharge(t) ==
    /\ at[t] \in Processors
    /\ LET p == at[t]
       IN  \/ handler[t][p] = "captured" /\ Settle(t, Row(t, p, p))
           \/ handler[t][p] = "declined" /\ Settle(t, Row(t, p, None))
           \/ handler[t][p] \in {"refused", "invalid"} /\ GoOn(t, {B} \ {p})
    /\ UNCHANGED <<switches, due, rows, refunding, lost>>

LoseCharge(t) ==
    /\ Lossy /\ at[t] \in Processors
    /\ lost' = lost \cup {t}
    /\ GoOn(t, {B} \ {at[t]})
    /\ UNCHANGED <<switches, due, rows, refunding>>

(* An INSERT that fails is only logged.                                       *)
StoreCharge(t) ==
    /\ at[t] = "store"
    /\ at' = [at EXCEPT ![t] = "done"]
    /\ \/ rows' = [rows EXCEPT ![t] = result[t]] /\ UNCHANGED lost
       \/ lost' = lost \cup {t} /\ UNCHANGED rows
    /\ UNCHANGED <<switches, due, handler, result, refunding>>

-----------------------------------------------------------------------------
(* processRefund.  The row alone decides; the health flags do not.            *)
TooMuch_Never(a, row) == FALSE
TooMuch(a, row) == a > row.amount

RouteOf_Primary(row) == IF row.by \in Processors THEN A ELSE row.by
RouteOf(row) == row.by

Answered(r, x) ==
    /\ pc' = [pc EXCEPT ![r] = "answered"]
    /\ answer' = [answer EXCEPT ![r] = x]

Rejection_NoDefault(a, row) ==
    CASE row = NoRow -> "not_found"
      [] row # NoRow /\ TooMuch(a, row) -> "too_much"
      [] row # NoRow /\ ~TooMuch(a, row) /\ row.ptx = None -> "no_charge"
      [] OTHER -> "none"

Rejection(a, row) ==
    CASE row = NoRow -> "not_found"
      [] row # NoRow /\ TooMuch(a, row) -> "too_much"
      [] row # NoRow /\ ~TooMuch(a, row) /\ row.by \notin Processors -> "unknown_processor"
      [] row # NoRow /\ ~TooMuch(a, row) /\ row.by \in Processors /\ row.ptx = None -> "no_charge"
      [] OTHER -> "none"

ProcessRefund(r, t, a) ==
    /\ pc[r] = "idle"
    /\ of' = [of EXCEPT ![r] = t] /\ ask' = [ask EXCEPT ![r] = a]
    /\ \E row \in {rows[t], NoRow} :    \* a statement that fails is a row not found
         LET x == Rejection(a, row)
         IN  IF x # "none"
             THEN Answered(r, x) /\ UNCHANGED <<sentTo, back>>
             ELSE /\ pc' = [pc EXCEPT ![r] = "waiting"]
                  /\ sentTo' = [sentTo EXCEPT ![r] = RouteOf(row)]
                  /\ back' = [back EXCEPT ![r] = "sent"]
                  /\ UNCHANGED answer
    /\ UNCHANGED <<switches, charging, lost>>

(* A processor: refunds.  The id of a transaction says whose it is; what was   *)
(* charged under it, and what was refunded, nobody knows.                     *)
Mine(r) == rows[of[r]].ptx = sentTo[r]

CheckRefund(r) ==
    /\ back[r] = "sent"
    /\ back' = [back EXCEPT ![r] =
                  CASE ask[r] = 0 \/ ~Whole(ask[r]) -> "invalid"
                    [] ask[r] # 0 /\ Whole(ask[r]) /\ ~Mine(r) -> "unknown"
                    [] OTHER -> "begun"]
    /\ UNCHANGED <<switches, charging, lost, pc, of, ask, sentTo, answer>>

Refund(r) ==
    /\ back[r] = "begun"
    /\ \E s \in {"refunded", "failed"} : back' = [back EXCEPT ![r] = s]
    /\ UNCHANGED <<switches, charging, pc, of, ask, sentTo, answer, lost>>

(* Whatever the status, a reply that decodes is an answer.  The row written    *)
(* then has a negative amount, which CHECK (amount > 0) refuses: it is only    *)
(* logged, and transactions keeps no refund.                                 *)
Heard_AlwaysYes(r) == IF back[r] = "invalid" THEN "error" ELSE "yes"
Heard(r) ==
    CASE back[r] = "refunded" -> "yes"
      [] back[r] \in {"failed", "unknown"} -> "no"
      [] back[r] = "invalid" -> "error"

HearRefund(r) ==
    /\ pc[r] = "waiting" /\ back[r] \in {"refunded", "failed", "unknown", "invalid"}
    /\ Answered(r, Heard(r))
    /\ UNCHANGED <<switches, charging, lost, of, ask, sentTo, back>>

TimesOut_Never(r) == FALSE
TimesOut(r) == Lossy /\ pc[r] = "waiting"

LoseRefund(r) ==
    /\ TimesOut(r)
    /\ Answered(r, "error")
    /\ lost' = lost \cup {r}
    /\ UNCHANGED <<switches, charging, of, ask, sentTo, back>>

-----------------------------------------------------------------------------
Next ==
    \/ \E t \in Charges, p \in Processors : Charge(t, p)
    \/ \E t \in Charges : SendCharge(t) \/ HearCharge(t) \/ LoseCharge(t) \/ StoreCharge(t)
    \/ \E r \in Refunds, t \in Charges, a \in Asks : ProcessRefund(r, t, a)
    \/ \E r \in Refunds : CheckRefund(r) \/ Refund(r) \/ HearRefund(r) \/ LoseRefund(r)
    \/ \E p \in Processors, x \in Rates : SetFailureRate(p, x)
    \/ \E p \in Processors : ToggleStatus(p)

Spec == Init /\ [][Next]_vars

(* The client of the processors stops waiting after 5 s.                      *)
FairSpec == Spec /\ \A r \in Refunds : WF_vars(HearRefund(r) \/ LoseRefund(r))

-----------------------------------------------------------------------------
(* Properties.                                                              *)

TypeOK ==
    /\ up \in [Processors -> BOOLEAN] /\ rate \in [Processors -> Rates]
    /\ due \in [Charges -> [amount : Prices, currency : Currencies]]
    /\ at \in [Charges -> {"idle", "store", "done"} \cup Processors]
    /\ handler \in [Charges -> [Processors -> {"none", "sent", "invalid", "captured", "declined",
                                               "refused"}]]
    /\ {result, rows} \subseteq
         [Charges -> [by : Processors \cup {"none", None}, ptx : Processors \cup Charges \cup {None},
                      amount : Prices \cup {0}]]
    /\ pc \in [Refunds -> {"idle", "waiting", "answered"}]
    /\ of \in [Refunds -> Charges \cup {None}] /\ ask \in [Refunds -> Asks \cup {0}]
    /\ sentTo \in [Refunds -> Processors \cup {None}]
    /\ back \in [Refunds -> {"none", "sent", "begun", "invalid", "unknown", "refunded", "failed"}]
    /\ answer \in [Refunds -> {"none", "not_found", "too_much", "unknown_processor", "no_charge",
                               "error", "yes", "no"}]
    /\ admin \in 0 .. MaxAdmin /\ lost \subseteq Charges \cup Refunds

(* Money goes back from the processor that took it, never more than it took:   *)
(* failover, lost replies and lost rows send no refund to the other one.  Each  *)
(* refund is held against the charge alone, so that several may exceed it.    *)
RefundsFit ==
    \A r \in Refunds :
        back[r] = "refunded" =>
            /\ handler[of[r]][sentTo[r]] = "captured"
            /\ ask[r] <= due[of[r]].amount

(* Yes means that the money went back, no that the processor itself failed to,  *)
(* never that the charge was sought where it was not made; and an error hides  *)
(* a refund only if the reply was lost.                                      *)
AnswerIsTrue ==
    \A r \in Refunds :
        /\ answer[r] = "yes" => back[r] = "refunded"
        /\ answer[r] = "no" => back[r] = "failed"
        /\ answer[r] = "error" /\ back[r] = "refunded" => r \in lost

(* Money that no refund can reach, because the row names another processor,    *)
(* carries no id, or is missing, takes a lost reply or a lost row.            *)
CapturedIsRefundable ==
    \A t \in Charges \ lost, p \in Processors :
        at[t] = "done" /\ handler[t][p] = "captured" => rows[t].by = p /\ rows[t].ptx = p

(* Every refund is answered, whatever the processor does.                     *)
EveryRefundAnswered == \A r \in Refunds : pc[r] = "waiting" ~> pc[r] = "answered"
=============================================================================
