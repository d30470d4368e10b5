---------------------------- MODULE RefundsProofs ----------------------------
(***************************************************************************)
(* Theorems about Refunds, for any charges, refunds and amounts, and on any  *)
(* network.                                                                 *)
(***************************************************************************)
EXTENDS Refunds, TLAPS

Rows == [by : Processors \cup {"none", None}, ptx : Processors \cup Charges \cup {None},
         amount : Prices \cup {0}]

LEMMA RowsBuilt ==
    ASSUME TypeOK, NEW t \in Charges
    PROVE  /\ NoRow \in Rows
           /\ \A p \in Processors, x \in Processors \cup {None} : Row(t, p, x) \in Rows
           /\ Row(t, "none", t) \in Rows
<1>1. due[t].amount \in Prices
  BY DEF TypeOK
<1> QED
  BY <1>1 DEF NoRow, Row, Rows

(* What processCharge does next keeps the types of what it touches.          *)
LEMMA GoOnType ==
    ASSUME TypeOK, NEW t \in Charges, NEW S \in SUBSET Processors, GoOn(t, S)
    PROVE  /\ at' \in [Charges -> {"idle", "store", "done"} \cup Processors]
           /\ handler' \in [Charges -> [Processors -> {"none", "sent", "invalid", "captured",
                                                       "declined", "refused"}]]
           /\ result' \in [Charges -> Rows]
<1>1. CASE \E p \in S : at' = [at EXCEPT ![t] = p] /\ Handled(t, p, "sent") /\ UNCHANGED result
  BY <1>1 DEF TypeOK, Handled, Rows
<1>2. CASE Settle(t, Row(t, "none", t))
  BY <1>2, RowsBuilt DEF TypeOK, Settle, Rows
<1> QED
  BY <1>1, <1>2 DEF GoOn

(* Every variable of charges, refunds and processors keeps its type.         *)
THEOREM TypeCorrect == Spec => []TypeOK
<1>1. Init => TypeOK
  BY RefundsAssumption DEF Init, TypeOK, Rates, NoRow
<1>2. TypeOK /\ [Next]_vars => TypeOK'
  <2> SUFFICES ASSUME TypeOK, [Next]_vars PROVE TypeOK'
    OBVIOUS
  <2> USE DEF switches, charging, refunding
  <2>1. ASSUME NEW t \in Charges, NEW p \in Processors, Charge(t, p) PROVE TypeOK'
    <3>1. PICK s \in IF Valid(t, p) THEN Outcomes(p) ELSE {"invalid"} : Handled(t, p, s)
      BY <2>1 DEF Charge
    <3>2. s \in {"invalid", "captured", "declined", "refused"}
      BY <3>1 DEF Outcomes
    <3> QED
      BY <2>1, <3>1, <3>2 DEF TypeOK, Charge, Handled
  <2>2. ASSUME NEW t \in Charges, SendCharge(t) PROVE TypeOK'
    BY <2>2, GoOnType DEF SendCharge, TypeOK, Rows
  <2>3. ASSUME NEW t \in Charges, HearCharge(t) PROVE TypeOK'
    <3> DEFINE p == at[t]
    <3>1. p \in Processors /\ UNCHANGED <<switches, due, rows, refunding, lost>>
      BY <2>3 DEF HearCharge
    <3>2. ASSUME NEW x \in {p, None}, Settle(t, Row(t, p, x)) PROVE TypeOK'
      <4>1. Row(t, p, x) \in Rows
        BY <3>1, RowsBuilt
      <4> QED
        BY <3>1, <3>2, <4>1 DEF Settle, TypeOK, Rows
    <3>3. CASE GoOn(t, {B} \ {p})
      BY <3>1, <3>3, GoOnType DEF TypeOK, Rows, Processors
    <3> QED
      BY <2>3, <3>2, <3>3 DEF HearCharge
  <2>4. ASSUME NEW t \in Charges, LoseCharge(t) PROVE TypeOK'
    BY <2>4, GoOnType DEF LoseCharge, TypeOK, Rows, Processors
  <2>5. ASSUME NEW t \in Charges, StoreCharge(t) PROVE TypeOK'
    BY <2>5 DEF StoreCharge, TypeOK
  <2>6. ASSUME NEW r \in Refunds, NEW t \in Charges, NEW a \in Asks, ProcessRefund(r, t, a)
        PROVE  TypeOK'
    <3>1. PICK row \in {rows[t], NoRow} :
            LET x == Rejection(a, row)
            IN  IF x # "none"
                THEN Answered(r, x) /\ UNCHANGED <<sentTo, back>>
                ELSE /\ pc' = [pc EXCEPT ![r] = "waiting"]
                     /\ sentTo' = [sentTo EXCEPT ![r] = RouteOf(row)]
                     /\ back' = [back EXCEPT ![r] = "sent"]
                     /\ UNCHANGED answer
      BY <2>6 DEF ProcessRefund
    <3>2. Rejection(a, row) \in {"none", "not_found", "too_much", "unknown_processor", "no_charge"}
      BY DEF Rejection
    <3>3. Rejection(a, row) = "none" => row.by \in Processors
      BY DEF Rejection
    <3> QED
      BY <2>6, <3>1, <3>2, <3>3, ZenonT(60) DEF ProcessRefund, Answered, RouteOf, TypeOK
  <2>7. ASSUME NEW r \in Refunds, CheckRefund(r) PROVE TypeOK'
    BY <2>7 DEF CheckRefund, TypeOK
  <2>8. ASSUME NEW r \in Refunds, Refund(r) PROVE TypeOK'
    BY <2>8 DEF Refund, TypeOK
  <2>9. ASSUME NEW r \in Refunds, HearRefund(r) PROVE TypeOK'
    <3>1. Heard(r) \in {"yes", "no", "error"}
      BY <2>9 DEF HearRefund, Heard
    <3> QED
      BY <2>9, <3>1 DEF HearRefund, Answered, TypeOK
  <2>10. ASSUME NEW r \in Refunds, LoseRefund(r) PROVE TypeOK'
    BY <2>10 DEF LoseRefund, Answered, TypeOK
  <2>11. ASSUME NEW p \in Processors, NEW x \in Rates, SetFailureRate(p, x) PROVE TypeOK'
    BY <2>11, RefundsAssumption DEF SetFailureRate, TypeOK
  <2>12. ASSUME NEW p \in Processors, ToggleStatus(p) PROVE TypeOK'
    BY <2>12, RefundsAssumption DEF ToggleStatus, TypeOK
  <2>13. CASE UNCHANGED vars
    BY <2>13 DEF vars, TypeOK
  <2> QED
    BY <2>1, <2>2, <2>3, <2>4, <2>5, <2>6, <2>7, <2>8, <2>9, <2>10, <2>11, <2>12, <2>13 DEF Next
<1> QED
  BY <1>1, <1>2, PTL DEF Spec

-----------------------------------------------------------------------------
(* The row of a charge names who captured it.  A row is written once, by a    *)
(* charge that is through with the processors.                              *)
Good(t, row) ==
    /\ row.amount = due[t].amount
    /\ row.by \in Processors /\ row.ptx # None =>
           row.ptx = row.by /\ handler[t][row.by] = "captured"

RowsInv ==
    \A t \in Charges :
        /\ at[t] \in {"store", "done"} => Good(t, result[t])
        /\ rows[t] # NoRow => at[t] = "done" /\ rows[t] = result[t]

(* A refund under way is with the processor that captured the charge.         *)
Placed(r) ==
    LET t == of[r]
    IN  /\ pc[r] # "idle" /\ t \in Charges
        /\ rows[t] # NoRow /\ rows[t].ptx = sentTo[r] /\ sentTo[r] \in Processors
        /\ handler[t][sentTo[r]] = "captured"
        /\ ask[r] <= due[t].amount

(* What its caller was told says what became of it, once it is over.          *)
Told(r) ==
    /\ pc[r] = "idle" => back[r] = "none" /\ answer[r] = "none"
    /\ pc[r] = "waiting" => answer[r] = "none"
    /\ back[r] # "unknown"
    /\ answer[r] = "yes" => back[r] = "refunded"
    /\ answer[r] = "no" => back[r] = "failed"
    /\ answer[r] = "error" => r \in lost \/ back[r] = "invalid"

RefundsInv ==
    /\ RowsInv
    /\ \A r \in Refunds : (back[r] # "none" => Placed(r)) /\ Told(r)

LEMMA RowsInvStays == TypeOK /\ RowsInv /\ [Next]_vars => RowsInv'
<1> SUFFICES ASSUME TypeOK, RowsInv, [Next]_vars, NEW t \in Charges
             PROVE  /\ at'[t] \in {"store", "done"} => Good(t, result[t])'
                    /\ rows'[t] # NoRow => at'[t] = "done" /\ rows'[t] = result'[t]
  BY DEF RowsInv
<1> USE DEF switches, charging, refunding, Handled
<1>t. /\ at \in [Charges -> {"idle", "store", "done"} \cup Processors]
      /\ result \in [Charges -> Rows] /\ rows \in [Charges -> Rows]
  BY DEF TypeOK, Rows
<1>1. CASE UNCHANGED <<due, at, handler[t], result, rows>>
  BY <1>1 DEF RowsInv, Good
<1>2. ASSUME NEW u \in Charges, NEW p \in Processors, Charge(u, p)
      PROVE  /\ at'[t] \in {"store", "done"} => Good(t, result[t])'
             /\ rows'[t] # NoRow => at'[t] = "done" /\ rows'[t] = result'[t]
  <2>1. \A q \in Processors : handler[t][q] = "captured" => handler'[t][q] = "captured"
    BY <1>2 DEF Charge, TypeOK
  <2> QED
    BY <1>2, <2>1 DEF Charge, RowsInv, Good
<1>3. ASSUME NEW u \in Charges, NEW x, Settle(u, Row(u, at[u], x)), at[u] \in Processors,
             x \notin {None} => x = at[u] /\ handler[u][at[u]] = "captured",
             UNCHANGED <<due, rows>>
      PROVE  /\ at'[t] \in {"store", "done"} => Good(t, result[t])'
             /\ rows'[t] # NoRow => at'[t] = "done" /\ rows'[t] = result'[t]
  BY <1>3, <1>t DEF Settle, Row, Good, RowsInv, Processors, A, B
<1>4. ASSUME NEW u \in Charges, NEW S \in SUBSET Processors, GoOn(u, S),
             at[u] \notin {"store", "done"}, UNCHANGED <<due, rows>>
      PROVE  /\ at'[t] \in {"store", "done"} => Good(t, result[t])'
             /\ rows'[t] # NoRow => at'[t] = "done" /\ rows'[t] = result'[t]
  <2>1. CASE Settle(u, Row(u, "none", u))
    BY <1>4, <2>1, <1>t DEF Settle, Row, Good, RowsInv, Processors, A, B
  <2>2. CASE \E p \in S : at' = [at EXCEPT ![u] = p] /\ Handled(u, p, "sent") /\ UNCHANGED result
    BY <1>4, <2>2, <1>t DEF Good, RowsInv, Processors, A, B, TypeOK
  <2> QED
    BY <1>4, <2>1, <2>2 DEF GoOn
<1>5. ASSUME NEW u \in Charges, SendCharge(u) \/ HearCharge(u) \/ LoseCharge(u)
      PROVE  /\ at'[t] \in {"store", "done"} => Good(t, result[t])'
             /\ rows'[t] # NoRow => at'[t] = "done" /\ rows'[t] = result'[t]
  <2>1. CASE SendCharge(u)
    BY <2>1, <1>4 DEF SendCharge
  <2>2. CASE LoseCharge(u)
    <3>1. at[u] \notin {"store", "done"} /\ {B} \ {at[u]} \in SUBSET Processors
      BY <2>2 DEF LoseCharge, Processors, A, B
    <3> QED
      BY <2>2, <3>1, <1>4 DEF LoseCharge
  <2>3. CASE HearCharge(u)
    <3>1. /\ at[u] \in Processors /\ UNCHANGED <<due, rows>>
          /\ at[u] \notin {"store", "done"} /\ {B} \ {at[u]} \in SUBSET Processors
      BY <2>3 DEF HearCharge, Processors, A, B
    <3>2. CASE handler[u][at[u]] = "captured" /\ Settle(u, Row(u, at[u], at[u]))
      BY <3>1, <3>2, <1>3
    <3>3. CASE Settle(u, Row(u, at[u], None))
      BY <3>1, <3>3, <1>3
    <3>4. CASE GoOn(u, {B} \ {at[u]})
      BY <3>1, <3>4, <1>4
    <3> QED
      BY <2>3, <3>2, <3>3, <3>4 DEF HearCharge
  <2> QED
    BY <1>5, <2>1, <2>2, <2>3
<1>6. ASSUME NEW u \in Charges, StoreCharge(u)
      PROVE  /\ at'[t] \in {"store", "done"} => Good(t, result[t])'
             /\ rows'[t] # NoRow => at'[t] = "done" /\ rows'[t] = result'[t]
  BY <1>6, <1>t DEF StoreCharge, RowsInv, Good
<1> QED
  BY <1>1, <1>2, <1>5, <1>6 DEF Next, ProcessRefund, CheckRefund, Refund, HearRefund, LoseRefund,
     SetFailureRate, ToggleStatus, vars

(* A row stays as it is, and so does the capture it names.                   *)
LEMMA RowsStay ==
    ASSUME TypeOK, RowsInv, [Next]_vars, NEW t \in Charges, rows[t] # NoRow
    PROVE  /\ rows'[t] = rows[t] /\ due'[t] = due[t]
           /\ \A p \in Processors : handler[t][p] = "captured" => handler'[t][p] = "captured"
<1> USE DEF switches, charging, refunding, Handled
<1>1. at[t] = "done" /\ "done" \notin Processors
  BY DEF RowsInv, Processors, A, B
<1>2. CASE UNCHANGED <<due, rows, handler>>
  BY <1>2
<1>3. ASSUME NEW u \in Charges, NEW p \in Processors, Charge(u, p)
      PROVE  /\ rows'[t] = rows[t] /\ due'[t] = due[t]
             /\ \A q \in Processors : handler[t][q] = "captured" => handler'[t][q] = "captured"
  BY <1>3 DEF Charge, TypeOK
<1>4. ASSUME NEW u \in Charges, u # t, NEW S, GoOn(u, S)
      PROVE  handler'[t] = handler[t]
  BY <1>4 DEF GoOn, Settle, TypeOK
<1>5. ASSUME NEW u \in Charges, SendCharge(u) \/ HearCharge(u) \/ LoseCharge(u)
      PROVE  /\ rows'[t] = rows[t] /\ due'[t] = due[t]
             /\ \A q \in Processors : handler[t][q] = "captured" => handler'[t][q] = "captured"
  <2>1. u # t
    BY <1>5, <1>1 DEF SendCharge, HearCharge, LoseCharge
  <2> QED
    BY <1>5, <1>4, <2>1 DEF SendCharge, HearCharge, LoseCharge, Settle
<1>6. ASSUME NEW u \in Charges, StoreCharge(u)
      PROVE  /\ rows'[t] = rows[t] /\ due'[t] = due[t]
             /\ \A q \in Processors : handler[t][q] = "captured" => handler'[t][q] = "captured"
  BY <1>6, <1>1 DEF StoreCharge, TypeOK
<1> QED
  BY <1>2, <1>3, <1>5, <1>6 DEF Next, ProcessRefund, CheckRefund, Refund, HearRefund, LoseRefund,
     SetFailureRate, ToggleStatus, vars

LEMMA RefundsInvStays == TypeOK /\ RefundsInv /\ [Next]_vars => RefundsInv'
<1> SUFFICES ASSUME TypeOK, RefundsInv, [Next]_vars, NEW s \in Refunds
             PROVE  (back'[s] # "none" => Placed(s)') /\ Told(s)'
  BY RowsInvStays DEF RefundsInv
<1> USE DEF switches, charging, refunding
<1>1. lost \subseteq lost'
  BY DEF Next, Charge, SendCharge, HearCharge, LoseCharge, StoreCharge, ProcessRefund, CheckRefund,
     Refund, HearRefund, LoseRefund, SetFailureRate, ToggleStatus, vars
<1>2. (back[s] # "none" => Placed(s)) /\ Told(s)
  BY DEF RefundsInv
<1>3. ASSUME back[s] # "none", pc'[s] # "idle", of'[s] = of[s], sentTo'[s] = sentTo[s],
             ask'[s] = ask[s]
      PROVE  Placed(s)'
  <2>1. /\ of[s] \in Charges /\ rows[of[s]] # NoRow /\ rows[of[s]].ptx = sentTo[s] /\ sentTo[s] \in Processors
        /\ handler[of[s]][sentTo[s]] = "captured" /\ ask[s] <= due[of[s]].amount
    BY <1>2, <1>3 DEF Placed
  <2>2. /\ rows'[of[s]] = rows[of[s]] /\ due'[of[s]] = due[of[s]]
        /\ handler'[of[s]][sentTo[s]] = "captured"
    BY <2>1, RowsStay DEF RefundsInv
  <2> QED
    BY <1>3, <2>1, <2>2 DEF Placed
<1>4. CASE UNCHANGED <<pc[s], of[s], ask[s], sentTo[s], back[s], answer[s]>>
  BY <1>1, <1>2, <1>3, <1>4 DEF Placed, Told
<1>5. ASSUME NEW t \in Charges, NEW a \in Asks, ProcessRefund(s, t, a)
      PROVE  (back'[s] # "none" => Placed(s)') /\ Told(s)'
  <2>1. PICK row \in {rows[t], NoRow} :
          LET x == Rejection(a, row)
          IN  IF x # "none"
              THEN Answered(s, x) /\ UNCHANGED <<sentTo, back>>
              ELSE /\ pc' = [pc EXCEPT ![s] = "waiting"]
                   /\ sentTo' = [sentTo EXCEPT ![s] = RouteOf(row)]
                   /\ back' = [back EXCEPT ![s] = "sent"]
                   /\ UNCHANGED answer
    BY <1>5 DEF ProcessRefund
  <2>2. pc[s] = "idle" /\ back[s] = "none" /\ answer[s] = "none"
    BY <1>2, <1>5 DEF ProcessRefund, Told
  <2>3. CASE Rejection(a, row) # "none"
    <3>1. Rejection(a, row) \in {"not_found", "too_much", "unknown_processor", "no_charge"}
      BY <2>3 DEF Rejection
    <3>2. answer'[s] = Rejection(a, row) /\ back'[s] = "none" /\ pc'[s] = "answered"
      BY <2>1, <2>2, <2>3 DEF Answered, TypeOK
    <3> QED
      BY <3>1, <3>2 DEF Told
  <2>4. CASE Rejection(a, row) = "none"
    <3>1. /\ row # NoRow /\ ~TooMuch(a, row) /\ row.by \in Processors /\ row.ptx # None
      BY <2>4 DEF Rejection
    <3>2. row = rows[t] /\ rows[t] = result[t] /\ Good(t, rows[t])
      BY <2>1, <3>1 DEF RefundsInv, RowsInv
    <3>3. /\ of'[s] = t /\ ask'[s] = a /\ sentTo'[s] = rows[t].by
          /\ pc'[s] = "waiting" /\ back'[s] = "sent" /\ answer'[s] = "none"
          /\ UNCHANGED <<rows, due, handler>>
      BY <1>5, <2>1, <2>2, <2>4, <3>2 DEF ProcessRefund, RouteOf, TypeOK
    <3>4. a <= due[t].amount
      <4>1. a \in Nat /\ due[t].amount \in Nat
        BY RefundsAssumption DEF TypeOK
      <4> QED
        BY <3>1, <3>2, <4>1 DEF TooMuch, Good
    <3> QED
      BY <3>1, <3>2, <3>3, <3>4 DEF Placed, Told, Good
  <2> QED
    BY <2>3, <2>4
<1>6. CASE CheckRefund(s)
  <2>1. Placed(s) /\ Mine(s)
    BY <1>2, <1>6 DEF CheckRefund, Placed, Mine
  <2>2. pc'[s] # "idle" /\ back'[s] \in {"invalid", "begun"}
    BY <1>6, <2>1 DEF CheckRefund, TypeOK, Placed
  <2>3. Placed(s)'
    BY <1>3, <1>6, <2>2 DEF CheckRefund
  <2> QED
    BY <1>2, <1>6, <2>2, <2>3 DEF CheckRefund, Told
<1>7. CASE Refund(s)
  <2>1. Placed(s)'
    BY <1>2, <1>3, <1>7 DEF Refund, Placed
  <2> QED
    BY <1>2, <1>7, <2>1 DEF Refund, Told, TypeOK, Placed
<1>8. CASE HearRefund(s)
  <2>1. pc'[s] = "answered" /\ answer'[s] = Heard(s) /\ UNCHANGED <<back, of, sentTo, ask>>
    BY <1>8 DEF HearRefund, Answered, TypeOK
  <2>2. Placed(s)'
    BY <1>3, <1>8, <2>1 DEF HearRefund
  <2>3. /\ Heard(s) = "yes" => back[s] = "refunded"
        /\ Heard(s) = "no" => back[s] = "failed"
        /\ Heard(s) = "error" => back[s] = "invalid"
    BY <1>2, <1>8 DEF HearRefund, Heard, Told
  <2> QED
    BY <1>2, <2>1, <2>2, <2>3 DEF Told
<1>9. CASE LoseRefund(s)
  BY <1>2, <1>3, <1>9 DEF LoseRefund, Answered, TimesOut, Told, TypeOK
<1>10. ASSUME NEW r \in Refunds, r # s, NEW t \in Charges, NEW a \in Asks, ProcessRefund(r, t, a)
       PROVE  UNCHANGED <<pc[s], of[s], ask[s], sentTo[s], back[s], answer[s]>>
  BY <1>10 DEF ProcessRefund, Answered, TypeOK
<1>11. ASSUME NEW r \in Refunds, r # s,
              CheckRefund(r) \/ Refund(r) \/ HearRefund(r) \/ LoseRefund(r)
       PROVE  UNCHANGED <<pc[s], of[s], ask[s], sentTo[s], back[s], answer[s]>>
  BY <1>11 DEF CheckRefund, Refund, HearRefund, LoseRefund, Answered, TypeOK
<1>12. CASE UNCHANGED refunding
  BY <1>4, <1>12
<1>13. ASSUME NEW r \in Refunds, NEW t \in Charges, NEW a \in Asks, ProcessRefund(r, t, a)
       PROVE  (back'[s] # "none" => Placed(s)') /\ Told(s)'
  BY <1>4, <1>5, <1>10, <1>13
<1>14. ASSUME NEW r \in Refunds,
              CheckRefund(r) \/ Refund(r) \/ HearRefund(r) \/ LoseRefund(r)
       PROVE  (back'[s] # "none" => Placed(s)') /\ Told(s)'
  BY <1>4, <1>6, <1>7, <1>8, <1>9, <1>11, <1>14
<1> QED
  BY <1>12, <1>13, <1>14 DEF Next, Charge, SendCharge, HearCharge, LoseCharge, StoreCharge,
     SetFailureRate, ToggleStatus, vars

LEMMA RefundsInvHolds == Spec => []RefundsInv
<1>1. Init => RefundsInv
  BY DEF Init, RefundsInv, RowsInv, Told, NoRow
<1> QED
  BY <1>1, TypeCorrect, RefundsInvStays, PTL DEF Spec

(* Money goes back from the processor that took it, never more at once than    *)
(* it took.                                                                 *)
THEOREM RefundsAlwaysFit == Spec => []RefundsFit
<1>1. RefundsInv => RefundsFit
  BY DEF RefundsInv, RefundsFit, Placed
<1> QED
  BY <1>1, RefundsInvHolds, PTL

(* The answers say what became of the refunds.                               *)
THEOREM AnswersAreTrue == Spec => []AnswerIsTrue
<1>1. RefundsInv => AnswerIsTrue
  BY DEF RefundsInv, AnswerIsTrue, Told
<1> QED
  BY <1>1, RefundsInvHolds, PTL

-----------------------------------------------------------------------------
(* A charge none of whose replies was lost has been captured by at most the    *)
(* processor it is at, and by the one its row will name when it is through.  *)
Known(t) ==
    t \notin lost =>
        /\ at[t] = "idle" => \A p \in Processors : handler[t][p] = "none"
        /\ at[t] \in Processors =>
             \A p \in Processors \ {at[t]} : handler[t][p] \in {"none", "refused", "invalid"}
        /\ at[t] \in {"store", "done"} =>
             \A p \in Processors :
                /\ handler[t][p] # "sent"
                /\ handler[t][p] = "captured" => result[t].by = p /\ result[t].ptx = p
        /\ at[t] = "done" => rows[t] = result[t]

KnownInv == \A t \in Charges : Known(t)

LEMMA KnownGoesOn ==
    ASSUME TypeOK, NEW t \in Charges, NEW S \in SUBSET Processors, GoOn(t, S),
           \A p \in Processors : handler[t][p] \in {"none", "refused", "invalid"},
           t \notin lost
    PROVE  Known(t)'
<1>1. CASE Settle(t, Row(t, "none", t))
  <2>1. at'[t] = "store" /\ handler' = handler
    BY <1>1 DEF Settle, TypeOK
  <2> QED
    BY <2>1 DEF Known, Processors, A, B
<1>2. ASSUME NEW p \in S, at' = [at EXCEPT ![t] = p], Handled(t, p, "sent"), UNCHANGED result
      PROVE  Known(t)'
  BY <1>2 DEF Known, Handled, TypeOK, Processors, A, B
<1> QED
  BY <1>1, <1>2 DEF GoOn

LEMMA KnownStays == TypeOK /\ KnownInv /\ [Next]_vars => KnownInv'
<1> SUFFICES ASSUME TypeOK, KnownInv, [Next]_vars, NEW t \in Charges PROVE Known(t)'
  BY DEF KnownInv
<1> USE DEF switches, charging, refunding
<1>1. Known(t)
  BY DEF KnownInv
<1>2. CASE UNCHANGED <<at[t], handler[t], result[t], rows[t]>> /\ lost \subseteq lost'
  BY <1>1, <1>2 DEF Known
<1>3. CASE t \in lost'
  BY <1>3 DEF Known
<1>4. ASSUME NEW p \in Processors, Charge(t, p) PROVE Known(t)'
  BY <1>1, <1>4 DEF Charge, Handled, Known, TypeOK, Processors, A, B
<1>5. ASSUME NEW u \in Charges, u # t, NEW p \in Processors, Charge(u, p) PROVE Known(t)'
  BY <1>2, <1>5 DEF Charge, Handled, TypeOK
<1>6. CASE SendCharge(t)
  BY <1>1, <1>3, <1>6, KnownGoesOn DEF SendCharge, Known
<1>7. CASE HearCharge(t) /\ t \notin lost
  <2>1. at[t] \in Processors /\ UNCHANGED <<due, rows, lost>>
    BY <1>7 DEF HearCharge
  <2>2. \A p \in Processors \ {at[t]} : handler[t][p] \in {"none", "refused", "invalid"}
    BY <1>1, <1>7, <2>1 DEF Known
  <2>3. CASE handler[t][at[t]] = "captured" /\ Settle(t, Row(t, at[t], at[t]))
    BY <2>1, <2>2, <2>3 DEF Settle, Row, Known, TypeOK, Processors, A, B
  <2>4. CASE handler[t][at[t]] = "declined" /\ Settle(t, Row(t, at[t], None))
    BY <2>1, <2>2, <2>4 DEF Settle, Row, Known, TypeOK, Processors, A, B
  <2>5. CASE handler[t][at[t]] \in {"refused", "invalid"} /\ GoOn(t, {B} \ {at[t]})
    BY <1>7, <2>1, <2>2, <2>5, KnownGoesOn DEF Processors
  <2> QED
    BY <1>7, <2>3, <2>4, <2>5 DEF HearCharge
<1>8. CASE LoseCharge(t)
  BY <1>3, <1>8 DEF LoseCharge
<1>9. CASE StoreCharge(t)
  BY <1>1, <1>3, <1>9 DEF StoreCharge, Known, TypeOK, Processors, A, B
<1>10. ASSUME NEW u \in Charges, u # t,
              SendCharge(u) \/ HearCharge(u) \/ LoseCharge(u) \/ StoreCharge(u)
       PROVE  Known(t)'
  <2>1. ASSUME NEW S, GoOn(u, S) PROVE UNCHANGED <<at[t], handler[t], result[t]>>
    BY <1>10, <2>1 DEF GoOn, Settle, Handled, TypeOK
  <2>2. ASSUME NEW row, Settle(u, row) PROVE UNCHANGED <<at[t], handler[t], result[t]>>
    BY <1>10, <2>2 DEF Settle, TypeOK
  <2>3. CASE SendCharge(u) \/ HearCharge(u) \/ LoseCharge(u)
    BY <1>2, <2>1, <2>2, <2>3 DEF SendCharge, HearCharge, LoseCharge
  <2>4. CASE StoreCharge(u)
    BY <1>2, <1>10, <2>4 DEF StoreCharge, TypeOK
  <2> QED
    BY <1>10, <2>3, <2>4
<1>11. ASSUME NEW u \in Charges, NEW p \in Processors, Charge(u, p) PROVE Known(t)'
  BY <1>4, <1>5, <1>11
<1>12. ASSUME NEW u \in Charges,
              SendCharge(u) \/ HearCharge(u) \/ LoseCharge(u) \/ StoreCharge(u)
       PROVE  Known(t)'
  <2>1. HearCharge(t) => lost' = lost
    BY DEF HearCharge
  <2> QED
    BY <1>3, <1>6, <1>7, <1>8, <1>9, <1>10, <1>12, <2>1
<1>13. CASE UNCHANGED charging /\ lost \subseteq lost'
  BY <1>2, <1>13
<1> QED
  BY <1>11, <1>12, <1>13 DEF Next, ProcessRefund, CheckRefund, Refund, HearRefund, LoseRefund,
     SetFailureRate, ToggleStatus, vars

(* Money that no refund can reach takes a lost reply or a lost row.           *)
THEOREM CapturesAreRefundable == Spec => []CapturedIsRefundable
<1>1. Init => KnownInv
  BY DEF Init, KnownInv, Known, Processors, A, B
<1>2. KnownInv => CapturedIsRefundable
  BY DEF KnownInv, Known, CapturedIsRefundable
<1> QED
  BY <1>1, <1>2, TypeCorrect, KnownStays, PTL DEF Spec
=============================================================================
