---------------------------- MODULE BillingProofs ---------------------------
(***************************************************************************)
(* Theorems about Billing, for any subscriptions, workers, days and lengths *)
(* of periods.                                                              *)
(***************************************************************************)
EXTENDS Billing, TLAPS

(* Who is at work is at a subscription that exists, and at a retry that       *)
(* exists if it is at one.                                                  *)
Busy == {"mark", "report"} \cup AtService

Linked ==
    /\ \A w \in Workers : pc[w] \in Busy => cur[w] # None
    /\ \A w \in Workers : pc[w] = "mark" => entry[w] # None
    /\ \A w \in Workers : cur[w] # None => Created(cur[w])
    /\ \A w \in Workers : entry[w] # None => queue[entry[w]] # None
    /\ \A w \in Batchers : \A s \in batch[w] : Created(s)
    /\ \A e \in Entries : queue[e] # None => Created(queue[e].sub)

IType == TypeOK /\ Linked

LEMMA Nones ==
    /\ None \notin Subscriptions /\ None \notin Entries
    /\ None \notin Subs /\ None \notin Retries
BY BillingAssumption

LEMMA PeriodsAreDays ==
    /\ NoCycle \in Cycles /\ LastDay \in Nat
    /\ \A c \in Cycles : Length[c] \in Nat /\ Length[c] > 0
BY BillingAssumption DEF NoCycle

(* What a retry becomes is a row of the table again.                        *)
LEMMA RetriesKept ==
    ASSUME NEW row \in Retries
    PROVE  Retried(row) \in Retries /\ Resolved(row) \in Retries
           /\ Retried(row).sub = row.sub /\ Resolved(row).sub = row.sub
<1>1. MaxAttempts \in Nat
  BY BillingAssumption
<1>2. row \in Retries
  OBVIOUS
<1>3. Resolved(row) \in Retries /\ Resolved(row).sub = row.sub
  BY <1>2 DEF Retries, Resolved
<1>4. CASE row.attempt + 1 > MaxAttempts
  <2>1. Retried(row) = [row EXCEPT !.attempt = MaxAttempts + 1, !.status = "resolved"]
    BY <1>4 DEF Retried
  <2>2. MaxAttempts + 1 \in 1 .. MaxAttempts + 1
    BY <1>1
  <2> QED
    BY <1>2, <1>3, <2>1, <2>2 DEF Retries
<1>5. CASE ~(row.attempt + 1 > MaxAttempts)
  <2>1. Retried(row) = [row EXCEPT !.attempt = @ + 1, !.status = "pending"]
    BY <1>5 DEF Retried
  <2>2. row.attempt + 1 \in 1 .. MaxAttempts + 1
    BY <1>1, <1>2, <1>5 DEF Retries
  <2> QED
    BY <1>2, <1>3, <2>1, <2>2 DEF Retries
<1> QED
  BY <1>4, <1>5

LEMMA InitIType == Init => IType
BY BillingAssumption, PeriodsAreDays
   DEF Init, IType, TypeOK, Linked, Busy, AtService, Called, Keys, Days, Created

LEMMA CustomerIType == IType /\ Customer => IType'
<1> SUFFICES ASSUME IType, Customer PROVE IType'
  OBVIOUS
<1> USE Nones, PeriodsAreDays DEF IType, TypeOK, Days
<1>1. ASSUME NEW s \in Subscriptions, subs' \in [Subscriptions -> Subs \cup {None}],
             CustomerOnly, \A t \in Subscriptions : Created(t) => Created(t)'
      PROVE  IType'
  BY <1>1 DEF CustomerOnly, jobVars, callVars, payVars, history, Linked, Created, Retries
<1>2. ASSUME NEW s \in Subscriptions, NEW c \in Cycles, NEW trial \in BOOLEAN,
             CreateSubscription(s, c, trial)
      PROVE  IType'
  <2>1. NewSubscription(c, trial) \in Subs
    BY DEF NewSubscription, Subs, Statuses
  <2> QED
    BY <1>1, <1>2, <2>1 DEF CreateSubscription, Created
<1>3. ASSUME NEW s \in Subscriptions, NEW c \in Cycles,
             UpgradeSubscription(s, c) \/ DowngradeSubscription(s, c)
      PROVE  IType'
  <2>1. subs[s] \in Subs
    BY <1>3 DEF UpgradeSubscription, DowngradeSubscription, Created
  <2>2. CASE UpgradeSubscription(s, c)
    <3>1. [subs[s] EXCEPT !.cycle = c, !.next = today + Length[c]] \in Subs
      <4>1. today + Length[c] \in Nat
        OBVIOUS
      <4> QED
        BY <2>1, <4>1 DEF Subs
    <3> QED
      BY <1>1, <2>2, <3>1 DEF UpgradeSubscription, Created
  <2>3. CASE DowngradeSubscription(s, c)
    <3>1. [subs[s] EXCEPT !.cycle = c] \in Subs
      BY <2>1 DEF Subs
    <3> QED
      BY <1>1, <2>3, <3>1 DEF DowngradeSubscription, Created
  <2> QED
    BY <1>3, <2>2, <2>3
<1>4. ASSUME NEW s \in Subscriptions, CancelSubscription(s) PROVE IType'
  <2>1. subs[s] \in Subs
    BY <1>4 DEF CancelSubscription, Created
  <2>2. [subs[s] EXCEPT !.cancel = TRUE] \in Subs
    BY <2>1 DEF Subs
  <2> QED
    BY <1>1, <1>4, <2>2 DEF CancelSubscription, Created
<1> QED
  BY <1>2, <1>3, <1>4 DEF Customer

LEMMA BeginIType ==
    ASSUME NEW w \in Workers, IType, Begin(w)
    PROVE  IType'
<1> USE Nones DEF IType, TypeOK, rowVars, callVars, payVars, history, Moved, Workers
<1>1. CASE w \in Batchers /\ SelectDue(w)
  BY <1>1 DEF SelectDue, Due, Linked, Busy, AtService, Called, Created
<1>2. ASSUME NEW e \in Entries, w \in Retriers, TakeRetry(w, e) PROVE IType'
  <2>1. queue[e] \in Retries
    BY <1>2 DEF TakeRetry, Pending
  <2>2. queue[e].sub \in Subscriptions /\ Created(queue[e].sub)
    BY <1>2, <2>1 DEF Retries, Linked
  <2> QED
    BY <1>2, <2>1, <2>2 DEF TakeRetry, Linked, Busy, AtService, Called, Created
<1> QED
  BY <1>1, <1>2 DEF Begin

(* Every step of Report leaves the rows of the queue typed and keeps them.   *)
LEMMA ReportQueue ==
    ASSUME NEW w \in Workers, IType, Report(w)
    PROVE  /\ queue' \in [Entries -> Retries \cup {None}]
           /\ \A e \in Entries : queue[e] # None => queue'[e] # None
           /\ \A e \in Entries : queue'[e] # None =>
                  (queue[e] # None /\ queue'[e].sub = queue[e].sub) \/ queue'[e].sub = cur[w]
<1> USE Nones DEF IType, TypeOK
<1>1. cur[w] \in Subscriptions
  BY DEF Report, Linked, Busy
<1>2. CASE UNCHANGED queue
  BY <1>2
<1>3. CASE Schedule(cur[w])
  <2>1. ASSUME NEW e \in Entries,
               queue' = [queue EXCEPT ![e] = [sub |-> cur[w], attempt |-> 1, status |-> "pending"]]
        PROVE  /\ queue' \in [Entries -> Retries \cup {None}]
               /\ \A d \in Entries : queue[d] # None => queue'[d] # None
               /\ \A d \in Entries : queue'[d] # None =>
                    (queue[d] # None /\ queue'[d].sub = queue[d].sub) \/ queue'[d].sub = cur[w]
    <3>1. MaxAttempts \in Nat
      BY BillingAssumption
    <3>2. [sub |-> cur[w], attempt |-> 1, status |-> "pending"] \in Retries
      BY <1>1, <3>1 DEF Retries
    <3> QED
      BY <2>1, <3>2
  <2> QED
    BY <1>2, <1>3, <2>1 DEF Schedule
<1>4. CASE entry[w] # None /\ Resolve(entry[w], reply[w])
  <2>1. entry[w] \in Entries /\ queue[entry[w]] \in Retries
    BY <1>4 DEF Linked
  <2>2. ASSUME NEW row \in Retries, row.sub = queue[entry[w]].sub,
               queue' = [queue EXCEPT ![entry[w]] = row]
        PROVE  /\ queue' \in [Entries -> Retries \cup {None}]
               /\ \A d \in Entries : queue[d] # None => queue'[d] # None
               /\ \A d \in Entries : queue'[d] # None =>
                    (queue[d] # None /\ queue'[d].sub = queue[d].sub) \/ queue'[d].sub = cur[w]
    BY <2>1, <2>2
  <2> QED
    BY <1>2, <1>4, <2>1, <2>2, RetriesKept DEF Resolve
<1> QED
  BY <1>2, <1>3, <1>4 DEF Report, Written

(* What is taken and recorded under a key.                                  *)
LEMMA BooksTyped ==
    ASSUME captures \in [Keys -> 0 .. 2], told \in [Keys -> SUBSET BOOLEAN],
           NEW k \in Keys, NEW v \in BOOLEAN
    PROVE  /\ Taken(k) \/ TakenTwice(k) => captures' \in [Keys -> 0 .. 2]
           /\ Recorded(k, v) => told' \in [Keys -> SUBSET BOOLEAN]
<1>1. ASSUME Taken(k) \/ TakenTwice(k) PROVE captures' \in [Keys -> 0 .. 2]
  <2>1. \A n \in 0 .. 2 : (IF n = 0 THEN 1 ELSE 2) \in 0 .. 2
    OBVIOUS
  <2> QED
    BY <1>1, <2>1 DEF Taken, TakenTwice
<1>2. ASSUME Recorded(k, v) PROVE told' \in [Keys -> SUBSET BOOLEAN]
  <2> DEFINE more == told[k] \cup {v}
  <2>1. more \in SUBSET BOOLEAN
    OBVIOUS
  <2>2. told' = [told EXCEPT ![k] = more]
    BY <1>2 DEF Recorded
  <2> HIDE DEF more
  <2> QED
    BY <2>1, <2>2
<1> QED
  BY <1>1, <1>2

LEMMA WorkIType ==
    ASSUME NEW w \in Workers, IType, Work(w)
    PROVE  IType'
<1> USE Nones, PeriodsAreDays
    DEF IType, TypeOK, rowVars, jobVars, callVars, payVars, Moved, AtService, Called, Busy, Linked,
        Created, history
<1> DEFINE S == cur[w]
<1>1. ASSUME NEW s \in Subscriptions, w \in Batchers, TakeNext(w, s) \/ SkipJob(w, s)
      PROVE  IType'
  BY <1>1 DEF TakeNext, SkipJob
<1>2. CASE Mark(w)
  <2>1. entry[w] \in Entries /\ queue[entry[w]] \in Retries
    BY <1>2 DEF Mark
  <2>2. [queue[entry[w]] EXCEPT !.status = "processing"] \in Retries
    BY <2>1 DEF Retries
  <2>3. [queue[entry[w]] EXCEPT !.status = "processing"].sub = queue[entry[w]].sub
    BY <2>1 DEF Retries
  <2> DEFINE Row == [queue[entry[w]] EXCEPT !.status = "processing"]
  <2>6. queue' = [queue EXCEPT ![entry[w]] = Row] \/ queue' = queue
    BY <1>2 DEF Mark
  <2>7. Row \in Retries /\ Row.sub = queue[entry[w]].sub
    BY <2>2, <2>3
  <2> HIDE DEF Row
  <2>4. /\ queue' \in [Entries -> Retries \cup {None}]
        /\ \A e \in Entries : queue'[e] # None => queue[e] # None /\ queue'[e].sub = queue[e].sub
        /\ \A e \in Entries : queue[e] # None => queue'[e] # None
    BY <2>1, <2>6, <2>7
  <2>5. /\ pc' = [pc EXCEPT ![w] = "read"] /\ pc[w] = "mark"
        /\ UNCHANGED <<today, subs, batch, cur, entry, day, period, reply>>
        /\ UNCHANGED <<captures, told, faulty, overnight, raced, stray>>
    BY <1>2 DEF Mark
  <2> QED
    BY <2>4, <2>5
<1>3. CASE ReadSubscription(w)
  BY <1>3 DEF ReadSubscription
<1>4. CASE Capture(w) \/ Decline(w)
  <2>1. /\ pc[w] = "charge" /\ S \in Subscriptions
        /\ UNCHANGED <<today, subs, queue, batch, cur, entry, day, period>>
        /\ UNCHANGED <<overnight, raced, stray>>
    BY <1>4 DEF Capture, Decline, Charging, Fault
  <2>k. Key(w) \in Keys
    BY <2>1 DEF Key, Keys
  <2>2. captures' \in [Keys -> 0 .. 2]
    <3>1. Taken(Key(w)) \/ TakenTwice(Key(w)) \/ UNCHANGED captures
      BY <1>4 DEF Capture, Decline
    <3> QED
      BY <2>k, <3>1, BooksTyped
  <2>3. told' \in [Keys -> SUBSET BOOLEAN]
    <3>1. \E v \in BOOLEAN : Recorded(Key(w), v)
      BY <1>4 DEF Capture, Decline
    <3> QED
      BY <2>k, <3>1, BooksTyped
  <2>4. /\ reply' \in [Workers -> {"success", "declined", "error"}]
        /\ pc' \in [Workers -> {"idle", "next", "mark", "report"} \cup AtService]
        /\ \A v \in Workers : pc'[v] = pc[v] \/ (v = w /\ pc'[v] \in {"period", "past_due"})
    BY <1>4 DEF Capture, Decline, Answer
  <2>5. faulty' \subseteq Subscriptions
    <3>1. faulty' = faulty \/ faulty' = faulty \cup {S}
      BY <1>4 DEF Capture, Decline, Fault
    <3> QED
      BY <2>1, <3>1
  <2>6. TypeOK'
    BY <2>1, <2>2, <2>3, <2>4, <2>5
  <2>7. Linked'
    BY <2>1, <2>4
  <2> QED
    BY <2>6, <2>7
<1>5. CASE Lookup(w)
  <2>1. /\ pc[w] = "called" /\ S \in Subscriptions
        /\ UNCHANGED <<today, subs, queue, batch, cur, entry, day, period, captures, told>>
        /\ UNCHANGED <<faulty, overnight, stray>>
    BY <1>5 DEF Lookup
  <2>2. /\ reply' \in [Workers -> {"success", "declined", "error"}]
        /\ pc' \in [Workers -> {"idle", "next", "mark", "report"} \cup AtService]
        /\ \A v \in Workers :
             pc'[v] = pc[v] \/ (v = w /\ pc'[v] \in {"period", "past_due", "charge"})
    BY <1>5 DEF Lookup, Answer
  <2>3. raced' \subseteq Subscriptions
    BY <1>5, <2>1 DEF Lookup
  <2>4. TypeOK'
    BY <2>1, <2>2, <2>3
  <2>5. Linked'
    BY <2>1, <2>2
  <2> QED
    BY <2>4, <2>5
<1>6. CASE FailCall(w) \/ Abandon(w)
  BY <1>6 DEF FailCall, Abandon, Fault
<1>7. CASE MarkPastDue(w)
  <2>1. S \in Subscriptions /\ subs[S] \in Subs
    BY <1>7 DEF MarkPastDue
  <2>2. [subs[S] EXCEPT !.status = "past_due"] \in Subs
    BY <2>1 DEF Subs, Statuses
  <2>3. subs' \in [Subscriptions -> Subs \cup {None}] /\ \A t \in Subscriptions : Created(t) => Created(t)'
    BY <1>7, <2>1, <2>2 DEF MarkPastDue
  <2>4. /\ pc' = [pc EXCEPT ![w] = "report"] /\ pc[w] = "past_due"
        /\ stray' \subseteq Subscriptions
        /\ UNCHANGED <<today, queue, batch, cur, entry, day, period, reply>>
        /\ UNCHANGED <<captures, told, faulty, overnight, raced>>
    BY <1>7, <2>1 DEF MarkPastDue
  <2>5. TypeOK'
    BY <2>3, <2>4
  <2>6. Linked'
    <3>1. UNCHANGED <<queue, batch, cur, entry>>
      BY <2>4
    <3>2. \A v \in Workers : pc'[v] \in Busy => cur'[v] # None
      BY <2>4
    <3>3. \A v \in Workers : pc'[v] = "mark" => entry'[v] # None
      BY <2>4
    <3>4. \A e \in Entries : queue[e] # None => queue[e].sub \in Subscriptions
      BY DEF Retries
    <3> QED
      BY <2>3, <3>1, <3>2, <3>3, <3>4
  <2> QED
    BY <2>5, <2>6
<1>8. CASE ReadPeriod(w)
  <2>1. S \in Subscriptions /\ subs[S] \in Subs
    BY <1>8 DEF ReadPeriod
  <2>2. subs[S].cycle \in Cycles
    BY <2>1 DEF Subs
  <2> QED
    BY <1>8, <2>1, <2>2 DEF ReadPeriod, Fault
<1>9. CASE Advance(w)
  <2>1. S \in Subscriptions /\ subs[S] \in Subs
    BY <1>9 DEF Advance
  <2>2. Advanced(subs[S], period[w]) \in Subs
    <3>1. today + Length[period[w]] \in Nat
      BY DEF Days
    <3> QED
      BY <2>1, <3>1 DEF Advanced, Subs, Statuses
  <2>3. subs' \in [Subscriptions -> Subs \cup {None}] /\ \A t \in Subscriptions : Created(t) => Created(t)'
    BY <1>9, <2>1, <2>2 DEF Advance
  <2>4. /\ pc' = [pc EXCEPT ![w] = "report"] /\ pc[w] = "advance"
        /\ faulty' \subseteq Subscriptions
        /\ UNCHANGED <<today, queue, batch, cur, entry, day, period, reply>>
        /\ UNCHANGED <<captures, told, overnight, raced, stray>>
    BY <1>9, <2>1 DEF Advance, Fault
  <2>5. TypeOK'
    BY <2>3, <2>4
  <2>6. Linked'
    <3>1. UNCHANGED <<queue, batch, cur, entry>>
      BY <2>4
    <3>2. \A v \in Workers : pc'[v] \in Busy => cur'[v] # None
      BY <2>4
    <3>3. \A v \in Workers : pc'[v] = "mark" => entry'[v] # None
      BY <2>4
    <3>4. \A e \in Entries : queue[e] # None => queue[e].sub \in Subscriptions
      BY DEF Retries
    <3> QED
      BY <2>3, <3>1, <3>2, <3>3, <3>4
  <2> QED
    BY <2>5, <2>6
<1>10. CASE Report(w)
  <2>1. cur[w] \in Subscriptions /\ subs[cur[w]] # None
    BY <1>10 DEF Report
  <2>2. /\ cur' = [cur EXCEPT ![w] = None] /\ entry' = [entry EXCEPT ![w] = None]
        /\ pc' = [pc EXCEPT ![w] = "next"] \/ pc' = [pc EXCEPT ![w] = "idle"]
        /\ UNCHANGED <<today, subs, batch, captures, told, faulty, overnight, raced>>
    BY <1>10 DEF Report, Finish
  <2>3. /\ day' \in [Workers -> Days]
        /\ period' \in [Workers -> Cycles]
        /\ reply' \in [Workers -> {"success", "declined", "error"}]
    BY <1>10 DEF Report, Finish, Forget, Days
  <2>s. stray' \subseteq Subscriptions
    <3>1. stray' = stray \/ \E q : stray' = stray \cup LeftStray(w, q)
      BY <1>10 DEF Report
    <3> QED
      BY <2>1, <3>1 DEF LeftStray
  <2>q. queue' \in [Entries -> Retries \cup {None}]
    BY <1>10, ReportQueue
  <2>4. TypeOK'
    BY <2>2, <2>3, <2>s, <2>q
  <2>5. Linked'
    BY <1>10, <2>1, <2>2, ReportQueue, SMTT(30)
  <2> QED
    BY <2>4, <2>5
<1> QED
  BY <1>1, <1>2, <1>3, <1>4, <1>5, <1>6, <1>7, <1>8, <1>9, <1>10 DEF Work, Charge

LEMMA StepIType == IType /\ [Next]_vars => IType'
<1> SUFFICES ASSUME IType, [Next]_vars PROVE IType'
  OBVIOUS
<1> USE Nones, PeriodsAreDays DEF IType, TypeOK, rowVars, jobVars, callVars, payVars, history
<1>1. CASE NextDay
  BY <1>1 DEF NextDay, Days, Linked, Created
<1>2. CASE Crash
  <2>1. /\ pc' = [w \in Workers |-> "idle"] /\ batch' = [w \in Batchers |-> {}]
        /\ cur' = [w \in Workers |-> None] /\ entry' = [w \in Workers |-> None]
        /\ day' = [w \in Workers |-> 0] /\ period' = [w \in Workers |-> NoCycle]
        /\ reply' = [w \in Workers |-> "error"]
        /\ UNCHANGED <<today, subs, queue, captures, told, overnight, raced>>
    BY <1>2 DEF Crash
  <2>2. faulty' \subseteq Subscriptions
    BY <1>2 DEF Crash, Linked, Busy, AtService, Called, AtPayment
  <2>3. stray' \subseteq Subscriptions
    <3>1. \A w \in Workers : pc[w] = "report" => LeftStray(w, queue) \subseteq Subscriptions
      BY DEF LeftStray, Linked, Busy
    <3> QED
      BY <1>2, <3>1 DEF Crash
  <2>4. TypeOK'
    BY <2>1, <2>2, <2>3 DEF Days
  <2>5. Linked'
    BY <2>1 DEF Linked, Created, Busy, AtService, Called
  <2> QED
    BY <2>4, <2>5
<1>3. CASE UNCHANGED vars
  BY <1>3 DEF vars, Linked, Created
<1> QED
  BY <1>1, <1>2, <1>3, CustomerIType, BeginIType, WorkIType DEF Next

LEMMA TypesAndLinks == Spec => []IType
BY InitIType, StepIType, PTL DEF Spec

(* Every variable of the billing keeps its type.                            *)
THEOREM TypeCorrect == Spec => []TypeOK
BY TypesAndLinks, PTL DEF IType

-----------------------------------------------------------------------------
(* A payment either has bought its period, or whoever made the call is still   *)
(* on the way to write that down.                                           *)
Bought(s, d) == \E k \in Cycles : d + Length[k] <= subs[s].next

Paying(w, s, d) ==
    cur[w] = s /\ day[w] = d /\ pc[w] \in {"period", "advance"}

PaidInv ==
    /\ \A w \in Workers : pc[w] \in Called => day[w] <= today
    /\ \A s \in Subscriptions, d \in Days : Captured(s, d) => Created(s) /\ d <= today
    /\ \A s \in Subscriptions \ faulty, d \in Days :
         Captured(s, d) => Bought(s, d) \/ \E w \in Workers : Paying(w, s, d)

(* A step that captures nothing keeps this if it takes no period back and     *)
(* nobody turns away from a payment without having advanced the period.     *)
LEMMA PaymentsKept ==
    ASSUME IType, PaidInv, UNCHANGED captures, faulty \subseteq faulty',
           today' \in Days, today <= today',
           \A w \in Workers : pc'[w] \in Called => day'[w] <= today',
           \A s \in Subscriptions : Created(s) => Created(s)',
           \A s \in Subscriptions \ faulty', d \in Days :
               Captured(s, d) /\ Bought(s, d) => Bought(s, d)',
           \A s \in Subscriptions \ faulty', d \in Days, w \in Workers :
               Captured(s, d) /\ Paying(w, s, d) => Bought(s, d)' \/ Paying(w, s, d)'
    PROVE  PaidInv'
<1>1. \A s \in Subscriptions, d \in Days : Captured(s, d)' = Captured(s, d)
  BY DEF Captured
<1>2. \A s \in Subscriptions, d \in Days : Captured(s, d) => d <= today'
  BY PeriodsAreDays DEF PaidInv, IType, TypeOK, Days
<1> QED
  BY <1>1, <1>2 DEF PaidInv

LEMMA InitPaid == Init => PaidInv
BY DEF Init, PaidInv, Called, Captured, Keys, Days

(* An assignment to next_billing_date is a whole period ahead of today.      *)
LEMMA AheadIsBought ==
    ASSUME IType, PaidInv, NEW s \in Subscriptions, NEW c \in Cycles, NEW d \in Days,
           d <= today, subs'[s].next = today + Length[c]
    PROVE  Bought(s, d)'
BY PeriodsAreDays DEF Bought, IType, TypeOK, Days

(* A customer leaves the next billing date alone or moves it a period ahead.  *)
LEMMA CustomerRows ==
    ASSUME IType, Customer, NEW t \in Subscriptions, Created(t)
    PROVE  /\ Created(t)'
           /\ \/ subs'[t].next = subs[t].next
              \/ \E c \in Cycles : subs'[t].next = today + Length[c]
<1> USE Nones, PeriodsAreDays DEF IType, TypeOK, Created
<1>1. subs[t] \in Subs
  OBVIOUS
<1>2. ASSUME NEW row \in Subs, NEW s \in Subscriptions, subs' = [subs EXCEPT ![s] = row],
             s = t => row.next = subs[t].next \/ \E c \in Cycles : row.next = today + Length[c]
      PROVE  /\ Created(t)'
             /\ \/ subs'[t].next = subs[t].next
                \/ \E c \in Cycles : subs'[t].next = today + Length[c]
  BY <1>1, <1>2
<1>3. ASSUME NEW s \in Subscriptions, NEW c \in Cycles, NEW trial \in BOOLEAN,
             CreateSubscription(s, c, trial)
      PROVE  s # t /\ subs'[t] = subs[t]
  BY <1>3 DEF CreateSubscription
<1>4. ASSUME NEW s \in Subscriptions, NEW c \in Cycles,
             UpgradeSubscription(s, c) \/ DowngradeSubscription(s, c)
      PROVE  /\ Created(t)'
             /\ \/ subs'[t].next = subs[t].next
                \/ \E k \in Cycles : subs'[t].next = today + Length[k]
  <2>1. subs[s] \in Subs
    BY <1>4 DEF UpgradeSubscription, DowngradeSubscription
  <2>2. CASE UpgradeSubscription(s, c)
    <3> DEFINE row == [subs[s] EXCEPT !.cycle = c, !.next = today + Length[c]]
    <3>1. today + Length[c] \in Nat
      BY DEF Days
    <3>2. row \in Subs /\ row.next = today + Length[c]
      BY <2>1, <3>1 DEF Subs
    <3>3. subs' = [subs EXCEPT ![s] = row]
      BY <2>2 DEF UpgradeSubscription
    <3> HIDE DEF row
    <3> QED
      BY <1>2, <3>2, <3>3
  <2>3. CASE DowngradeSubscription(s, c)
    <3> DEFINE row == [subs[s] EXCEPT !.cycle = c]
    <3>1. row \in Subs /\ row.next = subs[s].next
      BY <2>1 DEF Subs
    <3>2. subs' = [subs EXCEPT ![s] = row]
      BY <2>3 DEF DowngradeSubscription
    <3> HIDE DEF row
    <3> QED
      BY <1>2, <3>1, <3>2
  <2> QED
    BY <1>4, <2>2, <2>3
<1>5. ASSUME NEW s \in Subscriptions, CancelSubscription(s)
      PROVE  Created(t)' /\ subs'[t].next = subs[t].next
  <2>1. subs[s] \in Subs
    BY <1>5 DEF CancelSubscription
  <2> DEFINE row == [subs[s] EXCEPT !.cancel = TRUE]
  <2>2. row \in Subs /\ row.next = subs[s].next
    BY <2>1 DEF Subs
  <2>3. subs' = [subs EXCEPT ![s] = row]
    BY <1>5 DEF CancelSubscription
  <2> HIDE DEF row
  <2> QED
    BY <1>1, <2>2, <2>3
<1> QED
  BY <1>3, <1>4, <1>5 DEF Customer

LEMMA StepPaid == IType /\ PaidInv /\ [Next]_vars => PaidInv'
<1> SUFFICES ASSUME IType, PaidInv, [Next]_vars PROVE PaidInv'
  OBVIOUS
<1>t. today \in Days /\ today <= today /\ LastDay \in Nat
  BY PeriodsAreDays DEF IType, TypeOK, Days
<1> USE DEF rowVars, jobVars, callVars, payVars, history, Moved, Called
<1>1. CASE Customer
  <2>1. UNCHANGED <<today, captures, faulty, cur, day, pc>>
    BY <1>1 DEF Customer, CreateSubscription, UpgradeSubscription, DowngradeSubscription,
         CancelSubscription, CustomerOnly
  <2>2. ASSUME NEW s \in Subscriptions, Created(s) PROVE Created(s)'
    BY <1>1, <2>2, CustomerRows
  <2>3. ASSUME NEW s \in Subscriptions, NEW d \in Days, Captured(s, d), Bought(s, d)
        PROVE  Bought(s, d)'
    <3>1. Created(s) /\ d <= today /\ subs[s] \in Subs
      BY <2>3, Nones DEF PaidInv, IType, TypeOK, Created
    <3>2. subs'[s].next = subs[s].next \/ \E c \in Cycles : subs'[s].next = today + Length[c]
      BY <1>1, <3>1, CustomerRows
    <3> QED
      BY <2>3, <3>1, <3>2, AheadIsBought DEF Bought
  <2> QED
    BY <1>t, <2>1, <2>2, <2>3, PaymentsKept DEF Paying, PaidInv
<1>2. CASE NextDay
  BY <1>2, <1>t, PaymentsKept DEF NextDay, Days, PaidInv, Paying, Bought, Created, IType, TypeOK
<1>3. CASE Crash
  BY <1>3, <1>t, PaymentsKept
     DEF Crash, AtPayment, PaidInv, Paying, Bought, Created
<1>4. ASSUME NEW w \in Workers, Begin(w) PROVE PaidInv'
  BY <1>4, <1>t, PaymentsKept
     DEF Begin, SelectDue, TakeRetry, PaidInv, Paying, Bought, Created, IType, TypeOK
<1>5. ASSUME NEW w \in Workers, NEW s \in Subscriptions, TakeNext(w, s) \/ SkipJob(w, s)
      PROVE  PaidInv'
  BY <1>5, <1>t, PaymentsKept
     DEF TakeNext, SkipJob, PaidInv, Paying, Bought, Created, IType, TypeOK
<1>6. ASSUME NEW w \in Workers, Mark(w) \/ Report(w) PROVE PaidInv'
  BY <1>6, <1>t, PaymentsKept
     DEF Mark, Report, Finish, Forget, PaidInv, Paying, Bought, Created, IType, TypeOK
<1>7. ASSUME NEW w \in Workers, ReadSubscription(w) PROVE PaidInv'
  BY <1>7, <1>t, PaymentsKept
     DEF ReadSubscription, PaidInv, Paying, Bought, Created, IType, TypeOK
<1>8. ASSUME NEW w \in Workers, Capture(w) \/ Decline(w) PROVE PaidInv'
  <2>1. /\ cur[w] \in Subscriptions /\ Created(cur[w]) /\ day[w] \in Days /\ day[w] <= today
        /\ pc[w] = "charge"
    BY <1>8 DEF Capture, Decline, Charging, IType, TypeOK, Linked, Busy, AtService, PaidInv
  <2>2. \/ UNCHANGED captures /\ faulty' = faulty
        \/ /\ \/ captures' = [captures EXCEPT ![<<cur[w], day[w]>>] = IF @ = 0 THEN 1 ELSE 2]
              \/ captures' = [captures EXCEPT ![<<cur[w], day[w]>>] = 2]
           /\ pc'[w] = "period" \/ faulty' = faulty \cup {cur[w]}
           /\ faulty \subseteq faulty'
    BY <1>8, <2>1 DEF Capture, Decline, Taken, TakenTwice, Key, Fault, Answer, IType, TypeOK
  <2>3. /\ UNCHANGED <<today, subs, cur, day>>
        /\ \A v \in Workers : pc'[v] = pc[v] \/ (v = w /\ pc'[v] \in {"period", "past_due"})
    BY <1>8 DEF Capture, Decline, Answer, IType, TypeOK
  <2>4. ASSUME NEW s \in Subscriptions \ faulty', NEW d \in Days
        PROVE  Captured(s, d)' => Captured(s, d) \/ (s = cur[w] /\ d = day[w] /\ pc'[w] = "period")
    BY <2>1, <2>2, <2>4 DEF Captured, Keys, IType, TypeOK
  <2>5. ASSUME NEW s \in Subscriptions, NEW d \in Days
        PROVE  Captured(s, d)' => Captured(s, d) \/ (s = cur[w] /\ d = day[w])
    BY <2>1, <2>2, <2>5 DEF Captured, Keys, IType, TypeOK
  <2>6. ASSUME NEW s \in Subscriptions, NEW d \in Days, NEW v \in Workers, Paying(v, s, d)
        PROVE  Paying(v, s, d)'
    BY <2>1, <2>3, <2>6 DEF Paying
  <2>7. \A v \in Workers : pc'[v] \in Called => day'[v] <= today'
    BY <2>1, <2>3 DEF PaidInv
  <2>8. \A s \in Subscriptions, d \in Days : Captured(s, d)' => Created(s)' /\ d <= today'
    BY <2>1, <2>3, <2>5 DEF PaidInv, Created
  <2>9. ASSUME NEW s \in Subscriptions \ faulty', NEW d \in Days, Captured(s, d)'
        PROVE  Bought(s, d)' \/ \E v \in Workers : Paying(v, s, d)'
    <3>1. CASE Captured(s, d)
      <4>1. s \notin faulty
        BY <2>2, <2>9
      <4>2. Bought(s, d) \/ \E v \in Workers : Paying(v, s, d)
        BY <2>9, <3>1, <4>1 DEF PaidInv
      <4>3. Bought(s, d) => Bought(s, d)'
        BY <2>3 DEF Bought
      <4> QED
        BY <2>6, <2>9, <4>2, <4>3
    <3>2. CASE s = cur[w] /\ d = day[w] /\ pc'[w] = "period"
      BY <2>3, <3>2 DEF Paying
    <3> QED
      BY <2>4, <2>9, <3>1, <3>2
  <2> QED
    BY <2>7, <2>8, <2>9 DEF PaidInv
<1>9. ASSUME NEW w \in Workers, Lookup(w) PROVE PaidInv'
  <2>1. /\ pc[w] = "called" /\ UNCHANGED <<captures, today, subs, cur, day, faulty>>
        /\ \A v \in Workers : pc'[v] = pc[v] \/ v = w
    BY <1>9 DEF Lookup, Answer, IType, TypeOK
  <2>2. ASSUME NEW s \in Subscriptions, NEW d \in Days, NEW v \in Workers, Paying(v, s, d)
        PROVE  Paying(v, s, d)'
    BY <2>1, <2>2 DEF Paying
  <2>3. \A v \in Workers : pc'[v] \in Called => day'[v] <= today'
    BY <2>1 DEF PaidInv
  <2> QED
    BY <1>t, <2>1, <2>2, <2>3, PaymentsKept DEF Bought, Created
<1>10. ASSUME NEW w \in Workers, FailCall(w) \/ Abandon(w) PROVE PaidInv'
  BY <1>10, <1>t, PaymentsKept
     DEF FailCall, Abandon, AtPayment, Fault, PaidInv, Paying, Bought, Created, IType, TypeOK
<1>11. ASSUME NEW w \in Workers, MarkPastDue(w) PROVE PaidInv'
  <2>1. cur[w] \in Subscriptions /\ subs[cur[w]] \in Subs
    BY <1>11, Nones DEF MarkPastDue, IType, TypeOK, Linked, Busy, AtService, Created
  <2>2. \A s \in Subscriptions : subs'[s].next = subs[s].next
    BY <1>11, <2>1 DEF MarkPastDue, IType, TypeOK, Subs
  <2>3. \A s \in Subscriptions : Created(s) => Created(s)'
    <3>1. [subs[cur[w]] EXCEPT !.status = "past_due"] \in Subs
      BY <2>1 DEF Subs, Statuses
    <3>2. \/ subs' = [subs EXCEPT ![cur[w]] = [subs[cur[w]] EXCEPT !.status = "past_due"]]
          \/ subs' = subs
      BY <1>11 DEF MarkPastDue
    <3> QED
      BY <2>1, <3>1, <3>2, Nones DEF Created, IType, TypeOK
  <2> QED
    BY <1>11, <1>t, <2>2, <2>3, PaymentsKept
       DEF MarkPastDue, PaidInv, Paying, Bought, IType, TypeOK
<1>12. ASSUME NEW w \in Workers, ReadPeriod(w) PROVE PaidInv'
  BY <1>12, <1>t, PaymentsKept
     DEF ReadPeriod, Fault, PaidInv, Paying, Bought, Created, IType, TypeOK
<1>13. ASSUME NEW w \in Workers, Advance(w) PROVE PaidInv'
  <2>1. cur[w] \in Subscriptions /\ subs[cur[w]] \in Subs /\ period[w] \in Cycles
        /\ pc[w] = "advance" /\ day[w] \in Days
    BY <1>13, Nones DEF Advance, IType, TypeOK, Linked, Busy, AtService, Created
  <2> DEFINE row == Advanced(subs[cur[w]], period[w])
  <2>2. row \in Subs /\ row.next = today + Length[period[w]]
    <3>1. today + Length[period[w]] \in Nat
      BY <2>1, PeriodsAreDays DEF IType, TypeOK, Days
    <3> QED
      BY <2>1, <3>1 DEF Advanced, Subs, Statuses
  <2>3. /\ UNCHANGED <<today, captures, cur, day>>
        /\ pc' = [pc EXCEPT ![w] = "report"]
    BY <1>13 DEF Advance
  <2>4. \/ subs' = [subs EXCEPT ![cur[w]] = row] /\ faulty' = faulty
        \/ subs' = subs /\ faulty' = faulty \cup {cur[w]}
    BY <1>13 DEF Advance, Fault
  <2> HIDE DEF row
  <2>5. ASSUME NEW s \in Subscriptions, Created(s) PROVE Created(s)'
    BY <2>1, <2>2, <2>4, <2>5, Nones DEF Created, IType, TypeOK
  <2>6. ASSUME NEW s \in Subscriptions \ faulty', NEW d \in Days, Captured(s, d)
        PROVE  /\ Bought(s, d) => Bought(s, d)'
               /\ cur[w] = s => Bought(s, d)'
    <3>1. d <= today
      BY <2>6 DEF PaidInv
    <3>2. CASE s = cur[w]
      <4>1. subs'[s].next = today + Length[period[w]]
        BY <2>1, <2>2, <2>4, <2>6, <3>2 DEF IType, TypeOK
      <4> QED
        BY <2>1, <3>1, <4>1, AheadIsBought
    <3>3. CASE s # cur[w]
      <4>1. subs'[s] = subs[s]
        BY <2>1, <2>4, <3>3 DEF IType, TypeOK
      <4> QED
        BY <3>3, <4>1 DEF Bought
    <3> QED
      BY <3>2, <3>3
  <2>7. ASSUME NEW s \in Subscriptions \ faulty', NEW d \in Days, NEW v \in Workers,
               Captured(s, d), Paying(v, s, d)
        PROVE  Bought(s, d)' \/ Paying(v, s, d)'
    BY <2>1, <2>3, <2>6, <2>7 DEF Paying, IType, TypeOK
  <2>8. \A v \in Workers : pc'[v] \in Called => day'[v] <= today'
    BY <2>3 DEF PaidInv, IType, TypeOK
  <2>9. faulty \subseteq faulty'
    BY <2>4
  <2> QED
    BY <1>t, <2>3, <2>5, <2>6, <2>7, <2>8, <2>9, PaymentsKept
<1>14. CASE UNCHANGED vars
  BY <1>14, <1>t, PaymentsKept DEF vars, PaidInv, Paying, Bought, Created
<1> QED
  BY <1>1, <1>2, <1>3, <1>4, <1>5, <1>6, <1>7, <1>8, <1>9, <1>10, <1>11, <1>12, <1>13, <1>14
     DEF Next, Work, Charge

(* Money taken buys a period, for any number of days, workers and faults: a   *)
(* subscription whose payments were heard of and written down, and at which *)
(* nobody is, is billed next a period after each of them at the earliest.    *)
THEOREM MoneyBuysPeriod == Spec => []PaidIsAdvanced
<1>1. IType /\ PaidInv => PaidIsAdvanced
  BY DEF PaidInv, PaidIsAdvanced, Bought, Paying, Held
<1> QED
  BY <1>1, TypesAndLinks, InitPaid, StepPaid, PTL DEF Spec

-----------------------------------------------------------------------------
(* Why a period is paid once, for a subscription of the kind OncePerPeriod is  *)
(* about: none of whose charges went unheard or unwritten, that nobody was at   *)
(* over midnight, with one call at a time past the lookup, past due when a       *)
(* retry waits after a failed call, and made past due by one at its only worker. *)
Refused(s)      == FALSE \in told[<<s, today>>]
PendingOf(e, s) == Pending(e) /\ queue[e].sub = s
Apart(c, d)     == \E k \in Cycles : c + Length[k] <= d

(* Nobody is told anything ahead of time, who is not at work is at nothing, a  *)
(* worker's retry is of the subscription it is at, and the unique index leaves *)
(* one pending retry.                                                       *)
BooksKept ==
    /\ \A s \in Subscriptions, d \in Days : told[<<s, d>>] # {} => Created(s) /\ d <= today
    /\ \A w \in Workers : pc[w] \notin Busy => cur[w] = None /\ entry[w] = None
    /\ \A w \in Workers : entry[w] # None => queue[entry[w]].sub = cur[w]
    /\ \A d, e \in Entries, s \in Subscriptions :
         PendingOf(d, s) /\ PendingOf(e, s) => d = e

(* What a worker knows of s is of today: who goes on after a success has the   *)
(* money, and who was declined was refused, and s is past due before that is   *)
(* reported.                                                                *)
UpToDate(s) ==
    \A w \in Workers : cur[w] = s =>
        /\ pc[w] \in Called => day[w] = today
        /\ pc[w] \in {"period", "advance"} => reply[w] = "success" /\ Captured(s, today)
        /\ pc[w] = "past_due" => reply[w] = "error" \/ (reply[w] = "declined" /\ Refused(s))
        /\ pc[w] = "report" =>
             /\ reply[w] = "success" => Captured(s, today)
             /\ reply[w] = "declined" => Refused(s) /\ subs[s].status # "active"

(* Today's key of s has one answer at most, which says whether money was taken, *)
(* and who charges under it is the first and alone.                          *)
OneVerdict(s) ==
    /\ captures[<<s, today>>] = IF TRUE \in told[<<s, today>>] THEN 1 ELSE 0
    /\ Refused(s) => ~Captured(s, today)
    /\ \A w \in Workers : cur[w] = s /\ Charging(w) =>
         /\ told[<<s, today>>] = {}
         /\ \A v \in Workers : cur[v] = s /\ Charging(v) => v = w

(* Who has paid today is active, or somebody is about to write it.           *)
PaidIsActive(s) ==
    Captured(s, today) =>
        \/ subs[s].status = "active"
        \/ \E w \in Workers : cur[w] = s /\ pc[w] \in {"period", "advance"}

(* Somebody is at s, or will be, because it was due.                         *)
FromDue(s) ==
    \/ \E w \in Workers : cur[w] = s /\ entry[w] = None
    \/ \E w \in Batchers : s \in batch[w]

Retrying(s) == \E w \in Workers : cur[w] = s /\ entry[w] # None
Waiting(s)  == \E e \in Entries : PendingOf(e, s)

(* The one worker at s has made it past due, for its call has failed.        *)
LeftPastDue(w, s) ==
    /\ cur[w] = s /\ pc[w] = "report" /\ reply[w] = "error" /\ subs[s].status = "past_due"
    /\ \A v \in Workers \ {w} : cur[v] # s
    /\ \A v \in Batchers : s \notin batch[v]

(* While s was not refused today, it is either billed, and then active until a  *)
(* call fails, or retried, and then all are at the one retry there is.        *)
BilledOrRetried(s) ==
    ~Refused(s) =>
        /\ FromDue(s) => ~Retrying(s) /\ ~Waiting(s)
        /\ FromDue(s) => subs[s].status = "active" \/ \E w \in Workers : LeftPastDue(w, s)
        /\ \A w, v \in Workers : cur[w] = s /\ cur[v] = s => entry[w] = entry[v]
        /\ \A e \in Entries, w \in Workers : PendingOf(e, s) /\ cur[w] = s => entry[w] = e

(* A retry keeps s out of the due query: it is not active, or paid today.     *)
NotDue(s) == subs[s].status # "active" \/ (Captured(s, today) /\ subs[s].next > today)

RetryGuards(s) ==
    /\ Waiting(s) => NotDue(s)
    /\ Retrying(s) /\ ~Refused(s) => NotDue(s)

(* A retry that still waits on the day s has paid is about to be resolved.    *)
PaidIsResolved(s) ==
    \A e \in Entries : PendingOf(e, s) /\ Captured(s, today) =>
        \E w \in Workers :
            /\ cur[w] = s /\ entry[w] = e
            /\ pc[w] \in {"period", "advance", "report"} /\ reply[w] = "success"

(* While a charge of s may come, its payments are of today or a period back.  *)
PastIsApart(s) ==
    Held(s) \/ Waiting(s) => \A d \in Days : Captured(s, d) => d = today \/ Apart(d, today)

Orderly(s) ==
    /\ UpToDate(s) /\ OneVerdict(s) /\ PaidIsActive(s) /\ BilledOrRetried(s)
    /\ RetryGuards(s) /\ PaidIsResolved(s) /\ PastIsApart(s)

OnceInv ==
    /\ BooksKept
    /\ \A s \in Whole : Orderly(s)
    /\ OncePerPeriod

LEMMA InitOnce == Init => OnceInv
<1> SUFFICES ASSUME Init PROVE OnceInv
  OBVIOUS
<1>1. /\ \A s \in Subscriptions, d \in Days : captures[<<s, d>>] = 0 /\ told[<<s, d>>] = {}
      /\ today \in Days
  BY PeriodsAreDays DEF Init, Keys, Days
<1>2. /\ \A e \in Entries, s \in Subscriptions : ~PendingOf(e, s)
      /\ \A s \in Subscriptions : ~Held(s) /\ ~FromDue(s) /\ ~Retrying(s) /\ ~Waiting(s)
      /\ \A w \in Workers : pc[w] = "idle" /\ cur[w] = None /\ entry[w] = None
  BY Nones DEF Init, PendingOf, Pending, Held, FromDue, Retrying, Waiting
<1>3. BooksKept
  BY <1>1, <1>2 DEF BooksKept
<1>4. ASSUME NEW s \in Subscriptions PROVE Orderly(s)
  <2>1. \A w \in Workers : cur[w] # s
    BY <1>2, Nones
  <2>c. captures[<<s, today>>] = 0
    BY <1>1
  <2>r. told[<<s, today>>] = {}
    BY <1>1
  <2>2. ~Captured(s, today) /\ ~Refused(s)
    BY <2>c, <2>r DEF Captured, Refused
  <2>3. OneVerdict(s)
    BY <1>1, <2>1, <2>2 DEF OneVerdict
  <2> QED
    BY <1>1, <1>2, <2>1, <2>2, <2>3
       DEF Orderly, UpToDate, PaidIsActive, BilledOrRetried, RetryGuards, PaidIsResolved,
           PastIsApart
<1>5. OncePerPeriod
  <2>1. ASSUME NEW s \in Subscriptions, NEW d \in Days
        PROVE  captures[<<s, d>>] <= 1 /\ ~Captured(s, d)
    <3>1. captures[<<s, d>>] = 0
      BY <1>1
    <3> QED
      BY <3>1 DEF Captured
  <2> QED
    BY <2>1 DEF OncePerPeriod, Whole
<1> QED
  BY <1>3, <1>4, <1>5 DEF OnceInv, Whole

(* Nothing makes a subscription whole again.                                *)
LEMMA WholeShrinks ==
    ASSUME [Next]_vars
    PROVE  /\ faulty \subseteq faulty' /\ overnight \subseteq overnight'
           /\ raced \subseteq raced' /\ stray \subseteq stray'
<1> USE DEF history
<1>1. CASE Customer \/ NextDay \/ Crash \/ UNCHANGED vars
  BY <1>1 DEF Customer, CreateSubscription, UpgradeSubscription, DowngradeSubscription,
       CancelSubscription, CustomerOnly, NextDay, Crash, vars
<1>2. ASSUME NEW w \in Workers, Begin(w) PROVE UNCHANGED history
  BY <1>2 DEF Begin, SelectDue, TakeRetry
<1>3. ASSUME NEW w \in Workers, Work(w)
      PROVE  /\ faulty \subseteq faulty' /\ overnight \subseteq overnight'
             /\ raced \subseteq raced' /\ stray \subseteq stray'
  BY <1>3 DEF Work, TakeNext, SkipJob, Mark, Charge, ReadSubscription, Lookup, Capture, Decline,
       FailCall, Abandon, MarkPastDue, ReadPeriod, Advance, Report, Fault
<1> QED
  BY <1>1, <1>2, <1>3 DEF Next

(* A call leaves the queue and where everybody is alone.                     *)
LEMMA ChargeFrame ==
    ASSUME IType, NEW w \in Workers, Charge(w)
    PROVE  /\ UNCHANGED <<today, queue, batch, cur, entry>>
           /\ pc[w] \in AtService /\ pc'[w] \in AtService \cup {"report"}
           /\ \A v \in Workers \ {w} : UNCHANGED <<pc[v], day[v], reply[v]>>
<1> USE DEF IType, TypeOK, rowVars, jobVars, callVars, payVars, Moved, AtService, Called
<1>1. CASE ReadSubscription(w) \/ MarkPastDue(w)
  BY <1>1 DEF ReadSubscription, MarkPastDue
<1>2. CASE ReadPeriod(w) \/ Advance(w)
  BY <1>2 DEF ReadPeriod, Advance
<1>3. CASE Lookup(w)
  BY <1>3 DEF Lookup, Answer
<1>4. CASE Capture(w) \/ Decline(w)
  BY <1>4 DEF Capture, Decline, Charging, Answer
<1>5. CASE FailCall(w) \/ Abandon(w)
  BY <1>5 DEF FailCall, Abandon
<1> QED
  BY <1>1, <1>2, <1>3, <1>4, <1>5 DEF Charge

(* Only the orchestrator's books change in a capture or a decline.           *)
LEMMA BooksFrame ==
    ASSUME IType, NEW w \in Workers, Charge(w), ~(Capture(w) \/ Decline(w))
    PROVE  UNCHANGED <<captures, told>>
BY DEF Charge, ReadSubscription, MarkPastDue, ReadPeriod, Advance, Lookup, FailCall, Abandon,
     payVars

(* A step that brings nobody to s or away from it, and adds no retry to it,    *)
(* leaves s in order.                                                       *)
LEMMA OrderKept ==
    ASSUME NEW s \in Subscriptions, Orderly(s), UNCHANGED today, today \in Days,
           \A d \in Days : UNCHANGED <<captures[<<s, d>>], told[<<s, d>>]>>,
           UNCHANGED subs[s].status,
           subs[s].next > today => subs'[s].next > today,
           \A e \in Entries : PendingOf(e, s)' => PendingOf(e, s),
           \A w \in Workers : cur[w] = s \/ cur'[w] = s =>
               UNCHANGED <<cur[w], pc[w], day[w], reply[w], entry[w]>>,
           \A w \in Batchers : s \in batch'[w] => s \in batch[w]
    PROVE  Orderly(s)'
<1>o. /\ UpToDate(s) /\ OneVerdict(s) /\ PaidIsActive(s) /\ BilledOrRetried(s)
      /\ RetryGuards(s) /\ PaidIsResolved(s) /\ PastIsApart(s)
  BY DEF Orderly
<1>b. UNCHANGED <<captures[<<s, today>>], told[<<s, today>>]>>
  OBVIOUS
<1>c. /\ Refused(s)' <=> Refused(s)
      /\ Captured(s, today)' <=> Captured(s, today)
      /\ \A d \in Days : Captured(s, d)' <=> Captured(s, d)
  BY <1>b DEF Captured, Refused
<1>1. /\ Held(s)' => Held(s)
      /\ FromDue(s)' => FromDue(s)
      /\ Retrying(s)' => Retrying(s)
      /\ Waiting(s)' => Waiting(s)
  BY DEF Held, FromDue, Retrying, Waiting
<1>2. UpToDate(s)'
  BY <1>o, <1>c DEF UpToDate
<1>3. OneVerdict(s)'
  <2>1. \A w \in Workers : cur'[w] = s /\ Charging(w)' => cur[w] = s /\ Charging(w)
    BY DEF Charging
  <2> QED
    BY <1>o, <1>b, <1>c, <2>1 DEF OneVerdict
<1>4. PaidIsActive(s)'
  BY <1>o, <1>c DEF PaidIsActive
<1>5. BilledOrRetried(s)'
  <2>1. ASSUME NEW w \in Workers, LeftPastDue(w, s) PROVE LeftPastDue(w, s)'
    BY <2>1 DEF LeftPastDue
  <2> QED
    BY <1>o, <1>c, <1>1, <2>1 DEF BilledOrRetried
<1>6. RetryGuards(s)'
  BY <1>o, <1>c, <1>1 DEF RetryGuards, NotDue
<1>7. PaidIsResolved(s)'
  BY <1>o, <1>c DEF PaidIsResolved
<1>8. PastIsApart(s)'
  BY <1>o, <1>c, <1>1 DEF PastIsApart, Apart
<1> QED
  BY <1>2, <1>3, <1>4, <1>5, <1>6, <1>7, <1>8 DEF Orderly

(* What is left to show of a worker's step at its subscription that adds no    *)
(* retry: what it knows is right, and no payment of today is undone.         *)
LEMMA OrderAtWork ==
    ASSUME NEW w \in Workers, NEW s \in Subscriptions, cur[w] = s, Orderly(s), today \in Days,
           UNCHANGED <<today, batch, cur, entry>>, pc[w] # "report",
           \A v \in Workers \ {w} : UNCHANGED <<pc[v], day[v], reply[v]>>,
           \A e \in Entries : PendingOf(e, s)' => PendingOf(e, s),
           UpToDate(s)', OneVerdict(s)', PaidIsActive(s)',
           Refused(s) => Refused(s)',
           subs[s].status = "active" =>
               subs'[s].status = "active" \/ Refused(s)' \/ LeftPastDue(w, s)',
           NotDue(s) => NotDue(s)',
           \A d \in Days : Captured(s, d)' => Captured(s, d) \/ d = today,
           Captured(s, today)' => Captured(s, today) \/ ~Refused(s),
           Captured(s, today)' => Captured(s, today) \/ (pc'[w] = "period" /\ reply'[w] = "success"),
           pc[w] \in {"period", "advance", "report"} /\ reply[w] = "success" =>
               pc'[w] \in {"period", "advance", "report"} /\ reply'[w] = "success"
    PROVE  Orderly(s)'
<1>1. /\ Held(s)' <=> Held(s)
      /\ FromDue(s)' <=> FromDue(s)
      /\ Retrying(s)' <=> Retrying(s)
      /\ Waiting(s)' => Waiting(s)
  BY DEF Held, FromDue, Retrying, Waiting
<1>2. BilledOrRetried(s) /\ RetryGuards(s) /\ PaidIsResolved(s) /\ PastIsApart(s)
  BY DEF Orderly
<1>3. BilledOrRetried(s)'
  <2>1. ~ \E v \in Workers : LeftPastDue(v, s)
    BY DEF LeftPastDue
  <2> QED
    BY <1>1, <1>2, <2>1 DEF BilledOrRetried
<1>4. RetryGuards(s)'
  BY <1>1, <1>2 DEF RetryGuards
<1>5. PaidIsResolved(s)'
  <2> SUFFICES ASSUME NEW e \in Entries, PendingOf(e, s)', Captured(s, today)'
               PROVE  \E v \in Workers :
                        /\ cur'[v] = s /\ entry'[v] = e
                        /\ pc'[v] \in {"period", "advance", "report"} /\ reply'[v] = "success"
    BY DEF PaidIsResolved
  <2>1. CASE Captured(s, today)
    <3>1. PICK v \in Workers :
            /\ cur[v] = s /\ entry[v] = e
            /\ pc[v] \in {"period", "advance", "report"} /\ reply[v] = "success"
      BY <1>2, <2>1 DEF PaidIsResolved
    <3> QED
      BY <3>1
  <2>2. CASE ~Captured(s, today)
    <3>1. pc'[w] = "period" /\ reply'[w] = "success" /\ ~Refused(s)
      BY <2>2
    <3>2. entry[w] = e
      BY <1>2, <3>1 DEF BilledOrRetried
    <3> QED
      BY <3>1, <3>2
  <2> QED
    BY <2>1, <2>2
<1>6. PastIsApart(s)'
  <2>1. Held(s)
    BY DEF Held
  <2> QED
    BY <1>2, <2>1 DEF PastIsApart, Apart
<1> QED
  BY <1>3, <1>4, <1>5, <1>6 DEF Orderly

(* A report rewrites one row of the queue at most, and makes it pending only   *)
(* for a charge that did not succeed and if no other retry of it is.        *)
OnlyRow(w, e) ==
    /\ \A d \in Entries \ {e} : queue'[d] = queue[d]
    /\ \A v \in Workers \ {w} :
         entry[v] = e => queue'[e].sub = queue[e].sub
    /\ entry[w] # None => e = entry[w]
    /\ \A s \in Subscriptions : PendingOf(e, s)' =>
         /\ s = cur[w] /\ reply[w] # "success"
         /\ \A d \in Entries \ {e} : ~PendingOf(d, s)

LEMMA ReportPending ==
    ASSUME NEW w \in Workers, IType, BooksKept, Report(w)
    PROVE  UNCHANGED queue \/ \E e \in Entries : OnlyRow(w, e)
<1> USE Nones DEF IType, TypeOK
<1>1. cur[w] \in Subscriptions
  BY DEF Report, Linked, Busy
<1>2. CASE entry[w] = None /\ reply[w] \in {"declined", "error"} /\ Schedule(cur[w])
  <2>1. CASE \E e \in Entries :
               /\ Free(e) /\ ~OtherPending(cur[w], None)
               /\ queue' = [queue EXCEPT ![e] = [sub |-> cur[w], attempt |-> 1, status |-> "pending"]]
    <3>1. PICK e \in Entries :
               /\ Free(e) /\ ~OtherPending(cur[w], None)
               /\ queue' = [queue EXCEPT ![e] = [sub |-> cur[w], attempt |-> 1, status |-> "pending"]]
      BY <2>1
    <3>2. \A d \in Entries : ~PendingOf(d, cur[w])
      BY <3>1 DEF OtherPending, PendingOf
    <3>3. queue'[e].sub = cur[w] /\ \A d \in Entries \ {e} : queue'[d] = queue[d]
      BY <3>1
    <3>4. \A v \in Workers : entry[v] # e
      BY <3>1 DEF Free
    <3> QED
      BY <1>2, <3>2, <3>3, <3>4 DEF PendingOf, OnlyRow
  <2> QED
    BY <1>2, <2>1 DEF Schedule
<1>3. CASE entry[w] # None /\ Resolve(entry[w], reply[w])
  <2>e. PICK e : e = entry[w]
    OBVIOUS
  <2>1. e \in Entries /\ queue[e] \in Retries /\ queue[e].sub = cur[w]
    BY <1>3, <2>e DEF Linked, BooksKept
  <2>2. ASSUME NEW row \in Retries, row.sub = cur[w], queue' = [queue EXCEPT ![e] = row],
               row.status = "pending" => reply[w] # "success" /\ ~OtherPending(cur[w], e)
        PROVE  OnlyRow(w, e)
    <3>1. queue'[e] = row /\ \A d \in Entries \ {e} : queue'[d] = queue[d]
      BY <2>1, <2>2
    <3>2. ASSUME NEW s \in Subscriptions, PendingOf(e, s)'
          PROVE  /\ s = cur[w] /\ reply[w] # "success"
                 /\ \A d \in Entries \ {e} : ~PendingOf(d, s)
      BY <2>2, <3>1, <3>2 DEF PendingOf, Pending, OtherPending
    <3> QED
      BY <2>1, <2>2, <2>e, <3>1, <3>2 DEF OnlyRow
  <2>3. Resolved(queue[e]) \in Retries /\ Resolved(queue[e]).sub = cur[w]
        /\ Retried(queue[e]) \in Retries /\ Retried(queue[e]).sub = cur[w]
    BY <2>1, RetriesKept
  <2>4. Resolved(queue[e]).status # "pending"
    BY <2>1 DEF Resolved, Retries
  <2>5. CASE queue' = [queue EXCEPT ![e] = Resolved(queue[e])]
    <3> DEFINE row == Resolved(queue[e])
    <3>1. row \in Retries /\ row.sub = cur[w] /\ row.status # "pending"
      BY <2>3, <2>4
    <3>2. queue' = [queue EXCEPT ![e] = row]
      BY <2>5
    <3>3. row.status = "pending" => reply[w] # "success" /\ ~OtherPending(cur[w], e)
      BY <3>1
    <3> HIDE DEF row
    <3> QED
      BY <2>2, <3>1, <3>2, <3>3, ZenonT(30)
  <2>6. CASE /\ reply[w] # "success"
             /\ ~(Retried(queue[e]).status = "pending" /\ OtherPending(queue[e].sub, e))
             /\ queue' = [queue EXCEPT ![e] = Retried(queue[e])]
    BY <2>1, <2>2, <2>3, <2>6
  <2> QED
    BY <1>3, <2>e, <2>5, <2>6 DEF Resolve
<1> QED
  BY <1>2, <1>3 DEF Report, Written

(* A retry that waits after a failed call, or after a report that was not      *)
(* written, makes a subscription stray unless it is past due.               *)
LEMMA ReportLeaves ==
    ASSUME NEW w \in Workers, Report(w), NEW s \in Subscriptions, s = cur[w], s \notin stray',
           NEW e \in Entries, PendingOf(e, s)', subs[s].status # "past_due"
    PROVE  Written(w) /\ reply[w] # "error"
<1>1. Waits(queue', s)
  BY DEF PendingOf, Pending, Waits
<1>2. s \in LeftStray(w, queue')
  BY <1>1 DEF LeftStray
<1>3. queue' = queue => s \in LeftStray(w, queue)
  BY <1>2
<1>4. CASE Written(w) /\ reply[w] = "error" /\ stray' = stray \cup LeftStray(w, queue')
  BY <1>2, <1>4
<1>5. CASE UNCHANGED queue /\ stray' = stray \cup LeftStray(w, queue)
  BY <1>3, <1>5
<1> QED
  BY <1>4, <1>5 DEF Report

LEMMA BooksStep == IType /\ PaidInv /\ BooksKept /\ [Next]_vars => BooksKept'
<1> SUFFICES ASSUME IType, PaidInv, BooksKept, [Next]_vars PROVE BooksKept'
  OBVIOUS
<1> USE Nones DEF IType, TypeOK, rowVars, jobVars, callVars, payVars, history, Moved
<1> DEFINE Told   == \A s \in Subscriptions, d \in Days : told[<<s, d>>] # {} => Created(s) /\ d <= today
           AtWork == \A w \in Workers : pc[w] \notin Busy => cur[w] = None /\ entry[w] = None
           Own    == \A w \in Workers : entry[w] # None => queue[entry[w]].sub = cur[w]
           Unique == \A d, e \in Entries, s \in Subscriptions :
                        PendingOf(d, s) /\ PendingOf(e, s) => d = e
<1>0. SUFFICES Told' /\ AtWork' /\ Own' /\ Unique'
  BY DEF BooksKept
<1>b. Told /\ AtWork /\ Own /\ Unique
  BY DEF BooksKept
<1> HIDE DEF Told, AtWork, Own, Unique
<1>t. \A d \in Days : d <= today => d <= today + 1
  BY PeriodsAreDays DEF Days
<1>1. ASSUME UNCHANGED told, today' = today \/ today' = today + 1,
             \A s \in Subscriptions : Created(s) => Created(s)'
      PROVE  Told'
  BY <1>b, <1>t, <1>1 DEF Told, Days
<1>2. ASSUME UNCHANGED queue PROVE Unique'
  BY <1>b, <1>2 DEF Unique, PendingOf, Pending
<1>3. CASE Customer
  <2>1. UNCHANGED <<today, told, pc, cur, entry, queue>>
    BY <1>3 DEF Customer, CreateSubscription, UpgradeSubscription, DowngradeSubscription,
         CancelSubscription, CustomerOnly
  <2>2. \A s \in Subscriptions : Created(s) => Created(s)'
    BY <1>3, CustomerRows
  <2> QED
    BY <1>b, <1>1, <1>2, <2>1, <2>2 DEF AtWork, Own
<1>4. CASE NextDay \/ UNCHANGED vars
  BY <1>b, <1>1, <1>2, <1>4 DEF NextDay, vars, AtWork, Own, Created
<1>5. CASE Crash
  BY <1>b, <1>1, <1>2, <1>5 DEF Crash, AtWork, Own, Created
<1>6. ASSUME NEW w \in Workers, Begin(w) PROVE BooksKept'
  <2>1. Told' /\ Unique'
    BY <1>1, <1>2, <1>6 DEF Begin, SelectDue, TakeRetry, Created
  <2>2. CASE SelectDue(w)
    BY <1>b, <1>6, <2>1, <2>2 DEF SelectDue, AtWork, Own, Busy, AtService, Called, BooksKept, Told, Unique
  <2>3. ASSUME NEW e \in Entries, TakeRetry(w, e) PROVE BooksKept'
    BY <1>b, <1>6, <2>1, <2>3 DEF TakeRetry, AtWork, Own, Busy, AtService, Called, BooksKept, Told, Unique
  <2> QED
    BY <1>6, <2>2, <2>3 DEF Begin
<1>7. ASSUME NEW w \in Workers, NEW s \in Subscriptions, TakeNext(w, s) \/ SkipJob(w, s)
      PROVE  BooksKept'
  <2>1. Told' /\ Unique' /\ Own'
    BY <1>b, <1>1, <1>2, <1>7 DEF TakeNext, SkipJob, Created, Own, AtWork, Busy, AtService, Called
  <2>2. AtWork'
    BY <1>b, <1>7 DEF TakeNext, SkipJob, AtWork, Busy, AtService, Called
  <2> QED
    BY <2>1, <2>2 DEF BooksKept, AtWork, Told, Unique, Own
<1>8. ASSUME NEW w \in Workers, Mark(w) PROVE BooksKept'
  <2>1. Told' /\ AtWork'
    BY <1>b, <1>1, <1>8 DEF Mark, Created, AtWork, Busy, AtService, Called
  <2>2. \A e \in Entries : queue'[e].sub = queue[e].sub /\ (Pending(e)' => Pending(e))
    <3>1. entry[w] \in Entries /\ queue[entry[w]] \in Retries
      BY <1>8 DEF Mark, Linked
    <3> DEFINE row == [queue[entry[w]] EXCEPT !.status = "processing"]
    <3>2. row.sub = queue[entry[w]].sub /\ row.status = "processing"
      BY <3>1 DEF Retries
    <3>3. queue' = [queue EXCEPT ![entry[w]] = row] \/ queue' = queue
      BY <1>8 DEF Mark
    <3> HIDE DEF row
    <3> QED
      BY <3>1, <3>2, <3>3 DEF Pending
  <2>3. Own' /\ Unique'
    BY <1>b, <1>8, <2>2 DEF Mark, Own, Unique, PendingOf
  <2> QED
    BY <2>1, <2>3 DEF BooksKept, AtWork, Told, Unique, Own
<1>9. ASSUME NEW w \in Workers, Charge(w) PROVE BooksKept'
  <2>1. UNCHANGED <<today, queue, cur, entry>>
    BY <1>9, ChargeFrame
  <2>2. /\ pc[w] \in Busy /\ pc'[w] \in Busy
        /\ \A v \in Workers \ {w} : pc'[v] = pc[v]
    BY <1>9, ChargeFrame DEF Busy
  <2>3. \A s \in Subscriptions : Created(s) => Created(s)'
    <3>1. cur[w] \in Subscriptions /\ subs[cur[w]] \in Subs /\ period[w] \in Cycles
      BY <2>2 DEF Linked, Created
    <3>2. CASE UNCHANGED subs
      BY <3>2 DEF Created
    <3>3. CASE ~UNCHANGED subs
      <4>1. \/ subs' = [subs EXCEPT ![cur[w]].status = "past_due"]
            \/ subs' = [subs EXCEPT ![cur[w]] = Advanced(@, period[w])]
        BY <1>9, <3>3 DEF Charge, ReadSubscription, Lookup, Capture, Decline, FailCall, Abandon,
             MarkPastDue, ReadPeriod, Advance
      <4>2. [subs[cur[w]] EXCEPT !.status = "past_due"] \in Subs
        BY <3>1 DEF Subs, Statuses
      <4>3. Advanced(subs[cur[w]], period[w]) \in Subs
        <5>1. today + Length[period[w]] \in Nat
          BY <3>1, PeriodsAreDays DEF Days
        <5> QED
          BY <3>1, <5>1 DEF Advanced, Subs, Statuses
      <4> QED
        BY <3>1, <4>1, <4>2, <4>3 DEF Created
    <3> QED
      BY <3>2, <3>3
  <2>4. Told'
    <3>1. CASE Capture(w) \/ Decline(w)
      <4>1. PICK v \in BOOLEAN : told' = [told EXCEPT ![<<cur[w], day[w]>>] = @ \cup {v}]
        BY <3>1 DEF Capture, Decline, Recorded, Key
      <4>2. cur[w] \in Subscriptions /\ Created(cur[w]) /\ day[w] <= today
        BY <2>2, <3>1 DEF Capture, Decline, Charging, Called, Linked, PaidInv
      <4> QED
        BY <1>b, <2>1, <2>3, <4>1, <4>2 DEF Told, Keys
    <3>2. CASE ~(Capture(w) \/ Decline(w))
      BY <1>1, <1>9, <2>1, <2>3, <3>2, BooksFrame
    <3> QED
      BY <3>1, <3>2
  <2>5. AtWork' /\ Own'
    BY <1>b, <2>1, <2>2 DEF AtWork, Own
  <2> QED
    BY <1>2, <2>1, <2>4, <2>5 DEF BooksKept, AtWork, Told, Unique, Own
<1>10. ASSUME NEW w \in Workers, Report(w) PROVE BooksKept'
  <2>1. /\ UNCHANGED <<today, told, subs>>
        /\ cur' = [cur EXCEPT ![w] = None] /\ entry' = [entry EXCEPT ![w] = None]
        /\ \A v \in Workers \ {w} : pc'[v] = pc[v]
    BY <1>10 DEF Report, Finish
  <2>2. Told' /\ AtWork'
    BY <1>b, <1>1, <2>1 DEF Created, AtWork
  <2>3. ASSUME UNCHANGED queue PROVE Own' /\ Unique'
    BY <1>b, <1>2, <2>1, <2>3 DEF Own
  <2>4. ASSUME NEW e \in Entries, OnlyRow(w, e) PROVE Own' /\ Unique'
    <3>1. OnlyRow(w, e)
      BY <2>4
    <3>2. ASSUME NEW v \in Workers, entry'[v] # None
          PROVE  queue'[entry'[v]].sub = cur'[v]
      <4>1. v # w /\ entry'[v] = entry[v] /\ cur'[v] = cur[v] /\ entry[v] \in Entries
        BY <2>1, <3>2
      <4>2. queue[entry[v]].sub = cur[v]
        BY <1>b, <3>2, <4>1 DEF Own
      <4> QED
        BY <3>1, <4>1, <4>2 DEF OnlyRow
    <3>3. Own'
      BY <3>2 DEF Own
    <3>4. \A d \in Entries \ {e}, s \in Subscriptions : PendingOf(d, s)' = PendingOf(d, s)
      BY <3>1 DEF PendingOf, Pending, OnlyRow
    <3>5. Unique'
      BY <1>b, <3>1, <3>4 DEF Unique, OnlyRow
    <3> QED
      BY <3>3, <3>5
  <2>5. Own' /\ Unique'
    BY <1>2, <1>10, <2>3, <2>4, ReportPending
  <2> QED
    BY <2>2, <2>5 DEF BooksKept, AtWork, Told, Unique, Own
<1>11. BooksKept' => Told' /\ AtWork' /\ Own' /\ Unique'
  BY DEF BooksKept, AtWork, Told, Unique, Own
<1> QED
  BY <1>3, <1>4, <1>5, <1>6, <1>7, <1>8, <1>9, <1>10, <1>11
     DEF Next, Work, BooksKept, AtWork, Told, Unique, Own

(* Another subscription than the worker's stays in order.                    *)
LEMMA OrderElsewhere ==
    ASSUME IType, BooksKept, NEW w \in Workers, Mark(w) \/ Charge(w) \/ Report(w),
           NEW s \in Subscriptions, s # cur[w], Orderly(s)
    PROVE  Orderly(s)'
<1> USE Nones DEF IType, TypeOK, rowVars, jobVars, callVars, payVars, history, Moved
<1>1. /\ UNCHANGED <<today, batch>>
      /\ cur'[w] = cur[w] \/ cur'[w] = None
      /\ \A v \in Workers \ {w} :
           UNCHANGED <<pc[v], cur[v], day[v], reply[v], entry[v]>>
  <2>1. CASE Mark(w)
    BY <2>1 DEF Mark
  <2>2. CASE Charge(w)
    BY <2>2, ChargeFrame
  <2>3. CASE Report(w)
    BY <2>3 DEF Report, Finish, Forget
  <2> QED
    BY <2>1, <2>2, <2>3
<1>2. \A d \in Days : UNCHANGED <<captures[<<s, d>>], told[<<s, d>>]>>
  <2>1. CASE Mark(w) \/ Report(w)
    BY <2>1 DEF Mark, Report
  <2>2. CASE Charge(w) /\ ~(Capture(w) \/ Decline(w))
    BY <2>2, BooksFrame
  <2>3. CASE Capture(w) \/ Decline(w)
    <3>1. Taken(Key(w)) \/ TakenTwice(Key(w)) \/ UNCHANGED captures
      BY <2>3 DEF Capture, Decline
    <3>2. \E v \in BOOLEAN : Recorded(Key(w), v)
      BY <2>3 DEF Capture, Decline
    <3>3. \A d \in Days : <<s, d>> \in Keys /\ <<s, d>> # Key(w)
      BY DEF Keys, Key
    <3> QED
      BY <3>1, <3>2, <3>3 DEF Taken, TakenTwice, Recorded
  <2> QED
    BY <2>1, <2>2, <2>3
<1>3. subs'[s] = subs[s]
  <2>1. CASE Mark(w) \/ Report(w)
    BY <2>1 DEF Mark, Report
  <2>2. CASE Charge(w)
    BY <2>2 DEF Charge, ReadSubscription, Lookup, Capture, Decline, FailCall, Abandon,
         MarkPastDue, ReadPeriod, Advance
  <2> QED
    BY <2>1, <2>2
<1>4. \A e \in Entries : PendingOf(e, s)' => PendingOf(e, s)
  <2>1. CASE Charge(w)
    BY <2>1, ChargeFrame DEF PendingOf, Pending
  <2>2. CASE Mark(w)
    <3>1. entry[w] \in Entries /\ queue[entry[w]] \in Retries /\ queue[entry[w]].sub = cur[w]
      BY <2>2 DEF Mark, Linked, BooksKept
    <3> DEFINE row == [queue[entry[w]] EXCEPT !.status = "processing"]
    <3>2. row.sub = cur[w]
      BY <3>1 DEF Retries
    <3>3. queue' = [queue EXCEPT ![entry[w]] = row] \/ queue' = queue
      BY <2>2 DEF Mark
    <3> HIDE DEF row
    <3> QED
      BY <3>1, <3>2, <3>3 DEF Pending, PendingOf
  <2>3. CASE Report(w)
    <3>1. CASE UNCHANGED queue
      BY <3>1 DEF PendingOf, Pending
    <3> QED
      BY <2>3, <3>1, ReportPending DEF PendingOf, Pending, OnlyRow
  <2> QED
    BY <2>1, <2>2, <2>3
<1>5. today \in Days
  OBVIOUS
<1>6. \A v \in Workers : cur[v] = s \/ cur'[v] = s => v # w
  BY <1>1
<1> QED
  BY <1>1, <1>2, <1>3, <1>4, <1>5, <1>6, OrderKept

(* The worker's own subscription stays in order, or is one of the four kinds.  *)
LEMMA OrderAtMark ==
    ASSUME IType, BooksKept, NEW w \in Workers, Mark(w), NEW s, s = cur[w], Orderly(s)
    PROVE  Orderly(s)'
<1> USE Nones DEF IType, TypeOK, rowVars, jobVars, callVars, payVars, history, Moved
<1>e. PICK e : e = entry[w]
  OBVIOUS
<1>1. e \in Entries /\ queue[e] \in Retries /\ queue[e].sub = s /\ s \in Subscriptions
  BY <1>e DEF Mark, Linked, BooksKept, Busy
<1>2. /\ queue' = [queue EXCEPT ![e].status = "processing"] \/ queue' = queue
      /\ pc' = [pc EXCEPT ![w] = "read"] /\ pc[w] = "mark"
      /\ UNCHANGED <<today, subs, batch, cur, entry, day, reply, captures, told>>
  BY <1>e DEF Mark
<1>3. [queue[e] EXCEPT !.status = "processing"].status = "processing"
  BY <1>1 DEF Retries
<1>4. \A f \in Entries : PendingOf(f, s)' => PendingOf(f, s)
  BY <1>1, <1>2, <1>3 DEF PendingOf, Pending
<1>5. UpToDate(s) /\ OneVerdict(s) /\ PaidIsActive(s)
  BY DEF Orderly
<1>6. /\ Refused(s)' <=> Refused(s)
      /\ \A d \in Days : Captured(s, d)' <=> Captured(s, d)
      /\ today \in Days
      /\ NotDue(s)' <=> NotDue(s)
  BY <1>2 DEF Refused, Captured, NotDue
<1>7. UpToDate(s)'
  BY <1>2, <1>5, <1>6 DEF UpToDate, Called
<1>8. OneVerdict(s)'
  BY <1>2, <1>5, <1>6 DEF OneVerdict, Charging
<1>9. PaidIsActive(s)'
  BY <1>2, <1>5, <1>6 DEF PaidIsActive
<1> QED
  BY <1>1, <1>2, <1>4, <1>6, <1>7, <1>8, <1>9, OrderAtWork

LEMMA OrderAtCharge ==
    ASSUME IType, BooksKept, NEW w \in Workers, Charge(w), NEW s, s = cur[w],
           s \in Whole', Orderly(s)
    PROVE  Orderly(s)'
<1> USE DEF rowVars, jobVars, callVars, payVars, history, Moved
<1>1. /\ UNCHANGED <<today, queue, batch, cur, entry>>
      /\ pc[w] \in AtService
      /\ \A v \in Workers \ {w} : UNCHANGED <<pc[v], day[v], reply[v]>>
  BY ChargeFrame
<1>2. /\ s \in Subscriptions /\ subs[s] \in Subs /\ today \in Days /\ day[w] \in Days
      /\ s \notin faulty' /\ s \notin raced' /\ s \notin stray'
  BY <1>1, Nones DEF IType, TypeOK, Linked, Busy, Created, Whole
<1>3. UpToDate(s) /\ OneVerdict(s) /\ PaidIsActive(s)
  BY DEF Orderly
<1>4. \A e \in Entries : PendingOf(e, s)' => PendingOf(e, s)
  BY <1>1 DEF PendingOf, Pending
<1>k. <<s, today>> \in Keys /\ (day[w] = today => Key(w) = <<s, today>>)
  BY <1>2 DEF Keys, Key
(* A step that leaves the orchestrator's books alone.                        *)
<1>5. ASSUME UNCHANGED payVars, UpToDate(s)', PaidIsActive(s)', ~Charging(w)',
             subs[s].status = "active" =>
                 subs'[s].status = "active" \/ Refused(s) \/ LeftPastDue(w, s)',
             NotDue(s) => NotDue(s)',
             pc[w] \in {"period", "advance", "report"} /\ reply[w] = "success" =>
                 pc'[w] \in {"period", "advance", "report"} /\ reply'[w] = "success"
      PROVE  Orderly(s)'
  <2>1. /\ Refused(s)' <=> Refused(s)
        /\ \A d \in Days : Captured(s, d)' <=> Captured(s, d)
    BY <1>1, <1>5 DEF Refused, Captured
  <2>2. UNCHANGED <<captures[<<s, today>>], told[<<s, today>>]>>
    BY <1>1, <1>5
  <2>3. \A v \in Workers : cur'[v] = s /\ Charging(v)' => cur[v] = s /\ Charging(v)
    BY <1>1, <1>5 DEF Charging
  <2>4. OneVerdict(s)'
    BY <1>1, <1>2, <1>3, <2>1, <2>2, <2>3 DEF OneVerdict
  <2> QED
    BY <1>1, <1>2, <1>4, <1>5, <2>1, <2>4, OrderAtWork DEF AtService, Called
<1>6. ASSUME UNCHANGED payVars PROVE /\ Refused(s)' <=> Refused(s)
                                     /\ \A d \in Days : Captured(s, d)' <=> Captured(s, d)
  BY <1>1, <1>6 DEF Refused, Captured
<1>8. CASE ReadSubscription(w) \/ Abandon(w)
  <2>1. /\ UNCHANGED <<subs, payVars>> /\ pc[w] \in {"read", "called", "past_due"}
        /\ \/ pc'[w] = "called" /\ day'[w] = today
           \/ pc'[w] = "report" /\ reply'[w] = "error"
    BY <1>2, <1>8 DEF IType, TypeOK, ReadSubscription, Abandon, AtService, Called, AtPayment, Fault
  <2>2. UpToDate(s)'
    BY <1>1, <1>2, <1>3, <1>6, <2>1 DEF UpToDate, Called
  <2>3. PaidIsActive(s)'
    BY <1>1, <1>2, <1>3, <1>6, <2>1 DEF PaidIsActive
  <2>4. NotDue(s) => NotDue(s)'
    BY <1>1, <1>2, <1>6, <2>1 DEF NotDue
  <2> QED
    BY <1>5, <2>1, <2>2, <2>3, <2>4 DEF Charging
<1>9. CASE Lookup(w)
  <2>1. pc[w] = "called" /\ UNCHANGED <<subs, payVars, day>> /\ day[w] = today
    BY <1>3, <1>9 DEF Lookup, UpToDate, Called
  <2>2. NotDue(s) => NotDue(s)'
    BY <1>1, <1>2, <1>6, <2>1 DEF NotDue
  <2>3. PaidIsActive(s)'
    BY <1>1, <1>2, <1>3, <1>6, <2>1 DEF PaidIsActive
  <2>4. CASE TRUE \in told[Key(w)] /\ Answer(w, TRUE)
    <3>1. pc'[w] = "period" /\ reply'[w] = "success"
      BY <2>4 DEF Answer, IType, TypeOK
    <3>2. Captured(s, today)
      <4>1. TRUE \in told[<<s, today>>]
        BY <1>k, <2>1, <2>4
      <4>2. captures[<<s, today>>] = 1
        BY <1>3, <4>1 DEF OneVerdict
      <4> QED
        BY <4>2 DEF Captured
    <3>3. UpToDate(s)'
      BY <1>1, <1>2, <1>3, <1>6, <2>1, <3>1, <3>2 DEF UpToDate, Called
    <3> QED
      BY <1>5, <2>1, <2>2, <2>3, <3>1, <3>3 DEF Charging
  <2>5. CASE FALSE \in told[Key(w)] /\ Answer(w, FALSE)
    <3>1. pc'[w] = "past_due" /\ reply'[w] = "declined"
      BY <2>5 DEF Answer, IType, TypeOK
    <3>2. Refused(s)
      BY <1>k, <2>1, <2>5 DEF Refused
    <3>3. UpToDate(s)'
      BY <1>1, <1>2, <1>3, <1>6, <2>1, <3>1, <3>2 DEF UpToDate, Called
    <3> QED
      BY <1>5, <2>1, <2>2, <2>3, <3>1, <3>3 DEF Charging
  <2>6. CASE /\ told[Key(w)] = {} /\ Moved(w, "charge") /\ UNCHANGED reply
             /\ raced' = raced \cup
                  {t \in {cur[w]} : \E v \in Workers : Charging(v) /\ Key(v) = Key(w)}
    <3>1. pc'[w] = "charge" /\ told[<<s, today>>] = {}
      BY <1>k, <2>1, <2>6 DEF IType, TypeOK
    <3>2. \A v \in Workers : cur[v] = s => ~Charging(v)
      <4>1. ASSUME NEW v \in Workers, cur[v] = s, Charging(v) PROVE FALSE
        <5>1. Key(v) = Key(w)
          BY <1>3, <1>k, <2>1, <4>1 DEF UpToDate, Called, Charging, Key
        <5> QED
          BY <1>2, <2>6, <4>1, <5>1
      <4> QED
        BY <4>1
    <3>3. UpToDate(s)'
      BY <1>1, <1>2, <1>3, <1>6, <2>1, <3>1 DEF UpToDate, Called
    <3>4. /\ UNCHANGED <<captures[<<s, today>>], told[<<s, today>>]>>
          /\ \A v \in Workers : cur'[v] = s /\ Charging(v)' => v = w
      BY <1>1, <2>1, <3>2 DEF Charging
    <3>5. OneVerdict(s)'
      BY <1>2, <1>3, <1>6, <1>1, <2>1, <3>1, <3>4 DEF OneVerdict
    <3> QED
      BY <1>1, <1>2, <1>4, <1>6, <2>1, <2>2, <2>3, <3>3, <3>5, OrderAtWork
  <2> QED
    <3>1. \/ \E v \in told[Key(w)] : Answer(w, v)
          \/ /\ told[Key(w)] = {} /\ Moved(w, "charge") /\ UNCHANGED reply
             /\ raced' = raced \cup
                  {t \in {cur[w]} : \E v \in Workers : Charging(v) /\ Key(v) = Key(w)}
      BY <1>9 DEF Lookup
    <3>2. told[Key(w)] \subseteq BOOLEAN
      BY <1>k, <2>1 DEF IType, TypeOK
    <3> QED
      BY <2>4, <2>5, <2>6, <3>1, <3>2
<1>10. CASE Capture(w)
  <2>1. /\ pc[w] = "charge" /\ pc'[w] = "period" /\ reply'[w] = "success"
        /\ captures' = [captures EXCEPT ![Key(w)] = IF @ = 0 THEN 1 ELSE 2]
        /\ told' = [told EXCEPT ![Key(w)] = @ \cup {TRUE}]
        /\ UNCHANGED <<subs, day>>
    BY <1>2, <1>10 DEF IType, TypeOK, Capture, Charging, Answer, Taken, Recorded, Fault
  <2>2. day[w] = today /\ Key(w) = <<s, today>>
    BY <1>3, <1>k, <2>1 DEF UpToDate, Called
  <2>3. /\ told[<<s, today>>] = {}
        /\ \A v \in Workers : cur[v] = s /\ Charging(v) => v = w
    BY <1>3, <2>1 DEF OneVerdict, Charging
  <2>4. captures[<<s, today>>] = 0
    BY <1>3, <2>3 DEF OneVerdict
  <2>5. captures'[<<s, today>>] = 1 /\ told'[<<s, today>>] = {TRUE}
    BY <1>k, <2>1, <2>2, <2>3, <2>4 DEF IType, TypeOK
  <2>6. ~Refused(s) /\ ~Refused(s)' /\ Captured(s, today)'
    BY <1>1, <2>3, <2>5 DEF Refused, Captured
  <2>7. \A d \in Days : d # today => (Captured(s, d)' <=> Captured(s, d))
    BY <1>2, <2>1, <2>2 DEF Captured, Keys, IType, TypeOK
  <2>8. UpToDate(s)'
    BY <1>1, <1>2, <1>3, <2>1, <2>2, <2>6 DEF UpToDate, Called
  <2>9. OneVerdict(s)'
    <3>1. \A v \in Workers : ~(cur'[v] = s /\ Charging(v)')
      BY <1>1, <2>1, <2>3 DEF Charging
    <3> QED
      BY <1>1, <2>5, <2>6, <3>1 DEF OneVerdict
  <2>10. PaidIsActive(s)'
    BY <1>1, <2>1 DEF PaidIsActive
  <2>11. NotDue(s) => NotDue(s)'
    BY <1>1, <2>1, <2>6 DEF NotDue
  <2>12. ~Captured(s, today)
    BY <2>4 DEF Captured
  <2> QED
    BY <1>1, <1>2, <1>4, <2>1, <2>6, <2>7, <2>8, <2>9, <2>10, <2>11, OrderAtWork DEF Charging
<1>11. CASE Decline(w)
  <2>1. /\ pc[w] = "charge" /\ pc'[w] = "past_due" /\ reply'[w] = "declined"
        /\ UNCHANGED captures
        /\ told' = [told EXCEPT ![Key(w)] = @ \cup {FALSE}]
        /\ UNCHANGED <<subs, day>>
    BY <1>2, <1>11 DEF IType, TypeOK, Decline, Charging, Answer, Recorded, Fault
  <2>2. day[w] = today /\ Key(w) = <<s, today>>
    BY <1>3, <1>k, <2>1 DEF UpToDate, Called
  <2>3. /\ told[<<s, today>>] = {}
        /\ \A v \in Workers : cur[v] = s /\ Charging(v) => v = w
    BY <1>3, <2>1 DEF OneVerdict, Charging
  <2>4. captures[<<s, today>>] = 0
    BY <1>3, <2>3 DEF OneVerdict
  <2>5. captures'[<<s, today>>] = 0 /\ told'[<<s, today>>] = {FALSE}
    BY <1>k, <2>1, <2>2, <2>3, <2>4 DEF IType, TypeOK
  <2>7. ~Captured(s, today)
    BY <2>4 DEF Captured
  <2>c. \A d \in Days : Captured(s, d)' <=> Captured(s, d)
    BY <2>1 DEF Captured
  <2>r. ~Refused(s) /\ Refused(s)'
    BY <1>1, <2>3, <2>5 DEF Refused
  <2>6. /\ ~Refused(s) /\ Refused(s)' /\ ~Captured(s, today)'
        /\ \A d \in Days : Captured(s, d)' <=> Captured(s, d)
    BY <1>1, <1>2, <2>7, <2>c, <2>r
  <2>8. UpToDate(s)'
    BY <1>1, <1>2, <1>3, <2>1, <2>6, <2>7 DEF UpToDate, Called
  <2>9. OneVerdict(s)'
    <3>1. \A v \in Workers : ~(cur'[v] = s /\ Charging(v)')
      BY <1>1, <2>1, <2>3 DEF Charging
    <3> QED
      BY <1>1, <2>5, <2>6, <3>1 DEF OneVerdict
  <2>10. PaidIsActive(s)'
    BY <1>1, <2>6 DEF PaidIsActive
  <2>11. NotDue(s) => NotDue(s)'
    BY <1>1, <2>1, <2>6, <2>7 DEF NotDue
  <2> QED
    BY <1>1, <1>2, <1>4, <2>1, <2>6, <2>8, <2>9, <2>10, <2>11, OrderAtWork DEF Charging
<1>12. CASE MarkPastDue(w)
  <2>1. /\ pc[w] = "past_due" /\ pc'[w] = "report" /\ UNCHANGED <<day, reply, payVars>>
        /\ \/ /\ subs' = [subs EXCEPT ![s].status = "past_due"]
              /\ reply[w] = "error" => ~Shared(w, s)
           \/ subs' = subs /\ subs[s].status = "past_due"
    BY <1>2, <1>12 DEF IType, TypeOK, MarkPastDue
  <2>2. subs'[s].status = "past_due"
    BY <1>2, <2>1 DEF IType, TypeOK, Subs
  <2>3. reply[w] = "error" \/ (Refused(s) /\ reply[w] = "declined" /\ ~Captured(s, today))
    BY <1>3, <2>1 DEF UpToDate, OneVerdict
  <2>4. ~Shared(w, s) => ~Captured(s, today)
    BY DEF Shared, Captured
  <2>5. reply[w] = "error" /\ ~Shared(w, s) => LeftPastDue(w, s)'
    BY <1>1, <2>1, <2>2 DEF Shared, LeftPastDue
  <2>6. UpToDate(s)'
    BY <1>1, <1>2, <1>3, <1>6, <2>1, <2>2, <2>3 DEF UpToDate, Called
  <2>7. PaidIsActive(s)'
    BY <1>1, <1>2, <1>3, <1>6, <2>1, <2>3, <2>4 DEF PaidIsActive
  <2>8. NotDue(s)'
    BY <2>2 DEF NotDue
  <2>9. subs[s].status = "active" => Refused(s) \/ LeftPastDue(w, s)'
    BY <2>1, <2>3, <2>5
  <2> QED
    BY <1>5, <2>1, <2>6, <2>7, <2>8, <2>9 DEF Charging
<1>13. CASE ReadPeriod(w)
  <2>1. pc[w] = "period" /\ pc'[w] = "advance" /\ UNCHANGED <<day, reply, subs, payVars>>
    BY <1>2, <1>13 DEF IType, TypeOK, ReadPeriod, Fault
  <2>2. UpToDate(s)'
    BY <1>1, <1>2, <1>3, <1>6, <2>1 DEF UpToDate, Called
  <2>3. PaidIsActive(s)'
    BY <1>1, <1>2, <1>3, <1>6, <2>1 DEF PaidIsActive
  <2>4. NotDue(s) => NotDue(s)'
    BY <1>1, <1>2, <1>6, <2>1 DEF NotDue
  <2> QED
    BY <1>5, <2>1, <2>2, <2>3, <2>4 DEF Charging
<1>14. CASE Advance(w)
  <2>1. /\ pc[w] = "advance" /\ pc'[w] = "report" /\ UNCHANGED <<day, reply, payVars>>
        /\ subs' = [subs EXCEPT ![s] = Advanced(@, period[w])]
    BY <1>2, <1>14 DEF IType, TypeOK, Advance, Fault
  <2>2. Captured(s, today) /\ reply[w] = "success"
    BY <1>3, <2>1 DEF UpToDate
  <2>3. ~Refused(s)
    BY <1>3, <2>2 DEF OneVerdict
  <2>4. subs'[s].status = "active" /\ subs'[s].next > today
    <3>1. period[w] \in Cycles /\ today + Length[period[w]] > today
      BY <1>2, PeriodsAreDays DEF IType, TypeOK, Days
    <3> QED
      BY <1>2, <2>1, <3>1 DEF IType, TypeOK, Subs, Advanced
  <2>5. UpToDate(s)'
    BY <1>1, <1>2, <1>3, <1>6, <2>1, <2>2, <2>3 DEF UpToDate, Called
  <2>6. PaidIsActive(s)'
    BY <2>4 DEF PaidIsActive
  <2>7. NotDue(s)'
    BY <1>1, <1>2, <1>6, <2>1, <2>2, <2>4 DEF NotDue
  <2> QED
    BY <1>5, <2>1, <2>2, <2>4, <2>5, <2>6, <2>7 DEF Charging
<1>15. CASE FailCall(w)
  <2>1. /\ UNCHANGED <<subs, day, payVars>> /\ pc[w] \in {"called", "past_due"}
        /\ pc'[w] = "past_due" /\ reply'[w] = "error"
    BY <1>2, <1>15 DEF IType, TypeOK, FailCall, Fault
  <2>2. UpToDate(s)'
    BY <1>1, <1>2, <1>3, <1>6, <2>1 DEF UpToDate, Called
  <2>3. PaidIsActive(s)'
    BY <1>1, <1>2, <1>3, <1>6, <2>1 DEF PaidIsActive
  <2>4. NotDue(s) => NotDue(s)'
    BY <1>1, <1>2, <1>6, <2>1 DEF NotDue
  <2> QED
    BY <1>5, <2>1, <2>2, <2>3, <2>4 DEF Charging
<1> QED
  BY <1>8, <1>9, <1>10, <1>11, <1>12, <1>13, <1>14, <1>15 DEF Charge

LEMMA OrderAtReport ==
    ASSUME IType, BooksKept, NEW w \in Workers, Report(w), NEW s, s = cur[w],
           s \in Whole', Orderly(s)
    PROVE  Orderly(s)'
<1> USE Nones DEF IType, TypeOK, rowVars, jobVars, callVars, payVars, history, Moved
<1>1. /\ UNCHANGED <<today, subs, batch, captures, told>>
      /\ pc[w] = "report" /\ cur'[w] = None
      /\ \A v \in Workers \ {w} : UNCHANGED <<pc[v], cur[v], day[v], reply[v], entry[v]>>
  BY DEF Report, Finish, Forget
<1>2. s \in Subscriptions /\ s # None /\ s \notin stray' /\ s \notin stray
  BY <1>1 DEF Linked, Busy, Whole, Report
<1>3. /\ UpToDate(s) /\ OneVerdict(s) /\ PaidIsActive(s) /\ BilledOrRetried(s)
      /\ RetryGuards(s) /\ PaidIsResolved(s) /\ PastIsApart(s) /\ Held(s)
  BY DEF Orderly, Held
<1>4. /\ Refused(s)' <=> Refused(s)
      /\ \A d \in Days : Captured(s, d)' <=> Captured(s, d)
      /\ Captured(s, today)' <=> Captured(s, today)
      /\ UNCHANGED <<captures[<<s, today>>], told[<<s, today>>]>>
      /\ NotDue(s)' <=> NotDue(s)
  BY <1>1 DEF Refused, Captured, NotDue
<1>5. \A v \in Workers : cur'[v] = s => v # w /\ cur[v] = s
  BY <1>1, <1>2
<1>6. FromDue(s)' => FromDue(s)
  BY <1>1, <1>5 DEF FromDue
<1>7. Retrying(s)' => Retrying(s)
  BY <1>1, <1>5 DEF Retrying
(* A retry that waits now waited before, or comes from a call that failed.    *)
<1>8. ASSUME NEW e \in Entries, PendingOf(e, s)', ~PendingOf(e, s)
      PROVE  /\ reply[w] \in {"declined", "error"}
             /\ entry[w] # None => e = entry[w]
             /\ reply[w] = "declined" => Refused(s) /\ subs[s].status # "active"
             /\ reply[w] = "error" => subs[s].status = "past_due"
  <2>1. ~UNCHANGED queue
    BY <1>8 DEF PendingOf, Pending
  <2>2. PICK f \in Entries : OnlyRow(w, f)
    BY <2>1, ReportPending
  <2>3. f = e
    BY <1>8, <2>2 DEF OnlyRow, PendingOf, Pending
  <2>4. reply[w] # "success" /\ (entry[w] # None => e = entry[w])
    BY <1>2, <1>8, <2>2, <2>3 DEF OnlyRow
  <2>5. reply[w] = "error" => subs[s].status = "past_due"
    BY <1>2, <1>8, ReportLeaves
  <2> QED
    BY <1>1, <1>3, <2>4, <2>5 DEF UpToDate
<1>9. UpToDate(s)'
  BY <1>1, <1>3, <1>4, <1>5 DEF UpToDate
<1>10. OneVerdict(s)'
  <2>1. \A v \in Workers : cur'[v] = s /\ Charging(v)' => cur[v] = s /\ Charging(v)
    BY <1>1, <1>5 DEF Charging
  <2> QED
    BY <1>1, <1>3, <1>4, <2>1 DEF OneVerdict
<1>11. PaidIsActive(s)'
  BY <1>1, <1>3, <1>4, <1>5 DEF PaidIsActive
<1>l. ASSUME NEW v \in Workers, LeftPastDue(v, s)
      PROVE  ~FromDue(s)' /\ \A u \in Workers : cur'[u] # s
  <2>1. v = w
    BY <1>l DEF LeftPastDue
  <2>2. \A u \in Workers : cur'[u] # s
    BY <1>5, <1>l, <2>1 DEF LeftPastDue
  <2> QED
    BY <1>1, <1>l, <2>2 DEF LeftPastDue, FromDue
<1>12. ASSUME ~Refused(s), NEW e \in Entries, PendingOf(e, s)'
       PROVE  ~FromDue(s)' /\ \A v \in Workers : cur'[v] = s => entry'[v] = e
  <2>1. CASE PendingOf(e, s)
    BY <1>1, <1>3, <1>5, <1>6, <1>12, <2>1 DEF BilledOrRetried, Waiting
  <2>2. CASE ~PendingOf(e, s)
    <3>1. reply[w] # "success" /\ (entry[w] # None => e = entry[w])
          /\ subs[s].status = "past_due"
      BY <1>8, <1>12, <2>2
    <3>2. CASE \E v \in Workers : LeftPastDue(v, s)
      BY <1>l, <3>2
    <3>3. CASE ~ \E v \in Workers : LeftPastDue(v, s)
      <4>1. ~FromDue(s)
        BY <1>3, <1>12, <3>1, <3>3 DEF BilledOrRetried
      <4>2. entry[w] # None
        BY <4>1 DEF FromDue
      <4> QED
        BY <1>1, <1>3, <1>5, <1>6, <1>12, <3>1, <4>1, <4>2 DEF BilledOrRetried
    <3> QED
      BY <3>2, <3>3
  <2> QED
    BY <2>1, <2>2
<1>13. BilledOrRetried(s)'
  <2>1. ~Refused(s) /\ FromDue(s)' => ~Waiting(s)'
    BY <1>12 DEF Waiting
  <2>2. \A e \in Entries, v \in Workers :
          ~Refused(s) /\ PendingOf(e, s)' /\ cur'[v] = s => entry'[v] = e
    BY <1>12
  <2>3. ~Refused(s) => \A u, v \in Workers : cur'[u] = s /\ cur'[v] = s => entry'[u] = entry'[v]
    BY <1>1, <1>3, <1>5 DEF BilledOrRetried
  <2>4. ~Refused(s) /\ FromDue(s)' => subs'[s].status = "active" /\ ~Retrying(s)'
    BY <1>1, <1>3, <1>6, <1>7, <1>l DEF BilledOrRetried
  <2> QED
    BY <1>4, <2>1, <2>2, <2>3, <2>4 DEF BilledOrRetried
<1>14. RetryGuards(s)'
  <2>1. ASSUME NEW e \in Entries, PendingOf(e, s)' PROVE NotDue(s)
    <3>1. CASE PendingOf(e, s)
      BY <1>3, <3>1 DEF RetryGuards, Waiting
    <3>2. CASE ~PendingOf(e, s)
      BY <1>8, <2>1, <3>2 DEF NotDue
    <3> QED
      BY <3>1, <3>2
  <2>2. Waiting(s)' => NotDue(s)
    BY <2>1 DEF Waiting
  <2> QED
    BY <1>3, <1>4, <1>7, <2>2 DEF RetryGuards
<1>15. PaidIsResolved(s)'
  <2> SUFFICES ASSUME NEW e \in Entries, PendingOf(e, s)', Captured(s, today)'
               PROVE  \E v \in Workers :
                        /\ cur'[v] = s /\ entry'[v] = e
                        /\ pc'[v] \in {"period", "advance", "report"} /\ reply'[v] = "success"
    BY DEF PaidIsResolved
  <2>1. Captured(s, today) /\ ~Refused(s)
    BY <1>3, <1>4 DEF OneVerdict
(* Who has written that s is active is not the one who is about to.           *)
  <2>2. CASE subs[s].status = "past_due"
    <3>1. PICK v \in Workers : cur[v] = s /\ pc[v] \in {"period", "advance"}
      BY <1>3, <2>1, <2>2 DEF PaidIsActive
    <3>2. v # w /\ reply[v] = "success"
      BY <1>1, <1>3, <3>1 DEF UpToDate
    <3>3. entry'[v] = e
      BY <1>1, <1>12, <2>1, <3>1, <3>2
    <3> QED
      BY <1>1, <3>1, <3>2, <3>3
  <2>3. CASE subs[s].status # "past_due"
    <3>1. Written(w) /\ reply[w] # "error"
      BY <1>2, <2>3, ReportLeaves
    <3>2. reply[w] = "success"
      BY <1>1, <1>3, <2>1, <3>1 DEF UpToDate
    <3>3. PendingOf(e, s) /\ entry[w] = e
      BY <1>3, <1>8, <2>1, <3>2 DEF BilledOrRetried
    <3>4. queue[e] \in Retries /\ queue' = [queue EXCEPT ![e] = Resolved(@)]
      BY <3>1, <3>2, <3>3 DEF Written, Resolve, PendingOf, Pending
    <3>5. queue'[e].status = "resolved"
      BY <3>4 DEF Resolved, Retries
    <3> QED
      BY <3>5 DEF PendingOf, Pending
  <2> QED
    BY <2>2, <2>3
<1>16. PastIsApart(s)'
  BY <1>1, <1>3, <1>4 DEF PastIsApart, Apart
<1> QED
  BY <1>9, <1>10, <1>11, <1>13, <1>14, <1>15, <1>16 DEF Orderly

(* Coming to a subscription: because it is due, or for a retry that waits.   *)
LEMMA OrderAtBegin ==
    ASSUME IType, PaidInv, BooksKept, NEW w \in Workers, Begin(w),
           NEW s \in Subscriptions \ faulty, Orderly(s)
    PROVE  Orderly(s)'
<1> USE Nones DEF IType, TypeOK, rowVars, jobVars, callVars, payVars, history, Moved
<1>1. /\ UNCHANGED <<today, subs, queue, day, reply, captures, told>>
      /\ pc[w] = "idle" /\ cur[w] = None
      /\ \A v \in Workers \ {w} : UNCHANGED <<pc[v], cur[v], entry[v]>>
  BY DEF Begin, SelectDue, TakeRetry, BooksKept, Busy, AtService, Called
<1>2. /\ Refused(s)' <=> Refused(s)
      /\ \A d \in Days : Captured(s, d)' <=> Captured(s, d)
      /\ Captured(s, today)' <=> Captured(s, today)
      /\ UNCHANGED <<captures[<<s, today>>], told[<<s, today>>]>>
      /\ \A e \in Entries : PendingOf(e, s)' <=> PendingOf(e, s)
      /\ Waiting(s)' <=> Waiting(s)
      /\ NotDue(s)' <=> NotDue(s)
  BY <1>1 DEF Refused, Captured, PendingOf, Pending, Waiting, NotDue
<1>3. /\ UpToDate(s) /\ OneVerdict(s) /\ PaidIsActive(s) /\ BilledOrRetried(s)
      /\ RetryGuards(s) /\ PaidIsResolved(s) /\ PastIsApart(s)
  BY DEF Orderly
<1>4. today \in Days /\ LastDay \in Nat
  BY PeriodsAreDays
<1>5. pc'[w] \in {"next", "mark"}
  BY DEF Begin, SelectDue, TakeRetry
<1>6. UpToDate(s)'
  BY <1>1, <1>2, <1>3, <1>5 DEF UpToDate, Called
<1>7. OneVerdict(s)'
  <2>1. \A v \in Workers : cur'[v] = s /\ Charging(v)' => cur[v] = s /\ Charging(v)
    BY <1>1, <1>5 DEF Charging
  <2> QED
    BY <1>1, <1>2, <1>3, <2>1 DEF OneVerdict
<1>8. PaidIsActive(s)'
  BY <1>1, <1>2, <1>3 DEF PaidIsActive
<1>9. PaidIsResolved(s)'
  <2>1. \A v \in Workers : cur[v] = s => v # w
    BY <1>1
  <2> QED
    BY <1>1, <1>2, <1>3, <2>1 DEF PaidIsResolved
<1>10. CASE w \in Batchers /\ SelectDue(w)
  <2>1. UNCHANGED <<cur, entry>>
    BY <1>10 DEF SelectDue
  <2>2. \A v \in Batchers : s \in batch'[v] => s \in batch[v] \/ Due(s)
    BY <1>10 DEF SelectDue
  <2>3. Due(s) => subs[s].status = "active" /\ subs[s].next <= today /\ subs[s] \in Subs
    BY DEF Due, Created
  <2>4. FromDue(s)' => FromDue(s) \/ Due(s)
    BY <2>1, <2>2 DEF FromDue
  <2>5. Retrying(s)' <=> Retrying(s)
    BY <2>1 DEF Retrying
  <2>6. Due(s) => ~NotDue(s)
    BY <1>4, <2>3 DEF NotDue, Subs, Days
  <2>l. ASSUME NEW v \in Workers, LeftPastDue(v, s) PROVE LeftPastDue(v, s)'
    BY <1>1, <2>1, <2>2, <2>3, <2>l DEF LeftPastDue
  <2>7. BilledOrRetried(s)'
    BY <1>1, <1>2, <1>3, <2>1, <2>3, <2>4, <2>5, <2>6, <2>l DEF BilledOrRetried, RetryGuards
  <2>8. RetryGuards(s)'
    BY <1>2, <1>3, <2>5 DEF RetryGuards
  <2>9. ASSUME Due(s), ~Held(s), NEW d \in Days, Captured(s, d) PROVE Apart(d, today)
    <3>1. Bought(s, d)
      BY <2>9 DEF PaidInv, Paying, Held
    <3>2. PICK k \in Cycles : d + Length[k] <= subs[s].next
      BY <3>1 DEF Bought
    <3>3. subs[s].next \in Nat /\ Length[k] \in Nat
      BY <2>3, <2>9, PeriodsAreDays DEF Subs
    <3>4. d + Length[k] <= today
      BY <1>4, <2>3, <2>9, <3>2, <3>3 DEF Days
    <3> QED
      BY <3>4 DEF Apart
  <2>10. Held(s)' => Held(s) \/ Due(s)
    BY <2>1, <2>2 DEF Held
  <2>11. PastIsApart(s)'
    BY <1>1, <1>2, <1>3, <2>9, <2>10 DEF PastIsApart, Apart
  <2> QED
    BY <1>6, <1>7, <1>8, <1>9, <2>7, <2>8, <2>11 DEF Orderly
<1>11. ASSUME NEW e \in Entries, TakeRetry(w, e) PROVE Orderly(s)'
  <2>1. /\ cur'[w] = queue[e].sub /\ entry'[w] = e
        /\ Pending(e) /\ UNCHANGED batch
    BY <1>11 DEF TakeRetry
  <2>2. cur'[w] = s => PendingOf(e, s) /\ Waiting(s)
    BY <2>1 DEF PendingOf, Waiting
  <2>3. FromDue(s)' => FromDue(s)
    BY <1>1, <2>1 DEF FromDue
  <2>4. Retrying(s)' => Retrying(s) \/ Waiting(s)
    BY <1>1, <2>2 DEF Retrying
  <2>5. BilledOrRetried(s)'
    <3> SUFFICES ASSUME ~Refused(s)
                 PROVE  /\ FromDue(s)' => ~Retrying(s)' /\ ~Waiting(s)'
                        /\ FromDue(s)' => subs'[s].status = "active" \/ \E v \in Workers : LeftPastDue(v, s)'
                        /\ \A u, v \in Workers : cur'[u] = s /\ cur'[v] = s => entry'[u] = entry'[v]
                        /\ \A f \in Entries, v \in Workers :
                             PendingOf(f, s)' /\ cur'[v] = s => entry'[v] = f
      BY <1>2 DEF BilledOrRetried
    <3>l. ASSUME NEW v \in Workers, LeftPastDue(v, s), ~Waiting(s) PROVE LeftPastDue(v, s)'
      BY <1>1, <2>1, <2>2, <3>l DEF LeftPastDue
    <3>1. /\ FromDue(s)' => ~Retrying(s)' /\ ~Waiting(s)'
          /\ FromDue(s)' => subs'[s].status = "active" \/ \E v \in Workers : LeftPastDue(v, s)'
      BY <1>1, <1>2, <1>3, <2>3, <2>4, <3>l DEF BilledOrRetried
    <3>2. ASSUME cur'[w] = s, NEW v \in Workers, cur'[v] = s PROVE entry'[v] = e
      BY <1>1, <1>3, <2>1, <2>2, <3>2 DEF BilledOrRetried
    <3>3. ASSUME cur'[w] = s, NEW f \in Entries, PendingOf(f, s) PROVE f = e
      BY <2>2, <3>3 DEF BooksKept
    <3>4. CASE cur'[w] = s
      BY <1>2, <3>1, <3>2, <3>3, <3>4
    <3>5. CASE cur'[w] # s
      <4>1. \A v \in Workers : cur'[v] = s => cur[v] = s /\ entry'[v] = entry[v]
        BY <1>1, <3>5
      <4> QED
        BY <1>2, <1>3, <3>1, <4>1 DEF BilledOrRetried
    <3> QED
      BY <3>4, <3>5
  <2>6. RetryGuards(s)'
    BY <1>2, <1>3, <2>4 DEF RetryGuards
  <2>7. Held(s)' => Held(s) \/ Waiting(s)
    BY <1>1, <2>1, <2>2 DEF Held
  <2>8. PastIsApart(s)'
    BY <1>1, <1>2, <1>3, <2>7 DEF PastIsApart, Apart
  <2> QED
    BY <1>6, <1>7, <1>8, <1>9, <2>5, <2>6, <2>8 DEF Orderly
<1> QED
  BY <1>10, <1>11 DEF Begin

LEMMA OrderAtBatch ==
    ASSUME IType, BooksKept, NEW w \in Workers, NEW t \in Subscriptions,
           TakeNext(w, t) \/ SkipJob(w, t), w \in Batchers,
           NEW s \in Subscriptions, Orderly(s)
    PROVE  Orderly(s)'
<1> USE Nones DEF IType, TypeOK, rowVars, jobVars, callVars, payVars, history, Moved
<1>1. /\ UNCHANGED <<today, subs, queue, entry, day, reply, captures, told>>
      /\ pc[w] = "next" /\ cur[w] = None /\ entry[w] = None /\ t \in batch[w]
      /\ \A v \in Workers \ {w} : UNCHANGED <<pc[v], cur[v]>>
      /\ batch' = [batch EXCEPT ![w] = @ \ {t}]
      /\ cur'[w] = None \/ (cur'[w] = t /\ pc'[w] = "read")
  BY DEF TakeNext, SkipJob, BooksKept, Busy, AtService, Called
<1>2. /\ Refused(s)' <=> Refused(s)
      /\ \A d \in Days : Captured(s, d)' <=> Captured(s, d)
      /\ Captured(s, today)' <=> Captured(s, today)
      /\ UNCHANGED <<captures[<<s, today>>], told[<<s, today>>]>>
      /\ \A e \in Entries : PendingOf(e, s)' <=> PendingOf(e, s)
      /\ Waiting(s)' <=> Waiting(s)
      /\ NotDue(s)' <=> NotDue(s)
  BY <1>1 DEF Refused, Captured, PendingOf, Pending, Waiting, NotDue
<1>3. /\ UpToDate(s) /\ OneVerdict(s) /\ PaidIsActive(s) /\ BilledOrRetried(s)
      /\ RetryGuards(s) /\ PaidIsResolved(s) /\ PastIsApart(s)
  BY DEF Orderly
<1>4. \A v \in Workers : cur[v] = s => v # w
  BY <1>1
<1>5. Held(s)' => Held(s)
  BY <1>1 DEF Held
<1>6. FromDue(s)' => FromDue(s)
  BY <1>1 DEF FromDue
<1>7. Retrying(s)' => Retrying(s)
  BY <1>1, <1>4 DEF Retrying
<1>8. cur'[w] = s => FromDue(s)
  BY <1>1 DEF FromDue
<1>9. UpToDate(s)'
  BY <1>1, <1>2, <1>3 DEF UpToDate, Called
<1>10. OneVerdict(s)'
  <2>1. \A v \in Workers : cur'[v] = s /\ Charging(v)' => cur[v] = s /\ Charging(v)
    BY <1>1 DEF Charging
  <2> QED
    BY <1>1, <1>2, <1>3, <2>1 DEF OneVerdict
<1>11. PaidIsActive(s)'
  BY <1>1, <1>2, <1>3, <1>4 DEF PaidIsActive
<1>12. PaidIsResolved(s)'
  BY <1>1, <1>2, <1>3, <1>4 DEF PaidIsResolved
<1>l. ASSUME NEW v \in Workers, LeftPastDue(v, s) PROVE LeftPastDue(v, s)'
  BY <1>1, <1>l DEF LeftPastDue
<1>13. BilledOrRetried(s)'
  <2>1. CASE cur'[w] = s /\ ~Refused(s)
    <3>1. ~Retrying(s) /\ ~Waiting(s)
      BY <1>3, <1>8, <2>1 DEF BilledOrRetried
    <3>2. \A v \in Workers : cur'[v] = s => entry'[v] = None
      BY <1>1, <3>1 DEF Retrying
    <3>3. \A e \in Entries : ~PendingOf(e, s)'
      BY <1>2, <3>1 DEF Waiting
    <3> QED
      BY <1>1, <1>2, <1>3, <1>6, <1>7, <1>l, <3>1, <3>2, <3>3 DEF BilledOrRetried
  <2>2. CASE cur'[w] # s
    <3>1. \A v \in Workers : cur'[v] = s => cur[v] = s
      BY <1>1, <2>2
    <3> QED
      BY <1>1, <1>2, <1>3, <1>6, <1>7, <1>l, <3>1 DEF BilledOrRetried
  <2>3. CASE Refused(s)
    BY <1>2, <2>3 DEF BilledOrRetried
  <2> QED
    BY <2>1, <2>2, <2>3
<1>14. RetryGuards(s)'
  BY <1>2, <1>3, <1>7 DEF RetryGuards
<1>15. PastIsApart(s)'
  BY <1>1, <1>2, <1>3, <1>5 DEF PastIsApart, Apart
<1> QED
  BY <1>9, <1>10, <1>11, <1>12, <1>13, <1>14, <1>15 DEF Orderly

(* Whom nobody is at after a step, and who was neither asked nor told about on  *)
(* that day, is in order if a retry that waits keeps it from being due.      *)
LEMMA OrderAtRest ==
    ASSUME NEW s \in Subscriptions, ~Held(s)', captures'[<<s, today'>>] = 0,
           told'[<<s, today'>>] = {},
           Waiting(s)' =>
               subs'[s].status # "active" /\ \A d \in Days : Captured(s, d)' => Apart(d, today')
    PROVE  Orderly(s)'
<1>1. \A w \in Workers : cur'[w] # s
  BY DEF Held
<1>2. ~Captured(s, today)'
  BY DEF Captured
<1>3. ~Refused(s)'
  BY DEF Refused
<1>4. ~FromDue(s)' /\ ~Retrying(s)'
  BY DEF Held, FromDue, Retrying
<1>5. OneVerdict(s)'
  BY <1>1, <1>3 DEF OneVerdict
<1>6. RetryGuards(s)'
  BY <1>4 DEF RetryGuards, NotDue
<1>7. PastIsApart(s)'
  BY DEF PastIsApart, Apart
<1> QED
  BY <1>1, <1>2, <1>4, <1>5, <1>6, <1>7
     DEF Orderly, UpToDate, PaidIsActive, BilledOrRetried, PaidIsResolved

(* Customers change no status, and nobody is at a subscription before it exists. *)
LEMMA OrderAtCustomer ==
    ASSUME IType, PaidInv, BooksKept, Customer, NEW s \in Subscriptions, Orderly(s)
    PROVE  Orderly(s)'
<1> USE Nones DEF IType, TypeOK
<1>1. UNCHANGED <<today, queue, pc, jobVars, callVars, payVars>>
  BY DEF Customer, CreateSubscription, UpgradeSubscription, DowngradeSubscription,
       CancelSubscription, CustomerOnly
<1>2. CASE Created(s)
  <2>1. subs'[s].status = subs[s].status
    <3>1. ASSUME NEW t \in Subscriptions, NEW c \in Cycles,
                 UpgradeSubscription(t, c) \/ DowngradeSubscription(t, c) \/ CancelSubscription(t)
          PROVE  subs'[s].status = subs[s].status
      <4>1. subs[s] \in Subs
        BY <1>2 DEF Created
      <4>2. CASE UpgradeSubscription(t, c)
        BY <4>1, <4>2 DEF UpgradeSubscription, Subs
      <4>3. CASE DowngradeSubscription(t, c)
        BY <4>1, <4>3 DEF DowngradeSubscription, Subs
      <4>4. CASE CancelSubscription(t)
        BY <4>1, <4>4 DEF CancelSubscription, Subs
      <4> QED
        BY <3>1, <4>2, <4>3, <4>4
    <3>2. ASSUME NEW t \in Subscriptions, NEW c \in Cycles, NEW trial \in BOOLEAN,
                 CreateSubscription(t, c, trial)
          PROVE  subs'[s].status = subs[s].status
      BY <1>2, <3>2 DEF CreateSubscription
    <3>3. Cycles # {}
      BY BillingAssumption
    <3> QED
      BY <3>1, <3>2, <3>3 DEF Customer
  <2>2. subs[s].next > today => subs'[s].next > today
    BY <1>2, CustomerRows, PeriodsAreDays DEF Days
  <2> QED
    BY <1>1, <2>1, <2>2, OrderKept DEF jobVars, callVars, payVars, PendingOf, Pending
<1>3. CASE ~Created(s)
  <2>1. ~Held(s)
    BY <1>3 DEF Linked, Held
  <2>2. ~Waiting(s)
    BY <1>3 DEF Linked, PendingOf, Pending, Waiting
  <2>3. told[<<s, today>>] = {} /\ ~Captured(s, today)
    BY <1>3 DEF BooksKept, PaidInv
  <2>4. <<s, today>> \in Keys
    BY DEF Keys
  <2>5. captures[<<s, today>>] = 0
    BY <2>3, <2>4 DEF Captured
  <2>6. ~Held(s)' /\ ~Waiting(s)' /\ captures'[<<s, today'>>] = 0 /\ told'[<<s, today'>>] = {}
    BY <1>1, <2>1, <2>2, <2>3, <2>5
       DEF jobVars, callVars, payVars, Held, Waiting, PendingOf, Pending
  <2> QED
    BY <2>6, OrderAtRest
<1> QED
  BY <1>2, <1>3

(* A new day: nobody is at s, nothing is asked yet, and what s paid before is  *)
(* a period back if a retry waits.                                          *)
LEMMA OrderAtMidnight ==
    ASSUME IType, PaidInv, BooksKept, NextDay,
           NEW s \in Subscriptions \ overnight', Orderly(s)
    PROVE  Orderly(s)'
<1> USE Nones DEF IType, TypeOK, rowVars, jobVars, callVars, payVars
<1>1. /\ today' = today + 1 /\ ~Held(s) /\ today \in Days /\ today' \in Days
      /\ UNCHANGED <<subs, queue, pc, batch, cur, entry, captures, told>>
  BY PeriodsAreDays DEF NextDay, Days
<1>2. /\ ~Held(s)' /\ \A w \in Workers : cur[w] # s
      /\ Waiting(s)' <=> Waiting(s)
      /\ \A d \in Days : Captured(s, d)' <=> Captured(s, d)
  BY <1>1 DEF Held, PendingOf, Pending, Waiting, Captured
<1>3. today < today' /\ ~(today' <= today)
  BY <1>1, PeriodsAreDays DEF Days
<1>4. told[<<s, today'>>] = {} /\ ~Captured(s, today')
  BY <1>1, <1>3 DEF BooksKept, PaidInv
<1>5. captures[<<s, today'>>] = 0
  <2>1. <<s, today'>> \in Keys
    BY <1>1 DEF Keys
  <2> QED
    BY <1>4, <2>1 DEF Captured
<1>6. Waiting(s) => ~Captured(s, today)
  BY <1>2 DEF Orderly, PaidIsResolved, Waiting
<1>7. Waiting(s) => subs[s].status # "active"
  BY <1>6 DEF Orderly, RetryGuards, NotDue
<1>8. \A d \in Days : Apart(d, today) => Apart(d, today')
  BY <1>1, PeriodsAreDays DEF Apart, Days
<1>9. ASSUME Waiting(s), NEW d \in Days, Captured(s, d) PROVE Apart(d, today')
  BY <1>6, <1>8, <1>9 DEF Orderly, PastIsApart
<1>10. Waiting(s)' =>
         subs'[s].status # "active" /\ \A d \in Days : Captured(s, d)' => Apart(d, today')
  BY <1>1, <1>2, <1>7, <1>9 DEF Apart
<1> QED
  BY <1>1, <1>2, <1>4, <1>5, <1>10, OrderAtRest

LEMMA OrderAtCrash ==
    ASSUME IType, BooksKept, Crash, NEW s \in Whole', Orderly(s)
    PROVE  Orderly(s)'
<1> USE Nones DEF IType, TypeOK, rowVars, payVars
<1>1. /\ UNCHANGED <<today, subs, queue, captures, told>>
      /\ \A w \in Workers : cur'[w] = None
      /\ \A w \in Batchers : batch'[w] = {}
      /\ s \in Subscriptions /\ s \notin faulty' /\ s \notin stray'
  BY DEF Crash, Whole
<1>2. /\ UpToDate(s) /\ OneVerdict(s) /\ PaidIsActive(s)
      /\ RetryGuards(s) /\ PaidIsResolved(s) /\ PastIsApart(s)
  BY DEF Orderly
<1>3. /\ Refused(s)' <=> Refused(s)
      /\ \A d \in Days : Captured(s, d)' <=> Captured(s, d)
      /\ Captured(s, today)' <=> Captured(s, today)
      /\ UNCHANGED <<captures[<<s, today>>], told[<<s, today>>]>>
      /\ \A e \in Entries : PendingOf(e, s)' <=> PendingOf(e, s)
      /\ Waiting(s)' <=> Waiting(s)
      /\ NotDue(s)' <=> NotDue(s)
  BY <1>1 DEF Refused, Captured, PendingOf, Pending, Waiting, NotDue
<1>4. \A w \in Workers : cur'[w] # s
  BY <1>1
<1>5. ~Held(s)' /\ ~FromDue(s)' /\ ~Retrying(s)'
  BY <1>1, <1>4 DEF Held, FromDue, Retrying
<1>6. \A w \in Workers : cur[w] = s => pc[w] \notin {"period", "advance"}
  BY <1>1 DEF Crash, AtPayment, Called
<1>7. ASSUME NEW w \in Workers, cur[w] = s, pc[w] = "report", Waiting(s)
      PROVE  subs[s].status = "past_due"
  <2>1. s \notin LeftStray(w, queue)
    BY <1>1, <1>7 DEF Crash
  <2> QED
    BY <1>7, <2>1 DEF LeftStray, Waits, Waiting, PendingOf, Pending
<1>8. Captured(s, today) => subs[s].status = "active"
  BY <1>2, <1>6 DEF PaidIsActive, Called
<1>9. ~(Waiting(s) /\ Captured(s, today))
  BY <1>2, <1>6, <1>7, <1>8 DEF PaidIsResolved, Waiting, Called
<1>10. UpToDate(s)' /\ PaidIsActive(s)'
  BY <1>1, <1>3, <1>4, <1>8 DEF UpToDate, PaidIsActive
<1>11. OneVerdict(s)'
  BY <1>1, <1>2, <1>3, <1>4 DEF OneVerdict
<1>12. BilledOrRetried(s)'
  BY <1>4, <1>5 DEF BilledOrRetried
<1>13. RetryGuards(s)'
  BY <1>2, <1>3, <1>5 DEF RetryGuards
<1>14. PaidIsResolved(s)'
  BY <1>1, <1>3, <1>9 DEF PaidIsResolved, Waiting
<1>15. PastIsApart(s)'
  BY <1>1, <1>2, <1>3, <1>5 DEF PastIsApart, Apart
<1> QED
  BY <1>10, <1>11, <1>12, <1>13, <1>14, <1>15 DEF Orderly

LEMMA StepOnce == IType /\ PaidInv /\ OnceInv /\ [Next]_vars => OnceInv'
<1> SUFFICES ASSUME IType, PaidInv, OnceInv, [Next]_vars PROVE OnceInv'
  OBVIOUS
<1>1. BooksKept /\ BooksKept'
  BY BooksStep DEF OnceInv
<1>w. \A s \in Whole' : s \in Whole
  BY WholeShrinks DEF Whole
<1>2. ASSUME NEW s \in Whole' PROVE Orderly(s)'
  <2>1. /\ s \in Subscriptions /\ s \in Whole' /\ Orderly(s)
        /\ s \in Subscriptions \ overnight' /\ s \in Subscriptions \ faulty
    BY <1>w, <1>2 DEF Whole, OnceInv
  <2>2. ASSUME NEW w \in Workers, Mark(w) \/ Charge(w) \/ Report(w) PROVE Orderly(s)'
    BY <1>1, <2>1, <2>2, OrderElsewhere, OrderAtMark, OrderAtCharge, OrderAtReport
  <2>3. ASSUME NEW w \in Workers, Begin(w) PROVE Orderly(s)'
    BY <1>1, <2>1, <2>3, OrderAtBegin
  <2>4. ASSUME NEW w \in Batchers, NEW t \in Subscriptions, TakeNext(w, t) \/ SkipJob(w, t)
        PROVE  Orderly(s)'
    BY <1>1, <2>1, <2>4, OrderAtBatch DEF Workers
  <2>5. CASE Customer \/ NextDay \/ Crash
    BY <1>1, <2>1, <2>5, OrderAtCustomer, OrderAtMidnight, OrderAtCrash
  <2>6. CASE UNCHANGED vars
    BY <2>1, <2>6, OrderKept
       DEF vars, rowVars, jobVars, callVars, payVars, IType, TypeOK, PendingOf, Pending
  <2> QED
    BY <2>2, <2>3, <2>4, <2>5, <2>6 DEF Next, Work
<1>3. OncePerPeriod'
  <2>1. CASE UNCHANGED captures
    BY <1>w, <2>1 DEF OnceInv, OncePerPeriod, Captured
  <2>2. ASSUME NEW w \in Workers, Charge(w) PROVE OncePerPeriod'
    <3> SUFFICES ASSUME NEW s \in Whole', NEW c \in Days, NEW d \in Days
                 PROVE  /\ captures'[<<s, d>>] <= 1
                        /\ Captured(s, c)' /\ Captured(s, d)' /\ c < d => Apart(c, d)
      BY DEF OncePerPeriod, Apart
    <3>1. s \in Whole /\ Orderly(s) /\ s \in Subscriptions /\ s \notin faulty'
      BY <1>w DEF OnceInv, Whole
    <3>2. /\ captures[<<s, d>>] <= 1
          /\ Captured(s, c) /\ Captured(s, d) /\ c < d => Apart(c, d)
      BY <3>1 DEF OnceInv, OncePerPeriod, Apart
    <3>3. CASE UNCHANGED <<captures[<<s, c>>], captures[<<s, d>>]>>
      BY <3>2, <3>3 DEF Captured
    <3>4. CASE Capture(w) /\ cur[w] = s
      <4>1. pc[w] = "charge" /\ captures' = [captures EXCEPT ![Key(w)] = IF @ = 0 THEN 1 ELSE 2]
        BY <3>1, <3>4 DEF Capture, Charging, Taken, Fault
      <4>2. day[w] = today /\ Held(s) /\ today \in Days
        BY <3>1, <3>4, <4>1 DEF Orderly, UpToDate, Called, Held, IType, TypeOK
      <4>3. Key(w) = <<s, today>> /\ Key(w) \in Keys
        BY <3>1, <3>4, <4>2 DEF Key, Keys
      <4>4. captures[<<s, today>>] = 0
        BY <3>1, <3>4, <4>1 DEF Orderly, OneVerdict, Charging
      <4>5. /\ captures'[<<s, today>>] = 1
            /\ \A n \in Days : n # today => captures'[<<s, n>>] = captures[<<s, n>>]
        BY <3>1, <4>1, <4>3, <4>4 DEF IType, TypeOK, Keys
      <4>6. captures'[<<s, d>>] <= 1
        BY <3>2, <4>5
      <4>7. \A n \in Days : Captured(s, n)' => Captured(s, n) \/ n = today
        BY <4>5 DEF Captured
      <4>8. ASSUME Captured(s, c)', Captured(s, d)', c < d PROVE Apart(c, d)
        <5>1. \A n \in Days : Captured(s, n) => n <= today
          BY <3>1 DEF PaidInv
        <5>2. c # today /\ Captured(s, c)
          BY <4>2, <4>7, <4>8, <5>1, PeriodsAreDays DEF Days
        <5>3. CASE Captured(s, d)
          BY <3>2, <4>8, <5>2, <5>3
        <5>4. CASE d = today
          BY <3>1, <4>2, <5>2, <5>4 DEF Orderly, PastIsApart
        <5> QED
          BY <4>7, <4>8, <5>3, <5>4
      <4> QED
        BY <4>6, <4>8
    <3>5. CASE Decline(w) /\ cur[w] = s
      BY <3>1, <3>3, <3>5 DEF Decline, Fault
    <3>6. CASE (Capture(w) \/ Decline(w)) /\ cur[w] # s
      <4>1. Taken(Key(w)) \/ TakenTwice(Key(w)) \/ UNCHANGED captures
        BY <3>6 DEF Capture, Decline
      <4>2. <<s, c>> # Key(w) /\ <<s, d>> # Key(w) /\ <<s, c>> \in Keys /\ <<s, d>> \in Keys
        BY <3>1, <3>6 DEF Key, Keys
      <4> QED
        BY <3>3, <4>1, <4>2 DEF Taken, TakenTwice, IType, TypeOK
    <3>7. CASE ~(Capture(w) \/ Decline(w))
      BY <2>2, <3>3, <3>7, BooksFrame
    <3> QED
      BY <3>4, <3>5, <3>6, <3>7
  <2>3. CASE Customer \/ NextDay \/ Crash
    BY <2>1, <2>3 DEF Customer, CreateSubscription, UpgradeSubscription, DowngradeSubscription,
       CancelSubscription, CustomerOnly, NextDay, Crash, payVars
  <2>4. ASSUME NEW w \in Workers, Begin(w) \/ Mark(w) \/ Report(w) PROVE UNCHANGED captures
    BY <2>4 DEF Begin, SelectDue, TakeRetry, Mark, Report, payVars
  <2>5. ASSUME NEW w \in Workers, NEW t \in Subscriptions, TakeNext(w, t) \/ SkipJob(w, t)
        PROVE  UNCHANGED captures
    BY <2>5 DEF TakeNext, SkipJob, payVars
  <2> QED
    BY <2>1, <2>2, <2>3, <2>4, <2>5 DEF Next, Work, vars, payVars
<1> QED
  BY <1>1, <1>2, <1>3 DEF OnceInv

(* A period is paid once, for any number of days, workers, calls side by side  *)
(* and faults: of a subscription that is none of the four kinds the code bills *)
(* twice, no day is captured twice, and two payments are at least a period    *)
(* apart.                                                                  *)
THEOREM PeriodPaidOnce == Spec => []OncePerPeriod
<1>1. OnceInv => OncePerPeriod
  BY DEF OnceInv
<1> QED
  BY <1>1, TypesAndLinks, InitPaid, StepPaid, InitOnce, StepOnce, PTL DEF Spec

=============================================================================
