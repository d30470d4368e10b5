-------------------------- MODULE RetryQueueProofs --------------------------
(***************************************************************************)
(* What RetryQueue guarantees for any number of entries, subscriptions and  *)
(* concurrent requests.  Control ties a worker's place to the entry it      *)
(* holds; Counted says, for an entry no two workers were at together, that  *)
(* its attempt has counted every charge made.                               *)
(***************************************************************************)
EXTENDS RetryQueue, TLAPS

(* Where everybody is: who works holds an entry that exists, and an entry is *)
(* in the tick's batch or in its hands, never both.                         *)
Control ==
    /\ \A w \in Workers : pc[w] \in Busy <=> cur[w] # None
    /\ \A w \in Workers : pc[w] # "cancel"
    /\ \A c \in Callers : pc[c] # "next"
    /\ \A x \in Cancellers : pc[x] \in {"idle", "cancel"} /\ (pc[x] = "cancel" <=> cur[x] # None)
    /\ pc[Tick] = "idle" => batch = {}
    /\ \A w \in Workers \cup Cancellers : cur[w] # None => Exists(cur[w])
    /\ \A e \in batch : Exists(e)
    /\ cur[Tick] \notin batch

IType == TypeOK /\ Control

-----------------------------------------------------------------------------
LEMMA WorkerFacts == /\ Workers \cap Cancellers = {} /\ Tick \in Workers
                     /\ Callers \subseteq Workers /\ Tick \notin Callers
                     /\ None \notin Entries /\ None \notin Rows
                     /\ MaxAttempts \in Nat /\ MaxAttempts >= 1
  BY RetryQueueAssumption DEF Workers

LEMMA OutcomeFacts == /\ Success \in Outcomes /\ DeclineCodes \subseteq Codes
                      /\ Codes \subseteq Outcomes
                      /\ {"SUBSCRIPTION_ERROR", "CHARGE_ERROR"} \subseteq Codes
                      /\ \A o \in Outcomes : o # Success => o \in Codes
  BY DEF Outcomes, Codes

(* What UpdateRetryAfterAttempt writes, field by field.                     *)
LEMMA AttemptedRow ==
  ASSUME NEW row \in Rows, NEW a \in ValidAttempts, NEW o \in Outcomes
  PROVE  /\ o = Success =>
              /\ Attempted(row, a, o).status = "succeeded"
              /\ Attempted(row, a, o).attempt = row.attempt
              /\ Attempted(row, a, o) \in Rows
         /\ o # Success =>
              /\ Attempted(row, a, o).attempt = a + 1
              /\ Attempted(row, a, o).status \in {"pending", "failed", "exhausted"}
              /\ Attempted(row, a, o).status = "pending" =>
                   a + 1 <= MaxAttempts /\ ClassifyError(o) = "soft"
              /\ a + 1 \in ValidAttempts => Attempted(row, a, o) \in Rows
  <1>1. CASE o = Success
    BY <1>1 DEF Attempted, Rows, Statuses, Resolved
  <1>2. CASE o # Success
    <2>1. o \in Codes /\ Attempted(row, a, o) = Failed(row, a + 1, o)
      BY <1>2, OutcomeFacts DEF Attempted
    <2>2. a + 1 \in Nat
      BY WorkerFacts DEF ValidAttempts
    <2>3. CASE a + 1 > MaxAttempts
      BY <1>2, <2>1, <2>2, <2>3 DEF Failed, Rows, Statuses, Resolved
    <2>4. CASE ~(a + 1 > MaxAttempts) /\ ClassifyError(o) = "hard"
      BY <1>2, <2>1, <2>2, <2>4 DEF Failed, Rows, Statuses, Resolved
    <2>5. CASE ~(a + 1 > MaxAttempts) /\ ClassifyError(o) # "hard"
      <3>1. ClassifyError(o) = "soft"
        BY <2>5 DEF ClassifyError
      <3>2. a + 1 <= MaxAttempts
        BY <2>2, <2>5, WorkerFacts
      <3> QED BY <1>2, <2>1, <2>2, <2>5, <3>1, <3>2 DEF Failed, Rows, Statuses, Resolved
    <2> QED BY <2>3, <2>4, <2>5
  <1> QED BY <1>1, <1>2

(* Relabelling a row keeps everything else of it.                           *)
LEMMA Relabelled ==
  ASSUME TypeOK, NEW e \in Entries, Exists(e), NEW s \in Statuses
  PROVE  /\ SetStatus(e, s) \in [Entries -> Rows \cup {None}]
         /\ SetStatus(e, s)[e].status = s
         /\ SetStatus(e, s)[e].attempt = table[e].attempt
         /\ SetStatus(e, s)[e] \in Rows
         /\ \A d \in Entries : d # e => SetStatus(e, s)[d] = table[d]
  <1>1. table[e] \in Rows /\ table \in [Entries -> Rows \cup {None}]
    BY DEF TypeOK, Exists
  <1>2. SetStatus(e, s)[e] = [table[e] EXCEPT !.status = s]
    BY <1>1 DEF SetStatus
  <1>3. [table[e] EXCEPT !.status = s] \in Rows
    BY <1>1 DEF Rows
  <1>4. /\ [table[e] EXCEPT !.status = s].status = s
        /\ [table[e] EXCEPT !.status = s].attempt = table[e].attempt
    BY <1>1 DEF Rows
  <1>5. \A d \in Entries : d # e => SetStatus(e, s)[d] = table[d]
    BY <1>1 DEF SetStatus
  <1>6. SetStatus(e, s) \in [Entries -> Rows \cup {None}]
    BY <1>1, <1>2, <1>3 DEF SetStatus
  <1> QED BY <1>2, <1>3, <1>4, <1>5, <1>6

-----------------------------------------------------------------------------
LEMMA TypeInit == Init => IType
  <1> SUFFICES ASSUME Init PROVE IType
    OBVIOUS
  <1>1. TypeOK
    BY WorkerFacts, OutcomeFacts DEF Init, TypeOK, ValidAttempts
  <1>2. Control
    BY WorkerFacts DEF Init, Control, Busy, Workers
  <1> QED BY <1>1, <1>2 DEF IType

LEMMA TypeSchedule ==
  ASSUME IType, NEW s \in Subscriptions, NEW e \in Entries, NEW code \in DeclineCodes,
         Schedule(s, e, code)
  PROVE  IType'
  <1>1. FreshRow(s, code) \in Rows
    BY WorkerFacts, OutcomeFacts DEF FreshRow, Rows, ValidAttempts, Statuses
  <1>2. table' \in [Entries -> Rows \cup {None}]
    BY <1>1 DEF Schedule, IType, TypeOK
  <1>3. \A d \in Entries : Exists(d) => Exists(d)'
    BY <1>1, WorkerFacts DEF Schedule, IType, TypeOK, Exists
  <1>4. TypeOK'
    BY <1>2 DEF Schedule, IType, TypeOK
  <1>5. Control'
    BY <1>3, WorkerFacts DEF Schedule, IType, TypeOK, Control
  <1> QED BY <1>4, <1>5 DEF IType

LEMMA TypeFallDue ==
  ASSUME IType, NEW e \in Entries, FallDue(e)
  PROVE  IType'
  <1>1. table[e] \in Rows
    BY DEF FallDue, Pending, Exists, IType, TypeOK
  <1>2. [table[e] EXCEPT !.due = TRUE] \in Rows
    BY <1>1 DEF Rows
  <1>3. table' \in [Entries -> Rows \cup {None}]
    BY <1>2 DEF FallDue, IType, TypeOK
  <1>4. \A d \in Entries : Exists(d) => Exists(d)'
    BY <1>2, WorkerFacts DEF FallDue, IType, TypeOK, Exists
  <1>5. TypeOK'
    BY <1>3 DEF FallDue, IType, TypeOK
  <1>6. Control'
    BY <1>4, WorkerFacts DEF FallDue, IType, TypeOK, Control
  <1> QED BY <1>5, <1>6 DEF IType

LEMMA TypeSelect ==
  ASSUME IType, Select
  PROVE  IType'
  <1>1. TypeOK'
    BY WorkerFacts DEF Select, IType, TypeOK, Due, Moved
  <1>2. Control'
    BY WorkerFacts DEF Select, IType, TypeOK, Control, Due, Pending, Exists, Moved, Busy
  <1> QED BY <1>1, <1>2 DEF IType

LEMMA TypeTakeNext ==
  ASSUME IType, NEW e \in Entries, TakeNext(e)
  PROVE  IType'
  <1>1. TypeOK'
    BY WorkerFacts DEF TakeNext, IType, TypeOK, Moved, Busy
  <1>2. Control'
    BY WorkerFacts DEF TakeNext, IType, TypeOK, Control, Exists, Moved, Busy
  <1> QED BY <1>1, <1>2 DEF IType

LEMMA TypeRetryNow ==
  ASSUME IType, NEW c \in Callers, NEW e \in Entries, RetryNow(c, e)
  PROVE  IType'
  <1>1. TypeOK'
    BY WorkerFacts DEF RetryNow, IType, TypeOK, Moved, Busy
  <1>2. Control'
    BY WorkerFacts DEF RetryNow, IType, TypeOK, Control, Retryable, Pending, Exists, Moved, Busy
  <1> QED BY <1>1, <1>2 DEF IType

LEMMA BusyWorker ==
  ASSUME IType, NEW w \in Workers, pc[w] \in Busy
  PROVE  cur[w] \in Entries /\ Exists(cur[w]) /\ table[cur[w]] \in Rows
  BY WorkerFacts DEF IType, TypeOK, Control, Exists, Busy

LEMMA TypeMark ==
  ASSUME IType, NEW w \in Workers, Mark(w)
  PROVE  IType'
  <1>1. cur[w] \in Entries /\ Exists(cur[w])
    BY BusyWorker DEF Mark, Busy
  <1>2. table' = table \/ table' = SetStatus(cur[w], "processing")
    BY DEF Mark
  <1>3. /\ SetStatus(cur[w], "processing") \in [Entries -> Rows \cup {None}]
        /\ SetStatus(cur[w], "processing")[cur[w]] \in Rows
        /\ \A d \in Entries : d # cur[w] => SetStatus(cur[w], "processing")[d] = table[d]
    BY <1>1, Relabelled DEF IType, Statuses
  <1>4. TypeOK'
    BY <1>2, <1>3 DEF Mark, IType, TypeOK, Moved, Busy
  <1>5. \A d \in Entries : Exists(d) => Exists(d)'
    BY <1>2, <1>3, WorkerFacts DEF Exists
  <1>6. Control'
    BY <1>5, WorkerFacts DEF Mark, IType, TypeOK, Control, Moved, Busy
  <1> QED BY <1>4, <1>6 DEF IType

(* Steps of ProcessRetry that leave the table alone and keep the entry.      *)
LEMMA TypeCalls ==
  ASSUME IType, NEW w \in Workers,
         GetSubscription(w) \/ ChargeDead(w) \/ Charge(w) \/ \E o \in Outcomes : Answer(w, o)
  PROVE  IType'
  <1>1. CASE GetSubscription(w)
    <2>1. TypeOK'
      BY <1>1, OutcomeFacts DEF GetSubscription, IType, TypeOK, Moved, Busy
    <2>2. Control'
      BY <1>1, WorkerFacts DEF GetSubscription, IType, TypeOK, Control, Exists, Moved, Busy
    <2> QED BY <2>1, <2>2 DEF IType
  <1>2. CASE ChargeDead(w)
    <2>1. TypeOK'
      BY <1>2, OutcomeFacts DEF ChargeDead, IType, TypeOK, Moved, Busy
    <2>2. Control'
      BY <1>2, WorkerFacts DEF ChargeDead, IType, TypeOK, Control, Exists, Moved, Busy
    <2> QED BY <2>1, <2>2 DEF IType
  <1>3. CASE Charge(w)
    <2>0. cur[w] \in Entries
      BY <1>3, BusyWorker DEF Charge, Busy
    <2>1. charges' \in [Entries -> 0 .. MaxAttempts + 1]
      BY <1>3, <2>0, WorkerFacts DEF Charge, IType, TypeOK
    <2>2. TypeOK'
      BY <1>3, <2>1 DEF Charge, IType, TypeOK, Moved, Busy
    <2>3. Control'
      BY <1>3, WorkerFacts DEF Charge, IType, TypeOK, Control, Exists, Moved, Busy
    <2> QED BY <2>2, <2>3 DEF IType
  <1>4. ASSUME NEW o \in Outcomes, Answer(w, o) PROVE IType'
    <2>0. cur[w] \in Entries
      BY <1>4, BusyWorker DEF Answer, Busy
    <2>1. TypeOK'
      BY <1>4, <2>0 DEF Answer, IType, TypeOK, Moved, Busy
    <2>2. Control'
      BY <1>4, WorkerFacts DEF Answer, IType, TypeOK, Control, Exists, Moved, Busy
    <2> QED BY <2>1, <2>2 DEF IType
  <1> QED BY <1>1, <1>2, <1>3, <1>4

(* ProcessRetry returns: its worker lets go of the entry.                    *)
LEMMA ControlFinish ==
  ASSUME IType, NEW w \in Workers, pc[w] \in Busy, Finish(w), UNCHANGED batch,
         \A d \in Entries : Exists(d) => Exists(d)'
  PROVE  Control' /\ pc' \in [Workers \cup Cancellers -> {"idle", "next", "cancel"} \cup Busy]
                  /\ cur' \in [Workers \cup Cancellers -> Entries \cup {None}]
  <1>1. /\ pc' \in [Workers \cup Cancellers -> {"idle", "next", "cancel"} \cup Busy]
        /\ cur' \in [Workers \cup Cancellers -> Entries \cup {None}]
    BY DEF Finish, Moved, IType, TypeOK
  <1>2. /\ cur'[w] = None /\ pc'[w] \in {"idle", "next"}
        /\ pc'[w] = "next" => w = Tick
        /\ w = Tick /\ pc'[w] = "idle" => batch = {}
        /\ \A v \in Workers \cup Cancellers : v # w => cur'[v] = cur[v] /\ pc'[v] = pc[v]
    BY DEF Finish, Moved, IType, TypeOK
  <1>3. \A e \in batch : e \in Entries
    BY DEF IType, TypeOK
  <1>4. Control
    BY DEF IType
  <1>5. \A v \in Workers \cup Cancellers : cur[v] # None => cur[v] \in Entries
    BY DEF IType, TypeOK
  <1>6. (\A v \in Workers : pc[v] \in Busy <=> cur[v] # None)'
    BY <1>2, <1>4 DEF Control, Busy
  <1>7. (\A v \in Workers : pc[v] # "cancel")' /\ (\A c \in Callers : pc[c] # "next")'
    BY <1>2, <1>4, WorkerFacts DEF Control
  <1>8. (\A x \in Cancellers : pc[x] \in {"idle", "cancel"} /\ (pc[x] = "cancel" <=> cur[x] # None))'
    BY <1>2, <1>4, WorkerFacts DEF Control
  <1>9. (pc[Tick] = "idle" => batch = {})'
    BY <1>2, <1>4, WorkerFacts DEF Control
  <1>10. (\A v \in Workers \cup Cancellers : cur[v] # None => Exists(cur[v]))'
    <2> SUFFICES ASSUME NEW v \in Workers \cup Cancellers, cur'[v] # None
                 PROVE  Exists(cur[v])'
      OBVIOUS
    <2>1. cur'[v] = cur[v] /\ cur[v] \in Entries /\ Exists(cur[v])
      BY <1>2, <1>4, <1>5 DEF Control
    <2> QED BY <2>1 DEF Exists
  <1>11. (\A e \in batch : Exists(e))' /\ (cur[Tick] \notin batch)'
    BY <1>2, <1>3, <1>4, WorkerFacts DEF Control
  <1> QED BY <1>1, <1>6, <1>7, <1>8, <1>9, <1>10, <1>11 DEF Control

LEMMA TypeReread ==
  ASSUME IType, NEW w \in Workers, Reread(w)
  PROVE  IType'
  <1>1. cur[w] \in Entries /\ Exists(cur[w]) /\ table[cur[w]] \in Rows /\ pc[w] \in Busy
    BY BusyWorker DEF Reread, Busy
  <1>2. table[cur[w]].attempt \in ValidAttempts
    BY <1>1 DEF Rows
  <1>3. CASE Finish(w) /\ UNCHANGED seen
    <2>1. \A d \in Entries : Exists(d) => Exists(d)'
      BY DEF Reread, Exists
    <2>2. Control' /\ pc' \in [Workers \cup Cancellers -> {"idle", "next", "cancel"} \cup Busy]
                   /\ cur' \in [Workers \cup Cancellers -> Entries \cup {None}]
      BY <1>1, <1>3, <2>1, ControlFinish DEF Reread
    <2>3. TypeOK'
      BY <1>3, <2>2 DEF Reread, IType, TypeOK
    <2> QED BY <2>2, <2>3 DEF IType
  <1>4. CASE /\ seen' = [seen EXCEPT ![w] = table[cur[w]].attempt]
             /\ Moved(w, "write") /\ UNCHANGED cur
    <2>1. TypeOK'
      BY <1>2, <1>4 DEF Reread, IType, TypeOK, Moved, Busy
    <2>2. Control'
      BY <1>4, WorkerFacts DEF Reread, IType, TypeOK, Control, Exists, Moved, Busy
    <2> QED BY <2>1, <2>2 DEF IType
  <1> QED BY <1>3, <1>4 DEF Reread

(* The row Write leaves: the old one, or what the attempt makes of it.       *)
LEMMA WriteRow ==
  ASSUME IType, NEW w \in Workers, Write(w)
  PROVE  LET e == cur[w]
             row == Attempted(table[e], seen[w], outcome[w])
         IN  /\ e \in Entries /\ table[e] \in Rows /\ pc[w] = "write"
             /\ seen[w] \in ValidAttempts /\ outcome[w] \in Outcomes
             /\ \/ UNCHANGED table
                \/ /\ w \notin expired
                   /\ row \in Rows
                   /\ table' = [table EXCEPT ![e] = row]
             /\ table' \in [Entries -> Rows \cup {None}]
             /\ \A d \in Entries : Exists(d) => Exists(d)'
  <1> DEFINE e == cur[w]
             row == Attempted(table[e], seen[w], outcome[w])
  <1>1. e \in Entries /\ table[e] \in Rows /\ pc[w] = "write"
    BY BusyWorker DEF Write, Busy
  <1>2. seen[w] \in ValidAttempts /\ outcome[w] \in Outcomes
    BY DEF IType, TypeOK
  <1>3. row.attempt \in ValidAttempts => row \in Rows
    BY <1>1, <1>2, AttemptedRow
  <1>4. \/ UNCHANGED table
        \/ w \notin expired /\ Accepts(e, row) /\ table' = [table EXCEPT ![e] = row]
    BY DEF Write, DbMay
  <1>5. Accepts(e, row) => row \in Rows
    BY <1>3 DEF Accepts
  <1>6. table' \in [Entries -> Rows \cup {None}]
    BY <1>1, <1>4, <1>5 DEF IType, TypeOK
  <1>7. \A d \in Entries : Exists(d) => Exists(d)'
    BY <1>1, <1>4, <1>5, WorkerFacts DEF IType, TypeOK, Exists
  <1> QED BY <1>1, <1>2, <1>4, <1>5, <1>6, <1>7

LEMMA TypeWrite ==
  ASSUME IType, NEW w \in Workers, Write(w)
  PROVE  IType'
  <1>1. /\ table' \in [Entries -> Rows \cup {None}]
        /\ \A d \in Entries : Exists(d) => Exists(d)'
        /\ pc[w] \in Busy
    BY WriteRow DEF Busy
  <1>2. Control' /\ pc' \in [Workers \cup Cancellers -> {"idle", "next", "cancel"} \cup Busy]
                 /\ cur' \in [Workers \cup Cancellers -> Entries \cup {None}]
    BY <1>1, ControlFinish DEF Write
  <1>3. TypeOK'
    BY <1>1, <1>2 DEF Write, IType, TypeOK
  <1> QED BY <1>2, <1>3 DEF IType

LEMMA TypeCancelCheck ==
  ASSUME IType, NEW c \in Cancellers, NEW e \in Entries, CancelCheck(c, e)
  PROVE  IType'
  <1>1. TypeOK'
    BY WorkerFacts DEF CancelCheck, IType, TypeOK, Moved, Busy
  <1>2. Control'
    BY WorkerFacts DEF CancelCheck, IType, TypeOK, Control, Exists, Moved, Busy
  <1> QED BY <1>1, <1>2 DEF IType

LEMMA TypeCancelWrite ==
  ASSUME IType, NEW c \in Cancellers, CancelWrite(c)
  PROVE  IType'
  <1>1. cur[c] \in Entries /\ Exists(cur[c])
    BY WorkerFacts DEF CancelWrite, IType, TypeOK, Control
  <1>2. table' = table \/ table' = SetStatus(cur[c], "canceled")
    BY DEF CancelWrite
  <1>3. /\ SetStatus(cur[c], "canceled") \in [Entries -> Rows \cup {None}]
        /\ SetStatus(cur[c], "canceled")[cur[c]] \in Rows
        /\ \A d \in Entries : d # cur[c] => SetStatus(cur[c], "canceled")[d] = table[d]
    BY <1>1, Relabelled DEF IType, Statuses, Resolved
  <1>4. TypeOK'
    BY <1>2, <1>3 DEF CancelWrite, IType, TypeOK, Moved
  <1>5. \A d \in Entries : Exists(d) => Exists(d)'
    BY <1>2, <1>3, WorkerFacts DEF Exists
  <1>6. Control'
    BY <1>5, WorkerFacts DEF CancelWrite, IType, TypeOK, Control, Moved, Busy
  <1> QED BY <1>4, <1>6 DEF IType

LEMMA TypeExpireCrash ==
  ASSUME IType, (\E w \in Workers : Expire(w)) \/ Crash \/ UNCHANGED vars
  PROVE  IType'
  <1>1. TypeOK'
    BY DEF Expire, Crash, vars, IType, TypeOK
  <1>2. Control'
    BY WorkerFacts DEF Expire, Crash, vars, IType, TypeOK, Control, Exists, Busy
  <1> QED BY <1>1, <1>2 DEF IType

LEMMA TypeStep == IType /\ [Next]_vars => IType'
  <1> SUFFICES ASSUME IType, [Next]_vars PROVE IType'
    OBVIOUS
  <1>1. ASSUME NEW w \in Workers, ProcessRetry(w) PROVE IType'
    BY <1>1, TypeMark, TypeCalls, TypeReread, TypeWrite DEF ProcessRetry
  <1>2. CASE TickStep
    BY <1>1, <1>2, TypeSelect, TypeTakeNext, WorkerFacts DEF TickStep
  <1>3. ASSUME NEW c \in Callers, ProcessRetry(c) \/ \E e \in Entries : RetryNow(c, e)
        PROVE  IType'
    BY <1>1, <1>3, TypeRetryNow, WorkerFacts
  <1>4. ASSUME NEW c \in Cancellers, CancelWrite(c) \/ \E e \in Entries : CancelCheck(c, e)
        PROVE  IType'
    BY <1>4, TypeCancelWrite, TypeCancelCheck
  <1> QED BY <1>2, <1>3, <1>4, TypeSchedule, TypeFallDue, TypeExpireCrash DEF Next

LEMMA TypeInvariant == Spec => []IType
  <1>1. Init => IType
    BY TypeInit
  <1>2. IType /\ [Next]_vars => IType'
    BY TypeStep
  <1> QED BY <1>1, <1>2, PTL DEF Spec

(* The types, whatever fails and however many requests there are; the range  *)
(* of attempt is the table's CHECK.                                         *)
THEOREM TypeCorrect == Spec => []TypeOK
  <1>1. IType => TypeOK
    BY DEF IType
  <1> QED BY <1>1, TypeInvariant, PTL

-----------------------------------------------------------------------------
(* Statements fail only on a dead context.                                  *)
ReliableTable == ~DbErrors

Closed == {"succeeded", "failed", "exhausted"}

(* Entry e may be charged: every earlier charge has raised its attempt, and  *)
(* none of them was final.                                                  *)
Ready(e) ==
    charges[e] < table[e].attempt /\ table[e].attempt <= MaxAttempts /\ e \notin over

Counts(e) == charges[e] <= table[e].attempt /\ table[e].attempt <= MaxAttempts

Alone(e) == \A v, w \in Workers : v \in Holders(e) /\ w \in Holders(e) => v = w

(* What the table says of e is true of e's history.                         *)
Books(e) ==
    /\ ~Exists(e) => charges[e] = 0 /\ e \notin over
    /\ charges[e] <= MaxAttempts
    /\ Pending(e) => Ready(e)
    /\ Exists(e) /\ table[e].status \in Closed => Holders(e) = {}

(* What a worker that is at e knows at each of its steps.                   *)
Knows(e, w) ==
    cur[w] = e =>
      /\ pc[w] \in {"mark", "subscription", "charge"} => Ready(e)
      /\ pc[w] \in {"subscription", "charge"} /\ w \notin expired => ~Pending(e)
      /\ pc[w] = "await" => ~Pending(e) /\ Counts(e) /\ e \notin over
      /\ pc[w] \in {"reread", "write"} => Counts(e) /\ (e \in over => Final(outcome[w]))
      /\ pc[w] = "write" => seen[w] = table[e].attempt

Counted(e) ==
    e \notin contended =>
      /\ Alone(e) /\ Books(e)
      /\ e \in batch => Ready(e)
      /\ \A w \in Workers : Knows(e, w)

IInv == IType /\ \A e \in Entries : Counted(e)

(* A step that keeps e's holders where they are keeps Counted(e), even if it *)
(* cancels e or a context.                                                  *)
LEMMA Frame ==
  ASSUME IType, NEW e \in Entries, Counted(e),
         Exists(e)' <=> Exists(e),
         Exists(e) => /\ table'[e].attempt = table[e].attempt
                      /\ table'[e].status \in {table[e].status, "canceled"},
         charges'[e] = charges[e], e \in over' <=> e \in over,
         e \in batch' <=> e \in batch, e \notin contended' => e \notin contended,
         \A w \in Workers : /\ cur'[w] = e <=> cur[w] = e
                            /\ cur[w] = e => /\ pc'[w] = pc[w]
                                             /\ outcome'[w] = outcome[w]
                                             /\ seen'[w] = seen[w]
                                             /\ w \in expired => w \in expired'
  PROVE  Counted(e)'
  <1> SUFFICES ASSUME e \notin contended'
               PROVE  (/\ Alone(e) /\ Books(e)
                       /\ e \in batch => Ready(e)
                       /\ \A w \in Workers : Knows(e, w))'
    BY DEF Counted
  <1>1. /\ Alone(e) /\ Books(e)
        /\ e \in batch => Ready(e)
        /\ \A w \in Workers : Knows(e, w)
    BY DEF Counted
  <1>2. Holders(e)' = Holders(e)
    BY WorkerFacts DEF Holders
  <1>3. Pending(e)' => Pending(e)
    BY DEF Pending
  <1>4. Exists(e) => (Ready(e) => Ready(e)') /\ (Counts(e) => Counts(e)')
    BY DEF Ready, Counts
  <1>5. (\A w \in Workers : cur[w] = e => Exists(e)) /\ (e \in batch => Exists(e))
    BY WorkerFacts DEF IType, Control
  <1>6. Alone(e)'
    BY <1>1, <1>2 DEF Alone
  <1>7. Books(e)'
    BY <1>1, <1>2, <1>3, <1>4 DEF Books, Closed, Pending
  <1>8. (e \in batch => Ready(e))'
    BY <1>1, <1>4, <1>5
  <1>9. (\A w \in Workers : Knows(e, w))'
    <2> SUFFICES ASSUME NEW w \in Workers, cur'[w] = e PROVE Knows(e, w)'
      BY DEF Knows
    <2>1. Knows(e, w) /\ Exists(e) /\ cur[w] = e /\ pc'[w] = pc[w]
      BY <1>1, <1>5
    <2>2. outcome'[w] = outcome[w] /\ seen'[w] = seen[w] /\ (w \in expired => w \in expired')
      BY <2>1
    <2>3. Final(outcome'[w]) <=> Final(outcome[w])
      BY <2>2
    <2>4. table'[e].attempt = table[e].attempt
      BY <2>1
    <2> QED BY <1>3, <1>4, <2>1, <2>2, <2>3, <2>4 DEF Knows
  <1> QED BY <1>6, <1>7, <1>8, <1>9

(* A worker at an entry that is not contended is its only holder.            *)
LEMMA SoleHolder ==
  ASSUME IInv, NEW w \in Workers, pc[w] \in Busy, cur[w] \notin contended
  PROVE  /\ cur[w] \in Entries /\ Exists(cur[w]) /\ table[cur[w]] \in Rows
         /\ cur[w] \notin batch
         /\ \A v \in Workers : v # w => cur[v] # cur[w]
         /\ Books(cur[w]) /\ Knows(cur[w], w)
         /\ table[cur[w]].status \notin Closed
  <1>1. cur[w] \in Entries /\ Exists(cur[w]) /\ table[cur[w]] \in Rows
    BY BusyWorker DEF IInv
  <1>2. Alone(cur[w]) /\ Books(cur[w]) /\ Knows(cur[w], w)
    BY <1>1 DEF IInv, Counted
  <1>3. w \in Holders(cur[w])
    BY DEF Holders
  <1>4. \A v \in Workers : v # w => v \notin Holders(cur[w])
    BY <1>2, <1>3 DEF Alone
  <1>5. \A v \in Workers : v # w => cur[v] # cur[w]
    BY <1>4 DEF Holders
  <1>6. cur[w] \notin batch
    BY <1>4, WorkerFacts DEF Holders, IInv, IType, Control
  <1>7. table[cur[w]].status \notin Closed
    BY <1>1, <1>2, <1>3 DEF Books
  <1> QED BY <1>1, <1>2, <1>5, <1>6, <1>7

(* What its only holder has to establish.                                   *)
LEMMA Sole ==
  ASSUME NEW e \in Entries, NEW w \in Workers,
         e \notin batch', \A v \in Workers : v # w => cur'[v] # e,
         Books(e)', Knows(e, w)'
  PROVE  Counted(e)'
  <1>1. \A v \in Workers : v # w => Knows(e, v)'
    BY DEF Knows
  <1>2. Alone(e)'
    BY DEF Alone, Holders
  <1> QED BY <1>1, <1>2 DEF Counted
-----------------------------------------------------------------------------
LEMMA CountedInit == Init => IInv
  <1> SUFFICES ASSUME Init PROVE IInv
    OBVIOUS
  <1>1. \A e \in Entries : Counted(e)
    BY WorkerFacts DEF Init, Counted, Alone, Books, Knows, Holders, Exists, Pending
  <1> QED BY <1>1, TypeInit DEF IInv

(* Steps that touch no row's attempt and nobody's hold.                      *)
LEMMA CountedApart ==
  ASSUME IInv, NEW e \in Entries,
         \/ \E d \in Entries : FallDue(d)
         \/ \E c \in Cancellers : CancelWrite(c) \/ \E d \in Entries : CancelCheck(c, d)
         \/ \E w \in Workers : Expire(w)
         \/ UNCHANGED vars
  PROVE  Counted(e)'
  <1>0. IType /\ Counted(e)
    BY DEF IInv
  <1>1. ASSUME NEW d \in Entries, FallDue(d) PROVE Counted(e)'
    <2>1. table[d] \in Rows
      BY <1>0, <1>1 DEF FallDue, Pending, Exists, IType, TypeOK
    <2>2. /\ [table[d] EXCEPT !.due = TRUE].attempt = table[d].attempt
          /\ [table[d] EXCEPT !.due = TRUE].status = table[d].status
          /\ [table[d] EXCEPT !.due = TRUE] \in Rows
      BY <2>1 DEF Rows
    <2>3. table'[e] = IF e = d THEN [table[d] EXCEPT !.due = TRUE] ELSE table[e]
      BY <1>0, <1>1 DEF FallDue, IType, TypeOK
    <2>4. /\ Exists(e)' <=> Exists(e)
          /\ Exists(e) => /\ table'[e].attempt = table[e].attempt
                          /\ table'[e].status \in {table[e].status, "canceled"}
      BY <2>1, <2>2, <2>3, WorkerFacts DEF Exists
    <2> QED BY <1>0, <1>1, <2>4, Frame DEF FallDue
  <1>2. ASSUME NEW c \in Cancellers, CancelWrite(c) PROVE Counted(e)'
    <2>1. cur[c] \in Entries /\ Exists(cur[c]) /\ c \notin Workers
      BY <1>0, <1>2, WorkerFacts DEF CancelWrite, IType, TypeOK, Control
    <2>2. table' = table \/ table' = SetStatus(cur[c], "canceled")
      BY <1>2 DEF CancelWrite
    <2>3. /\ Exists(e)' <=> Exists(e)
          /\ Exists(e) => /\ table'[e].attempt = table[e].attempt
                          /\ table'[e].status \in {table[e].status, "canceled"}
      <3>1. CASE table' = table
        BY <3>1 DEF Exists
      <3>2. CASE table' = SetStatus(cur[c], "canceled") /\ e = cur[c]
        BY <1>0, <2>1, <3>2, Relabelled, WorkerFacts DEF Exists, IType, Statuses, Resolved
      <3>3. CASE table' = SetStatus(cur[c], "canceled") /\ e # cur[c]
        BY <1>0, <2>1, <3>3, Relabelled, WorkerFacts DEF Exists, IType, Statuses, Resolved
      <3> QED BY <2>2, <3>1, <3>2, <3>3
    <2>4. \A w \in Workers : cur'[w] = cur[w] /\ pc'[w] = pc[w]
      BY <1>0, <1>2, <2>1 DEF CancelWrite, Moved, IType, TypeOK
    <2> QED BY <1>0, <1>2, <2>3, <2>4, Frame DEF CancelWrite
  <1>3. ASSUME NEW c \in Cancellers, NEW d \in Entries, CancelCheck(c, d) PROVE Counted(e)'
    <2>1. c \notin Workers
      BY WorkerFacts
    <2>2. \A w \in Workers : cur'[w] = cur[w] /\ pc'[w] = pc[w]
      BY <1>0, <1>3, <2>1 DEF CancelCheck, Moved, IType, TypeOK
    <2>3. (Exists(e)' <=> Exists(e)) /\ table'[e] = table[e]
      BY <1>3 DEF CancelCheck, Exists
    <2> QED BY <1>0, <1>3, <2>2, <2>3, Frame DEF CancelCheck
  <1>4. ASSUME NEW w \in Workers, Expire(w) PROVE Counted(e)'
    <2>1. (Exists(e)' <=> Exists(e)) /\ table'[e] = table[e]
      BY <1>4 DEF Expire, Exists
    <2> QED BY <1>0, <1>4, <2>1, Frame DEF Expire
  <1>5. ASSUME UNCHANGED vars PROVE Counted(e)'
    <2>1. (Exists(e)' <=> Exists(e)) /\ table'[e] = table[e]
      BY <1>5 DEF vars, Exists
    <2> QED BY <1>0, <1>5, <2>1, Frame DEF vars
  <1> QED BY <1>1, <1>2, <1>3, <1>4, <1>5

(* A row that is new has no history.                                        *)
LEMMA CountedSchedule ==
  ASSUME IInv, NEW e \in Entries, NEW s \in Subscriptions, NEW d \in Entries,
         NEW code \in DeclineCodes, Schedule(s, d, code)
  PROVE  Counted(e)'
  <1>0. IType /\ Counted(e)
    BY DEF IInv
  <1>1. CASE e # d \/ table' = table
    <2>1. table'[e] = table[e]
      BY <1>0, <1>1 DEF Schedule, IType, TypeOK
    <2>2. Exists(e)' <=> Exists(e)
      BY <2>1 DEF Exists
    <2> QED BY <1>0, <2>1, <2>2, Frame DEF Schedule
  <1>2. CASE e = d /\ table' # table
    <2>1. table'[e] = FreshRow(s, code) /\ ~Exists(e)
      BY <1>0, <1>2 DEF Schedule, IType, TypeOK
    <2> SUFFICES ASSUME e \notin contended PROVE Counted(e)'
      BY DEF Schedule, Counted
    <2>2. charges[e] = 0 /\ e \notin over
      BY <1>0, <2>1 DEF Counted, Books
    <2>3. Holders(e) = {} /\ e \notin batch /\ \A w \in Workers : cur[w] # e
      BY <1>0, <2>1, WorkerFacts DEF Holders, IType, Control
    <2>4. Holders(e)' = {}
      BY <2>3 DEF Schedule, Holders
    <2>5. table'[e].attempt = 1 /\ table'[e].status = "pending"
      BY <2>1 DEF FreshRow
    <2>6. Ready(e)'
      BY <2>2, <2>5, WorkerFacts DEF Ready, Schedule
    <2>7. charges'[e] <= MaxAttempts /\ Exists(e)'
      <3>1. FreshRow(s, code) \in Rows
        BY WorkerFacts, OutcomeFacts DEF FreshRow, Rows, ValidAttempts, Statuses
      <3>2. FreshRow(s, code) # None
        BY <3>1, WorkerFacts
      <3> QED BY <2>1, <2>2, <3>2, WorkerFacts DEF Schedule, Exists
    <2>8. Books(e)'
      BY <2>4, <2>5, <2>6, <2>7 DEF Books, Closed
    <2>9. (\A w \in Workers : Knows(e, w))' /\ Alone(e)'
      BY <2>3, <2>4 DEF Schedule, Knows, Alone
    <2> QED BY <2>3, <2>8, <2>9 DEF Counted, Schedule
  <1> QED BY <1>1, <1>2

(* The tick selects: what nobody was at has one holder now, the rest is      *)
(* contended.                                                               *)
LEMMA CountedSelect ==
  ASSUME IInv, NEW e \in Entries, Select
  PROVE  Counted(e)'
  <1>0. IType /\ Counted(e) /\ batch = {} /\ cur[Tick] = None /\ pc[Tick] = "idle"
    BY WorkerFacts DEF IInv, IType, Control, Select, Busy
  <1>1. /\ \A w \in Workers : cur'[w] = cur[w] /\ (w # Tick => pc'[w] = pc[w])
        /\ \A w \in Workers : w # Tick => (w \in expired' <=> w \in expired)
    BY <1>0 DEF Select, Moved, IType, TypeOK
  <1>2. cur[Tick] # e
    BY <1>0, WorkerFacts
  <1>3. CASE e \notin batch'
    <2>1. Exists(e)' <=> Exists(e)
      BY DEF Select, Exists
    <2>2. e \in batch' <=> e \in batch
      BY <1>0, <1>3
    <2>3. \A w \in Workers : cur[w] = e => w # Tick
      BY <1>2
    <2> QED BY <1>0, <1>1, <2>1, <2>2, <2>3, Frame DEF Select
  <1>4. CASE e \in batch'
    <2> SUFFICES ASSUME e \notin contended' PROVE Counted(e)'
      BY DEF Counted
    <2>1. e \notin contended /\ Holders(e) = {} /\ e \in Due
      BY <1>4 DEF Select
    <2>2. Pending(e) /\ Books(e) /\ Ready(e)
      BY <1>0, <2>1 DEF Due, Counted, Books
    <2>3. \A w \in Workers : cur'[w] # e
      BY <1>1, <2>1 DEF Holders
    <2>4. Alone(e)' /\ (\A w \in Workers : Knows(e, w))'
      BY <2>3 DEF Alone, Holders, Knows
    <2>5. Ready(e)' /\ Pending(e)'
      BY <2>2 DEF Ready, Pending, Exists, Select
    <2>6. Books(e)'
      BY <2>2, <2>5 DEF Books, Select, Exists, Pending, Closed
    <2> QED BY <2>4, <2>5, <2>6 DEF Counted
  <1> QED BY <1>3, <1>4

LEMMA CountedTakeNext ==
  ASSUME IInv, NEW e \in Entries, NEW d \in Entries, TakeNext(d)
  PROVE  Counted(e)'
  <1>0. IType /\ Counted(e) /\ cur[Tick] = None /\ Tick \in Workers
    BY WorkerFacts DEF IInv, IType, Control, TakeNext, Busy
  <1>1. /\ cur'[Tick] = d /\ pc'[Tick] = "mark"
        /\ \A w \in Workers : w # Tick => cur'[w] = cur[w] /\ pc'[w] = pc[w]
    BY <1>0 DEF TakeNext, Moved, IType, TypeOK
  <1>2. CASE e # d
    <2>1. (Exists(e)' <=> Exists(e)) /\ (e \in batch' <=> e \in batch)
      BY <1>2 DEF TakeNext, Exists
    <2>2. \A w \in Workers : (cur'[w] = e <=> cur[w] = e) /\ (cur[w] = e => w # Tick)
      BY <1>0, <1>1, <1>2, WorkerFacts
    <2> QED BY <1>0, <1>1, <2>1, <2>2, Frame DEF TakeNext
  <1>3. CASE e = d
    <2> SUFFICES ASSUME e \notin contended PROVE Counted(e)'
      BY DEF Counted, TakeNext
    <2>1. Alone(e) /\ Books(e) /\ Ready(e) /\ e \in batch
      BY <1>0, <1>3 DEF Counted, TakeNext
    <2>2. \A w \in Workers : w # Tick => cur[w] # e
      BY <1>0, <2>1 DEF Alone, Holders
    <2>3. Ready(e)' /\ (Pending(e)' => Pending(e)) /\ (Exists(e)' <=> Exists(e))
      BY <2>1 DEF Ready, Pending, Exists, TakeNext
    <2>4. Exists(e) /\ table[e].status \notin Closed
      BY <1>0, <2>1, WorkerFacts DEF Books, Holders, IType, Control
    <2>5. Books(e)'
      BY <2>1, <2>3, <2>4 DEF Books, TakeNext, Exists, Pending
    <2>6. Knows(e, Tick)'
      BY <1>1, <2>3 DEF Knows
    <2>7. e \notin batch'
      BY <1>3 DEF TakeNext
    <2> QED BY <1>0, <1>1, <2>2, <2>5, <2>6, <2>7, Sole
  <1> QED BY <1>2, <1>3

LEMMA CountedRetryNow ==
  ASSUME IInv, NEW e \in Entries, NEW c \in Callers, NEW d \in Entries, RetryNow(c, d)
  PROVE  Counted(e)'
  <1>0. IType /\ Counted(e) /\ cur[c] = None /\ c \in Workers /\ c # Tick
    BY WorkerFacts DEF IInv, IType, Control, RetryNow, Busy
  <1>1. /\ cur'[c] = d /\ pc'[c] = "mark"
        /\ \A w \in Workers : w # c => cur'[w] = cur[w] /\ pc'[w] = pc[w]
    BY <1>0 DEF RetryNow, Moved, IType, TypeOK
  <1>2. CASE e # d
    <2>1. (Exists(e)' <=> Exists(e)) /\ (e \notin contended' => e \notin contended)
      BY <1>2 DEF RetryNow, Exists
    <2>2. \A w \in Workers : (cur'[w] = e <=> cur[w] = e) /\ (cur[w] = e => w # c)
      BY <1>0, <1>1, <1>2, WorkerFacts
    <2>3. \A w \in Workers : cur[w] = e => (w \in expired => w \in expired')
      BY <2>2 DEF RetryNow
    <2> QED BY <1>0, <1>1, <2>1, <2>2, <2>3, Frame DEF RetryNow
  <1>3. CASE e = d
    <2> SUFFICES ASSUME e \notin contended' PROVE Counted(e)'
      BY DEF Counted
    <2>1. e \notin contended /\ Holders(e) = {} /\ Pending(e)
      BY <1>3 DEF RetryNow, Retryable
    <2>2. Books(e) /\ Ready(e) /\ Exists(e) /\ table[e].status = "pending"
      BY <1>0, <2>1 DEF Counted, Books, Pending
    <2>3. (\A w \in Workers : w # c => cur'[w] # e) /\ e \notin batch
      BY <1>1, <2>1, WorkerFacts DEF Holders
    <2>4. Ready(e)' /\ (Pending(e)' => Pending(e)) /\ (Exists(e)' <=> Exists(e))
      BY <2>2 DEF Ready, Pending, Exists, RetryNow
    <2>5. Books(e)'
      BY <2>2, <2>4 DEF Books, RetryNow, Exists, Pending, Closed
    <2>6. Knows(e, c)'
      BY <1>1, <2>4 DEF Knows
    <2>7. e \notin batch'
      BY <2>3 DEF RetryNow
    <2> QED BY <1>0, <2>3, <2>5, <2>6, <2>7, Sole
  <1> QED BY <1>2, <1>3
-----------------------------------------------------------------------------
(* ProcessRetry, seen from an entry: the steps at other entries are framed,  *)
(* those at e are its only holder's.                                        *)
LEMMA ElsewhereRow ==
  ASSUME IType, NEW e \in Entries, NEW w \in Workers, ProcessRetry(w), cur[w] # e
  PROVE  table'[e] = table[e]
  <1>1. CASE Mark(w)
    BY <1>1, BusyWorker, Relabelled DEF Mark, Busy, IType, Statuses
  <1>2. CASE Write(w)
    BY <1>2, WriteRow DEF IType, TypeOK
  <1>3. CASE ~Mark(w) /\ ~Write(w)
    BY <1>3 DEF ProcessRetry, GetSubscription, ChargeDead, Charge, Answer, Reread
  <1> QED BY <1>1, <1>2, <1>3

LEMMA ElsewhereKeeps ==
  ASSUME IInv, NEW e \in Entries, NEW w \in Workers, ProcessRetry(w), cur[w] # e
  PROVE  Counted(e)'
  <1>0. IType /\ Counted(e) /\ None # e
    BY WorkerFacts DEF IInv
  <1>1. pc[w] \in Busy
    BY DEF ProcessRetry, Mark, GetSubscription, ChargeDead, Charge, Answer, Reread, Write, Busy
  <1>2. cur[w] \in Entries /\ Exists(cur[w])
    BY <1>0, <1>1, BusyWorker
  <1>3. table'[e] = table[e]
    BY <1>0, ElsewhereRow
  <1>4. Exists(e)' <=> Exists(e)
    BY <1>3 DEF Exists
  <1>5. charges'[e] = charges[e]
    BY <1>0 DEF ProcessRetry, Mark, GetSubscription, ChargeDead, Charge, Answer, Reread, Write,
                IType, TypeOK
  <1>6. e \in over' <=> e \in over
    BY DEF ProcessRetry, Mark, GetSubscription, ChargeDead, Charge, Answer, Reread, Write
  <1>7. UNCHANGED <<batch, contended, expired>>
    BY DEF ProcessRetry, Mark, GetSubscription, ChargeDead, Charge, Answer, Reread, Write
  <1>8. cur'[w] \in {cur[w], None}
    BY <1>0 DEF ProcessRetry, Mark, GetSubscription, ChargeDead, Charge, Answer, Reread, Write,
                Finish, IType, TypeOK
  <1>9. \A v \in Workers : v # w => /\ cur'[v] = cur[v] /\ pc'[v] = pc[v]
                                    /\ outcome'[v] = outcome[v] /\ seen'[v] = seen[v]
    BY <1>0 DEF ProcessRetry, Mark, GetSubscription, ChargeDead, Charge, Answer, Reread, Write,
                Finish, Moved, IType, TypeOK
  <1> QED BY <1>0, <1>3, <1>4, <1>5, <1>6, <1>7, <1>8, <1>9, Frame

LEMMA CountedMark ==
  ASSUME IInv, NEW e \in Entries, NEW w \in Workers, cur[w] = e, Mark(w), ReliableTable
  PROVE  Counted(e)'
  <1>0. IType /\ pc[w] = "mark" /\ e \in Entries /\ Exists(e)
    BY BusyWorker DEF IInv, Mark, Busy
  <1> SUFFICES ASSUME e \notin contended PROVE Counted(e)'
    BY DEF Mark, Counted
  <1>1. /\ e \notin batch /\ table[e].status \notin Closed /\ table[e] \in Rows
        /\ \A v \in Workers : v # w => cur[v] # e
        /\ Books(e) /\ Knows(e, w)
    BY <1>0, SoleHolder DEF Busy
  <1>2. Ready(e)
    BY <1>0, <1>1 DEF Knows
  <1>3. /\ \/ w \notin expired /\ table' = SetStatus(e, "processing")
           \/ w \in expired /\ table' = table
        /\ cur' = cur /\ pc'[w] = "subscription"
    BY <1>0 DEF Mark, DbMay, ReliableTable, Moved, IType, TypeOK
  <1>4. /\ SetStatus(e, "processing")[e].status = "processing"
        /\ SetStatus(e, "processing")[e].attempt = table[e].attempt
        /\ SetStatus(e, "processing")[e] \in Rows
    BY <1>0, Relabelled DEF IType, Statuses
  <1>5. /\ table'[e].attempt = table[e].attempt /\ Exists(e)'
        /\ table'[e].status \in {"processing", table[e].status}
        /\ w \notin expired => table'[e].status = "processing"
    BY <1>0, <1>3, <1>4, WorkerFacts DEF Exists
  <1>6. Ready(e)'
    BY <1>2, <1>3, <1>5 DEF Ready, Mark
  <1>7. Books(e)'
    BY <1>1, <1>3, <1>5, <1>6 DEF Books, Mark, Closed
  <1>8. Knows(e, w)'
    BY <1>3, <1>5, <1>6 DEF Knows, Mark, Pending
  <1>9. e \notin batch' /\ \A v \in Workers : v # w => cur'[v] # e
    BY <1>1, <1>3 DEF Mark
  <1> QED BY <1>7, <1>8, <1>9, Sole

(* A call ends, or is made: the row stays as it is.                          *)
LEMMA CountedCalls ==
  ASSUME IInv, NEW e \in Entries, NEW w \in Workers, cur[w] = e,
         GetSubscription(w) \/ ChargeDead(w) \/ Charge(w) \/ \E o \in Outcomes : Answer(w, o)
  PROVE  Counted(e)'
  <1>0. IType /\ pc[w] \in {"subscription", "charge", "await"} /\ pc[w] \in Busy
    BY DEF IInv, GetSubscription, ChargeDead, Charge, Answer, Busy
  <1>1. UNCHANGED <<table, batch, cur, contended, expired>>
    BY DEF GetSubscription, ChargeDead, Charge, Answer
  <1> SUFFICES ASSUME e \notin contended PROVE Counted(e)'
    BY <1>1 DEF Counted
  <1>2. /\ e \notin batch /\ table[e].status \notin Closed /\ table[e] \in Rows /\ Exists(e)
        /\ \A v \in Workers : v # w => cur[v] # e
        /\ Books(e) /\ Knows(e, w)
    BY <1>0, SoleHolder
  <1>3. table[e].attempt \in Nat /\ charges[e] \in Nat
    BY <1>0, <1>2, WorkerFacts DEF Rows, ValidAttempts, IType, TypeOK
  <1>4. SUFFICES Books(e)' /\ Knows(e, w)'
    BY <1>1, <1>2, Sole
  <1>5. CASE GetSubscription(w) \/ ChargeDead(w)
    <2>1. Ready(e) /\ UNCHANGED <<charges, over>>
      BY <1>2, <1>5 DEF Knows, GetSubscription, ChargeDead
    <2>2. Counts(e)
      BY <1>3, <2>1, WorkerFacts DEF Ready, Counts
    <2>3. Ready(e)' /\ Counts(e)' /\ (Pending(e)' <=> Pending(e)) /\ (Exists(e)' <=> Exists(e))
      BY <1>1, <2>1, <2>2 DEF Ready, Counts, Pending, Exists
    <2>4. Books(e)'
      BY <1>1, <1>2, <2>1, <2>3 DEF Books
    <2>5. \/ pc'[w] = "charge" /\ pc[w] = "subscription"
          \/ pc'[w] = "reread"
      BY <1>0, <1>5 DEF GetSubscription, ChargeDead, Moved, IType, TypeOK
    <2>6. e \notin over'
      BY <2>1 DEF Ready
    <2>7. Knows(e, w)'
      BY <1>1, <1>2, <2>3, <2>5, <2>6 DEF Knows
    <2> QED BY <2>4, <2>7
  <1>6. CASE Charge(w)
    <2>1. Ready(e) /\ ~Pending(e) /\ UNCHANGED over
      BY <1>2, <1>6 DEF Knows, Charge
    <2>2. charges'[e] = charges[e] + 1 /\ pc'[w] = "await"
      BY <1>0, <1>3, <1>6, <2>1, WorkerFacts DEF Charge, Ready, Moved, IType, TypeOK
    <2>3. charges'[e] <= table[e].attempt /\ table[e].attempt <= MaxAttempts /\ e \notin over
      BY <1>3, <2>1, <2>2 DEF Ready
    <2>4. Counts(e)' /\ ~Pending(e)' /\ Exists(e)'
      BY <1>1, <1>2, <2>1, <2>3 DEF Counts, Pending, Exists
    <2>5. Books(e)'
      BY <1>1, <1>2, <1>3, <2>2, <2>3, <2>4, WorkerFacts DEF Books
    <2>6. Knows(e, w)'
      BY <1>1, <2>1, <2>2, <2>3, <2>4 DEF Knows
    <2> QED BY <2>5, <2>6
  <1>7. ASSUME NEW o \in Outcomes, Answer(w, o) PROVE Books(e)' /\ Knows(e, w)'
    <2>1. ~Pending(e) /\ Counts(e) /\ e \notin over /\ UNCHANGED charges
      BY <1>2, <1>7 DEF Knows, Answer
    <2>2. Counts(e)' /\ ~Pending(e)' /\ Exists(e)'
      BY <1>1, <1>2, <2>1 DEF Counts, Pending, Exists
    <2>3. /\ pc'[w] = "reread" /\ outcome'[w] = o
          /\ e \in over' => Final(o)
      BY <1>0, <1>7, <2>1 DEF Answer, Moved, IType, TypeOK
    <2>4. Books(e)'
      BY <1>1, <1>2, <2>1, <2>2 DEF Books
    <2>5. (e \in over => Final(outcome[w]))'
      BY <2>3
    <2>6. Knows(e, w)'
      BY <1>1, <2>2, <2>3, <2>5 DEF Knows
    <2> QED BY <2>4, <2>6
  <1> QED BY <1>5, <1>6, <1>7
(* An entry its only holder lets go of.                                      *)
LEMMA Released ==
  ASSUME IInv, NEW w \in Workers, pc[w] \in Busy, cur[w] \notin contended,
         Finish(w), UNCHANGED <<batch, contended>>,
         NEW e \in Entries, cur[w] = e, Books(e)'
  PROVE  Counted(e)'
  <1>1. e \notin batch /\ \A v \in Workers : v # w => cur[v] # e
    BY SoleHolder
  <1>2. cur'[w] = None /\ \A v \in Workers : v # w => cur'[v] = cur[v]
    BY DEF Finish, IInv, IType, TypeOK
  <1>3. cur'[w] # e
    BY <1>2, WorkerFacts
  <1>4. Knows(e, w)'
    BY <1>3 DEF Knows
  <1> QED BY <1>1, <1>2, <1>4, Sole

LEMMA CountedReread ==
  ASSUME IInv, NEW e \in Entries, NEW w \in Workers, cur[w] = e, Reread(w)
  PROVE  Counted(e)'
  <1>0. IType /\ pc[w] = "reread" /\ pc[w] \in Busy
        /\ UNCHANGED <<table, batch, outcome, charges, over, contended, expired>>
    BY DEF IInv, Reread, Busy
  <1> SUFFICES ASSUME e \notin contended PROVE Counted(e)'
    BY <1>0 DEF Counted
  <1>1. /\ e \notin batch /\ table[e].status \notin Closed
        /\ \A v \in Workers : v # w => cur[v] # e
        /\ Books(e) /\ Knows(e, w)
    BY <1>0, SoleHolder
  <1>2. Books(e)'
    BY <1>0, <1>1 DEF Books, Pending, Exists, Ready
  <1>3. CASE Finish(w) /\ UNCHANGED seen
    BY <1>0, <1>2, <1>3, Released
  <1>4. CASE /\ seen' = [seen EXCEPT ![w] = table[cur[w]].attempt]
             /\ Moved(w, "write") /\ UNCHANGED cur
    <2>1. pc'[w] = "write" /\ seen'[w] = table[e].attempt
      BY <1>0, <1>4 DEF Moved, IType, TypeOK
    <2>2. Counts(e) /\ (e \in over => Final(outcome[w]))
      BY <1>0, <1>1 DEF Knows
    <2>3. Counts(e)' /\ (e \in over => Final(outcome[w]))'
      BY <1>0, <2>2 DEF Counts
    <2>4. Knows(e, w)'
      BY <1>0, <2>1, <2>3 DEF Knows
    <2> QED BY <1>0, <1>1, <1>2, <1>4, <2>4, Sole
  <1> QED BY <1>3, <1>4 DEF Reread

(* The row an attempt leaves is "pending" only with an attempt more than     *)
(* the charges made, and then the charge was not final.                     *)
LEMMA CountedWrite ==
  ASSUME IInv, NEW e \in Entries, NEW w \in Workers, cur[w] = e, Write(w)
  PROVE  Counted(e)'
  <1> DEFINE row == Attempted(table[e], seen[w], outcome[w])
  <1>0. IType /\ pc[w] = "write" /\ pc[w] \in Busy /\ Finish(w)
        /\ UNCHANGED <<batch, outcome, seen, charges, over, contended>>
    BY DEF IInv, Write, Busy
  <1> SUFFICES ASSUME e \notin contended PROVE Counted(e)'
    BY <1>0 DEF Counted
  <1>1. /\ e \notin batch /\ table[e].status \notin Closed /\ table[e] \in Rows /\ Exists(e)
        /\ \A v \in Workers : v # w => cur[v] # e
        /\ Books(e) /\ Knows(e, w)
    BY <1>0, SoleHolder
  <1>2. /\ seen[w] \in ValidAttempts /\ outcome[w] \in Outcomes
        /\ \/ UNCHANGED table
           \/ row \in Rows /\ table' = [table EXCEPT ![e] = row]
    BY <1>0, WriteRow
  <1>3. Counts(e) /\ (e \in over => Final(outcome[w])) /\ seen[w] = table[e].attempt
    BY <1>0, <1>1 DEF Knows
  <1>4. Holders(e)' = {}
    <2>1. cur'[w] = None /\ \A v \in Workers : v # w => cur'[v] = cur[v]
      BY <1>0 DEF Finish, IType, TypeOK
    <2>2. \A v \in Workers : cur'[v] # e
      BY <1>1, <2>1, WorkerFacts
    <2> QED BY <1>0, <1>1, <2>2 DEF Holders
  <1>5. Books(e)'
    <2>1. CASE UNCHANGED table
      BY <1>0, <1>1, <1>4, <2>1 DEF Books, Pending, Exists, Ready
    <2>2. CASE row \in Rows /\ table' = [table EXCEPT ![e] = row]
      <3>1. table'[e] = row /\ Exists(e)'
        BY <1>0, <2>2, WorkerFacts DEF IType, TypeOK, Exists
      <3>2. row.status = "pending" => /\ row.attempt = table[e].attempt + 1
                                      /\ row.attempt <= MaxAttempts
                                      /\ ~Final(outcome[w])
        BY <1>1, <1>2, <1>3, AttemptedRow DEF Final
      <3>3. charges[e] \in Nat /\ table[e].attempt \in Nat
        BY <1>0, <1>1, WorkerFacts DEF Rows, ValidAttempts, IType, TypeOK
      <3>4. Pending(e)' => Ready(e)'
        BY <1>0, <1>3, <3>1, <3>2, <3>3 DEF Pending, Ready, Counts
      <3> QED BY <1>0, <1>1, <1>4, <3>1, <3>4 DEF Books
    <2> QED BY <1>2, <2>1, <2>2
  <1> QED BY <1>0, <1>5, Released

(* Nobody holds anything after a crash.                                     *)
LEMMA CountedCrash ==
  ASSUME IInv, NEW e \in Entries, Crash
  PROVE  Counted(e)'
  <1> SUFFICES ASSUME e \notin contended PROVE Counted(e)'
    BY DEF Crash, Counted
  <1>1. Books(e)
    BY DEF IInv, Counted
  <1>2. e \notin batch' /\ \A w \in Workers : cur'[w] # e
    BY WorkerFacts DEF Crash
  <1>3. Holders(e)' = {}
    BY <1>2 DEF Holders
  <1>4. Books(e)'
    BY <1>1, <1>3 DEF Books, Crash, Exists, Pending, Ready
  <1>5. Alone(e)' /\ (\A w \in Workers : Knows(e, w))'
    BY <1>2, <1>3 DEF Alone, Knows
  <1> QED BY <1>2, <1>4, <1>5 DEF Counted

LEMMA CountedStep ==
  ASSUME ReliableTable
  PROVE  IInv /\ [Next]_vars => IInv'
  <1> SUFFICES ASSUME IInv, [Next]_vars, NEW e \in Entries PROVE Counted(e)'
    BY TypeStep DEF IInv
  <1>1. ASSUME NEW w \in Workers, ProcessRetry(w) PROVE Counted(e)'
    <2>1. CASE cur[w] # e
      BY <1>1, <2>1, ElsewhereKeeps
    <2>2. CASE cur[w] = e
      BY <1>1, <2>2, CountedMark, CountedCalls, CountedReread, CountedWrite DEF ProcessRetry
    <2> QED BY <2>1, <2>2
  <1>2. CASE TickStep
    BY <1>1, <1>2, CountedSelect, CountedTakeNext, WorkerFacts DEF TickStep
  <1>3. ASSUME NEW c \in Callers, ProcessRetry(c) \/ \E d \in Entries : RetryNow(c, d)
        PROVE  Counted(e)'
    BY <1>1, <1>3, CountedRetryNow, WorkerFacts
  <1>4. CASE \/ \E d \in Entries : FallDue(d)
             \/ \E c \in Cancellers : CancelWrite(c) \/ \E d \in Entries : CancelCheck(c, d)
             \/ \E w \in Workers : Expire(w)
             \/ UNCHANGED vars
    BY <1>4, CountedApart
  <1> QED BY <1>2, <1>3, <1>4, CountedSchedule, CountedCrash DEF Next

LEMMA Invariant ==
  ASSUME ReliableTable
  PROVE  Spec => []IInv
  <1>1. Init => IInv
    BY CountedInit
  <1>2. IInv /\ [Next]_vars => IInv'
    BY CountedStep
  <1> QED BY <1>1, <1>2, PTL DEF Spec

-----------------------------------------------------------------------------
(* Any number of ticks, requests, deadlines and crashes: an entry no two     *)
(* workers were at together is charged at most MaxAttempts times.           *)
THEOREM BoundedAttempts ==
  ASSUME ReliableTable
  PROVE  Spec => []AttemptsBounded
  <1>1. IInv => AttemptsBounded
    BY DEF IInv, Counted, Books, AttemptsBounded
  <1> QED BY <1>1, Invariant, PTL

(* And it is not charged again once a charge came back as final.             *)
THEOREM FinalMeansFinal ==
  ASSUME ReliableTable
  PROVE  Spec => OverMeansOver
  <1>1. IInv /\ [Next]_vars =>
          [\A e \in Entries :
             e \in over /\ e \notin contended => charges'[e] = charges[e]]_vars
    <2> SUFFICES ASSUME IInv, Next, NEW e \in Entries, e \in over, e \notin contended
                 PROVE  charges'[e] = charges[e]
      OBVIOUS
    <2>1. ASSUME NEW w \in Workers, Charge(w) PROVE charges'[e] = charges[e]
      <3>1. cur[w] # e
        <4> SUFFICES ASSUME cur[w] = e PROVE FALSE
          OBVIOUS
        <4>1. pc[w] = "charge" /\ Knows(e, w)
          BY <2>1 DEF Charge, IInv, Counted
        <4>2. Ready(e)
          BY <4>1 DEF Knows
        <4> QED BY <4>2 DEF Ready
      <3> QED BY <2>1, <3>1 DEF Charge, IInv, IType, TypeOK
    <2>2. CASE ~ \E w \in Workers : Charge(w)
      <3>1. ASSUME NEW w \in Workers, ProcessRetry(w) PROVE charges' = charges
        BY <2>2, <3>1 DEF ProcessRetry, Mark, GetSubscription, ChargeDead, Answer, Reread, Write
      <3>2. TickStep => charges' = charges
        BY <3>1, WorkerFacts DEF TickStep, Select, TakeNext
      <3>3. \A c \in Callers : ProcessRetry(c) => charges' = charges
        BY <3>1, WorkerFacts
      <3> QED BY <3>2, <3>3 DEF Next, Schedule, FallDue, RetryNow, CancelWrite, CancelCheck,
                                Expire, Crash
    <2> QED BY <2>1, <2>2
  <1> QED BY <1>1, Invariant, PTL DEF Spec, OverMeansOver

-----------------------------------------------------------------------------
(* Who is at an entry, whatever fails: an entry no two workers were at       *)
(* together has one holder at most, and none once it is closed.             *)
Held(e) ==
    e \notin contended =>
      /\ Alone(e)
      /\ Exists(e) /\ table[e].status \in Closed => Holders(e) = {}

HeldInv == IType /\ \A e \in Entries : Held(e)

(* Nobody comes to e, and it closes only as its holder leaves.               *)
LEMMA HeldFrame ==
  ASSUME NEW e \in Entries, Held(e), e \notin contended' => e \notin contended,
         Holders(e)' \subseteq Holders(e),
         \/ Holders(e)' = {}
         \/ Exists(e)' /\ table'[e].status \in Closed =>
               Exists(e) /\ table[e].status \in Closed
  PROVE  Held(e)'
  BY DEF Held, Alone

(* The steps that leave everybody where he is.                              *)
LEMMA HeldApart ==
  ASSUME HeldInv, NEW e \in Entries,
         \/ \E s \in Subscriptions, d \in Entries, code \in DeclineCodes : Schedule(s, d, code)
         \/ \E d \in Entries : FallDue(d)
         \/ \E c \in Cancellers : CancelWrite(c) \/ \E d \in Entries : CancelCheck(c, d)
         \/ \E w \in Workers : Expire(w)
         \/ UNCHANGED vars
  PROVE  Held(e)'
  <1>0. IType /\ TypeOK /\ Held(e)
    BY DEF HeldInv, IType
  <1>1. contended' = contended /\ batch' = batch
    BY DEF Schedule, FallDue, CancelWrite, CancelCheck, Expire, vars
  <1>2. \A w \in Workers : cur'[w] = cur[w]
    BY <1>0, WorkerFacts DEF TypeOK, Schedule, FallDue, CancelWrite, CancelCheck, Expire, vars
  <1>3. Holders(e)' = Holders(e)
    BY <1>1, <1>2 DEF Holders
  <1>4. Exists(e)' /\ table'[e].status \in Closed => Exists(e) /\ table[e].status \in Closed
    <2>1. ASSUME NEW s \in Subscriptions, NEW d \in Entries, NEW code \in DeclineCodes,
                 Schedule(s, d, code), table'[e] # table[e]
          PROVE  table'[e].status = "pending"
      BY <1>0, <2>1 DEF Schedule, FreshRow, TypeOK
    <2>2. ASSUME NEW d \in Entries, FallDue(d) PROVE table'[e].status = table[e].status
                                                    /\ (Exists(e)' => Exists(e))
      <3>1. table[d] \in Rows /\ Exists(d)
        BY <1>0, <2>2 DEF FallDue, Pending, Exists, TypeOK
      <3>2. [table[d] EXCEPT !.due = TRUE].status = table[d].status
        BY <3>1 DEF Rows
      <3>3. table'[e] = IF e = d THEN [table[d] EXCEPT !.due = TRUE] ELSE table[e]
        BY <1>0, <2>2 DEF FallDue, TypeOK
      <3> QED BY <3>1, <3>2, <3>3 DEF Exists
    <2>3. ASSUME NEW c \in Cancellers, CancelWrite(c), table'[e] # table[e]
          PROVE  table'[e].status = "canceled"
      <3>1. cur[c] \in Entries /\ Exists(cur[c])
        BY <1>0, <2>3, WorkerFacts DEF CancelWrite, IType, TypeOK, Control
      <3>2. table' = SetStatus(cur[c], "canceled")
        BY <2>3 DEF CancelWrite
      <3> QED BY <1>0, <2>3, <3>1, <3>2, Relabelled DEF Statuses, Resolved
    <2>4. ASSUME \/ \E c \in Cancellers, d \in Entries : CancelCheck(c, d)
                 \/ \E w \in Workers : Expire(w)
                 \/ UNCHANGED vars
          PROVE  table'[e] = table[e]
      BY <2>4 DEF CancelCheck, Expire, vars
    <2> QED BY <2>1, <2>2, <2>3, <2>4 DEF Exists, Closed
  <1> QED BY <1>0, <1>1, <1>3, <1>4, HeldFrame

(* Who comes to an entry finds it pending, and nobody there or a dispute.     *)
LEMMA HeldTaken ==
  ASSUME HeldInv, NEW e \in Entries,
         \/ Select
         \/ \E d \in Entries : TakeNext(d)
         \/ \E c \in Callers, d \in Entries : RetryNow(c, d)
  PROVE  Held(e)'
  <1>0. IType /\ TypeOK /\ Control /\ Held(e)
    BY DEF HeldInv, IType
  <1>1. CASE Select
    <2>1. batch = {} /\ UNCHANGED <<table, cur>>
      BY <1>0, <1>1 DEF Select, Control
    <2>2. CASE e \notin batch'
      <3>1. Holders(e)' \subseteq Holders(e)
        BY <2>1, <2>2 DEF Holders
      <3> QED BY <1>0, <1>1, <2>1, <3>1, HeldFrame DEF Select, Exists
    <2>3. CASE e \in batch' /\ e \notin contended'
      <3>1. Holders(e) = {} /\ Pending(e)
        BY <1>1, <2>3 DEF Select, Due
      <3>2. Holders(e)' \subseteq {Tick}
        BY <2>1, <3>1 DEF Holders
      <3> QED BY <2>1, <3>1, <3>2 DEF Held, Alone, Pending, Exists, Closed
    <2> QED BY <2>2, <2>3 DEF Held
  <1>2. ASSUME NEW d \in Entries, TakeNext(d) PROVE Held(e)'
    <2>1. cur[Tick] = None /\ Tick \in Workers
      BY <1>0, <1>2, WorkerFacts DEF TakeNext, Control, Busy
    <2>2. cur'[Tick] = d /\ \A w \in Workers : w # Tick => cur'[w] = cur[w]
      BY <1>0, <1>2, <2>1 DEF TakeNext, TypeOK
    <2>3. Holders(e)' \subseteq Holders(e)
      BY <1>2, <2>2 DEF TakeNext, Holders
    <2> QED BY <1>0, <1>2, <2>3, HeldFrame DEF TakeNext, Exists
  <1>3. ASSUME NEW c \in Callers, NEW d \in Entries, RetryNow(c, d) PROVE Held(e)'
    <2>1. c \in Workers /\ c # Tick /\ UNCHANGED <<table, batch>>
      BY <1>3, WorkerFacts DEF RetryNow
    <2>2. cur'[c] = d /\ \A w \in Workers : w # c => cur'[w] = cur[w]
      BY <1>0, <1>3, <2>1 DEF RetryNow, TypeOK
    <2>3. CASE e # d
      <3>1. Holders(e)' \subseteq Holders(e)
        BY <2>1, <2>2, <2>3 DEF Holders
      <3>2. e \notin contended' => e \notin contended
        BY <1>3 DEF RetryNow
      <3> QED BY <1>0, <2>1, <3>1, <3>2, HeldFrame DEF Exists
    <2>4. CASE e = d /\ e \notin contended'
      <3>1. Holders(e) = {} /\ Pending(e)
        BY <1>3, <2>4 DEF RetryNow, Retryable
      <3>2. Holders(e)' \subseteq {c}
        BY <2>1, <2>2, <3>1 DEF Holders
      <3> QED BY <2>1, <3>1, <3>2 DEF Held, Alone, Pending, Exists, Closed
    <2> QED BY <2>3, <2>4 DEF Held
  <1> QED BY <1>1, <1>2, <1>3

(* A retry under way closes its entry with its last statement, or leaves it. *)
LEMMA HeldWorks ==
  ASSUME HeldInv, NEW e \in Entries, NEW w \in Workers, ProcessRetry(w)
  PROVE  Held(e)'
  <1>0. IType /\ TypeOK /\ Held(e)
    BY DEF HeldInv, IType
  <1>1. pc[w] \in Busy /\ UNCHANGED <<batch, contended>>
    BY DEF ProcessRetry, Mark, GetSubscription, ChargeDead, Charge, Answer, Reread, Write, Busy
  <1>2. cur'[w] \in {cur[w], None} /\ \A v \in Workers : v # w => cur'[v] = cur[v]
    BY <1>0 DEF ProcessRetry, Mark, GetSubscription, ChargeDead, Charge, Answer, Reread, Write,
                Finish, TypeOK
  <1>3. Holders(e)' \subseteq Holders(e)
    BY <1>1, <1>2, WorkerFacts DEF Holders
  <1>4. CASE table'[e] = table[e]
    BY <1>0, <1>1, <1>3, <1>4, HeldFrame DEF Exists
  <1>5. CASE table'[e] # table[e]
    <2>1. cur[w] = e /\ Exists(e)
      BY <1>0, <1>1, <1>5, ElsewhereRow, BusyWorker
    <2>2. CASE Mark(w)
      <3>1. table' = SetStatus(e, "processing")
        BY <1>5, <2>1, <2>2 DEF Mark
      <3>2. table'[e].status = "processing"
        BY <1>0, <2>1, <3>1, Relabelled DEF Statuses
      <3> QED BY <1>0, <1>1, <1>3, <3>2, HeldFrame DEF Closed
    <2>3. CASE Write(w) /\ e \notin contended
      <3>1. cur'[w] = None /\ w \in Holders(e) /\ Alone(e)
        BY <1>0, <2>1, <2>3 DEF Write, Finish, Holders, Held, TypeOK
      <3>2. Holders(e) \subseteq {w}
        BY <3>1 DEF Alone, Holders
      <3>3. w = Tick => e \notin batch
        BY <1>0, <2>1 DEF IType, Control
      <3>4. w \notin Holders(e)'
        BY <1>1, <3>1, <3>3, WorkerFacts DEF Holders
      <3>5. Holders(e)' = {}
        BY <1>3, <3>2, <3>4
      <3> QED BY <1>0, <1>1, <1>3, <3>5, HeldFrame
    <2>4. Mark(w) \/ Write(w)
      BY <1>5 DEF ProcessRetry, GetSubscription, ChargeDead, Charge, Answer, Reread
    <2> QED BY <1>1, <2>2, <2>3, <2>4 DEF Held
  <1> QED BY <1>4, <1>5

LEMMA HeldCrash ==
  ASSUME HeldInv, NEW e \in Entries, Crash
  PROVE  Held(e)'
  <1>1. batch' = {} /\ \A w \in Workers : cur'[w] # e
    BY WorkerFacts DEF Crash
  <1>2. Holders(e)' = {}
    BY <1>1 DEF Holders
  <1> QED BY <1>2 DEF Held, Alone

LEMMA HeldStays == Spec => []HeldInv
  <1>1. Init => HeldInv
    <2> SUFFICES ASSUME Init PROVE HeldInv
      OBVIOUS
    <2>1. \A e \in Entries : Held(e)
      BY WorkerFacts DEF Init, Held, Alone, Holders, Exists
    <2> QED BY <2>1, TypeInit DEF HeldInv
  <1>2. HeldInv /\ [Next]_vars => HeldInv'
    <2> SUFFICES ASSUME HeldInv, [Next]_vars, NEW e \in Entries PROVE Held(e)'
      BY TypeStep DEF HeldInv
    <2>1. CASE TickStep
      BY <2>1, HeldTaken, HeldWorks, WorkerFacts DEF TickStep
    <2>2. ASSUME NEW c \in Callers, ProcessRetry(c) \/ \E d \in Entries : RetryNow(c, d)
          PROVE  Held(e)'
      BY <2>2, HeldTaken, HeldWorks, WorkerFacts
    <2>3. CASE Crash
      BY <2>3, HeldCrash
    <2> QED BY <2>1, <2>2, <2>3, HeldApart DEF Next
  <1> QED BY <1>1, <1>2, PTL DEF Spec

(* An entry that is closed is not reopened by a worker that is at it alone,  *)
(* whatever statement, call or process fails: only a cancellation that was  *)
(* under way can relabel it.                                                *)
THEOREM ClosedStaysClosed == Spec => ResolvedIsFinal
  <1>1. HeldInv /\ [Next]_vars =>
          [\A e \in Entries :
             /\ Exists(e) /\ e \notin contended
             /\ table[e].status \in {"succeeded", "failed", "exhausted"}
             => table'[e].status \in {table[e].status, "canceled"}]_vars
    <2> SUFFICES ASSUME HeldInv, Next, NEW e \in Entries, Exists(e), e \notin contended,
                        table[e].status \in Closed
                 PROVE  table'[e].status \in {table[e].status, "canceled"}
      BY DEF Closed
    <2>0. IType /\ Held(e)
      BY DEF HeldInv
    <2>1. \A w \in Workers : cur[w] # e
      BY <2>0 DEF Held, Holders
    <2>2. ASSUME NEW w \in Workers, ProcessRetry(w) PROVE table'[e] = table[e]
      BY <2>0, <2>1, <2>2, ElsewhereRow
    <2>3. TickStep => table'[e] = table[e]
      BY <2>2, WorkerFacts DEF TickStep, Select, TakeNext
    <2>4. ASSUME NEW c \in Callers, ProcessRetry(c) \/ \E d \in Entries : RetryNow(c, d)
          PROVE  table'[e] = table[e]
      BY <2>2, <2>4, WorkerFacts DEF RetryNow
    <2>5. ASSUME NEW c \in Cancellers, CancelWrite(c)
          PROVE  table'[e].status \in {table[e].status, "canceled"}
      <3>1. cur[c] \in Entries /\ Exists(cur[c])
        BY <2>0, <2>5, WorkerFacts DEF CancelWrite, IType, TypeOK, Control
      <3>2. table' = table \/ table' = SetStatus(cur[c], "canceled")
        BY <2>5 DEF CancelWrite
      <3> QED BY <2>0, <3>1, <3>2, Relabelled DEF IType, Statuses, Resolved
    <2>6. ASSUME NEW d \in Entries, FallDue(d) PROVE table'[e] = table[e]
      <3>1. d # e
        BY <2>6 DEF FallDue, Pending, Closed
      <3> QED BY <2>0, <2>6, <3>1 DEF FallDue, IType, TypeOK
    <2>7. ASSUME NEW s \in Subscriptions, NEW d \in Entries, NEW code \in DeclineCodes,
                 Schedule(s, d, code)
          PROVE  table'[e] = table[e]
      <3>1. d # e
        BY <2>7 DEF Schedule
      <3> QED BY <2>0, <2>7, <3>1 DEF Schedule, IType, TypeOK
    <2>8. ASSUME \/ \E c \in Cancellers, d \in Entries : CancelCheck(c, d)
                 \/ \E w \in Workers : Expire(w)
                 \/ Crash
          PROVE  table'[e] = table[e]
      BY <2>8 DEF CancelCheck, Expire, Crash
    <2> QED BY <2>3, <2>4, <2>5, <2>6, <2>7, <2>8 DEF Next
  <1> QED BY <1>1, HeldStays, PTL DEF Spec, ResolvedIsFinal
=============================================================================
