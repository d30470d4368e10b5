----------------------------- MODULE RetryQueue -----------------------------
(***************************************************************************)
(* The retry queue of cmd/mit-scheduler: the rows of retry_queue, the       *)
(* scheduler's tick that works off what is due, and the HTTP requests that  *)
(* retry an entry at once or cancel it.  They run concurrently and share    *)
(* only the table.  One action is one statement, or one call to the         *)
(* subscription service.                                                    *)
(***************************************************************************)
EXTENDS FiniteSets, Naturals

CONSTANTS
    Entries,        \* ids of retry_queue
    Subscriptions,
    Callers,        \* concurrent requests of POST /scheduler/retries/{id}/retry-now
    Cancellers,     \* concurrent requests of POST /scheduler/retries/{id}/cancel
    Tick,           \* the goroutine that runs Scheduler.tick
    MaxAttempts,    \* RetryPolicy.MaxAttempts
    BatchSize,      \* the LIMIT of GetDueRetries
    DeclineCodes,   \* error codes a failed charge may come back with
    PendingIndex,   \* is there the unique index CreateRetryEntry's conflict target needs?
    Rebills,        \* may a subscription that was queued once be billed and queued again?
    DbErrors,       \* may a statement fail although its context is alive?
    Lossy,          \* may a call to the subscription service fail?
    Deadlines,      \* may a context (the tick's 2 minutes, a client) be cancelled?
    Crashes,        \* may the scheduler's process die?
    None            \* no entry

Workers == Callers \cup {Tick}

(* policies.go: the codes that mean a permanent decline.                    *)
HardDeclines ==
    {"card_declined", "invalid_card", "expired_card", "card_not_supported",
     "invalid_account", "currency_not_supported", "fraud_detected",
     "stolen_card", "lost_card", "pickup_card", "invalid_amount",
     "do_not_honor", "account_closed", "insufficient_permission"}

ClassifyError(code) == IF code \in HardDeclines THEN "hard" ELSE "soft"

Success == "success"
Codes == DeclineCodes \cup {"SUBSCRIPTION_ERROR", "CHARGE_ERROR"}
Outcomes == Codes \cup {Success}

Resolved == {"succeeded", "failed", "canceled", "exhausted"}
Statuses == {"pending", "processing"} \cup Resolved

(* CHECK valid_attempt_count of migrations/004.                             *)
ValidAttempts == 1 .. MaxAttempts + 1

Rows == [sub : Subscriptions, attempt : ValidAttempts, status : Statuses,
         due : BOOLEAN, code : Codes]

ASSUME RetryQueueAssumption ==
    /\ MaxAttempts \in Nat \ {0} /\ BatchSize \in Nat \ {0}
    /\ None \notin Entries /\ None \notin Rows
    /\ Tick \notin Callers /\ Workers \cap Cancellers = {}
    /\ Success \notin DeclineCodes
    /\ {PendingIndex, Rebills, DbErrors, Lossy, Deadlines, Crashes} \subseteq BOOLEAN

VARIABLES
    table,      \* retry_queue by id; None: no such row
    pc,         \* where each worker and canceller is
    batch,      \* what the tick selected and has not come to
    cur,        \* the entry each worker or canceller is at
    outcome,    \* the ChargeResult a worker holds
    seen,       \* the attempt UpdateRetryAfterAttempt read back
    expired,    \* workers whose context is cancelled
    charges,    \* history: calls to charge for each entry, counted to MaxAttempts + 1
    over,       \* history: entries whose charge came back as final
    contended,  \* history: entries two workers were at together
    owed        \* history: subscriptions whose billing was soft-declined

vars == <<table, pc, batch, cur, outcome, seen, expired, charges, over, contended, owed>>

-----------------------------------------------------------------------------
Exists(e)  == table[e] # None
Pending(e) == Exists(e) /\ table[e].status = "pending"

(* The workers that have read entry e and will still act on it.             *)
Holders(e) == {w \in Workers : cur[w] = e \/ (w = Tick /\ e \in batch)}

(* ExecContext fails on a dead context.                                     *)
DbMay(w, o) ==
    \/ o = "ok" /\ w \notin expired
    \/ o = "error" /\ (w \in expired \/ DbErrors)

Moved(w, s) == pc' = [pc EXCEPT ![w] = s]

(* ProcessRetry returned: ExecuteRetryBatch goes on, a request is answered.  *)
Finish(w) ==
    /\ cur' = [cur EXCEPT ![w] = None]
    /\ IF w = Tick /\ batch # {} THEN Moved(w, "next") ELSE Moved(w, "idle")

Init ==
    /\ table = [e \in Entries |-> None]
    /\ pc = [w \in Workers \cup Cancellers |-> "idle"]
    /\ batch = {}
    /\ cur = [w \in Workers \cup Cancellers |-> None]
    /\ outcome = [w \in Workers |-> "CHARGE_ERROR"]
    /\ seen = [w \in Workers |-> 1]
    /\ expired = {}
    /\ charges = [e \in Entries |-> 0]
    /\ over = {} /\ contended = {} /\ owed = {}

-----------------------------------------------------------------------------
(* ProcessJob after a soft decline: CreateRetryEntry.  INSERT ... ON CONFLICT *)
(* (subscription_id) WHERE status = 'pending' is an error unless a unique   *)
(* index matches it; with one, a pending row is left as it is.              *)
FreshRow(s, code) ==
    [sub |-> s, attempt |-> 1, status |-> "pending", due |-> FALSE, code |-> code]

HasPending(s) == \E e \in Entries : Pending(e) /\ table[e].sub = s

Schedule(s, e, code) ==
    /\ ~Exists(e) /\ ClassifyError(code) = "soft"
    /\ s \in owed => Rebills
    /\ table' = IF PendingIndex /\ ~HasPending(s)
                THEN [table EXCEPT ![e] = FreshRow(s, code)]
                ELSE table
    /\ owed' = owed \cup {s}
    /\ UNCHANGED <<pc, batch, cur, outcome, seen, expired, charges, over, contended>>

(* The clock passes next_retry_at.                                          *)
FallDue(e) ==
    /\ Pending(e) /\ ~table[e].due
    /\ table' = [table EXCEPT ![e].due = TRUE]
    /\ UNCHANGED <<pc, batch, cur, outcome, seen, expired, charges, over, contended, owed>>

(* GetDueRetries: at most BatchSize of the due rows.                        *)
Due == {e \in Entries : Pending(e) /\ table[e].due}

Select ==
    /\ pc[Tick] = "idle" /\ Due # {}
    /\ \E b \in SUBSET Due :
         /\ b = Due \/ Cardinality(b) = BatchSize
         /\ Cardinality(b) <= BatchSize
         /\ batch' = b
         /\ contended' = contended \cup {e \in b : Holders(e) # {}}
    /\ Moved(Tick, "next")
    /\ expired' = expired \ {Tick}
    /\ UNCHANGED <<table, cur, outcome, seen, charges, over, owed>>

TakeNext(e) ==
    /\ pc[Tick] = "next" /\ e \in batch
    /\ batch' = batch \ {e}
    /\ cur' = [cur EXCEPT ![Tick] = e]
    /\ Moved(Tick, "mark")
    /\ UNCHANGED <<table, outcome, seen, expired, charges, over, contended, owed>>

(* Handler.RetryNow reads the row and refuses one that is not pending.       *)
Retryable_Any(e) == Exists(e)
Retryable(e) == Pending(e)

RetryNow(c, e) ==
    /\ pc[c] = "idle" /\ Retryable(e)
    /\ cur' = [cur EXCEPT ![c] = e]
    /\ contended' = IF Holders(e) # {} THEN contended \cup {e} ELSE contended
    /\ expired' = expired \ {c}
    /\ Moved(c, "mark")
    /\ UNCHANGED <<table, batch, outcome, seen, charges, over, owed>>

-----------------------------------------------------------------------------
(* ProcessRetry, for the tick and for RetryNow alike.  An error of the first *)
(* UPDATE is logged and the retry goes on.                                  *)
SetStatus(e, s) == [table EXCEPT ![e].status = s]

Mark(w) ==
    /\ pc[w] = "mark"
    /\ \/ DbMay(w, "ok") /\ table' = SetStatus(cur[w], "processing")
       \/ DbMay(w, "error") /\ UNCHANGED table
    /\ Moved(w, "subscription")
    /\ UNCHANGED <<batch, cur, outcome, seen, expired, charges, over, contended, owed>>

GetSubscription(w) ==
    /\ pc[w] = "subscription"
    /\ \/ /\ w \notin expired
          /\ Moved(w, "charge")
          /\ UNCHANGED outcome
       \/ /\ Lossy \/ w \in expired
          /\ outcome' = [outcome EXCEPT ![w] = "SUBSCRIPTION_ERROR"]
          /\ Moved(w, "reread")
    /\ UNCHANGED <<table, batch, cur, seen, expired, charges, over, contended, owed>>

(* On a dead context ChargeSubscription sends nothing.                      *)
ChargeDead(w) ==
    /\ pc[w] = "charge" /\ w \in expired
    /\ outcome' = [outcome EXCEPT ![w] = "CHARGE_ERROR"]
    /\ Moved(w, "reread")
    /\ UNCHANGED <<table, batch, cur, seen, expired, charges, over, contended, owed>>

Charge(w) ==
    /\ pc[w] = "charge" /\ w \notin expired
    /\ charges' = [charges EXCEPT ![cur[w]] = IF @ > MaxAttempts THEN @ ELSE @ + 1]
    /\ Moved(w, "await")
    /\ UNCHANGED <<table, batch, cur, outcome, seen, expired, over, contended, owed>>

Final(o) == o = Success \/ ClassifyError(o) = "hard"

Answer(w, o) ==
    /\ pc[w] = "await"
    /\ o \in DeclineCodes \cup {Success} \/ (o = "CHARGE_ERROR" /\ (Lossy \/ w \in expired))
    /\ outcome' = [outcome EXCEPT ![w] = o]
    /\ over' = IF Final(o) THEN over \cup {cur[w]} ELSE over
    /\ Moved(w, "reread")
    /\ UNCHANGED <<table, batch, cur, seen, expired, charges, contended, owed>>

(* UpdateRetryAfterAttempt reads the row back and, in a second statement,    *)
(* writes what follows from the attempt it read.                            *)
Reread(w) ==
    /\ pc[w] = "reread"
    /\ \/ /\ DbMay(w, "ok")
          /\ seen' = [seen EXCEPT ![w] = table[cur[w]].attempt]
          /\ Moved(w, "write")
          /\ UNCHANGED cur
       \/ /\ DbMay(w, "error")
          /\ Finish(w)
          /\ UNCHANGED seen
    /\ UNCHANGED <<table, batch, outcome, expired, charges, over, contended, owed>>

Failed_OffByOne(row, attempt, code) ==
    IF attempt > MaxAttempts + 1 THEN [row EXCEPT !.status = "exhausted", !.attempt = attempt, !.code = code]
    ELSE IF ClassifyError(code) = "hard" THEN [row EXCEPT !.status = "failed", !.attempt = attempt, !.code = code]
    ELSE [row EXCEPT !.status = "pending", !.attempt = attempt, !.code = code, !.due = FALSE]

Failed(row, attempt, code) ==
    IF attempt > MaxAttempts THEN [row EXCEPT !.status = "exhausted", !.attempt = attempt, !.code = code]
    ELSE IF ClassifyError(code) = "hard" THEN [row EXCEPT !.status = "failed", !.attempt = attempt, !.code = code]
    ELSE [row EXCEPT !.status = "pending", !.attempt = attempt, !.code = code, !.due = FALSE]

Attempted_StillPending(row, attempt, o) ==
    IF o = Success THEN [row EXCEPT !.status = "pending"]
    ELSE Failed(row, attempt + 1, o)

Attempted_NoCount(row, attempt, o) ==
    IF o = Success THEN [row EXCEPT !.status = "succeeded"]
    ELSE Failed(row, attempt, o)

Attempted(row, attempt, o) ==
    IF o = Success THEN [row EXCEPT !.status = "succeeded"]
    ELSE Failed(row, attempt + 1, o)

(* The CHECK on attempt, and the unique index if there is one.              *)
Accepts_NoCheck(e, row) == TRUE
Accepts(e, row) ==
    /\ row.attempt \in ValidAttempts
    /\ PendingIndex /\ row.status = "pending" =>
         \A d \in Entries \ {e} : Pending(d) => table[d].sub # row.sub

Write(w) ==
    LET e == cur[w]
        row == Attempted(table[e], seen[w], outcome[w])
    IN  /\ pc[w] = "write"
        /\ \/ DbMay(w, "ok") /\ Accepts(e, row) /\ table' = [table EXCEPT ![e] = row]
           \/ DbMay(w, "ok") /\ ~Accepts(e, row) /\ UNCHANGED table
           \/ DbMay(w, "error") /\ UNCHANGED table
        /\ Finish(w)
        /\ UNCHANGED <<batch, outcome, seen, expired, charges, over, contended, owed>>

-----------------------------------------------------------------------------
(* Handler.CancelRetry: a check, and an UPDATE that does not repeat it.      *)
CancelCheck(c, e) ==
    /\ pc[c] = "idle" /\ Exists(e)
    /\ table[e].status \in {"pending", "processing"}
    /\ cur' = [cur EXCEPT ![c] = e]
    /\ Moved(c, "cancel")
    /\ UNCHANGED <<table, batch, outcome, seen, expired, charges, over, contended, owed>>

CancelWrite(c) ==
    /\ pc[c] = "cancel"
    /\ \/ table' = SetStatus(cur[c], "canceled")
       \/ DbErrors /\ UNCHANGED table
    /\ cur' = [cur EXCEPT ![c] = None]
    /\ Moved(c, "idle")
    /\ UNCHANGED <<batch, outcome, seen, expired, charges, over, contended, owed>>

-----------------------------------------------------------------------------
(* The tick's two minutes run out, or the client of RetryNow goes away.      *)
Expire(w) ==
    /\ Deadlines /\ pc[w] # "idle" /\ w \notin expired
    /\ expired' = expired \cup {w}
    /\ UNCHANGED <<table, pc, batch, cur, outcome, seen, charges, over, contended, owed>>

(* The process dies and restarts; only the table is left.                   *)
Crash ==
    /\ Crashes /\ \E w \in Workers \cup Cancellers : pc[w] # "idle"
    /\ pc' = [w \in Workers \cup Cancellers |-> "idle"]
    /\ cur' = [w \in Workers \cup Cancellers |-> None]
    /\ batch' = {} /\ expired' = {}
    /\ UNCHANGED <<table, outcome, seen, charges, over, contended, owed>>

ProcessRetry(w) ==
    \/ Mark(w) \/ GetSubscription(w) \/ ChargeDead(w) \/ Charge(w)
    \/ \E o \in Outcomes : Answer(w, o)
    \/ Reread(w) \/ Write(w)

TickStep == Select \/ (\E e \in Entries : TakeNext(e)) \/ ProcessRetry(Tick)

Next ==
    \/ \E s \in Subscriptions, e \in Entries, code \in DeclineCodes : Schedule(s, e, code)
    \/ \E e \in Entries : FallDue(e)
    \/ TickStep
    \/ \E c \in Callers : ProcessRetry(c) \/ \E e \in Entries : RetryNow(c, e)
    \/ \E c \in Cancellers : CancelWrite(c) \/ \E e \in Entries : CancelCheck(c, e)
    \/ \E w \in Workers : Expire(w)
    \/ Crash

Spec == Init /\ [][Next]_vars

(* Time passes, the ticker fires, and whatever runs goes on: client calls    *)
(* are bounded by their 30 s timeout.  Nobody owes a cancellation, a retry   *)
(* by hand or a failure.                                                    *)
Fairness ==
    /\ \A e \in Entries : WF_vars(FallDue(e))
    /\ WF_vars(TickStep)
    /\ \A c \in Callers : WF_vars(ProcessRetry(c))
    /\ \A c \in Cancellers : WF_vars(CancelWrite(c))

FairSpec == Spec /\ Fairness

-----------------------------------------------------------------------------
(* Properties.                                                              *)

Busy == {"mark", "subscription", "charge", "await", "reread", "write"}

(* Every variable keeps its type; in particular no row leaves the range the  *)
(* table's CHECK allows.                                                    *)
TypeOK ==
    /\ table \in [Entries -> Rows \cup {None}]
    /\ pc \in [Workers \cup Cancellers -> {"idle", "next", "cancel"} \cup Busy]
    /\ batch \subseteq Entries
    /\ cur \in [Workers \cup Cancellers -> Entries \cup {None}]
    /\ outcome \in [Workers -> Outcomes]
    /\ seen \in [Workers -> ValidAttempts]
    /\ expired \subseteq Workers
    /\ charges \in [Entries -> 0 .. MaxAttempts + 1]
    /\ over \subseteq Entries /\ contended \subseteq Entries
    /\ owed \subseteq Subscriptions

(* Deadlines, crashes and cancellations at any point: an entry no two workers *)
(* were at together is charged at most MaxAttempts times.                   *)
AttemptsBounded ==
    \A e \in Entries : e \notin contended => charges[e] <= MaxAttempts

(* And once its charge succeeded or was declined for good it is never       *)
(* charged again, even if the scheduler could not write that down.          *)
OverMeansOver ==
    [][\A e \in Entries :
         e \in over /\ e \notin contended => charges'[e] = charges[e]]_vars

(* An entry that succeeded, failed or was exhausted is not reopened by a      *)
(* worker that is at it alone; a late cancellation may still relabel it.    *)
ResolvedIsFinal ==
    [][\A e \in Entries :
         /\ Exists(e) /\ e \notin contended
         /\ table[e].status \in {"succeeded", "failed", "exhausted"}
         => table'[e].status \in {table[e].status, "canceled"}]_vars

(* Every retry that is scheduled, or resumed, is resolved in the end: none   *)
(* stays "processing" for ever.                                             *)
EveryRetryResolved ==
    \A e \in Entries : Exists(e) ~> Exists(e) /\ table[e].status \in Resolved
=============================================================================
