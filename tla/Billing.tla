------------------------------ MODULE Billing ------------------------------
(***************************************************************************)
(* The billing of subscriptions over several days: the scheduler selects    *)
(* what is due or up for retry, the subscription service charges it under   *)
(* the key of the day and moves its period on, and customers create, cancel *)
(* and change subscriptions meanwhile.  A worker is a goroutine of the        *)
(* scheduler together with the charge request it has open at the             *)
(* subscription service and the call this has open at the orchestrator.  Of  *)
(* the orchestrator there is what a caller can tell: a call looks the key up, *)
(* charges if it finds no answer, and records the answer, for good.          *)
(***************************************************************************)
EXTENDS Naturals

CONSTANTS
    Subscriptions,
    Entries,        \* ids of retry_queue
    Ticker,         \* the goroutine that runs Scheduler.tick
    Triggers,       \* concurrent calls of TriggerManual
    Callers,        \* concurrent requests of POST /scheduler/retries/{id}/retry-now
    LastDay,        \* bound: days are 0 .. LastDay
    Cycles,         \* billing cycles
    Length,         \* the days in a period of each cycle
    MaxAttempts,    \* RetryPolicy.MaxAttempts
    Trials,         \* may plans have trial days?
    Changes,        \* may customers change plans?
    DbErrors,       \* may a statement fail?
    Lossy,          \* may a call of the orchestrator, its reply, or a processor's be lost?
    Deadlines,      \* may the scheduler stop waiting for the subscription service?
    Crashes,        \* may the scheduler and the charges it has open die?
    None            \* no row, no subscription

Batchers == {Ticker} \cup Triggers
Retriers == {Ticker} \cup Callers
Workers == Batchers \cup Retriers

Days == 0 .. LastDay

(* ChargeSubscription's idempotency key: the subscription and the date.     *)
Keys == Subscriptions \X Days

Statuses == {"active", "trialing", "past_due"}

Subs == [status : Statuses, cycle : Cycles, next : Nat, cancel : BOOLEAN]
Retries == [sub : Subscriptions, attempt : 1 .. MaxAttempts + 1,
            status : {"pending", "processing", "resolved"}]

ASSUME BillingAssumption ==
    /\ LastDay \in Nat /\ MaxAttempts \in Nat \ {0}
    /\ Cycles # {} /\ Length \in [Cycles -> Nat \ {0}]
    /\ None \notin Subscriptions \cup Entries \cup Subs \cup Retries
    /\ {Trials, Changes, DbErrors, Lossy, Deadlines, Crashes} \subseteq BOOLEAN

VARIABLES
    today,
    subs,       \* subscriptions by id
    queue,      \* retry_queue by id
    pc,         \* where each worker is
    batch,      \* what a batcher selected and has not come to
    cur,        \* the subscription each worker is at
    entry,      \* the retry each worker is at; None: a billing job
    day,        \* the date in its idempotency key
    period,     \* the cycle AdvanceSubscriptionPeriod read
    reply,      \* the answer on its way to the service, then to the scheduler
    captures,   \* how often money was captured under each key; 2: more than once
    told,       \* the answers the orchestrator has recorded for each key
    faulty,     \* history: subscriptions whose payment was not heard of or written down
    overnight,  \* history: subscriptions that were being worked off at midnight
    raced,      \* history: subscriptions with two calls past the lookup of one key
    stray       \* history: subscriptions a failed call left with a retry or past due wrongly

rowVars == <<subs, queue>>
jobVars == <<batch, cur, entry>>
callVars == <<day, period, reply>>
payVars == <<captures, told>>
history == <<faulty, overnight, raced, stray>>
vars == <<today, rowVars, pc, jobVars, callVars, payVars, history>>

-----------------------------------------------------------------------------
Created(s) == subs[s] # None
Pending(e) == queue[e] # None /\ queue[e].status = "pending"

Moved(w, p) == pc' = [pc EXCEPT ![w] = p]

(* Somebody will still act on what it read of s.                            *)
Held(s) ==
    \/ \E w \in Workers : cur[w] = s
    \/ \E w \in Batchers : s \in batch[w]

(* What the locals of a handler are outside it.                             *)
NoCycle == CHOOSE c \in Cycles : TRUE

Forget(w) ==
    /\ day' = [day EXCEPT ![w] = 0]
    /\ period' = [period EXCEPT ![w] = NoCycle]
    /\ reply' = [reply EXCEPT ![w] = "error"]

(* The answer to w's charge is not heard of, or its success not written down. *)
Fault(w) ==
    /\ faulty' = faulty \cup {cur[w]}
    /\ UNCHANGED <<overnight, raced, stray>>

(* A retry of s waits, in the queue q.                                      *)
Waits(q, s) == \E e \in Entries : q[e] # None /\ q[e].status = "pending" /\ q[e].sub = s

Init ==
    /\ today = 0
    /\ subs = [s \in Subscriptions |-> None]
    /\ queue = [e \in Entries |-> None]
    /\ pc = [w \in Workers |-> "idle"]
    /\ batch = [w \in Batchers |-> {}]
    /\ cur = [w \in Workers |-> None]
    /\ entry = [w \in Workers |-> None]
    /\ day = [w \in Workers |-> 0]
    /\ period = [w \in Workers |-> NoCycle]
    /\ reply = [w \in Workers |-> "error"]
    /\ captures = [k \in Keys |-> 0] /\ told = [k \in Keys |-> {}]
    /\ faulty = {} /\ overnight = {} /\ raced = {} /\ stray = {}

-----------------------------------------------------------------------------
(* Customers.                                                               *)
CustomerOnly == UNCHANGED <<today, queue, pc, jobVars, callVars, payVars, history>>

NewSubscription(c, trial) ==
    [status |-> IF trial THEN "trialing" ELSE "active",
     cycle |-> c,
     next |-> IF trial THEN today + 1 ELSE today + Length[c],   \* a trial of one day
     cancel |-> FALSE]

CreateSubscription(s, c, trial) ==
    /\ ~Created(s)
    /\ trial => Trials
    /\ subs' = [subs EXCEPT ![s] = NewSubscription(c, trial)]
    /\ CustomerOnly

(* No status is written: "canceled" is one no statement sets.               *)
CancelSubscription(s) ==
    /\ Created(s) /\ ~subs[s].cancel
    /\ subs' = [subs EXCEPT ![s].cancel = TRUE]
    /\ CustomerOnly

(* A dearer plan starts a new period at once.                               *)
UpgradeSubscription(s, c) ==
    /\ Changes /\ Created(s)
    /\ subs' = [subs EXCEPT ![s].cycle = c, ![s].next = today + Length[c]]
    /\ CustomerOnly

DowngradeSubscription(s, c) ==
    /\ Changes /\ Created(s)
    /\ subs' = [subs EXCEPT ![s].cycle = c]
    /\ CustomerOnly

NextDay ==
    /\ today < LastDay
    /\ today' = today + 1
    /\ overnight' = overnight \cup {s \in Subscriptions : Held(s)}
    /\ UNCHANGED <<rowVars, pc, jobVars, callVars, payVars, faulty, raced, stray>>

-----------------------------------------------------------------------------
(* GetSubscriptionsDue, in the tick and in TriggerManual (no LIMIT here).    *)
Due_PastDueToo(s) ==
    /\ Created(s) /\ subs[s].status \in {"active", "past_due"}
    /\ subs[s].next <= today /\ ~subs[s].cancel

Due(s) ==
    /\ Created(s) /\ subs[s].status = "active"
    /\ subs[s].next <= today /\ ~subs[s].cancel

SelectDue(w) ==
    LET due == {s \in Subscriptions : Due(s)}
    IN  /\ pc[w] = "idle" /\ due # {}
        /\ batch' = [batch EXCEPT ![w] = due]
        /\ Moved(w, "next")
        /\ UNCHANGED <<today, rowVars, cur, entry, callVars, payVars, history>>

(* A worker that is done with a subscription goes on to the next.           *)
Finish(w) ==
    /\ cur' = [cur EXCEPT ![w] = None]
    /\ entry' = [entry EXCEPT ![w] = None]
    /\ Forget(w)
    /\ IF w \in Batchers /\ batch[w] # {} THEN Moved(w, "next") ELSE Moved(w, "idle")

TakeNext(w, s) ==
    /\ pc[w] = "next" /\ s \in batch[w]
    /\ batch' = [batch EXCEPT ![w] = @ \ {s}]
    /\ cur' = [cur EXCEPT ![w] = s]
    /\ Moved(w, "read")
    /\ UNCHANGED <<today, rowVars, entry, callVars, payVars, history>>

(* A retry is read, by GetDueRetries or by RetryNow, and then marked.       *)
TakeRetry(w, e) ==
    /\ pc[w] = "idle" /\ Pending(e)
    /\ cur' = [cur EXCEPT ![w] = queue[e].sub]
    /\ entry' = [entry EXCEPT ![w] = e]
    /\ Moved(w, "mark")
    /\ UNCHANGED <<today, rowVars, batch, callVars, payVars, history>>

(* A mark that fails is logged, and the charge goes on.                      *)
Mark(w) ==
    /\ pc[w] = "mark"
    /\ \/ queue' = [queue EXCEPT ![entry[w]].status = "processing"]
       \/ DbErrors /\ UNCHANGED queue
    /\ Moved(w, "read")
    /\ UNCHANGED <<today, subs, jobVars, callVars, payVars, history>>

-----------------------------------------------------------------------------
(* ChargeSubscription: the row and its plan, then the key of the day.  It     *)
(* would refuse status "canceled", which no row has.  A read that fails is a  *)
(* 500, which the scheduler takes for a failed charge.                       *)
Key(w) == <<cur[w], day[w]>>

ReadSubscription(w) ==
    /\ pc[w] = "read"
    /\ \/ /\ day' = [day EXCEPT ![w] = today]
          /\ Moved(w, "called")
          /\ UNCHANGED reply
       \/ /\ DbErrors
          /\ reply' = [reply EXCEPT ![w] = "error"]
          /\ Moved(w, "report")
          /\ UNCHANGED day
    /\ UNCHANGED <<today, rowVars, jobVars, period, payVars, history>>

(* The orchestrator: an answer that is recorded is replayed, a failure too    *)
(* (of two, the cache's or the table's); else the call goes on to charge.    *)
Answer_StillActive(w, v) ==
    IF v THEN reply' = [reply EXCEPT ![w] = "success"] /\ Moved(w, "period")
         ELSE reply' = [reply EXCEPT ![w] = "declined"] /\ Moved(w, "report")

Answer(w, v) ==
    IF v THEN reply' = [reply EXCEPT ![w] = "success"] /\ Moved(w, "period")
         ELSE reply' = [reply EXCEPT ![w] = "declined"] /\ Moved(w, "past_due")

Charging(w) == pc[w] = "charge"

Lookup(w) ==
    /\ pc[w] = "called"
    /\ \/ /\ \E v \in told[Key(w)] : Answer(w, v)
          /\ UNCHANGED raced
       \/ /\ told[Key(w)] = {}
          /\ Moved(w, "charge")
          /\ raced' = raced \cup
               {s \in {cur[w]} : \E v \in Workers : Charging(v) /\ Key(v) = Key(w)}
          /\ UNCHANGED reply
    /\ UNCHANGED <<today, rowVars, jobVars, day, period, payVars, faulty, overnight, stray>>

Taken(k) == captures' = [captures EXCEPT ![k] = IF @ = 0 THEN 1 ELSE 2]
TakenTwice(k) == captures' = [captures EXCEPT ![k] = 2]
Recorded(k, v) == told' = [told EXCEPT ![k] = @ \cup {v}]

(* If the first processor's reply was lost, it may have taken the money, too.  *)
Capture(w) ==
    /\ Charging(w)
    /\ \/ Taken(Key(w)) /\ UNCHANGED history
       \/ Lossy /\ TakenTwice(Key(w)) /\ Fault(w)
    /\ Recorded(Key(w), TRUE) /\ Answer(w, TRUE)
    /\ UNCHANGED <<today, rowVars, jobVars, day, period>>

(* Declined, or no processor answered; one, or both, may have taken it even so. *)
Decline(w) ==
    /\ Charging(w)
    /\ \/ UNCHANGED <<captures, history>>
       \/ Lossy /\ (Taken(Key(w)) \/ TakenTwice(Key(w))) /\ Fault(w)
    /\ Recorded(Key(w), FALSE) /\ Answer(w, FALSE)
    /\ UNCHANGED <<today, rowVars, jobVars, day, period>>

(* Any error of the call is taken for a failed charge.  The call does not get   *)
(* there, or ends before a processor is called; or an answer is lost before   *)
(* anything is done about it.                                               *)
FailCall(w) ==
    /\ Lossy
    /\ \/ pc[w] \in {"charge", "period"} /\ Fault(w)
       \/ /\ pc[w] = "called" \/ (pc[w] = "past_due" /\ reply[w] = "declined")
          /\ UNCHANGED history
    /\ reply' = [reply EXCEPT ![w] = "error"]
    /\ Moved(w, "past_due")
    /\ UNCHANGED <<today, rowVars, jobVars, day, period, payVars>>

(* s is not w's alone: somebody else is at it, or will be, or has charged it.  *)
Shared(w, s) ==
    \/ \E v \in Workers \ {w} : cur[v] = s
    \/ \E v \in Batchers : s \in batch[v]
    \/ captures[<<s, today>>] > 0

(* The error of this UPDATE is not even looked at.                          *)
MarkPastDue(w) ==
    LET s == cur[w]
    IN  /\ pc[w] = "past_due"
        /\ \/ /\ subs' = [subs EXCEPT ![s].status = "past_due"]
              /\ stray' = stray \cup {t \in {s} : reply[w] = "error" /\ Shared(w, s)}
           \/ /\ DbErrors /\ UNCHANGED subs
              /\ stray' = stray \cup {t \in {s} : subs[t].status # "past_due"}
        /\ Moved(w, "report")
        /\ UNCHANGED <<today, queue, jobVars, callVars, payVars, faulty, overnight, raced>>

(* AdvanceSubscriptionPeriod reads the row and then writes it; an error of    *)
(* either is logged, and the charge is reported as the success it is.       *)
ReadPeriod(w) ==
    /\ pc[w] = "period"
    /\ \/ /\ period' = [period EXCEPT ![w] = subs[cur[w]].cycle]
          /\ Moved(w, "advance")
          /\ UNCHANGED history
       \/ DbErrors /\ Fault(w) /\ Moved(w, "report") /\ UNCHANGED period
    /\ UNCHANGED <<today, rowVars, jobVars, day, reply, payVars>>

Advanced_FromDue(row, c) == [row EXCEPT !.next = @ + Length[c], !.status = "active"]
Advanced(row, c) == [row EXCEPT !.next = today + Length[c], !.status = "active"]

Advance(w) ==
    LET s == cur[w]
    IN  /\ pc[w] = "advance"
        /\ \/ subs' = [subs EXCEPT ![s] = Advanced(@, period[w])] /\ UNCHANGED history
           \/ DbErrors /\ Fault(w) /\ UNCHANGED subs
        /\ Moved(w, "report")
        /\ UNCHANGED <<today, queue, jobVars, callVars, payVars>>

(* The scheduler gives up waiting, or its two minutes are over: the request's *)
(* context is cancelled, and what the handler still tries to do fails.  A     *)
(* call that was made may still take money, or its answer is not acted on.   *)
Called == {"called", "charge", "period", "advance"}
AtPayment == Called \ {"called"}
AtService == Called \cup {"read", "past_due"}

Abandon(w) ==
    /\ Deadlines /\ pc[w] \in AtService
    /\ reply' = [reply EXCEPT ![w] = "error"]
    /\ Moved(w, "report")
    /\ IF pc[w] \in AtPayment THEN Fault(w) ELSE UNCHANGED history
    /\ UNCHANGED <<today, rowVars, jobVars, day, period, payVars>>

-----------------------------------------------------------------------------
(* What the scheduler does with the answer.  A decline is soft or hard; an    *)
(* error is soft.                                                           *)
OtherPending(s, e) == \E d \in Entries \ {e} : Pending(d) /\ queue[d].sub = s

(* CreateRetryEntry; a slot is free when its row is resolved and forgotten.  *)
Free(e) ==
    /\ queue[e] # None => queue[e].status = "resolved"
    /\ \A w \in Workers : entry[w] # e

Schedule(s) ==
    \/ OtherPending(s, None) /\ UNCHANGED queue
    \/ /\ ~OtherPending(s, None)
       /\ \E e \in Entries :
            /\ Free(e)
            /\ queue' = [queue EXCEPT ![e] = [sub |-> s, attempt |-> 1, status |-> "pending"]]

Retried_NoLimit(row) == [row EXCEPT !.attempt = @ + 1, !.status = "pending"]
Retried_Forever(row) == [row EXCEPT !.status = "pending"]
Retried(row) ==
    IF row.attempt + 1 > MaxAttempts
    THEN [row EXCEPT !.attempt = MaxAttempts + 1, !.status = "resolved"]
    ELSE [row EXCEPT !.attempt = @ + 1, !.status = "pending"]

Resolved(row) == [row EXCEPT !.status = "resolved"]

(* UpdateRetryAfterAttempt; the unique index may refuse it.                 *)
Resolve(e, r) ==
    \/ r = "success" /\ queue' = [queue EXCEPT ![e] = Resolved(@)]
    \/ r = "declined" /\ queue' = [queue EXCEPT ![e] = Resolved(@)]
    \/ /\ r # "success"
       /\ queue' = IF Retried(queue[e]).status = "pending" /\ OtherPending(queue[e].sub, e)
                   THEN queue ELSE [queue EXCEPT ![e] = Retried(@)]

Written(w) ==
    \/ /\ entry[w] = None
       /\ \/ reply[w] \in {"success", "declined"} /\ UNCHANGED queue
          \/ reply[w] \in {"declined", "error"} /\ Schedule(cur[w])
    \/ entry[w] # None /\ Resolve(entry[w], reply[w])

(* What is left when a call failed: w's subscription has a retry waiting, and *)
(* yet is not past due.                                                     *)
LeftStray(w, q) == {s \in {cur[w]} : Waits(q, s) /\ subs[s].status # "past_due"}

Report(w) ==
    /\ pc[w] = "report"
    /\ \/ Written(w) /\ reply[w] # "error" /\ UNCHANGED stray
       \/ Written(w) /\ reply[w] = "error" /\ stray' = stray \cup LeftStray(w, queue')
       \/ (DbErrors \/ Deadlines) /\ UNCHANGED queue /\ stray' = stray \cup LeftStray(w, queue)
    /\ Finish(w)
    /\ UNCHANGED <<today, subs, batch, payVars, faulty, overnight, raced>>

(* CreateJob fails, or the batch's context is over: the job is skipped.      *)
SkipJob(w, s) ==
    /\ DbErrors \/ Deadlines
    /\ pc[w] = "next" /\ s \in batch[w]
    /\ batch' = [batch EXCEPT ![w] = @ \ {s}]
    /\ Moved(w, IF batch[w] = {s} THEN "idle" ELSE "next")
    /\ UNCHANGED <<today, rowVars, cur, entry, callVars, payVars, history>>

Crash ==
    /\ Crashes /\ \E w \in Workers : pc[w] # "idle"
    /\ pc' = [w \in Workers |-> "idle"]
    /\ batch' = [w \in Batchers |-> {}]
    /\ cur' = [w \in Workers |-> None]
    /\ entry' = [w \in Workers |-> None]
    /\ day' = [w \in Workers |-> 0]
    /\ period' = [w \in Workers |-> NoCycle]
    /\ reply' = [w \in Workers |-> "error"]
    /\ faulty' = faulty \cup {cur[w] : w \in {v \in Workers : pc[v] \in AtPayment}}
    /\ stray' = stray \cup UNION {LeftStray(w, queue) : w \in {v \in Workers : pc[v] = "report"}}
    /\ UNCHANGED <<today, rowVars, payVars, overnight, raced>>

-----------------------------------------------------------------------------
Customer ==
    \E s \in Subscriptions :
        \/ \E c \in Cycles : (\E trial \in BOOLEAN : CreateSubscription(s, c, trial))
                             \/ UpgradeSubscription(s, c) \/ DowngradeSubscription(s, c)
        \/ CancelSubscription(s)

Charge(w) ==
    \/ ReadSubscription(w) \/ MarkPastDue(w) \/ ReadPeriod(w) \/ Advance(w)
    \/ Lookup(w) \/ Capture(w) \/ Decline(w) \/ FailCall(w) \/ Abandon(w)

(* What w goes on to do once it is at something.                            *)
Work(w) ==
    \/ w \in Batchers /\ \E s \in Subscriptions : TakeNext(w, s) \/ SkipJob(w, s)
    \/ w \in Retriers /\ Mark(w)
    \/ Charge(w) \/ Report(w)

Begin(w) ==
    \/ w \in Batchers /\ SelectDue(w)
    \/ w \in Retriers /\ \E e \in Entries : TakeRetry(w, e)

Next ==
    \/ Customer \/ NextDay \/ Crash
    \/ \E w \in Workers : Begin(w) \/ Work(w)

Spec == Init /\ [][Next]_vars

(* The ticker fires, and what runs goes on; calls end with their time-outs.  *)
(* Nobody owes a trigger, a retry by hand, a failure or a change of mind.   *)
Fairness ==
    /\ WF_vars(Begin(Ticker))
    /\ \A w \in Workers : WF_vars(Work(w))

FairSpec == Spec /\ Fairness

-----------------------------------------------------------------------------
(* Properties.                                                              *)

TypeOK ==
    /\ today \in Days
    /\ subs \in [Subscriptions -> Subs \cup {None}]
    /\ queue \in [Entries -> Retries \cup {None}]
    /\ pc \in [Workers -> {"idle", "next", "mark", "report"} \cup AtService]
    /\ batch \in [Batchers -> SUBSET Subscriptions]
    /\ cur \in [Workers -> Subscriptions \cup {None}]
    /\ entry \in [Workers -> Entries \cup {None}]
    /\ day \in [Workers -> Days]
    /\ period \in [Workers -> Cycles]
    /\ reply \in [Workers -> {"success", "declined", "error"}]
    /\ captures \in [Keys -> 0 .. 2] /\ told \in [Keys -> SUBSET BOOLEAN]
    /\ {faulty, overnight, raced, stray} \subseteq SUBSET Subscriptions

Captured(s, d) == captures[<<s, d>>] > 0

(* Whatever the tick, manual triggers, retries and changes of plan do together, *)
(* crashes and failed statements between them included, a period is billed     *)
(* once: under one key money is taken once, and two payments of a             *)
(* subscription are at least the shortest period apart.  The code bills twice *)
(* in four cases, and only in these: the answer to a charge was lost or not    *)
(* written down; midnight passed between the selection of a job and its end;  *)
(* two calls were both past the lookup of one key; a failed call, of this       *)
(* service or of the orchestrator, left a retry beside a subscription that is  *)
(* not past due, or made one past due that was paid or that others were at.   *)
Whole == Subscriptions \ (faulty \cup overnight \cup raced \cup stray)

OncePerPeriod ==
    \A s \in Whole : \A c, d \in Days :
        /\ captures[<<s, d>>] <= 1
        /\ Captured(s, c) /\ Captured(s, d) /\ c < d =>
             \E k \in Cycles : c + Length[k] <= d

(* Money taken buys a period: when nobody is at a subscription any more, its  *)
(* next billing is a period after every payment, midnight or not.           *)
PaidIsAdvanced ==
    \A s \in Subscriptions \ faulty : \A d \in Days :
        Captured(s, d) /\ ~Held(s) =>
            \E k \in Cycles : d + Length[k] <= subs[s].next

(* A bill that falls due is settled: its period moves on, or it is cancelled, *)
(* or its retries end and it stays past_due.                                *)
GivenUp(s) ==
    /\ subs[s].status = "past_due" /\ ~Held(s)
    /\ \A e \in Entries : Pending(e) => queue[e].sub # s

Settled(s) == Created(s) /\ (subs[s].next > today \/ subs[s].cancel \/ GivenUp(s))

EveryBillSettled ==
    \A s \in Subscriptions : Created(s) /\ subs[s].next <= today ~> Settled(s)
=============================================================================
