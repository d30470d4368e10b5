----------------------------- MODULE MitScheduler -----------------------------
(***************************************************************************)
(* The life of cmd/mit-scheduler: the loop, its ticks, triggers by hand,     *)
(* Stop and Shutdown, the job rows a batch writes, and the mutex they share. *)
(* What a charge does to a subscription is Billing's subject and what a tick *)
(* does to the retry queue RetryQueue's; here a charge ends in a verdict and *)
(* takes the subscription off the list of what is due, or times out.         *)
(***************************************************************************)
EXTENDS FiniteSets, Integers, Sequences

CONSTANTS
    Subscriptions,
    Slow,           \* those whose charges outlast the client's 30 s, always
    Loop,           \* the goroutine of Scheduler.run
    Triggers,       \* concurrent requests of POST /scheduler/trigger
    BatchSize,      \* SchedulerConfig.BatchSize
    Patience,       \* charges of 30 s that fit a batch's two minutes (4 in the code)
    MaxFaults,      \* bound: statements that fail, or hang, on a live context, and late answers
    Crashes         \* may the process die?

Workers == {Loop} \cup Triggers

ASSUME MitSchedulerAssumption ==
    /\ Slow \subseteq Subscriptions /\ Loop \notin Triggers
    /\ BatchSize \in Nat \ {0} /\ Patience \in Nat \ {0}
    /\ MaxFaults \in Nat /\ Crashes \in BOOLEAN
    /\ IsFiniteSet(Subscriptions)

VARIABLES
    due,        \* what GetSubscriptionsDue would select, oldest billing date first
    main,       \* where main's shutdown is; "exited" and "killed" end the process
    reading,    \* Status holds the mutex while it counts jobs
    pc,         \* where the loop and each trigger are
    todo,       \* the rest of each batch
    verdict,    \* the ChargeResult at hand
    spent,      \* charges of this batch that took their 30 s
    result,     \* the counts of BatchResult, and what they leave out
    left,       \* subscriptions with a job row that is not final and that nobody is at
    faults      \* history: how often that happened

batchVars == <<todo, verdict, spent, result>>
vars == <<due, main, reading, pc, todo, verdict, spent, result, left, faults>>

Listed(q) == {q[i] : i \in 1 .. Len(q)}

(* A subscription is listed once.                                            *)
Without(q, s) ==
    LET i == CHOOSE i \in 1 .. Len(q) : q[i] = s
    IN  IF s \in Listed(q) THEN SubSeq(q, 1, i - 1) \o SubSeq(q, i + 1, Len(q)) ELSE q

NoResult == [size |-> 0, successful |-> 0, failed |-> 0, unread |-> 0, paid |-> 0]

Init ==
    /\ due = <<>> /\ main = "up" /\ reading = FALSE
    /\ pc = [w \in Workers |-> IF w = Loop THEN "select" ELSE "idle"]
    /\ todo = [w \in Workers |-> <<>>]
    /\ verdict = [w \in Workers |-> FALSE]
    /\ spent = [w \in Workers |-> 0]
    /\ result = [w \in Workers |-> NoResult]
    /\ left = {} /\ faults = 0

-----------------------------------------------------------------------------
Alive == main \notin {"exited", "killed"}

(* Scheduler.mu, for its writers: nobody holds it across a step but Status.    *)
MuFree_StopHolds == ~reading /\ main # "stopping"
MuFree == ~reading

(* A billing date passes.                                                   *)
FallDue(s) ==
    /\ Alive /\ s \notin Listed(due)
    /\ due' = Append(due, s)
    /\ UNCHANGED <<main, reading, pc, batchVars, left, faults>>

(* Status keeps its read lock during a query; who waits to write keeps new     *)
(* readers out.                                                             *)
StatusBegin ==
    /\ Alive /\ ~reading
    /\ main # "signalled" /\ \A w \in Workers : pc[w] \notin {"begin", "settle"}
    /\ reading' = TRUE
    /\ UNCHANGED <<due, main, pc, batchVars, left, faults>>

StatusEnd ==
    /\ Alive /\ reading
    /\ reading' = FALSE
    /\ UNCHANGED <<due, main, pc, batchVars, left, faults>>

-----------------------------------------------------------------------------
(* run: when a tick and the stop signal are both there, select picks either.  *)
Moved(w, p) == pc' = [pc EXCEPT ![w] = p]

StopClosed == main \in {"stopping", "draining"}

Tick ==
    /\ Alive /\ pc[Loop] = "select"
    /\ Moved(Loop, "begin")
    /\ UNCHANGED <<due, main, reading, batchVars, left, faults>>

(* tick notes when it ran, under the mutex.                                  *)
TickBegins ==
    /\ Alive /\ pc[Loop] = "begin" /\ MuFree
    /\ Moved(Loop, "query")
    /\ UNCHANGED <<due, main, reading, batchVars, left, faults>>

LoopEnds ==
    /\ Alive /\ pc[Loop] = "select" /\ StopClosed
    /\ Moved(Loop, "ended")
    /\ UNCHANGED <<due, main, reading, batchVars, left, faults>>

(* TriggerManual runs in a request, which the server takes until Shutdown.    *)
Trigger(g) ==
    /\ pc[g] = "idle" /\ main \in {"up", "signalled", "stopping"}
    /\ Moved(g, "query")
    /\ UNCHANGED <<due, main, reading, batchVars, left, faults>>

-----------------------------------------------------------------------------
(* A batch, of a tick or of a trigger.  Its context is over after two minutes. *)
Expired(w) == spent[w] >= Patience

(* A statement succeeds, or fails: on a dead context always.                 *)
Fault == faults < MaxFaults /\ faults' = faults + 1
Ok(w) == ~Expired(w) /\ UNCHANGED faults
Fails(w) == IF Expired(w) THEN UNCHANGED faults ELSE Fault

Counted(w, field) == result' = [result EXCEPT ![w][field] = @ + 1]

(* GetSubscriptionsDue: the oldest BatchSize.                                *)
Selected == SubSeq(due, 1, IF Len(due) > BatchSize THEN BatchSize ELSE Len(due))

(* A failed query, or one that finds nothing, ends a trigger at once; a tick   *)
(* writes down that it processed nothing.                                   *)
Query(w) ==
    /\ Alive /\ pc[w] = "query"
    /\ \E b \in {Selected, <<>>} :
         /\ \/ b = Selected /\ UNCHANGED faults
            \/ b = <<>> /\ Fault
         /\ todo' = [todo EXCEPT ![w] = b]
         /\ result' = [result EXCEPT ![w] = [NoResult EXCEPT !.size = Len(b)]]
         /\ Moved(w, IF b # <<>> THEN "next" ELSE IF w = Loop THEN "settle" ELSE "idle")
    /\ UNCHANGED <<due, main, reading, verdict, spent, left>>

(* A failure is counted and the batch goes on.                               *)
Rest_Retried(w) == IF verdict[w] THEN Tail(todo[w]) ELSE todo[w]
Rest_StopsAtFailure(w) == IF verdict[w] THEN Tail(todo[w]) ELSE <<>>
Rest(w) == Tail(todo[w])

Dequeued(w) == todo' = [todo EXCEPT ![w] = Rest(w)]

(* CreateJob inserts a pending row, and ProcessJob marks it running; it goes on  *)
(* all the same when it could not.                                          *)
CreateJob(w) ==
    /\ Alive /\ pc[w] = "next" /\ todo[w] # <<>>
    /\ \/ /\ Ok(w)
          /\ Moved(w, "charge")
          /\ UNCHANGED <<todo, result>>
       \/ /\ Fails(w)
          /\ Dequeued(w) /\ Counted(w, "failed")
          /\ UNCHANGED pc
    /\ UNCHANGED <<due, main, reading, verdict, spent, left>>

(* ExecuteCharge: an answer makes the subscription paid or past due, and due   *)
(* no more.  A late one may or may not have done so.                        *)
Answered(w) ==
    LET s == Head(todo[w])
    IN  /\ s \notin Slow /\ ~Expired(w)
        /\ \E v \in BOOLEAN :
             /\ verdict' = [verdict EXCEPT ![w] = v]
             /\ result' = [result EXCEPT ![w].paid = IF v THEN @ + 1 ELSE @]
        /\ due' = Without(due, s)
        /\ UNCHANGED <<spent, faults>>

TimedOut(w) ==
    LET s == Head(todo[w])
    IN  /\ ~Expired(w)
        /\ IF s \in Slow THEN UNCHANGED faults ELSE Fault
        /\ spent' = [spent EXCEPT ![w] = @ + 1]
        /\ due' \in {due} \cup (IF s \in Slow THEN {} ELSE {Without(due, s)})
        /\ verdict' = [verdict EXCEPT ![w] = FALSE]
        /\ UNCHANGED result

NotSent(w) ==
    /\ Expired(w)
    /\ verdict' = [verdict EXCEPT ![w] = FALSE]
    /\ UNCHANGED <<due, spent, result, faults>>

ExecuteCharge(w) ==
    /\ Alive /\ pc[w] = "charge"
    /\ Answered(w) \/ TimedOut(w) \/ NotSent(w)
    /\ Moved(w, "update")
    /\ UNCHANGED <<main, reading, todo, left>>

(* The row becomes completed or failed, which is what the model forgets; or     *)
(* the statement fails, and the row stays as it is.                         *)
UpdateJob(w) ==
    LET s == Head(todo[w])
    IN  /\ Alive /\ pc[w] = "update"
        /\ \/ /\ Ok(w)
              /\ Moved(w, "read")
              /\ UNCHANGED <<todo, verdict, result, left>>
           \/ /\ Fails(w)
              /\ left' = left \cup {s}
              /\ Dequeued(w) /\ Counted(w, "failed")
              /\ Moved(w, "next")
              /\ verdict' = [verdict EXCEPT ![w] = FALSE]
        /\ UNCHANGED <<due, main, reading, spent>>

(* The result is read back from the row; a job that cannot be read is neither  *)
(* a success nor a failure of the batch.                                    *)
Verdict_Charged(w) == "successful"
Verdict(w) == IF verdict[w] THEN "successful" ELSE "failed"

ReadJob(w) ==
    /\ Alive /\ pc[w] = "read"
    /\ Dequeued(w) /\ Moved(w, "next")
    /\ \/ Ok(w) /\ Counted(w, Verdict(w))
       \/ Fails(w) /\ Counted(w, "unread")
    /\ verdict' = [verdict EXCEPT ![w] = FALSE]
    /\ UNCHANGED <<due, main, reading, spent, left>>

(* A statement hangs until the two minutes are over.                         *)
Hang(w) ==
    /\ Alive /\ pc[w] \in {"next", "charge", "update", "read"}
    /\ ~Expired(w) /\ Fault
    /\ spent' = [spent EXCEPT ![w] = Patience]
    /\ UNCHANGED <<due, main, reading, pc, todo, verdict, result, left>>

BatchEnds(w) ==
    /\ Alive /\ pc[w] = "next" /\ todo[w] = <<>>
    /\ Moved(w, "settle")
    /\ spent' = [spent EXCEPT ![w] = 0]
    /\ result' = [result EXCEPT ![w] = NoResult]
    /\ UNCHANGED <<due, main, reading, todo, verdict, left, faults>>

(* lastResult and processedLast, under the mutex.                            *)
Settle(w) ==
    /\ Alive /\ pc[w] = "settle" /\ MuFree
    /\ Moved(w, IF w = Loop THEN "select" ELSE "idle")
    /\ UNCHANGED <<due, main, reading, batchVars, left, faults>>

-----------------------------------------------------------------------------
(* main: a signal, Stop, Shutdown.                                           *)
Signal ==
    /\ main = "up"
    /\ main' = "signalled"
    /\ UNCHANGED <<due, reading, pc, batchVars, left, faults>>

Stop ==
    /\ main = "signalled" /\ ~reading
    /\ main' = "stopping"
    /\ UNCHANGED <<due, reading, pc, batchVars, left, faults>>

LoopDone_NoWait == TRUE
LoopDone == pc[Loop] = "ended"

StopReturns ==
    /\ main = "stopping" /\ LoopDone
    /\ main' = "draining"
    /\ UNCHANGED <<due, reading, pc, batchVars, left, faults>>

(* A worker has a row that is pending or running.                            *)
HasRow(w) == pc[w] \in {"charge", "update"}

(* The process ends: what its workers were at is left as it is.              *)
Ends(how) ==
    /\ main' = how
    /\ left' = left \cup {Head(todo[w]) : w \in {v \in Workers : HasRow(v)}}
    /\ pc' = [w \in Workers |-> "gone"]
    /\ todo' = [w \in Workers |-> <<>>] /\ result' = [w \in Workers |-> NoResult]
    /\ verdict' = [w \in Workers |-> FALSE] /\ spent' = [w \in Workers |-> 0]
    /\ reading' = FALSE
    /\ UNCHANGED <<due, faults>>

(* Shutdown waits for open requests, for 30 s at most.                       *)
Shutdown ==
    /\ main = "draining" /\ ~reading /\ \A g \in Triggers : pc[g] = "idle"
    /\ Ends("exited")

ShutdownFails ==
    /\ main = "draining" /\ \E g \in Triggers : pc[g] # "idle"
    /\ Ends("killed")

Crash == Crashes /\ Alive /\ Ends("killed")

-----------------------------------------------------------------------------
BatchStep(w) ==
    \/ Query(w) \/ CreateJob(w) \/ ExecuteCharge(w)
    \/ UpdateJob(w) \/ ReadJob(w) \/ BatchEnds(w) \/ Settle(w)

Next ==
    \/ \E s \in Subscriptions : FallDue(s)
    \/ StatusBegin \/ StatusEnd
    \/ Tick \/ TickBegins \/ LoopEnds
    \/ \E g \in Triggers : Trigger(g)
    \/ \E w \in Workers : BatchStep(w) \/ Hang(w)
    \/ Signal \/ Stop \/ StopReturns \/ Shutdown \/ ShutdownFails \/ Crash

Spec == Init /\ [][Next]_vars

(* The ticker fires, what runs goes on (each statement and call has its time  *)
(* limit), a mutex is handed to who waits for it, and a select that could    *)
(* stop again and again does so once.  Nobody owes a signal or a trigger.    *)
Fairness ==
    /\ WF_vars(Tick) /\ WF_vars(TickBegins) /\ SF_vars(LoopEnds) /\ WF_vars(StatusEnd)
    /\ \A w \in Workers : WF_vars(BatchStep(w))
    /\ WF_vars(Stop) /\ WF_vars(StopReturns) /\ WF_vars(Shutdown \/ ShutdownFails)

FairSpec == Spec /\ Fairness

-----------------------------------------------------------------------------
(* Properties.                                                              *)

TypeOK ==
    /\ due \in Seq(Subscriptions)
    /\ main \in {"up", "signalled", "stopping", "draining", "exited", "killed"}
    /\ reading \in BOOLEAN
    /\ pc \in [Workers -> {"select", "begin", "idle", "query", "next", "charge", "update",
                           "read", "settle", "ended", "gone"}]
    /\ \A w \in Workers :
         /\ todo[w] \in Seq(Subscriptions) /\ Len(todo[w]) <= BatchSize
         /\ pc[w] \in {"charge", "update", "read"} => todo[w] # <<>>
         /\ spent[w] \in 0 .. Patience
    /\ verdict \in [Workers -> BOOLEAN]
    /\ result \in [Workers -> [{"size", "successful", "failed", "unread", "paid"} -> 0 .. BatchSize]]
    /\ left \subseteq Subscriptions /\ faults \in 0 .. MaxFaults

(* A job row is left pending or running only by a statement that failed or by  *)
(* the death of the process: an orderly stop waits for the tick and for the  *)
(* triggers that are under way.                                             *)
LeftoverNeedsFault ==
    left # {} => main = "killed" \/ faults > 0 \/ Cardinality(Slow) >= Patience

(* Each subscription of a batch is counted once: as a success, as a failure,   *)
(* or as a job that could not be read back.  No success is reported that was  *)
(* not charged, and without failing statements none goes unreported.         *)
BatchAccounted ==
    \A w \in Workers :
        LET r == result[w]
        IN  /\ r.successful + r.failed + r.unread + Len(todo[w]) = r.size
            /\ r.successful <= r.paid
            /\ pc[w] = "next" /\ todo[w] = <<>> /\ faults = 0 /\ ~Expired(w) =>
                   r.successful = r.paid

(* Stop comes back, whatever the tick, triggers and Status are doing.          *)
StopComesBack == main = "signalled" ~> main \in {"draining", "exited", "killed"}

(* While the scheduler is up and nothing fails, a subscription that is due is  *)
(* billed, although slow ones stay due, stay oldest and are tried first, as    *)
(* long as these are fewer than a batch holds and than its context endures.   *)
EveryDueIsBilled ==
    Cardinality(Slow) < BatchSize /\ Cardinality(Slow) < Patience =>
        \A s \in Subscriptions \ Slow :
            s \in Listed(due) ~> (s \notin Listed(due) \/ main # "up" \/ faults > 0)
=============================================================================
