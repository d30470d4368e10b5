---------------------------- MODULE Orchestrator ----------------------------
(***************************************************************************)
(* The charge path of cmd/payment-orchestrator.  Every HTTP request runs    *)
(* processCharge in a goroutine of its own; the goroutines share the Redis *)
(* cache, the transactions table and the health flag of each processor     *)
(* client.  One action is one interaction with something shared: a cache   *)
(* or database round trip, a call to BPAS, a message to a processor.       *)
(***************************************************************************)
EXTENDS FiniteSets, Naturals

CONSTANTS
    Requests,       \* the calls of POST /orchestrator/charge
    ClientKeys,     \* idempotency keys that clients send
    BpasTargets,    \* what BPAS may answer: a processor, or "none" (no answer)
    DbOutcomes,     \* how a statement on transactions may end: "ok", "error"
    CacheOutcomes,  \* how a Redis command may end: "ok", "error"
    Lossy,          \* may a call to a processor time out or its reply be garbled?
    Expires,        \* may a cached answer reach its 24 h expiration?
    Disconnects,    \* may a client give up, cancelling the request's context?
    Crashes,        \* may the orchestrator's process die?
    SerialCallers,  \* do callers never overlap two calls with one key?
    NoAnswer        \* the answer a lookup that finds nothing has

A == "processor_a"
B == "processor_b"
Processors == {A, B}

(* uuid.New(): the key minted by a request that brings none is the request. *)
Keys == ClientKeys \cup Requests

NoKey == "no key"

(* ChargeResponse, as far as anything reads it: tx is the transaction id     *)
(* minted by the request that computed the answer.                         *)
Answers == [ok : BOOLEAN, proc : Processors \cup {"none"}, tx : Requests]

ASSUME OrchestratorAssumption ==
    /\ ClientKeys \cap Requests = {}
    /\ NoKey \notin ClientKeys \cup Requests
    /\ NoAnswer \notin Answers
    /\ BpasTargets \subseteq Processors \cup {"none"} /\ BpasTargets # {}
    /\ DbOutcomes \subseteq {"ok", "error"} /\ DbOutcomes # {}
    /\ CacheOutcomes \subseteq {"ok", "error"} /\ CacheOutcomes # {}
    /\ {Lossy, Expires, Disconnects, Crashes, SerialCallers} \subseteq BOOLEAN

VARIABLES
    pc,       \* where each request is in processCharge
    key,      \* req.IdempotencyKey
    advice,   \* the target_processor BPAS named for the request
    target,   \* the processor being tried
    wire,     \* what became of the request's call to each processor
    result,   \* the ChargeResponse computed or replayed
    cache,    \* Redis: idempotency:<key>
    rows,     \* transactions, by its UNIQUE idempotency_key
    healthy,  \* ProcessorClient.healthy
    gone,     \* requests whose context is cancelled
    rivals    \* history: the same-key requests each request overlapped

vars == <<pc, key, advice, target, wire, result, cache, rows, healthy, gone, rivals>>

-----------------------------------------------------------------------------
(* Control states.                                                         *)
Working  == {"route", "method", "dispatch", "await", "store", "remember"}
InFlight == Working \cup {"cache", "db"}
Finished == {"replied", "replayed", "rejected", "dead"}

(* A processor's handling of one call.  "sent" is not yet handled (and may  *)
(* be so for ever: the request was lost); the rest are the reply it gave.  *)
Verdicts == {"captured", "declined", "refused"}
WireStates == {"none", "sent"} \cup Verdicts

Moved(r, s) == pc' = [pc EXCEPT ![r] = s]

SameKeyInFlight(k) == {q \in Requests : key[q] = k /\ pc[q] \in InFlight}

(* A context that is cancelled fails every later statement and command.    *)
DbMay(r, o)    == o \in IF r \in gone THEN {"error"} ELSE DbOutcomes
CacheMay(r, o) == o \in IF r \in gone THEN {"error"} ELSE CacheOutcomes

-----------------------------------------------------------------------------
Init ==
    /\ pc = [r \in Requests |-> "idle"]
    /\ key = [r \in Requests |-> NoKey]
    /\ advice = [r \in Requests |-> "none"]
    /\ target = [r \in Requests |-> A]
    /\ wire = [r \in Requests |-> [p \in Processors |-> "none"]]
    /\ result = [r \in Requests |-> NoAnswer]
    /\ cache = [k \in Keys |-> NoAnswer]
    /\ rows = [k \in Keys |-> NoAnswer]
    /\ healthy = [p \in Processors |-> TRUE]
    /\ gone = {}
    /\ rivals = [r \in Requests |-> {}]

(* The request body is decoded; a missing key is replaced by a fresh one.   *)
Arrive(r, k) ==
    /\ pc[r] = "idle"
    /\ k \in ClientKeys \cup {r}
    /\ SerialCallers => SameKeyInFlight(k) = {}
    /\ key' = [key EXCEPT ![r] = k]
    /\ rivals' = [q \in Requests |->
                    IF q = r THEN SameKeyInFlight(k)
                    ELSE IF q \in SameKeyInFlight(k) THEN rivals[q] \cup {r}
                    ELSE rivals[q]]
    /\ Moved(r, "cache")
    /\ UNCHANGED <<advice, target, wire, result, cache, rows, healthy, gone>>

(* checkIdempotency accepts whatever answer it finds, failures included.   *)
Replayable_SuccessOnly(a) == a # NoAnswer /\ a.ok
Replayable(a) == a # NoAnswer

Replay(r, a) ==
    /\ result' = [result EXCEPT ![r] = a]
    /\ Moved(r, "replayed")
    /\ UNCHANGED <<key, advice, target, wire, cache, rows, healthy, gone, rivals>>

Miss(r, s) ==
    /\ Moved(r, s)
    /\ UNCHANGED <<key, advice, target, wire, result, cache, rows, healthy, gone, rivals>>

LookupCache(r) ==
    /\ pc[r] = "cache"
    /\ \/ CacheMay(r, "ok") /\ Replayable(cache[key[r]]) /\ Replay(r, cache[key[r]])
       \/ CacheMay(r, "ok") /\ ~Replayable(cache[key[r]]) /\ Miss(r, "db")
       \/ CacheMay(r, "error") /\ Miss(r, "db")

LookupRow(r) ==
    /\ pc[r] = "db"
    /\ \/ DbMay(r, "ok") /\ Replayable(rows[key[r]]) /\ Replay(r, rows[key[r]])
       \/ DbMay(r, "ok") /\ ~Replayable(rows[key[r]]) /\ Miss(r, "route")
       \/ DbMay(r, "error") /\ Miss(r, "route")

(* BPAS names its choice target_processor; RoutingDecision decodes          *)
(* primary_processor, a field the reply does not have, so it stays empty.   *)
Decoded(reply) == ""
PrimaryOf_NoDefault(decision) == decision
PrimaryOf(decision) == IF decision = "" THEN A ELSE decision

Route(r) ==
    /\ pc[r] = "route"
    /\ \E a \in IF r \in gone THEN {"none"} ELSE BpasTargets :
         /\ advice' = [advice EXCEPT ![r] = a]
         /\ target' = [target EXCEPT ![r] = PrimaryOf(Decoded(a))]
    /\ Moved(r, "method")
    /\ UNCHANGED <<key, wire, result, cache, rows, healthy, gone, rivals>>

(* GetPaymentMethod: any error, a missing row included, is the 404 reply.   *)
LookupMethod(r) ==
    /\ pc[r] = "method"
    /\ \/ r \notin gone /\ Moved(r, "dispatch")
       \/ Moved(r, "rejected")
    /\ UNCHANGED <<key, advice, target, wire, result, cache, rows, healthy, gone, rivals>>

-----------------------------------------------------------------------------
(* chargeWithProcessor returned an error: after the primary the secondary is *)
(* tried, after the secondary the charge is PROCESSORS_UNAVAILABLE.         *)
TriedBoth_Never(r) == FALSE
TriedBoth(r) == target[r] = B

Unavailable(r) == [ok |-> FALSE, proc |-> "none", tx |-> r]

FailOver(r) ==
    IF TriedBoth(r)
    THEN /\ result' = [result EXCEPT ![r] = Unavailable(r)]
         /\ Moved(r, "store")
         /\ UNCHANGED target
    ELSE /\ target' = [target EXCEPT ![r] = B]
         /\ Moved(r, "dispatch")
         /\ UNCHANGED result

MarkUnhealthy(p) == healthy' = [healthy EXCEPT ![p] = FALSE]

(* The client believes the processor down: no call is made.                *)
SkipUnhealthy(r) ==
    /\ pc[r] = "dispatch" /\ ~healthy[target[r]]
    /\ FailOver(r)
    /\ UNCHANGED <<key, advice, wire, cache, rows, healthy, gone, rivals>>

(* A cancelled context fails Do before anything is sent, which the client   *)
(* takes for the processor's fault.                                         *)
SendCancelled(r) ==
    /\ pc[r] = "dispatch" /\ healthy[target[r]] /\ r \in gone
    /\ MarkUnhealthy(target[r])
    /\ FailOver(r)
    /\ UNCHANGED <<key, advice, wire, cache, rows, gone, rivals>>

Send(r) ==
    /\ pc[r] = "dispatch" /\ healthy[target[r]] /\ r \notin gone
    /\ wire' = [wire EXCEPT ![r][target[r]] = "sent"]
    /\ Moved(r, "await")
    /\ UNCHANGED <<key, advice, target, result, cache, rows, healthy, gone, rivals>>

(* The processor handles a call whenever it gets it, also after the caller  *)
(* stopped waiting; it keeps no record of idempotency keys.                 *)
Handle(r, p, v) ==
    /\ wire[r][p] = "sent"
    /\ wire' = [wire EXCEPT ![r][p] = v]
    /\ UNCHANGED <<pc, key, advice, target, result, cache, rows, healthy, gone, rivals>>

(* Status 200 and 402 carry a verdict; every other status is an error.      *)
Usable_OnlyDeclines(v) == v = "declined"
Usable(v) == v \in {"captured", "declined"}

Verdict_AlwaysSuccess(r, p, v) == [ok |-> TRUE, proc |-> p, tx |-> r]
Verdict(r, p, v) == [ok |-> v = "captured", proc |-> p, tx |-> r]

Receive(r) ==
    LET p == target[r] IN
    /\ pc[r] = "await" /\ Usable(wire[r][p])
    /\ result' = [result EXCEPT ![r] = Verdict(r, p, wire[r][p])]
    /\ Moved(r, "store")
    /\ UNCHANGED <<key, advice, target, wire, cache, rows, healthy, gone, rivals>>

ReceiveRefusal(r) ==
    LET p == target[r] IN
    /\ pc[r] = "await" /\ wire[r][p] \in Verdicts /\ ~Usable(wire[r][p])
    /\ MarkUnhealthy(p)
    /\ FailOver(r)
    /\ UNCHANGED <<key, advice, wire, cache, rows, gone, rivals>>

(* A 200 or 402 whose body does not decode: an error, but no health change. *)
ReceiveGarbled(r) ==
    /\ pc[r] = "await" /\ Lossy /\ Usable(wire[r][target[r]])
    /\ FailOver(r)
    /\ UNCHANGED <<key, advice, wire, cache, rows, healthy, gone, rivals>>

(* The 5 s client timeout, a broken connection or the cancelled context:    *)
(* whatever the processor did or will do, the caller sees an error.          *)
GivesUp(r) == Lossy \/ r \in gone

TimeOut(r) ==
    /\ pc[r] = "await" /\ GivesUp(r)
    /\ MarkUnhealthy(target[r])
    /\ FailOver(r)
    /\ UNCHANGED <<key, advice, wire, cache, rows, gone, rivals>>

-----------------------------------------------------------------------------
(* CreateTransaction: INSERT ... ON CONFLICT (idempotency_key) DO NOTHING.   *)
Inserted(old, new) == IF old = NoAnswer THEN new ELSE old

Store(r) ==
    /\ pc[r] = "store"
    /\ \/ /\ DbMay(r, "ok")
          /\ rows' = [rows EXCEPT ![key[r]] = Inserted(@, result[r])]
       \/ DbMay(r, "error") /\ UNCHANGED rows
    /\ Moved(r, "remember")
    /\ UNCHANGED <<key, advice, target, wire, result, cache, healthy, gone, rivals>>

(* cacheIdempotencyResult overwrites; then the response is written.          *)
Remember(r) ==
    /\ pc[r] = "remember"
    /\ \/ CacheMay(r, "ok") /\ cache' = [cache EXCEPT ![key[r]] = result[r]]
       \/ CacheMay(r, "error") /\ UNCHANGED cache
    /\ Moved(r, "replied")
    /\ UNCHANGED <<key, advice, target, wire, result, rows, healthy, gone, rivals>>

-----------------------------------------------------------------------------
(* healthCheckLoop, every 30 s: the flag becomes what /health says now.      *)
HealthCheck(p, up) ==
    /\ healthy' = [healthy EXCEPT ![p] = up]
    /\ UNCHANGED <<pc, key, advice, target, wire, result, cache, rows, gone, rivals>>

Expire(k) ==
    /\ Expires /\ cache[k] # NoAnswer
    /\ cache' = [cache EXCEPT ![k] = NoAnswer]
    /\ UNCHANGED <<pc, key, advice, target, wire, result, rows, healthy, gone, rivals>>

Disconnect(r) ==
    /\ Disconnects /\ pc[r] \in InFlight /\ r \notin gone
    /\ gone' = gone \cup {r}
    /\ UNCHANGED <<pc, key, advice, target, wire, result, cache, rows, healthy, rivals>>

(* The process dies and restarts: its goroutines are lost, its clients start *)
(* healthy; Redis, Postgres and the processors go on.                        *)
Crash ==
    /\ Crashes /\ \E r \in Requests : pc[r] \in InFlight
    /\ pc' = [r \in Requests |-> IF pc[r] \in InFlight THEN "dead" ELSE pc[r]]
    /\ healthy' = [p \in Processors |-> TRUE]
    /\ UNCHANGED <<key, advice, target, wire, result, cache, rows, gone, rivals>>

-----------------------------------------------------------------------------
Lookup(r)   == LookupCache(r) \/ LookupRow(r) \/ Route(r) \/ LookupMethod(r)
Dispatch(r) == SkipUnhealthy(r) \/ SendCancelled(r) \/ Send(r)
Await(r)    == Receive(r) \/ ReceiveRefusal(r) \/ ReceiveGarbled(r) \/ TimeOut(r)
Record(r)   == Store(r) \/ Remember(r)

Step(r) == Lookup(r) \/ Dispatch(r) \/ Await(r) \/ Record(r)

Next ==
    \/ \E r \in Requests : Step(r) \/ Disconnect(r) \/ \E k \in Keys : Arrive(r, k)
    \/ \E r \in Requests, p \in Processors, v \in Verdicts : Handle(r, p, v)
    \/ \E p \in Processors, up \in BOOLEAN : HealthCheck(p, up)
    \/ \E k \in Keys : Expire(k)
    \/ Crash

Spec == Init /\ [][Next]_vars

(* Goroutines are scheduled and the HTTP client's timeout fires; on a        *)
(* network that loses nothing the processors answer too.  Clients, health    *)
(* checks, expiry and crashes owe nothing.                                   *)
Fairness ==
    \A r \in Requests :
        /\ WF_vars(Step(r))
        /\ ~Lossy => \A p \in Processors :
                        WF_vars(\E v \in Verdicts : Handle(r, p, v))

FairSpec == Spec /\ Fairness

-----------------------------------------------------------------------------
(* Properties.                                                              *)

(* Every variable keeps its type, and a request that was decoded has a key.  *)
TypeOK ==
    /\ pc \in [Requests -> {"idle"} \cup InFlight \cup Finished]
    /\ key \in [Requests -> Keys \cup {NoKey}]
    /\ \A r \in Requests : pc[r] # "idle" => key[r] \in Keys
    /\ advice \in [Requests -> Processors \cup {"none"}]
    /\ target \in [Requests -> Processors]
    /\ wire \in [Requests -> [Processors -> WireStates]]
    /\ result \in [Requests -> Answers \cup {NoAnswer}]
    /\ cache \in [Keys -> Answers \cup {NoAnswer}]
    /\ rows \in [Keys -> Answers \cup {NoAnswer}]
    /\ healthy \in [Processors -> BOOLEAN]
    /\ gone \subseteq Requests
    /\ rivals \in [Requests -> SUBSET Requests]

Captured(r, p) == wire[r][p] = "captured"

(* An answer that says a charge succeeded names a processor that captured   *)
(* it, for a request with the same key.                                     *)
Backed(a, k) == a # NoAnswer /\ a.ok =>
                  a.proc \in Processors /\ key[a.tx] = k /\ Captured(a.tx, a.proc)

(* Whatever fails, and in whatever order: no reply, cached answer or row    *)
(* reports a success that no processor captured under that key.             *)
SuccessIsBacked ==
    /\ \A r \in Requests : Backed(result[r], key[r])
    /\ \A k \in Keys : Backed(cache[k], k) /\ Backed(rows[k], k)

(* Two requests with one key are both captured only if they were in flight  *)
(* together: a caller that waits for an answer before it retries is safe.   *)
DuplicateNeedsOverlap ==
    \A q, r \in Requests, p1, p2 \in Processors :
        q # r /\ key[q] = key[r] /\ Captured(q, p1) /\ Captured(r, p2)
            => q \in rivals[r]

(* With a table that fails, and clients that leave and crashes besides, the     *)
(* cache alone keeps this promise: two requests with one key are both captured  *)
(* only if they were in flight together, or one of them was cut off itself (its *)
(* client left, or it died in a crash).  A row that was not written, a lost     *)
(* reply, or the end of others makes nobody charge again.                     *)
RepeatNeedsCutOff ==
    \A q, r \in Requests, p1, p2 \in Processors :
        q # r /\ key[q] = key[r] /\ Captured(q, p1) /\ Captured(r, p2)
            => q \in rivals[r] \/ {q, r} \cap gone # {} \/ "dead" \in {pc[q], pc[r]}

(* The cache and the table give different answers for a key only if two     *)
(* requests with that key were in flight together.                          *)
DisagreementNeedsOverlap ==
    \A k \in Keys :
        cache[k] # NoAnswer /\ rows[k] # NoAnswer /\ cache[k] # rows[k]
            => cache[k].tx \in rivals[rows[k].tx]

(* README.md:8, "Idempotency: Zero duplicate charges": one key, one capture. *)
ZeroDuplicateCharges ==
    \A q, r \in Requests, p1, p2 \in Processors :
        key[q] = key[r] /\ Captured(q, p1) /\ Captured(r, p2)
            => <<q, p1>> = <<r, p2>>

(* What IdempotentCharge speaks of: how many pairs of a request and a         *)
(* processor captured under a key, and the verdicts callers were given.     *)
CapturesOf(k) ==
    {c \in Requests \X Processors : key[c[1]] = k /\ Captured(c[1], c[2])}
ToldOf(k) ==
    {result[r].ok : r \in {q \in Requests : key[q] = k /\ pc[q] \in {"replied", "replayed"}}}

Ideal == INSTANCE IdempotentCharge WITH
            captures <- [k \in Keys |-> Cardinality(CapturesOf(k))],
            told <- [k \in Keys |-> ToldOf(k)]

(* Callers that take turns, on a network that loses nothing, get what       *)
(* IdempotentCharge promises: one capture, and one verdict for everybody.   *)
ImplementsIdempotentCharge == Ideal!Spec

(* Every request that arrives is answered, whatever the processors do.      *)
EveryChargeAnswered ==
    \A r \in Requests : pc[r] = "cache" ~> pc[r] \in Finished
=============================================================================
