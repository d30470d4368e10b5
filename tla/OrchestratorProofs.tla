------------------------- MODULE OrchestratorProofs -------------------------
(***************************************************************************)
(* Theorems about Orchestrator, for any sets of requests and keys.          *)
(***************************************************************************)
EXTENDS Orchestrator, FiniteSetTheorems, TLAPS

(* What chargeWithProcessor and the double failure build are ChargeResponses.*)
LEMMA AnswersBuilt ==
    ASSUME NEW r \in Requests, NEW p \in Processors, NEW v
    PROVE  Unavailable(r) \in Answers /\ Verdict(r, p, v) \in Answers
BY DEF Unavailable, Verdict, Answers

(* Every variable of the charge path keeps its type.                        *)
THEOREM TypeCorrect == Spec => []TypeOK
<1> USE DEF TypeOK, InFlight, Working, Finished, WireStates, Verdicts, Moved
<1>1. Init => TypeOK
  BY DEF Init, Processors
<1>2. TypeOK /\ [Next]_vars => TypeOK'
  <2> SUFFICES ASSUME TypeOK, [Next]_vars PROVE TypeOK'
    OBVIOUS
  <2>1. ASSUME NEW r \in Requests, NEW k \in Keys, Arrive(r, k) PROVE TypeOK'
    BY <2>1 DEF Arrive, SameKeyInFlight, Keys
  <2>2. ASSUME NEW r \in Requests, Lookup(r) PROVE TypeOK'
    <3>1. CASE LookupCache(r)
      <4>1. cache[key[r]] \in Answers \cup {NoAnswer}
        BY <3>1 DEF LookupCache
      <4> QED
        BY <3>1, <4>1, ZenonT(60) DEF LookupCache, Replay, Miss
    <3>2. CASE LookupRow(r)
      <4>1. rows[key[r]] \in Answers \cup {NoAnswer}
        BY <3>2 DEF LookupRow
      <4> QED
        BY <3>2, <4>1, ZenonT(60) DEF LookupRow, Replay, Miss
    <3>3. CASE Route(r)
      BY <3>3, OrchestratorAssumption DEF Route, PrimaryOf, Decoded, Processors, A
    <3>4. CASE LookupMethod(r)
      BY <3>4 DEF LookupMethod
    <3> QED
      BY <2>2, <3>1, <3>2, <3>3, <3>4 DEF Lookup
  <2>3. ASSUME NEW r \in Requests, Dispatch(r) PROVE TypeOK'
    <3>1. CASE SkipUnhealthy(r)
      BY <3>1, AnswersBuilt DEF SkipUnhealthy, FailOver, Processors
    <3>2. CASE SendCancelled(r)
      BY <3>2, AnswersBuilt, ZenonT(60) DEF SendCancelled, FailOver, Processors, MarkUnhealthy
    <3>3. CASE Send(r)
      BY <3>3 DEF Send
    <3> QED
      BY <2>3, <3>1, <3>2, <3>3 DEF Dispatch
  <2>4. ASSUME NEW r \in Requests, Await(r) PROVE TypeOK'
    <3>1. CASE Receive(r)
      BY <3>1, AnswersBuilt DEF Receive
    <3>2. CASE ReceiveRefusal(r)
      BY <3>2, AnswersBuilt, ZenonT(60) DEF ReceiveRefusal, FailOver, Processors, MarkUnhealthy
    <3>3. CASE ReceiveGarbled(r)
      BY <3>3, AnswersBuilt DEF ReceiveGarbled, FailOver, Processors
    <3>4. CASE TimeOut(r)
      BY <3>4, AnswersBuilt DEF TimeOut, FailOver, Processors, MarkUnhealthy
    <3> QED
      BY <2>4, <3>1, <3>2, <3>3, <3>4 DEF Await
  <2>5. ASSUME NEW r \in Requests, Record(r) PROVE TypeOK'
    <3>1. CASE Store(r)
      BY <3>1 DEF Store, Inserted
    <3>2. CASE Remember(r)
      BY <3>2 DEF Remember
    <3> QED
      BY <2>5, <3>1, <3>2 DEF Record
  <2>6. ASSUME NEW r \in Requests, NEW p \in Processors, NEW v \in Verdicts,
               Handle(r, p, v)
        PROVE  TypeOK'
    BY <2>6 DEF Handle
  <2>7. ASSUME NEW p \in Processors, NEW up \in BOOLEAN, HealthCheck(p, up)
        PROVE  TypeOK'
    BY <2>7 DEF HealthCheck
  <2>8. ASSUME NEW k \in Keys, Expire(k) PROVE TypeOK'
    BY <2>8 DEF Expire
  <2>9. ASSUME NEW r \in Requests, Disconnect(r) PROVE TypeOK'
    BY <2>9 DEF Disconnect
  <2>10. CASE Crash
    BY <2>10 DEF Crash
  <2>11. CASE UNCHANGED vars
    BY <2>11 DEF vars
  <2> QED
    BY <2>1, <2>2, <2>3, <2>4, <2>5, <2>6, <2>7, <2>8, <2>9, <2>10, <2>11
       DEF Next, Step
<1> QED
  BY <1>1, <1>2, PTL DEF Spec

-----------------------------------------------------------------------------
(* The order of a request's calls: none before its payment method is known,  *)
(* none to the secondary while the primary is being tried, and a processor   *)
(* is called at most once.                                                    *)
Uncalled == {"idle", "cache", "db", "route", "method"}

CallOrder ==
    \A r \in Requests :
        /\ pc[r] = "idle" => key[r] = NoKey /\ result[r] = NoAnswer
        /\ pc[r] \in Uncalled => wire[r][A] = "none" /\ wire[r][B] = "none"
        /\ target[r] = A => wire[r][B] = "none"
        /\ pc[r] = "dispatch" => wire[r][target[r]] = "none"

LEMMA FailOverCallOrder ==
    ASSUME TypeOK, CallOrder, NEW r \in Requests, FailOver(r),
           pc[r] \in {"dispatch", "await"}, UNCHANGED <<wire, key>>
    PROVE  CallOrder'
BY DEF TypeOK, CallOrder, FailOver, TriedBoth, Moved, Processors, A, B, Uncalled

LEMMA CallOrderStays == TypeOK /\ CallOrder /\ [Next]_vars => CallOrder'
<1> SUFFICES ASSUME TypeOK, CallOrder, [Next]_vars PROVE CallOrder'
  OBVIOUS
<1> USE DEF CallOrder, TypeOK, Moved, Processors, A, B, Uncalled
<1>1. ASSUME NEW r \in Requests, NEW k \in Keys, Arrive(r, k) PROVE CallOrder'
  BY <1>1 DEF Arrive
<1>2. ASSUME NEW r \in Requests, Lookup(r) PROVE CallOrder'
  <2>1. CASE LookupCache(r)
    BY <2>1 DEF LookupCache, Replay, Miss
  <2>2. CASE LookupRow(r)
    BY <2>2 DEF LookupRow, Replay, Miss
  <2>3. CASE Route(r)
    BY <2>3 DEF Route, PrimaryOf, Decoded
  <2>4. CASE LookupMethod(r)
    BY <2>4 DEF LookupMethod
  <2> QED
    BY <1>2, <2>1, <2>2, <2>3, <2>4 DEF Lookup
<1>3. ASSUME NEW r \in Requests, Dispatch(r) PROVE CallOrder'
  <2>1. CASE SkipUnhealthy(r) \/ SendCancelled(r)
    BY <2>1, FailOverCallOrder DEF SkipUnhealthy, SendCancelled
  <2>2. CASE Send(r)
    BY <2>2 DEF Send
  <2> QED
    BY <1>3, <2>1, <2>2 DEF Dispatch
<1>4. ASSUME NEW r \in Requests, Await(r) PROVE CallOrder'
  <2>1. CASE Receive(r)
    BY <2>1 DEF Receive
  <2>2. CASE ReceiveRefusal(r) \/ ReceiveGarbled(r) \/ TimeOut(r)
    BY <2>2, FailOverCallOrder DEF ReceiveRefusal, ReceiveGarbled, TimeOut
  <2> QED
    BY <1>4, <2>1, <2>2 DEF Await
<1>5. ASSUME NEW r \in Requests, Record(r) PROVE CallOrder'
  BY <1>5 DEF Record, Store, Remember
<1>6. ASSUME NEW r \in Requests, NEW p \in Processors, NEW v \in Verdicts,
             Handle(r, p, v)
      PROVE  CallOrder'
  BY <1>6 DEF Handle
<1>7. CASE \/ \E p \in Processors, up \in BOOLEAN : HealthCheck(p, up)
           \/ \E k \in Keys : Expire(k)
           \/ \E r \in Requests : Disconnect(r)
           \/ UNCHANGED vars
  BY <1>7 DEF HealthCheck, Expire, Disconnect, vars
<1>8. CASE Crash
  BY <1>8 DEF Crash, InFlight, Working
<1> QED
  BY <1>1, <1>2, <1>3, <1>4, <1>5, <1>6, <1>7, <1>8 DEF Next, Step

(* A charge request calls each processor at most once, the primary first.     *)
THEOREM CallsInOrder == Spec => []CallOrder
<1>1. Init => CallOrder
  BY DEF Init, CallOrder, Processors, A, B
<1> QED
  BY <1>1, CallOrderStays, TypeCorrect, PTL DEF Spec

(* No step undoes a capture or changes the key of the request it was for.     *)
LEMMA CaptureStays ==
    ASSUME TypeOK, CallOrder, [Next]_vars,
           NEW q \in Requests, NEW p \in Processors, Captured(q, p)
    PROVE  Captured(q, p)' /\ key'[q] = key[q]
<1> USE DEF CallOrder, TypeOK, Captured, Moved, Processors, A, B, Uncalled
<1> DEFINE Goal == Captured(q, p)' /\ key'[q] = key[q]
<1>1. ASSUME NEW r \in Requests, NEW k \in Keys, Arrive(r, k) PROVE Goal
  BY <1>1 DEF Arrive
<1>2. ASSUME NEW r \in Requests, Step(r) PROVE Goal
  <2>1. CASE Send(r)
    BY <2>1 DEF Send
  <2>2. CASE ~Send(r)
    <3>1. UNCHANGED <<wire, key>>
      BY <1>2, <2>2
         DEF Step, Lookup, Dispatch, Await, Record, LookupCache, LookupRow, Route,
             LookupMethod, Replay, Miss, SkipUnhealthy, SendCancelled, Receive,
             ReceiveRefusal, ReceiveGarbled, TimeOut, Store, Remember
    <3> QED
      BY <3>1
  <2> QED
    BY <2>1, <2>2
<1>3. ASSUME NEW r \in Requests, NEW s \in Processors, NEW v \in Verdicts,
             Handle(r, s, v)
      PROVE  Goal
  BY <1>3 DEF Handle
<1>4. CASE \/ \E s \in Processors, up \in BOOLEAN : HealthCheck(s, up)
           \/ \E k \in Keys : Expire(k)
           \/ \E r \in Requests : Disconnect(r)
           \/ Crash
           \/ UNCHANGED vars
  BY <1>4 DEF HealthCheck, Expire, Disconnect, Crash, vars
<1> QED
  BY <1>1, <1>2, <1>3, <1>4 DEF Next

-----------------------------------------------------------------------------
(* Backed(a, k)', for an answer a that is already known.                      *)
BackedNext(a, k) ==
    a # NoAnswer /\ a.ok =>
        a.proc \in Processors /\ key'[a.tx] = k /\ wire'[a.tx][a.proc] = "captured"

(* What was backed stays backed.                                              *)
LEMMA BackedStays ==
    ASSUME TypeOK, CallOrder, [Next]_vars,
           NEW a \in Answers \cup {NoAnswer}, NEW k, Backed(a, k)
    PROVE  BackedNext(a, k)
<1> SUFFICES ASSUME a # NoAnswer, a.ok
             PROVE  a.proc \in Processors /\ key'[a.tx] = k
                        /\ wire'[a.tx][a.proc] = "captured"
  BY DEF BackedNext
<1>1. a.tx \in Requests
  BY DEF Answers
<1>2. a.proc \in Processors /\ key[a.tx] = k /\ Captured(a.tx, a.proc)
  BY DEF Backed
<1>3. Captured(a.tx, a.proc)' /\ key'[a.tx] = key[a.tx]
  BY <1>1, <1>2, CaptureStays
<1> QED
  BY <1>2, <1>3 DEF Captured

(* Every answer of the next state was somewhere before under the same key, or *)
(* is a verdict just computed.                                                *)
LEMMA BackedStep == TypeOK /\ CallOrder /\ SuccessIsBacked /\ [Next]_vars => SuccessIsBacked'
<1> SUFFICES ASSUME TypeOK, CallOrder, SuccessIsBacked, [Next]_vars
             PROVE  SuccessIsBacked'
  OBVIOUS
<1> DEFINE ResultsBacked == \A r \in Requests : BackedNext(result'[r], key'[r])
           StoresBacked  == \A k \in Keys : BackedNext(cache'[k], k) /\ BackedNext(rows'[k], k)
<1>1. /\ \A r \in Requests : BackedNext(result[r], key[r])
      /\ \A k \in Keys : BackedNext(cache[k], k) /\ BackedNext(rows[k], k)
  BY BackedStays DEF TypeOK, SuccessIsBacked
<1>2. \A k : BackedNext(NoAnswer, k)
  BY DEF BackedNext
<1>3. SUFFICES ResultsBacked /\ StoresBacked
  BY DEF SuccessIsBacked, Backed, BackedNext, Captured
<1> HIDE DEF ResultsBacked, StoresBacked
<1>4. ASSUME UNCHANGED <<cache, rows>> PROVE StoresBacked
  BY <1>1, <1>4 DEF StoresBacked
<1>5. ASSUME UNCHANGED <<result, key>> PROVE ResultsBacked
  BY <1>1, <1>5 DEF ResultsBacked
<1>6. ASSUME NEW r \in Requests, FailOver(r), UNCHANGED key PROVE ResultsBacked
  <2>1. BackedNext(Unavailable(r), key[r])
    BY DEF BackedNext, Unavailable
  <2> QED
    BY <1>1, <1>6, <2>1 DEF ResultsBacked, FailOver, TypeOK
<1>7. ASSUME NEW r \in Requests, NEW k \in Keys, Arrive(r, k)
      PROVE  ResultsBacked /\ StoresBacked
  <2>1. result' = result /\ result[r] = NoAnswer
    BY <1>7 DEF Arrive, CallOrder
  <2>2. ASSUME NEW q \in Requests, q # r PROVE key'[q] = key[q]
    BY <1>7, <2>2 DEF Arrive, TypeOK
  <2> QED
    BY <1>1, <1>2, <1>4, <1>7, <2>1, <2>2 DEF ResultsBacked, Arrive
<1>8. ASSUME NEW r \in Requests, Lookup(r) PROVE ResultsBacked /\ StoresBacked
  <2>1. ASSUME NEW a, BackedNext(a, key[r]), Replay(r, a) PROVE ResultsBacked
    BY <1>1, <2>1 DEF ResultsBacked, Replay, TypeOK
  <2>2. CASE LookupCache(r)
    <3>1. key[r] \in Keys
      BY <2>2 DEF LookupCache, TypeOK
    <3> QED
      BY <1>1, <1>4, <1>5, <2>1, <2>2, <3>1 DEF LookupCache, Replay, Miss
  <2>3. CASE LookupRow(r)
    <3>1. key[r] \in Keys
      BY <2>3 DEF LookupRow, TypeOK
    <3> QED
      BY <1>1, <1>4, <1>5, <2>1, <2>3, <3>1 DEF LookupRow, Replay, Miss
  <2>4. CASE Route(r) \/ LookupMethod(r)
    BY <1>4, <1>5, <2>4 DEF Route, LookupMethod
  <2> QED
    BY <1>8, <2>2, <2>3, <2>4 DEF Lookup
<1>9. ASSUME NEW r \in Requests, Dispatch(r) PROVE ResultsBacked /\ StoresBacked
  BY <1>4, <1>5, <1>6, <1>9 DEF Dispatch, SkipUnhealthy, SendCancelled, Send
<1>10. ASSUME NEW r \in Requests, Await(r) PROVE ResultsBacked /\ StoresBacked
  <2>1. CASE Receive(r)
    <3>1. BackedNext(Verdict(r, target[r], wire[r][target[r]]), key[r])
      BY <2>1 DEF BackedNext, Verdict, Receive, TypeOK
    <3> QED
      BY <1>1, <1>4, <2>1, <3>1 DEF ResultsBacked, Receive, TypeOK
  <2>2. CASE ReceiveRefusal(r) \/ ReceiveGarbled(r) \/ TimeOut(r)
    BY <1>4, <1>6, <2>2 DEF ReceiveRefusal, ReceiveGarbled, TimeOut
  <2> QED
    BY <1>10, <2>1, <2>2 DEF Await
<1>11. ASSUME NEW r \in Requests, Record(r) PROVE ResultsBacked /\ StoresBacked
  <2>1. CASE Store(r)
    <3>1. \A k \in Keys : rows'[k] = rows[k] \/ (k = key[r] /\ rows'[k] = result[r])
      BY <2>1 DEF Store, Inserted, TypeOK
    <3>2. BackedNext(result[r], key[r])
      BY <1>1
    <3>3. UNCHANGED <<cache, result, key>>
      BY <2>1 DEF Store
    <3> QED
      BY <1>1, <1>5, <3>1, <3>2, <3>3 DEF StoresBacked
  <2>2. CASE Remember(r)
    <3>1. \A k \in Keys : cache'[k] = cache[k] \/ (k = key[r] /\ cache'[k] = result[r])
      BY <2>2 DEF Remember, TypeOK
    <3>2. BackedNext(result[r], key[r])
      BY <1>1
    <3>3. UNCHANGED <<rows, result, key>>
      BY <2>2 DEF Remember
    <3> QED
      BY <1>1, <1>5, <3>1, <3>2, <3>3 DEF StoresBacked
  <2> QED
    BY <1>11, <2>1, <2>2 DEF Record
<1>12. ASSUME NEW k \in Keys, Expire(k) PROVE ResultsBacked /\ StoresBacked
  <2>1. \A j \in Keys : cache'[j] = cache[j] \/ cache'[j] = NoAnswer
    BY <1>12 DEF Expire, TypeOK
  <2> QED
    BY <1>1, <1>2, <1>5, <1>12, <2>1 DEF StoresBacked, Expire
<1>13. CASE \/ \E r \in Requests, p \in Processors, v \in Verdicts : Handle(r, p, v)
            \/ \E p \in Processors, up \in BOOLEAN : HealthCheck(p, up)
            \/ \E r \in Requests : Disconnect(r)
            \/ Crash
            \/ UNCHANGED vars
  BY <1>4, <1>5, <1>13 DEF Handle, HealthCheck, Disconnect, Crash, vars
<1> QED
  BY <1>7, <1>8, <1>9, <1>10, <1>11, <1>12, <1>13 DEF Next, Step

(* No reply, cached answer or row ever reports a success that no processor    *)
(* captured under that key, whatever is lost, fails, expires or crashes.      *)
THEOREM SuccessAlwaysBacked == Spec => []SuccessIsBacked
<1>1. Init => SuccessIsBacked
  BY DEF Init, SuccessIsBacked, Backed
<1> QED
  BY <1>1, BackedStep, TypeCorrect, CallsInOrder, PTL DEF Spec

-----------------------------------------------------------------------------
(* One request is captured twice only if a call was abandoned: with a network *)
(* that loses nothing and clients that wait, the secondary is called only     *)
(* when the primary was not called or refused.                                *)
ReliableNetwork == ~Lossy /\ ~Disconnects

PrimaryGaveNothing ==
    /\ gone = {}
    /\ \A r \in Requests : target[r] = B => wire[r][A] \in {"none", "refused"}

LEMMA PrimaryStep ==
    ASSUME ReliableNetwork
    PROVE  TypeOK /\ CallOrder /\ PrimaryGaveNothing /\ [Next]_vars => PrimaryGaveNothing'
<1> SUFFICES ASSUME TypeOK, CallOrder, PrimaryGaveNothing, [Next]_vars
             PROVE  PrimaryGaveNothing'
  OBVIOUS
<1> USE DEF PrimaryGaveNothing, TypeOK, Moved, Processors, A, B
<1>1. ASSUME NEW r \in Requests, NEW k \in Keys, Arrive(r, k)
      PROVE  PrimaryGaveNothing'
  BY <1>1 DEF Arrive
<1>2. ASSUME NEW r \in Requests, Lookup(r) PROVE PrimaryGaveNothing'
  BY <1>2 DEF Lookup, LookupCache, LookupRow, Route, LookupMethod, Replay, Miss,
              PrimaryOf, Decoded
<1>3. ASSUME NEW r \in Requests, FailOver(r), UNCHANGED <<gone, wire>>,
             wire[r][target[r]] \in {"none", "refused"}
      PROVE  PrimaryGaveNothing'
  BY <1>3 DEF FailOver, TriedBoth
<1>4. ASSUME NEW r \in Requests, Dispatch(r) PROVE PrimaryGaveNothing'
  <2>1. CASE SkipUnhealthy(r) \/ SendCancelled(r)
    BY <1>3, <2>1 DEF SkipUnhealthy, SendCancelled, CallOrder
  <2>2. CASE Send(r)
    BY <2>2 DEF Send
  <2> QED
    BY <1>4, <2>1, <2>2 DEF Dispatch
<1>5. ASSUME NEW r \in Requests, Await(r) PROVE PrimaryGaveNothing'
  <2>1. CASE Receive(r)
    BY <2>1 DEF Receive
  <2>2. CASE ReceiveRefusal(r)
    BY <1>3, <2>2 DEF ReceiveRefusal, Usable, Verdicts
  <2>3. CASE ReceiveGarbled(r) \/ TimeOut(r)
    BY <2>3, ReliableNetwork DEF ReceiveGarbled, TimeOut, GivesUp, ReliableNetwork
  <2> QED
    BY <1>5, <2>1, <2>2, <2>3 DEF Await
<1>6. ASSUME NEW r \in Requests, Record(r) PROVE PrimaryGaveNothing'
  BY <1>6 DEF Record, Store, Remember
<1>7. ASSUME NEW r \in Requests, NEW p \in Processors, NEW v \in Verdicts,
             Handle(r, p, v)
      PROVE  PrimaryGaveNothing'
  BY <1>7 DEF Handle
<1>8. CASE \/ \E p \in Processors, up \in BOOLEAN : HealthCheck(p, up)
           \/ \E k \in Keys : Expire(k)
           \/ \E r \in Requests : Disconnect(r)
           \/ Crash
           \/ UNCHANGED vars
  BY <1>8, ReliableNetwork DEF HealthCheck, Expire, Disconnect, Crash, vars, ReliableNetwork
<1> QED
  BY <1>1, <1>2, <1>4, <1>5, <1>6, <1>7, <1>8 DEF Next, Step

LEMMA PrimaryFirst ==
    ASSUME ReliableNetwork
    PROVE  Spec => []PrimaryGaveNothing
<1>1. Init => PrimaryGaveNothing
  BY DEF Init, PrimaryGaveNothing, A, B
<1> QED
  BY <1>1, PrimaryStep, TypeCorrect, CallsInOrder, PTL DEF Spec

(* If no call is abandoned, at most one processor captures a request.         *)
OneProcessor == \A r \in Requests : ~(Captured(r, A) /\ Captured(r, B))

LEMMA OneProcessorIfReliable ==
    ASSUME ReliableNetwork
    PROVE  Spec => []OneProcessor
<1>1. TypeOK /\ CallOrder /\ PrimaryGaveNothing => OneProcessor
  BY DEF TypeOK, CallOrder, PrimaryGaveNothing, OneProcessor, Captured, Processors, A, B
<1> QED
  BY <1>1, PrimaryFirst, TypeCorrect, CallsInOrder, PTL

-----------------------------------------------------------------------------
(* Why a request that comes later does not charge again.  One that is past the *)
(* two-step lookup and not yet finished is visible to those that arrive; one   *)
(* that finished left an answer that a later lookup finds, unless it was cut    *)
(* off itself.  Either record is enough, if it never fails.                   *)
DurableRows  == DbOutcomes = {"ok"}
DurableCache == CacheOutcomes = {"ok"} /\ ~Expires

DurableRecord == DurableRows \/ DurableCache

Durable == DurableRecord /\ ~Disconnects /\ ~Crashes

Past(r) ==
    pc[r] \in Working \cup {"replied"} \/ (DurableCache /\ pc[r] = "db")

(* The answer of a request that got that far is its own, and recorded.        *)
Recorded ==
    \A r \in Requests :
        /\ pc[r] \in {"store", "remember", "replied"} => result[r] \in Answers
        /\ DurableRows /\ r \notin gone /\ pc[r] \in {"remember", "replied"} =>
             rows[key[r]] # NoAnswer
        /\ DurableCache /\ r \notin gone /\ pc[r] = "replied" => cache[key[r]] # NoAnswer

Together(q, r) ==
    \/ pc[q] \in InFlight /\ pc[r] \in InFlight
    \/ Past(q) /\ Past(r)

Left(q, r) == q \in gone \/ r \in gone

OverlapSeen ==
    \A q, r \in Requests :
        q # r /\ key[q] = key[r] /\ Together(q, r) => q \in rivals[r] \/ Left(q, r)

CallsAreOfPast ==
    \A r \in Requests, p \in Processors :
        wire[r][p] # "none" => pc[r] \in Working \cup {"replied", "dead"}

OverlapInv == Recorded /\ OverlapSeen /\ CallsAreOfPast

LEMMA OverlapStep ==
    ASSUME DurableRecord
    PROVE  TypeOK /\ CallOrder /\ OverlapInv /\ [Next]_vars => OverlapInv'
<1> SUFFICES ASSUME TypeOK, CallOrder, OverlapInv, [Next]_vars
             PROVE  OverlapInv'
  OBVIOUS
<1>0. DurableRows \in BOOLEAN /\ DurableCache \in BOOLEAN
  BY DEF DurableRows, DurableCache
<1> USE <1>0 DEF OverlapInv, TypeOK, Moved, Working, InFlight
<1>1. ASSUME NEW r \in Requests, NEW k \in Keys, Arrive(r, k)
      PROVE  OverlapInv'
  <2>1. /\ pc' = [pc EXCEPT ![r] = "cache"] /\ key' = [key EXCEPT ![r] = k]
        /\ pc[r] = "idle"
        /\ UNCHANGED <<advice, target, wire, result, cache, rows, healthy, gone>>
    BY <1>1 DEF Arrive
  <2>2. \A q \in Requests : q # r => key'[q] = key[q] /\ pc'[q] = pc[q]
    BY <2>1
  <2>3. Recorded' /\ CallsAreOfPast'
    BY <2>1, <2>2 DEF Recorded, CallsAreOfPast, CallOrder, Uncalled, Processors
  <2>4. OverlapSeen'
    <3> SUFFICES ASSUME NEW p \in Requests, NEW q \in Requests, p # q,
                        key'[p] = key'[q], Together(p, q)'
                 PROVE  p \in rivals'[q] \/ Left(p, q)'
      BY DEF OverlapSeen
    <3>1. rivals' = [s \in Requests |->
                       IF s = r THEN SameKeyInFlight(k)
                       ELSE IF s \in SameKeyInFlight(k) THEN rivals[s] \cup {r}
                       ELSE rivals[s]]
      BY <1>1 DEF Arrive
    <3>2. CASE p # r /\ q # r
      BY <2>1, <2>2, <3>1, <3>2 DEF OverlapSeen, Together, Past, Left
    <3>3. CASE p = r \/ q = r
      BY <2>1, <2>2, <3>1, <3>3 DEF Together, Past, SameKeyInFlight
    <3> QED
      BY <3>2, <3>3
  <2> QED
    BY <2>1, <2>3, <2>4
<1>2. ASSUME NEW r \in Requests, NEW s, Moved(r, s), UNCHANGED <<key, rivals, gone>>,
             \A q \in Requests : q # r /\ key[q] = key[r] /\ (Together(q, r)' \/ Together(r, q)')
                 => (q \in rivals[r] /\ r \in rivals[q]) \/ Left(q, r)
      PROVE  OverlapSeen'
  <2>1. \A q \in Requests : q # r => pc'[q] = pc[q]
    BY <1>2
  <2> SUFFICES ASSUME NEW p \in Requests, NEW q \in Requests, p # q,
                      key'[p] = key'[q], Together(p, q)'
               PROVE  p \in rivals'[q] \/ Left(p, q)'
    BY DEF OverlapSeen
  <2>2. CASE p # r /\ q # r
    BY <1>2, <2>1, <2>2 DEF OverlapSeen, Together, Past, Left
  <2>3. CASE p = r \/ q = r
    BY <1>2, <2>3 DEF Left
  <2> QED
    BY <2>2, <2>3
(* A step of a request in flight that keeps it past its lookup, or ends it.   *)
<1>3. ASSUME NEW r \in Requests, NEW s, Moved(r, s), UNCHANGED <<key, rivals, gone>>,
             pc[r] \in InFlight,
             s \in InFlight \cup {"replied", "replayed", "rejected"},
             (Past(r)' => Past(r))
      PROVE  OverlapSeen'
  <2>1. \A q \in Requests : q # r => pc'[q] = pc[q]
    BY <1>3
  <2>2. \A q \in Requests : q # r /\ (Together(q, r)' \/ Together(r, q)')
                => Together(q, r) /\ Together(r, q)
    BY <1>3, <2>1 DEF Together, Past
  <2>3. \A q \in Requests : q # r /\ key[q] = key[r] /\ (Together(q, r)' \/ Together(r, q)')
                => (q \in rivals[r] /\ r \in rivals[q]) \/ Left(q, r)
    BY <2>2 DEF OverlapSeen, Left
  <2> QED
    BY <1>2, <1>3, <2>3
(* The step past the lookup: nobody with this key whose client stayed has replied. *)
<1>4. ASSUME NEW r \in Requests, NEW s, Moved(r, s), UNCHANGED <<key, rivals, gone>>,
             pc[r] \in InFlight, s \in InFlight,
             \A q \in Requests : key[q] = key[r] => pc[q] # "replied" \/ Left(q, r)
      PROVE  OverlapSeen'
  <2>1. \A q \in Requests : q # r => pc'[q] = pc[q]
    BY <1>4
  <2>2. \A q \in Requests : q # r /\ key[q] = key[r] /\ (Together(q, r)' \/ Together(r, q)')
                => (Together(q, r) /\ Together(r, q)) \/ Left(q, r)
    BY <1>4, <2>1 DEF Together, Past
  <2>3. \A q \in Requests : q # r /\ key[q] = key[r] /\ (Together(q, r)' \/ Together(r, q)')
                => (q \in rivals[r] /\ r \in rivals[q]) \/ Left(q, r)
    BY <2>2 DEF OverlapSeen, Left
  <2> QED
    BY <1>2, <1>4, <2>3
<1>5. ASSUME NEW r \in Requests, LookupCache(r) PROVE OverlapInv'
  <2>1. PICK s \in {"db", "replayed"} :
            /\ Moved(r, s)
            /\ UNCHANGED <<key, wire, cache, rows, gone, rivals>>
            /\ \A q \in Requests : q # r => result'[q] = result[q]
            /\ (DurableCache /\ s = "db" => cache[key[r]] = NoAnswer \/ r \in gone)
    BY <1>5 DEF LookupCache, Replay, Miss, CacheMay, Replayable, DurableCache
  <2>2. pc[r] = "cache"
    BY <1>5 DEF LookupCache
  <2>3. Recorded' /\ CallsAreOfPast'
    BY <2>1, <2>2 DEF Recorded, CallsAreOfPast, CallOrder, Uncalled, Processors
  <2>4. CASE s = "db" /\ DurableCache
    <3>1. \A q \in Requests : key[q] = key[r] => pc[q] # "replied" \/ Left(q, r)
      BY <2>1, <2>4 DEF Recorded, Left
    <3> QED
      BY <1>4, <2>1, <2>2, <2>3, <2>4, <3>1
  <2>5. CASE ~(s = "db" /\ DurableCache)
    <3>1. ~Past(r)'
      BY <2>1, <2>5 DEF Past
    <3> QED
      BY <1>3, <2>1, <2>2, <2>3, <3>1
  <2> QED
    BY <2>4, <2>5
<1>6. ASSUME NEW r \in Requests, LookupRow(r) PROVE OverlapInv'
  <2>1. PICK s \in {"route", "replayed"} :
            /\ Moved(r, s)
            /\ UNCHANGED <<key, wire, cache, rows, gone, rivals>>
            /\ \A q \in Requests : q # r => result'[q] = result[q]
            /\ (DurableRows /\ s = "route" => rows[key[r]] = NoAnswer \/ r \in gone)
    BY <1>6 DEF LookupRow, Replay, Miss, DbMay, Replayable, DurableRows
  <2>2. pc[r] = "db"
    BY <1>6 DEF LookupRow
  <2>3. Recorded' /\ CallsAreOfPast'
    BY <2>1, <2>2 DEF Recorded, CallsAreOfPast, CallOrder, Uncalled, Processors
  <2>4. CASE s = "route" /\ DurableRows
    <3>1. \A q \in Requests : key[q] = key[r] => pc[q] # "replied" \/ Left(q, r)
      BY <2>1, <2>4 DEF Recorded, Left
    <3> QED
      BY <1>4, <2>1, <2>2, <2>3, <2>4, <3>1
  <2>5. CASE ~(s = "route" /\ DurableRows)
    <3>1. Past(r)' => Past(r)
      BY <2>1, <2>2, <2>5, DurableRecord DEF Past, DurableRecord
    <3> QED
      BY <1>3, <2>1, <2>2, <2>3, <3>1
  <2> QED
    BY <2>4, <2>5
(* Steps between the lookup and the first write.                              *)
<1>7. ASSUME NEW r \in Requests, NEW s, Moved(r, s), pc[r] \in Working,
             s \in {"method", "dispatch", "await", "store", "rejected"},
             s = "store" => result'[r] \in Answers,
             s = "rejected" => \A p \in Processors : wire'[r][p] = "none",
             UNCHANGED <<key, cache, rows, gone, rivals>>,
             \A q \in Requests : q # r => result'[q] = result[q] /\ wire'[q] = wire[q]
      PROVE  OverlapInv'
  <2>1. OverlapSeen'
    BY <1>3, <1>7 DEF Past
  <2>2. Recorded'
    BY <1>7 DEF Recorded
  <2>3. CallsAreOfPast'
    BY <1>7 DEF CallsAreOfPast
  <2> QED
    BY <1>7, <2>1, <2>2, <2>3
<1>8. ASSUME NEW r \in Requests, FailOver(r), pc[r] \in Working,
             UNCHANGED <<key, wire, cache, rows, gone, rivals>>
      PROVE  OverlapInv'
  <2>1. PICK s \in {"dispatch", "store"} :
            /\ Moved(r, s)
            /\ s = "store" => result'[r] \in Answers
            /\ \A q \in Requests : q # r => result'[q] = result[q]
    <3>1. Unavailable(r) \in Answers
      BY DEF Unavailable, Answers
    <3> QED
      BY <1>8, <3>1 DEF FailOver
  <2> QED
    BY <1>7, <1>8, <2>1
<1>9. ASSUME NEW r \in Requests, Route(r) \/ LookupMethod(r) PROVE OverlapInv'
  <2>1. PICK s \in {"method", "dispatch", "rejected"} :
            Moved(r, s) /\ UNCHANGED <<key, wire, result, cache, rows, gone, rivals>>
    BY <1>9 DEF Route, LookupMethod
  <2>2. pc[r] \in {"route", "method"}
    BY <1>9 DEF Route, LookupMethod
  <2>3. \A p \in Processors : wire'[r][p] = "none"
    BY <2>1, <2>2 DEF CallOrder, Uncalled, Processors
  <2> QED
    BY <1>7, <2>1, <2>2, <2>3
<1>10. ASSUME NEW r \in Requests, Dispatch(r) PROVE OverlapInv'
  <2>1. CASE SkipUnhealthy(r) \/ SendCancelled(r)
    BY <1>8, <2>1 DEF SkipUnhealthy, SendCancelled
  <2>2. CASE Send(r)
    BY <1>7, <2>2 DEF Send
  <2> QED
    BY <1>10, <2>1, <2>2 DEF Dispatch
<1>11. ASSUME NEW r \in Requests, Await(r) PROVE OverlapInv'
  <2>1. CASE Receive(r)
    <3>1. Verdict(r, target[r], wire[r][target[r]]) \in Answers
      BY AnswersBuilt
    <3> QED
      BY <1>7, <2>1, <3>1 DEF Receive
  <2>2. CASE ReceiveRefusal(r) \/ ReceiveGarbled(r) \/ TimeOut(r)
    BY <1>8, <2>2 DEF ReceiveRefusal, ReceiveGarbled, TimeOut
  <2> QED
    BY <1>11, <2>1, <2>2 DEF Await
<1>12. ASSUME NEW r \in Requests, Record(r) PROVE OverlapInv'
  <2>1. pc[r] \in {"store", "remember"} /\ result[r] \in Answers /\ result[r] # NoAnswer
    BY <1>12, OrchestratorAssumption DEF Record, Store, Remember, Recorded
  <2>2. CASE Store(r)
    <3>1. \A k \in Keys : rows[k] # NoAnswer => rows'[k] # NoAnswer
      BY <2>2 DEF Store, Inserted
    <3>2. DurableRows /\ r \notin gone => rows'[key[r]] # NoAnswer
      BY <2>1, <2>2 DEF Store, Inserted, DbMay, DurableRows
    <3>3. Recorded'
      BY <2>2, <3>1, <3>2 DEF Recorded, Store
    <3>4. OverlapSeen'
      BY <1>3, <2>2 DEF Store, Past
    <3> QED
      BY <2>2, <3>3, <3>4 DEF Store, CallsAreOfPast
  <2>3. CASE Remember(r)
    <3>1. \A k \in Keys : cache[k] # NoAnswer => cache'[k] # NoAnswer
      BY <2>1, <2>3 DEF Remember
    <3>2. DurableCache /\ r \notin gone => cache'[key[r]] # NoAnswer
      BY <2>1, <2>3 DEF Remember, CacheMay, DurableCache
    <3>3. Recorded'
      BY <2>3, <3>1, <3>2 DEF Recorded, Remember
    <3>4. OverlapSeen'
      BY <1>3, <2>3 DEF Remember, Past
    <3> QED
      BY <2>3, <3>3, <3>4 DEF Remember, CallsAreOfPast
  <2> QED
    BY <1>12, <2>2, <2>3 DEF Record
<1>13. ASSUME NEW r \in Requests, NEW p \in Processors, NEW v \in Verdicts,
              Handle(r, p, v)
       PROVE  OverlapInv'
  <2>1. UNCHANGED <<pc, key, result, cache, rows, gone, rivals>>
    BY <1>13 DEF Handle
  <2>2. CallsAreOfPast'
    BY <1>13, <2>1 DEF Handle, CallsAreOfPast
  <2> QED
    BY <2>1, <2>2 DEF Recorded, OverlapSeen, Together, Past, Left
<1>14. ASSUME NEW k \in Keys, Expire(k) PROVE OverlapInv'
  BY <1>14 DEF Expire, Recorded, OverlapSeen, Together, Past, Left, CallsAreOfPast, DurableCache
<1>15. CASE (\E p \in Processors, up \in BOOLEAN : HealthCheck(p, up)) \/ UNCHANGED vars
  BY <1>15 DEF HealthCheck, vars, Recorded, OverlapSeen, Together, Past, Left, CallsAreOfPast
<1>16. ASSUME NEW r \in Requests, Disconnect(r) PROVE OverlapInv'
  BY <1>16 DEF Disconnect, Recorded, OverlapSeen, Together, Past, Left, CallsAreOfPast
<1>17. CASE Crash
  <2>1. /\ pc' = [r \in Requests |-> IF pc[r] \in InFlight THEN "dead" ELSE pc[r]]
        /\ UNCHANGED <<key, wire, result, cache, rows, gone, rivals>>
    BY <1>17 DEF Crash
  <2>2. \A r \in Requests : pc'[r] # "dead" => pc'[r] = pc[r] /\ pc[r] \notin InFlight
    BY <2>1
  <2>3. Recorded' /\ CallsAreOfPast'
    BY <2>1, <2>2 DEF Recorded, CallsAreOfPast
  <2>4. OverlapSeen'
    BY <2>1, <2>2 DEF OverlapSeen, Together, Past, Left
  <2> QED
    BY <2>3, <2>4
<1> QED
  BY <1>1, <1>5, <1>6, <1>9, <1>10, <1>11, <1>12, <1>13, <1>14, <1>15, <1>16, <1>17
     DEF Next, Step, Lookup

LEMMA Overlaps ==
    ASSUME DurableRecord
    PROVE  Spec => []OverlapInv
<1>1. Init => OverlapInv
  BY DEF Init, OverlapInv, Recorded, OverlapSeen, Together, Past, CallsAreOfPast,
         InFlight, Working
<1> QED
  BY <1>1, OverlapStep, TypeCorrect, CallsInOrder, PTL DEF Spec

(* With one durable record of answers, and whatever is lost, cancelled or dies,  *)
(* two requests with one key that both are captured were in flight together, or *)
(* one of them was cut off.                                                 *)
THEOREM RepeatsNeedCutOff ==
    ASSUME DurableRecord
    PROVE  Spec => []RepeatNeedsCutOff
<1>1. OverlapInv /\ TypeOK => RepeatNeedsCutOff
  BY DEF OverlapInv, OverlapSeen, Together, Past, Left, CallsAreOfPast,
         RepeatNeedsCutOff, Captured
<1> QED
  BY <1>1, Overlaps, TypeCorrect, PTL

(* Where no client leaves and nothing crashes, nobody is cut off.              *)
NobodyCutOff == gone = {} /\ \A r \in Requests : pc[r] # "dead"

LEMMA CutOffNeedsFault ==
    ASSUME ~Disconnects, ~Crashes
    PROVE  Spec => []NobodyCutOff
<1>1. Init => NobodyCutOff
  BY DEF Init, NobodyCutOff
<1>2. TypeOK /\ NobodyCutOff /\ [Next]_vars => NobodyCutOff'
  <2> SUFFICES ASSUME TypeOK, NobodyCutOff, [Next]_vars PROVE NobodyCutOff'
    OBVIOUS
  <2>1. gone' = {}
    BY ~Disconnects DEF NobodyCutOff, Next, Step, Lookup, Dispatch, Await, Record, Arrive, LookupCache,
           LookupRow, Route, LookupMethod, Replay, Miss, SkipUnhealthy, SendCancelled, Send,
           Receive, ReceiveRefusal, ReceiveGarbled, TimeOut, Store, Remember, Handle,
           HealthCheck, Expire, Disconnect, Crash, vars
  <2>2. ASSUME NEW r \in Requests, NEW s, Moved(r, s), s # "dead"
        PROVE  \A q \in Requests : pc'[q] # "dead"
    BY <2>2 DEF NobodyCutOff, Moved, TypeOK
  <2>3. ASSUME NEW r \in Requests, Lookup(r) \/ \E k \in Keys : Arrive(r, k)
        PROVE  \E s : Moved(r, s) /\ s # "dead"
    BY <2>3 DEF Lookup, Arrive, LookupCache, LookupRow, Route, LookupMethod, Replay, Miss
  <2>4. ASSUME NEW r \in Requests, Dispatch(r) \/ Await(r) \/ Record(r)
        PROVE  \E s : Moved(r, s) /\ s # "dead"
    BY <2>4 DEF Dispatch, Await, Record, SkipUnhealthy, SendCancelled, Send, FailOver,
                Receive, ReceiveRefusal, ReceiveGarbled, TimeOut, Store, Remember
  <2>5. CASE \/ \E r \in Requests, p \in Processors, v \in Verdicts : Handle(r, p, v)
             \/ \E p \in Processors, up \in BOOLEAN : HealthCheck(p, up)
             \/ \E k \in Keys : Expire(k)
             \/ UNCHANGED vars
    BY <2>5 DEF Handle, HealthCheck, Expire, vars, NobodyCutOff
  <2>6. ASSUME NEW r \in Requests, Step(r) \/ \E k \in Keys : Arrive(r, k)
        PROVE  \A q \in Requests : pc'[q] # "dead"
    <3>1. \E s : Moved(r, s) /\ s # "dead"
      BY <2>3, <2>4, <2>6 DEF Step
    <3> QED
      BY <2>2, <3>1
  <2>7. \A q \in Requests : pc'[q] # "dead"
    BY <2>5, <2>6, ~Disconnects, ~Crashes DEF Next, Disconnect, Crash, NobodyCutOff
  <2> QED
    BY <2>1, <2>7 DEF NobodyCutOff
<1> QED
  BY <1>1, <1>2, TypeCorrect, PTL DEF Spec

(* With one durable record of answers and no handler cut short, two requests  *)
(* with one key are both captured only if they were in flight together.       *)
THEOREM DuplicatesOverlap ==
    ASSUME Durable
    PROVE  Spec => []DuplicateNeedsOverlap
<1>1. RepeatNeedsCutOff /\ NobodyCutOff => DuplicateNeedsOverlap
  BY DEF RepeatNeedsCutOff, NobodyCutOff, DuplicateNeedsOverlap
<1>2. DurableRecord /\ ~Disconnects /\ ~Crashes
  BY Durable DEF Durable
<1> QED
  BY <1>1, <1>2, RepeatsNeedCutOff, CutOffNeedsFault, PTL

(* Callers who take turns overlap with nobody.                                *)
Alone == \A r \in Requests : rivals[r] = {}

LEMMA TakingTurns ==
    ASSUME SerialCallers
    PROVE  Spec => []Alone
<1>1. Init => Alone
  BY DEF Init, Alone
<1>2. Alone /\ [Next]_vars => Alone'
  <2> SUFFICES ASSUME Alone, [Next]_vars PROVE Alone'
    OBVIOUS
  <2>1. ASSUME NEW r \in Requests, NEW k \in Keys, Arrive(r, k) PROVE Alone'
    BY <2>1, SerialCallers DEF Arrive, Alone
  <2>2. CASE UNCHANGED rivals
    BY <2>2 DEF Alone
  <2>3. (\E r \in Requests, k \in Keys : Arrive(r, k)) \/ UNCHANGED rivals
    BY DEF Next, Step, Lookup, Dispatch, Await, Record, LookupCache, LookupRow, Route,
           LookupMethod, Replay, Miss, SkipUnhealthy, SendCancelled, Send, Receive,
           ReceiveRefusal, ReceiveGarbled, TimeOut, Store, Remember, Handle,
           HealthCheck, Expire, Disconnect, Crash, vars
  <2> QED
    BY <2>1, <2>2, <2>3
<1> QED
  BY <1>1, <1>2, PTL DEF Spec

(* README.md:8, "Zero duplicate charges", holds if callers take turns, no     *)
(* call is abandoned and one record of answers is durable.                    *)
THEOREM ZeroDuplicatesIfSerial ==
    ASSUME SerialCallers, ReliableNetwork, Durable
    PROVE  Spec => []ZeroDuplicateCharges
<1>1. Alone /\ DuplicateNeedsOverlap /\ OneProcessor => ZeroDuplicateCharges
  BY DEF Alone, DuplicateNeedsOverlap, OneProcessor, ZeroDuplicateCharges, Processors
<1> QED
  BY <1>1, TakingTurns, DuplicatesOverlap, OneProcessorIfReliable, PTL

-----------------------------------------------------------------------------
(* Where the recorded answers come from.  A request that computed an answer    *)
(* signed it, and every answer found in the cache, in the table or in a        *)
(* replay is the one of the finished request that signed it.                *)
Done == {"remember", "replied"}

AnswerOf(a, k) ==
    a # NoAnswer =>
        a \in Answers /\ key[a.tx] = k /\ pc[a.tx] \in Done /\ result[a.tx] = a

OriginInv ==
    /\ \A r \in Requests :
         pc[r] \in Done \cup {"store"} => result[r] \in Answers /\ result[r].tx = r
    /\ \A r \in Requests :
         pc[r] = "replayed" => result[r] # NoAnswer /\ AnswerOf(result[r], key[r])
    /\ \A k \in Keys : AnswerOf(rows[k], k) /\ AnswerOf(cache[k], k)

(* AnswerOf(a, k)', for an answer a that is already known.                    *)
AnswerNext(a, k) ==
    a # NoAnswer =>
        a \in Answers /\ key'[a.tx] = k /\ pc'[a.tx] \in Done /\ result'[a.tx] = a

(* Without crashes nothing about a finished request changes any more.         *)
LEMMA DoneStays ==
    ASSUME ~Crashes, TypeOK, [Next]_vars, NEW q \in Requests,
           pc[q] \in Done \cup {"replayed"}
    PROVE  /\ key'[q] = key[q] /\ result'[q] = result[q]
           /\ pc'[q] \in Done \cup {"replayed"} /\ (pc[q] \in Done => pc'[q] \in Done)
           /\ (pc[q] \in {"replied", "replayed"} => pc'[q] = pc[q])
<1> USE DEF TypeOK, Moved, Done
<1> DEFINE Goal == /\ key'[q] = key[q] /\ result'[q] = result[q]
                   /\ pc'[q] \in Done \cup {"replayed"} /\ (pc[q] \in Done => pc'[q] \in Done)
                   /\ (pc[q] \in {"replied", "replayed"} => pc'[q] = pc[q])
<1>1. ASSUME NEW r \in Requests, NEW k \in Keys, Arrive(r, k) PROVE Goal
  BY <1>1 DEF Arrive
<1>2. ASSUME NEW r \in Requests, Step(r) PROVE Goal
  <2>1. CASE r = q
    <3>1. Remember(q)
      BY <1>2, <2>1
         DEF Step, Lookup, Dispatch, Await, Record, LookupCache, LookupRow, Route,
             LookupMethod, SkipUnhealthy, SendCancelled, Send, Receive, ReceiveRefusal,
             ReceiveGarbled, TimeOut, Store
    <3> QED
      BY <3>1 DEF Remember
  <2>2. CASE r # q
    <3>1. UNCHANGED key
      BY <1>2
         DEF Step, Lookup, Dispatch, Await, Record, LookupCache, LookupRow, Route,
             LookupMethod, Replay, Miss, SkipUnhealthy, SendCancelled, Send, Receive,
             ReceiveRefusal, ReceiveGarbled, TimeOut, Store, Remember
    <3>2. pc'[q] = pc[q] /\ result'[q] = result[q]
      BY <1>2, <2>2
         DEF Step, Lookup, Dispatch, Await, Record, LookupCache, LookupRow, Route,
             LookupMethod, Replay, Miss, SkipUnhealthy, SendCancelled, Send, Receive,
             ReceiveRefusal, ReceiveGarbled, TimeOut, Store, Remember, FailOver
    <3> QED
      BY <3>1, <3>2
  <2> QED
    BY <2>1, <2>2
<1>3. CASE \/ \E r \in Requests, s \in Processors, v \in Verdicts : Handle(r, s, v)
           \/ \E s \in Processors, up \in BOOLEAN : HealthCheck(s, up)
           \/ \E k \in Keys : Expire(k)
           \/ \E r \in Requests : Disconnect(r)
           \/ Crash
           \/ UNCHANGED vars
  BY <1>3 DEF Handle, HealthCheck, Expire, Disconnect, Crash, vars
<1> QED
  BY <1>1, <1>2, <1>3 DEF Next

LEMMA AnswerStays ==
    ASSUME ~Crashes, TypeOK, [Next]_vars, NEW a, NEW k, AnswerOf(a, k)
    PROVE  AnswerNext(a, k)
<1>1. a # NoAnswer => a \in Answers /\ a.tx \in Requests /\ pc[a.tx] \in Done
  BY DEF AnswerOf, Answers
<1> QED
  BY <1>1, DoneStays DEF AnswerOf, AnswerNext

LEMMA OriginStep ==
    ASSUME ~Crashes
    PROVE  TypeOK /\ CallOrder /\ OriginInv /\ [Next]_vars => OriginInv'
<1> SUFFICES ASSUME TypeOK, CallOrder, OriginInv, [Next]_vars PROVE OriginInv'
  OBVIOUS
<1> DEFINE Signed   == \A r \in Requests : pc'[r] \in Done \cup {"store"} =>
                           result'[r] \in Answers /\ result'[r].tx = r
           Replayed == \A r \in Requests : pc'[r] = "replayed" =>
                           result'[r] # NoAnswer /\ AnswerNext(result'[r], key'[r])
           Stored   == \A k \in Keys : AnswerNext(rows'[k], k) /\ AnswerNext(cache'[k], k)
<1>1. SUFFICES Signed /\ Replayed /\ Stored
  BY DEF OriginInv, AnswerOf, AnswerNext
<1>2. /\ \A k \in Keys : AnswerNext(rows[k], k) /\ AnswerNext(cache[k], k)
      /\ \A r \in Requests : pc[r] = "replayed" =>
             result[r] # NoAnswer /\ AnswerNext(result[r], key[r])
      /\ \A k : AnswerNext(NoAnswer, k)
  <2>1. \A k : AnswerNext(NoAnswer, k)
    BY DEF AnswerNext
  <2> QED
    BY <2>1, AnswerStays DEF OriginInv
<1> HIDE DEF Signed, Replayed, Stored
<1>3. ASSUME UNCHANGED <<rows, cache>> PROVE Stored
  BY <1>2, <1>3 DEF Stored
(* A step of r that does not end in a replay, and leaves r's answer alone if it *)
(* has one.                                                                 *)
<1>4. ASSUME NEW r \in Requests, NEW s, Moved(r, s), s # "replayed",
             \A q \in Requests \ {r} : key'[q] = key[q] /\ result'[q] = result[q],
             s \in Done \cup {"store"} => result'[r] \in Answers /\ result'[r].tx = r
      PROVE  Signed /\ Replayed
  <2>1. \A q \in Requests \ {r} : pc'[q] = pc[q]
    BY <1>4 DEF Moved, TypeOK
  <2>2. pc'[r] = s
    BY <1>4 DEF Moved, TypeOK
  <2>3. Signed
    BY <1>4, <2>1, <2>2 DEF Signed, OriginInv
  <2>4. Replayed
    BY <1>2, <1>4, <2>1, <2>2 DEF Replayed
  <2> QED
    BY <2>3, <2>4
<1>5. ASSUME NEW r \in Requests, NEW a, Replay(r, a), a # NoAnswer, AnswerNext(a, key[r])
      PROVE  Signed /\ Replayed /\ Stored
  <2>1. \A q \in Requests \ {r} : pc'[q] = pc[q] /\ result'[q] = result[q]
    BY <1>5 DEF Replay, Moved, TypeOK
  <2>2. pc'[r] = "replayed" /\ result'[r] = a /\ UNCHANGED <<key, rows, cache>>
    BY <1>5 DEF Replay, Moved, TypeOK
  <2>3. Signed
    BY <2>1, <2>2 DEF Signed, OriginInv, Done
  <2>4. Replayed
    BY <1>2, <1>5, <2>1, <2>2 DEF Replayed
  <2> QED
    BY <1>3, <2>2, <2>3, <2>4
<1>6. ASSUME NEW r \in Requests, NEW k \in Keys, Arrive(r, k)
      PROVE  Signed /\ Replayed /\ Stored
  <2>1. UNCHANGED <<rows, cache, result>> /\ Moved(r, "cache")
    BY <1>6 DEF Arrive
  <2>2. \A q \in Requests \ {r} : key'[q] = key[q]
    BY <1>6 DEF Arrive, TypeOK
  <2> QED
    BY <1>3, <1>4, <2>1, <2>2 DEF Done
<1>7. ASSUME NEW r \in Requests, Lookup(r) PROVE Signed /\ Replayed /\ Stored
  <2>1. CASE LookupCache(r)
    <3>1. key[r] \in Keys
      BY <2>1 DEF LookupCache, TypeOK
    <3>2. CASE Miss(r, "db")
      BY <1>3, <1>4, <3>2 DEF Miss, Done
    <3> QED
      BY <1>2, <1>5, <2>1, <3>1, <3>2 DEF LookupCache, Replayable
  <2>2. CASE LookupRow(r)
    <3>1. key[r] \in Keys
      BY <2>2 DEF LookupRow, TypeOK
    <3>2. CASE Miss(r, "route")
      BY <1>3, <1>4, <3>2 DEF Miss, Done
    <3> QED
      BY <1>2, <1>5, <2>2, <3>1, <3>2 DEF LookupRow, Replayable
  <2>3. CASE Route(r)
    BY <1>3, <1>4, <2>3 DEF Route, Done
  <2>4. CASE LookupMethod(r)
    BY <1>3, <1>4, <2>4 DEF LookupMethod, Done
  <2> QED
    BY <1>7, <2>1, <2>2, <2>3, <2>4 DEF Lookup
<1>8. ASSUME NEW r \in Requests, FailOver(r), UNCHANGED <<key, cache, rows>>
      PROVE  Signed /\ Replayed /\ Stored
  <2>1. CASE TriedBoth(r)
    <3>1. Unavailable(r) \in Answers /\ Unavailable(r).tx = r
      BY DEF Unavailable, Answers
    <3>2. result' = [result EXCEPT ![r] = Unavailable(r)] /\ Moved(r, "store")
      BY <1>8, <2>1 DEF FailOver
    <3>3. result'[r] = Unavailable(r) /\ \A q \in Requests \ {r} : result'[q] = result[q]
      BY <3>2 DEF TypeOK
    <3> QED
      BY <1>3, <1>4, <1>8, <3>1, <3>2, <3>3
  <2>2. CASE ~TriedBoth(r)
    BY <1>3, <1>4, <1>8, <2>2 DEF FailOver, Done
  <2> QED
    BY <2>1, <2>2
<1>9. ASSUME NEW r \in Requests, Dispatch(r) PROVE Signed /\ Replayed /\ Stored
  <2>1. CASE SkipUnhealthy(r) \/ SendCancelled(r)
    BY <1>8, <2>1 DEF SkipUnhealthy, SendCancelled
  <2>2. CASE Send(r)
    BY <1>3, <1>4, <2>2 DEF Send, Done
  <2> QED
    BY <1>9, <2>1, <2>2 DEF Dispatch
<1>10. ASSUME NEW r \in Requests, Await(r) PROVE Signed /\ Replayed /\ Stored
  <2>1. CASE Receive(r)
    <3> DEFINE a == Verdict(r, target[r], wire[r][target[r]])
    <3>1. a \in Answers /\ a.tx = r
      BY DEF Verdict, TypeOK, Answers
    <3>2. result' = [result EXCEPT ![r] = a] /\ Moved(r, "store") /\ UNCHANGED <<key, rows, cache>>
      BY <2>1 DEF Receive
    <3> HIDE DEF a
    <3>3. result'[r] = a /\ \A q \in Requests \ {r} : result'[q] = result[q]
      BY <3>2 DEF TypeOK
    <3> QED
      BY <1>3, <1>4, <3>1, <3>2, <3>3
  <2>2. CASE ReceiveRefusal(r) \/ ReceiveGarbled(r) \/ TimeOut(r)
    BY <1>8, <2>2 DEF ReceiveRefusal, ReceiveGarbled, TimeOut
  <2> QED
    BY <1>10, <2>1, <2>2 DEF Await
<1>11. ASSUME NEW r \in Requests, Record(r) PROVE Signed /\ Replayed /\ Stored
  <2>1. /\ pc[r] \in {"store", "remember"} /\ UNCHANGED <<key, result>>
        /\ key[r] \in Keys /\ result[r] \in Answers /\ result[r].tx = r
    BY <1>11 DEF Record, Store, Remember, OriginInv, TypeOK, Done
  <2>2. PICK s \in Done : Moved(r, s)
    BY <1>11 DEF Record, Store, Remember, Done
  <2>3. Signed /\ Replayed
    BY <1>4, <2>1, <2>2 DEF Done
  <2>4. AnswerNext(result[r], key[r])
    BY <2>1, <2>2 DEF AnswerNext, Moved, TypeOK
  <2>5. /\ \A k \in Keys : rows'[k] = rows[k] \/ (k = key[r] /\ rows'[k] = result[r])
        /\ \A k \in Keys : cache'[k] = cache[k] \/ (k = key[r] /\ cache'[k] = result[r])
    BY <1>11 DEF Record, Store, Remember, Inserted, TypeOK
  <2>6. Stored
    BY <1>2, <2>4, <2>5 DEF Stored
  <2> QED
    BY <2>3, <2>6
<1>12. ASSUME NEW k \in Keys, Expire(k) PROVE Signed /\ Replayed /\ Stored
  <2>1. UNCHANGED <<pc, key, result, rows>> /\ \A j \in Keys : cache'[j] \in {cache[j], NoAnswer}
    BY <1>12 DEF Expire, TypeOK
  <2> QED
    BY <1>2, <2>1 DEF Signed, Replayed, Stored, OriginInv
<1>13. CASE \/ \E r \in Requests, p \in Processors, v \in Verdicts : Handle(r, p, v)
            \/ \E p \in Processors, up \in BOOLEAN : HealthCheck(p, up)
            \/ \E r \in Requests : Disconnect(r)
            \/ Crash
            \/ UNCHANGED vars
  <2>1. UNCHANGED <<pc, key, result, rows, cache>>
    BY <1>13 DEF Handle, HealthCheck, Disconnect, Crash, vars
  <2> QED
    BY <1>2, <1>3, <2>1 DEF Signed, Replayed, OriginInv
<1> QED
  BY <1>6, <1>7, <1>9, <1>10, <1>11, <1>12, <1>13 DEF Next, Step

LEMMA Origins ==
    ASSUME ~Crashes
    PROVE  Spec => []OriginInv
<1>1. Init => OriginInv
  BY DEF Init, OriginInv, AnswerOf, Done
<1> QED
  BY <1>1, OriginStep, TypeCorrect, CallsInOrder, PTL DEF Spec

(* With one durable record of answers and no handler cut short, the cache and  *)
(* the table disagree on a key only if the two requests whose answers they     *)
(* hold were in flight together.                                            *)
THEOREM DisagreementsOverlap ==
    ASSUME Durable
    PROVE  Spec => []DisagreementNeedsOverlap
<1>1. OriginInv /\ OverlapInv /\ NobodyCutOff => DisagreementNeedsOverlap
  <2> SUFFICES ASSUME OriginInv, OverlapInv, NobodyCutOff, NEW k \in Keys,
                      cache[k] # NoAnswer, rows[k] # NoAnswer, cache[k] # rows[k]
               PROVE  cache[k].tx \in rivals[rows[k].tx]
    BY DEF DisagreementNeedsOverlap
  <2> DEFINE q == cache[k].tx
             r == rows[k].tx
  <2>1. AnswerOf(cache[k], k) /\ AnswerOf(rows[k], k)
    BY DEF OriginInv
  <2>2. /\ q \in Requests /\ r \in Requests /\ key[q] = key[r]
        /\ pc[q] \in Done /\ pc[r] \in Done
        /\ result[q] = cache[k] /\ result[r] = rows[k]
    BY <2>1 DEF AnswerOf, Answers
  <2>3. q # r
    BY <2>2
  <2> HIDE DEF q, r
  <2>4. Together(q, r)
    BY <2>2 DEF Together, Past, Working, Done
  <2>5. q \in rivals[r]
    BY <2>2, <2>3, <2>4 DEF OverlapInv, OverlapSeen, Left, NobodyCutOff
  <2> QED
    BY <2>5 DEF q, r
<1>2. DurableRecord /\ ~Disconnects /\ ~Crashes
  BY Durable DEF Durable
<1> QED
  BY <1>1, <1>2, Origins, Overlaps, CutOffNeedsFault, PTL

-----------------------------------------------------------------------------
(* The charge path implements IdempotentCharge, if callers take turns, no call *)
(* is abandoned and one record of answers is durable.                       *)

(* If no call is abandoned, an open call is being waited for, and the          *)
(* answer of a request says what became of its calls.                       *)
HonestInv ==
    \A r \in Requests, p \in Processors :
        /\ wire[r][p] = "sent" => pc[r] = "await" /\ target[r] = p
        /\ pc[r] \in Done \cup {"store"} /\ Captured(r, p) => result[r].ok

LEMMA HonestStep ==
    ASSUME ReliableNetwork, ~Crashes
    PROVE  TypeOK /\ CallOrder /\ PrimaryGaveNothing /\ HonestInv /\ [Next]_vars => HonestInv'
<1> SUFFICES ASSUME TypeOK, CallOrder, PrimaryGaveNothing, HonestInv, [Next]_vars
             PROVE  HonestInv'
  OBVIOUS
<1> USE DEF TypeOK, Moved, HonestInv, Done, Captured, Processors, A, B
<1>1. ASSUME NEW r \in Requests, NEW k \in Keys, Arrive(r, k) PROVE HonestInv'
  BY <1>1 DEF Arrive
<1>2. ASSUME NEW r \in Requests, Lookup(r) PROVE HonestInv'
  <2>1. /\ pc[r] \in {"cache", "db", "route", "method"}
        /\ \E s \in {"replayed", "db", "route", "method", "dispatch", "rejected"} : Moved(r, s)
        /\ UNCHANGED wire
        /\ \A q \in Requests \ {r} : UNCHANGED <<target[q], result[q]>>
    BY <1>2 DEF Lookup, LookupCache, LookupRow, Route, LookupMethod, Replay, Miss
  <2>2. wire[r][A] = "none" /\ wire[r][B] = "none"
    BY <2>1 DEF CallOrder, Uncalled
  <2> QED
    BY <2>1, <2>2
<1>3. ASSUME NEW r \in Requests, FailOver(r), UNCHANGED wire,
             \A p \in Processors : wire[r][p] \in {"none", "refused"}
      PROVE  HonestInv'
  BY <1>3 DEF FailOver, TriedBoth
<1>4. ASSUME NEW r \in Requests, Dispatch(r) PROVE HonestInv'
  <2>1. \A p \in Processors : wire[r][p] \in {"none", "refused"}
    BY <1>4 DEF Dispatch, SkipUnhealthy, SendCancelled, Send, CallOrder, PrimaryGaveNothing
  <2>2. CASE SkipUnhealthy(r) \/ SendCancelled(r)
    BY <1>3, <2>1, <2>2 DEF SkipUnhealthy, SendCancelled
  <2>3. CASE Send(r)
    BY <2>1, <2>3 DEF Send
  <2> QED
    BY <1>4, <2>2, <2>3 DEF Dispatch
<1>5. ASSUME NEW r \in Requests, Await(r) PROVE HonestInv'
  <2>1. CASE Receive(r)
    <3> DEFINE a == Verdict(r, target[r], wire[r][target[r]])
    <3>1. a.ok <=> wire[r][target[r]] = "captured"
      BY DEF Verdict
    <3>2. /\ result' = [result EXCEPT ![r] = a] /\ pc' = [pc EXCEPT ![r] = "store"]
          /\ pc[r] = "await" /\ wire[r][target[r]] # "sent" /\ UNCHANGED <<wire, target>>
      BY <2>1 DEF Receive, Usable
    <3>3. \A p \in Processors : p # target[r] => wire[r][p] \in {"none", "refused"}
      BY DEF CallOrder, PrimaryGaveNothing
    <3> HIDE DEF a
    <3> QED
      BY <3>1, <3>2, <3>3
  <2>2. CASE ReceiveRefusal(r)
    <3>1. wire[r][target[r]] = "refused"
      BY <2>2 DEF ReceiveRefusal, Verdicts, Usable
    <3>2. \A p \in Processors : wire[r][p] \in {"none", "refused"}
      BY <3>1 DEF CallOrder, PrimaryGaveNothing
    <3> QED
      BY <1>3, <2>2, <3>2 DEF ReceiveRefusal
  <2>3. CASE ReceiveGarbled(r) \/ TimeOut(r)
    BY <2>3, ReliableNetwork
       DEF ReceiveGarbled, TimeOut, GivesUp, ReliableNetwork, PrimaryGaveNothing
  <2> QED
    BY <1>5, <2>1, <2>2, <2>3 DEF Await
<1>6. ASSUME NEW r \in Requests, Record(r) PROVE HonestInv'
  BY <1>6 DEF Record, Store, Remember
<1>7. ASSUME NEW r \in Requests, NEW p \in Processors, NEW v \in Verdicts,
             Handle(r, p, v)
      PROVE  HonestInv'
  BY <1>7 DEF Handle, Verdicts
<1>8. CASE \/ \E p \in Processors, up \in BOOLEAN : HealthCheck(p, up)
           \/ \E k \in Keys : Expire(k)
           \/ \E r \in Requests : Disconnect(r)
           \/ UNCHANGED vars
  BY <1>8 DEF HealthCheck, Expire, Disconnect, vars
<1>9. CASE Crash
  BY <1>9 DEF Crash
<1> QED
  BY <1>1, <1>2, <1>4, <1>5, <1>6, <1>7, <1>8, <1>9 DEF Next, Step

SerialInv ==
    /\ TypeOK /\ CallOrder /\ SuccessIsBacked /\ ZeroDuplicateCharges
    /\ OriginInv /\ OverlapInv /\ NobodyCutOff /\ Alone /\ HonestInv

LEMMA SerialInvHolds ==
    ASSUME SerialCallers, ReliableNetwork, Durable
    PROVE  Spec => []SerialInv
<1>1. DurableRecord /\ ~Disconnects /\ ~Crashes
  BY Durable DEF Durable
<1>2. Init => HonestInv
  BY DEF Init, HonestInv, Done, Captured
<1>3. Spec => []HonestInv
  BY <1>1, <1>2, HonestStep, PrimaryFirst, TypeCorrect, CallsInOrder, PTL DEF Spec
<1> QED
  BY <1>1, <1>3, TypeCorrect, CallsInOrder, SuccessAlwaysBacked, ZeroDuplicatesIfSerial,
     Origins, Overlaps, CutOffNeedsFault, TakingTurns, PTL DEF SerialInv

(* How often a key was captured: not at all, or once.                          *)
LEMMA CapturesCounted ==
    ASSUME ZeroDuplicateCharges, NEW k \in Keys
    PROVE  /\ CapturesOf(k) = {} => Cardinality(CapturesOf(k)) = 0
           /\ CapturesOf(k) # {} => Cardinality(CapturesOf(k)) = 1
<1>1. Cardinality(CapturesOf(k)) = 0 \/ CapturesOf(k) # {}
  BY FS_EmptySet
<1>2. ASSUME CapturesOf(k) # {} PROVE Cardinality(CapturesOf(k)) = 1
  <2>1. PICK c : c \in CapturesOf(k)
    BY <1>2
  <2>2. \A d \in CapturesOf(k) : d = c
    BY <2>1 DEF CapturesOf, ZeroDuplicateCharges
  <2>3. CapturesOf(k) = {c}
    BY <2>1, <2>2
  <2> QED
    BY <2>3, FS_Singleton
<1> QED
  BY <1>1, <1>2, FS_EmptySet

(* A finished request and one that called a processor under its key are one.    *)
LEMMA FinisherIsCaller ==
    ASSUME SerialInv, NEW q \in Requests, NEW r \in Requests, NEW p \in Processors,
           key[q] = key[r], pc[q] \in Done, wire[r][p] # "none"
    PROVE  q = r
<1>1. Past(q)
  BY DEF Past, Done, Working
<1>2. Past(r)
  BY DEF SerialInv, OverlapInv, NobodyCutOff, CallsAreOfPast, Past
<1> QED
  BY <1>1, <1>2 DEF SerialInv, OverlapInv, OverlapSeen, Left, NobodyCutOff, Together, Alone

(* The verdict of a finished request tells whether its key was captured.       *)
LEMMA VerdictIsTrue ==
    ASSUME SerialInv, NEW r \in Requests, key[r] \in Keys, pc[r] \in Done
    PROVE  result[r].ok = (Cardinality(CapturesOf(key[r])) = 1)
<1>1. result[r] \in Answers /\ result[r].tx = r /\ result[r].ok \in BOOLEAN
  BY DEF SerialInv, OriginInv, Answers
<1>2. ASSUME result[r].ok PROVE CapturesOf(key[r]) # {}
  <2>1. result[r] # NoAnswer
    BY <1>1, OrchestratorAssumption
  <2>2. result[r].proc \in Processors /\ Captured(r, result[r].proc)
    BY <1>1, <1>2, <2>1 DEF SerialInv, SuccessIsBacked, Backed
  <2>3. <<r, result[r].proc>> \in CapturesOf(key[r])
    BY <2>2 DEF CapturesOf
  <2> QED
    BY <2>3
<1>3. ASSUME CapturesOf(key[r]) # {} PROVE result[r].ok
  <2>1. PICK c \in Requests \X Processors : key[c[1]] = key[r] /\ Captured(c[1], c[2])
    BY <1>3 DEF CapturesOf
  <2>2. c[1] = r
    BY <2>1, FinisherIsCaller DEF Captured
  <2> QED
    BY <2>1, <2>2 DEF SerialInv, HonestInv
<1>4. /\ CapturesOf(key[r]) = {} => Cardinality(CapturesOf(key[r])) = 0
      /\ CapturesOf(key[r]) # {} => Cardinality(CapturesOf(key[r])) = 1
  BY CapturesCounted DEF SerialInv
<1> QED
  BY <1>1, <1>2, <1>3, <1>4

(* Nobody has been told anything of a key while a call for it is open.         *)
LEMMA NobodyTold ==
    ASSUME SerialInv, NEW r \in Requests, NEW p \in Processors, wire[r][p] = "sent"
    PROVE  ToldOf(key[r]) = {}
<1>1. pc[r] = "await"
  BY DEF SerialInv, HonestInv
<1>2. ASSUME NEW q \in Requests, key[q] = key[r], pc[q] \in Done PROVE FALSE
  BY <1>1, <1>2, FinisherIsCaller DEF Done
<1>3. ASSUME NEW q \in Requests, key[q] = key[r], pc[q] = "replayed" PROVE FALSE
  <2>1. result[q] \in Answers /\ key[result[q].tx] = key[r] /\ pc[result[q].tx] \in Done
    BY <1>3 DEF SerialInv, OriginInv, AnswerOf
  <2> QED
    BY <1>2, <2>1 DEF Answers
<1> QED
  BY <1>2, <1>3 DEF ToldOf, Done

(* What the steps do to the two abstract variables.                            *)
Answered(q) == pc[q] \in {"replied", "replayed"}

LEMMA SameTold ==
    ASSUME ~Crashes, TypeOK, [Next]_vars,
           \A q \in Requests : Answered(q)' => Answered(q)
    PROVE  \A k \in Keys : ToldOf(k)' = ToldOf(k)
<1>1. \A q \in Requests : Answered(q) =>
          Answered(q)' /\ key'[q] = key[q] /\ result'[q] = result[q]
  BY DoneStays DEF Answered, Done
<1> QED
  BY <1>1 DEF ToldOf, Answered

LEMMA MoreTold ==
    ASSUME ~Crashes, TypeOK, [Next]_vars, NEW r \in Requests,
           Answered(r)', key'[r] = key[r], ~Answered(r),
           \A q \in Requests \ {r} : Answered(q)' => Answered(q)
    PROVE  /\ ToldOf(key[r])' = ToldOf(key[r]) \cup {result'[r].ok}
           /\ \A k \in Keys : k # key[r] => ToldOf(k)' = ToldOf(k)
<1>1. \A q \in Requests : Answered(q) =>
          Answered(q)' /\ key'[q] = key[q] /\ result'[q] = result[q]
  BY DoneStays DEF Answered, Done
<1>2. PICK k : k = key[r]
  OBVIOUS
<1>3. ToldOf(k)' = ToldOf(k) \cup {result'[r].ok}
  BY <1>1, <1>2 DEF ToldOf, Answered
<1>4. \A j \in Keys : j # k => ToldOf(j)' = ToldOf(j)
  BY <1>1, <1>2 DEF ToldOf, Answered
<1> QED
  BY <1>2, <1>3, <1>4

LEMMA SameCaptures ==
    ASSUME TypeOK, CallOrder, [Next]_vars,
           ~ \E r \in Requests, p \in Processors, v \in Verdicts : Handle(r, p, v)
    PROVE  \A k \in Keys : CapturesOf(k)' = CapturesOf(k)
<1>1. \A q \in Requests, p \in Processors : Captured(q, p) =>
          Captured(q, p)' /\ key'[q] = key[q]
  BY CaptureStays
<1>2. ASSUME NEW q \in Requests, NEW p \in Processors, Captured(q, p)'
      PROVE  Captured(q, p)
  <2>1. UNCHANGED wire \/ \E r \in Requests : Send(r)
    BY DEF Next, Step, Lookup, Dispatch, Await, Record, LookupCache, LookupRow, Route,
         LookupMethod, Replay, Miss, SkipUnhealthy, SendCancelled, Receive,
         ReceiveRefusal, ReceiveGarbled, TimeOut, Store, Remember, Arrive,
         HealthCheck, Expire, Disconnect, Crash, vars
  <2>2. ASSUME NEW r \in Requests, Send(r) PROVE Captured(q, p)
    BY <1>2, <2>2 DEF Send, TypeOK, Captured, Processors
  <2> QED
    BY <1>2, <2>1, <2>2 DEF Captured
<1> QED
  BY <1>1, <1>2 DEF CapturesOf

(* The step of the abstract specification that each step makes.               *)
IdealStep ==
    [Ideal!Next]_<<[k \in Keys |-> Cardinality(CapturesOf(k))], [k \in Keys |-> ToldOf(k)]>>

LEMMA CaptureImplemented ==
    ASSUME SerialInv, SerialInv', [Next]_vars, NEW r \in Requests, NEW p \in Processors,
           NEW v \in Verdicts, Handle(r, p, v)
    PROVE  IdealStep
<1>1. /\ wire[r][p] = "sent" /\ wire' = [wire EXCEPT ![r][p] = v]
      /\ UNCHANGED <<pc, key, result>>
  BY DEF Handle
<1>2. /\ wire'[r][p] = v
      /\ \A q \in Requests, s \in Processors :
           <<q, s>> # <<r, p>> => wire'[q][s] = wire[q][s]
  BY <1>1 DEF SerialInv, TypeOK
<1>3. key[r] \in Keys
  BY <1>1 DEF SerialInv, HonestInv, TypeOK
<1>4. \A k \in Keys : ToldOf(k)' = ToldOf(k)
  BY <1>1 DEF ToldOf
<1>5. \A k \in Keys : k # key[r] \/ v # "captured" => CapturesOf(k)' = CapturesOf(k)
  BY <1>1, <1>2 DEF CapturesOf, Captured
<1>6. CASE v # "captured"
  BY <1>4, <1>5, <1>6 DEF IdealStep
<1>7. CASE v = "captured"
  <2>1. PICK j \in Keys : j = key[r]
    BY <1>3
  <2>2. <<r, p>> \in CapturesOf(j)'
    BY <1>1, <1>2, <1>7, <2>1 DEF CapturesOf, Captured
  <2>3. CapturesOf(j) = {}
    <3> SUFFICES ASSUME NEW q \in Requests, NEW s \in Processors, key[q] = j, Captured(q, s)
                 PROVE  FALSE
      BY DEF CapturesOf
    <3>1. <<q, s>> # <<r, p>>
      BY <1>1 DEF Captured
    <3>2. Captured(q, s)' /\ Captured(r, p)' /\ key'[q] = key'[r]
      BY <1>1, <1>2, <1>7, <2>1, <3>1 DEF Captured
    <3> QED
      BY <3>1, <3>2 DEF SerialInv, ZeroDuplicateCharges
  <2>4. Cardinality(CapturesOf(j)) = 0 /\ Cardinality(CapturesOf(j)') = 1
    <3>1. ZeroDuplicateCharges' => Cardinality(CapturesOf(j)') = 1
      <4>1. ASSUME ZeroDuplicateCharges' PROVE CapturesOf(j)' = {<<r, p>>}
        BY <2>2, <4>1 DEF CapturesOf, ZeroDuplicateCharges
      <4> QED
        BY <4>1, FS_Singleton
    <3> QED
      BY <2>3, <3>1, FS_EmptySet DEF SerialInv
  <2>5. ToldOf(j) = {}
    BY <1>1, <2>1, NobodyTold
  <2>6. Ideal!Capture(j)
    BY <1>4, <1>5, <2>1, <2>3, <2>4, <2>5 DEF Ideal!Capture
  <2> QED
    BY <2>6 DEF IdealStep, Ideal!Next
<1> QED
  BY <1>6, <1>7

LEMMA TellImplemented ==
    ASSUME SerialInv, ~Crashes, [Next]_vars, NEW r \in Requests,
           \/ Remember(r)
           \/ LookupCache(r) /\ Replay(r, cache[key[r]]) /\ cache[key[r]] # NoAnswer
           \/ LookupRow(r) /\ Replay(r, rows[key[r]]) /\ rows[key[r]] # NoAnswer
    PROVE  IdealStep
<1> USE DEF SerialInv
<1>1. key[r] \in Keys
  BY DEF Remember, LookupCache, LookupRow, TypeOK
<1>2. /\ pc[r] \in {"remember", "cache", "db"} /\ Answered(r)' /\ key'[r] = key[r]
      /\ \A q \in Requests \ {r} : pc'[q] = pc[q]
  BY DEF Remember, LookupCache, LookupRow, Replay, Moved, TypeOK, Answered
<1>3. result'[r].ok = (Cardinality(CapturesOf(key[r])) = 1)
  <2>1. CASE Remember(r)
    BY <1>1, <2>1, VerdictIsTrue DEF Remember, Done
  <2>2. ASSUME NEW a, Replay(r, a), a # NoAnswer, AnswerOf(a, key[r])
        PROVE  result'[r].ok = (Cardinality(CapturesOf(key[r])) = 1)
    <3>1. /\ a.tx \in Requests /\ key[a.tx] = key[r] /\ pc[a.tx] \in Done
          /\ result[a.tx] = a /\ result'[r] = a
      BY <2>2 DEF AnswerOf, Answers, Replay, TypeOK
    <3> QED
      BY <1>1, <3>1, VerdictIsTrue
  <2> QED
    BY <1>1, <2>1, <2>2 DEF OriginInv
<1>4. \A k \in Keys : CapturesOf(k)' = CapturesOf(k)
  <2>1. ~ \E q \in Requests, p \in Processors, v \in Verdicts : Handle(q, p, v)
    BY <1>2 DEF Handle, Answered
  <2> QED
    BY <2>1, SameCaptures
<1>5. PICK j \in Keys : j = key[r]
  BY <1>1
<1>6. ToldOf(j)' = ToldOf(j) \cup {Cardinality(CapturesOf(j)) = 1}
      /\ \A k \in Keys : k # j => ToldOf(k)' = ToldOf(k)
  <2>1. /\ ToldOf(key[r])' = ToldOf(key[r]) \cup {result'[r].ok}
        /\ \A k \in Keys : k # key[r] => ToldOf(k)' = ToldOf(k)
    BY <1>2, MoreTold DEF Answered
  <2>2. key'[r] = j
    BY <1>2, <1>5
  <2> QED
    BY <1>3, <1>5, <2>1, <2>2
<1>7. Ideal!Tell(j)
  BY <1>4, <1>6 DEF Ideal!Tell
<1> QED
  BY <1>7 DEF IdealStep, Ideal!Next

LEMMA StutterImplemented ==
    ASSUME SerialInv, ~Crashes, [Next]_vars,
           ~ \E r \in Requests, p \in Processors, v \in Verdicts : Handle(r, p, v),
           \A q \in Requests : Answered(q)' => Answered(q)
    PROVE  IdealStep
<1>1. \A k \in Keys : ToldOf(k)' = ToldOf(k) /\ CapturesOf(k)' = CapturesOf(k)
  BY SameTold, SameCaptures DEF SerialInv
<1> QED
  BY <1>1 DEF IdealStep

LEMMA EveryStepImplemented ==
    ASSUME ~Crashes
    PROVE  SerialInv /\ SerialInv' /\ [Next]_vars => IdealStep
<1> SUFFICES ASSUME SerialInv, SerialInv', [Next]_vars PROVE IdealStep
  OBVIOUS
<1>1. CASE \E r \in Requests, p \in Processors, v \in Verdicts : Handle(r, p, v)
  BY <1>1, CaptureImplemented
<1>2. ASSUME NEW r \in Requests,
             \/ Remember(r)
             \/ LookupCache(r) /\ Replay(r, cache[key[r]]) /\ cache[key[r]] # NoAnswer
             \/ LookupRow(r) /\ Replay(r, rows[key[r]]) /\ rows[key[r]] # NoAnswer
      PROVE  IdealStep
  BY <1>2, TellImplemented
<1>3. ASSUME NEW r \in Requests, NEW s, Moved(r, s), s \notin {"replied", "replayed"}
      PROVE  \A q \in Requests : Answered(q)' => Answered(q)
  BY <1>3 DEF Answered, Moved, SerialInv, TypeOK
<1>4. ASSUME NEW r \in Requests, FailOver(r)
      PROVE  \A q \in Requests : Answered(q)' => Answered(q)
  BY <1>3, <1>4 DEF FailOver
<1>5. ASSUME NEW r \in Requests, NEW k \in Keys, Arrive(r, k)
      PROVE  \A q \in Requests : Answered(q)' => Answered(q)
  BY <1>3, <1>5 DEF Arrive
<1>6. ASSUME NEW r \in Requests, Lookup(r)
      PROVE  IdealStep \/ \A q \in Requests : Answered(q)' => Answered(q)
  <2>1. CASE LookupCache(r)
    BY <1>2, <1>3, <2>1 DEF LookupCache, Miss, Replayable
  <2>2. CASE LookupRow(r)
    BY <1>2, <1>3, <2>2 DEF LookupRow, Miss, Replayable
  <2>3. CASE Route(r) \/ LookupMethod(r)
    BY <1>3, <2>3 DEF Route, LookupMethod
  <2> QED
    BY <1>6, <2>1, <2>2, <2>3 DEF Lookup
<1>7. ASSUME NEW r \in Requests, Dispatch(r) \/ Await(r)
      PROVE  \A q \in Requests : Answered(q)' => Answered(q)
  BY <1>3, <1>4, <1>7
     DEF Dispatch, SkipUnhealthy, SendCancelled, Send, Await, Receive, ReceiveRefusal,
         ReceiveGarbled, TimeOut
<1>8. ASSUME NEW r \in Requests, Record(r)
      PROVE  IdealStep \/ \A q \in Requests : Answered(q)' => Answered(q)
  BY <1>2, <1>3, <1>8 DEF Record, Store
<1>9. ASSUME \/ \E p \in Processors, up \in BOOLEAN : HealthCheck(p, up)
             \/ \E k \in Keys : Expire(k)
             \/ \E r \in Requests : Disconnect(r)
             \/ UNCHANGED vars
      PROVE  \A q \in Requests : Answered(q)' => Answered(q)
  BY <1>9 DEF HealthCheck, Expire, Disconnect, vars, Answered
<1>10. ~Crash
  BY DEF Crash
<1> QED
  BY <1>1, <1>5, <1>6, <1>7, <1>8, <1>9, <1>10, StutterImplemented DEF Next, Step

(* README.md:8, "Idempotency: Zero duplicate charges", as what a caller sees: if   *)
(* callers take turns with a key, no call is abandoned and one record of       *)
(* answers is durable, each key is captured at most once, and every caller is   *)
(* told the same verdict, which is the true one.                            *)
THEOREM ChargeImplementsIdeal ==
    ASSUME SerialCallers, ReliableNetwork, Durable
    PROVE  Spec => ImplementsIdempotentCharge
<1>1. Init => Ideal!Init
  <2> SUFFICES ASSUME Init PROVE Ideal!Init
    OBVIOUS
  <2>1. \A k \in Keys : CapturesOf(k) = {} /\ ToldOf(k) = {}
    BY DEF Init, CapturesOf, ToldOf, Captured
  <2> QED
    BY <2>1, FS_EmptySet DEF Ideal!Init
<1>2. ~Crashes
  BY Durable DEF Durable
<1>3. SerialInv /\ SerialInv' /\ [Next]_vars =>
        [Ideal!Next]_<<[k \in Keys |-> Cardinality(CapturesOf(k))], [k \in Keys |-> ToldOf(k)]>>
  BY <1>2, EveryStepImplemented DEF IdealStep
<1> QED
  BY <1>1, <1>3, SerialInvHolds, PTL DEF Spec, ImplementsIdempotentCharge, Ideal!Spec

(* What a caller may conclude, taken from IdempotentCharge alone: no key is     *)
(* captured twice, and whoever was told anything was told what became of it,    *)
(* even if he repeats the request.                                          *)
Agreed ==
    \A k \in Keys :
        /\ Cardinality(CapturesOf(k)) \in {0, 1}
        /\ ToldOf(k) \subseteq {Cardinality(CapturesOf(k)) = 1}

LEMMA AgreedKept ==
    ASSUME Agreed, IdealStep
    PROVE  Agreed'
<1> DEFINE captures == [k \in Keys |-> Cardinality(CapturesOf(k))]
           told == [k \in Keys |-> ToldOf(k)]
<1>1. ASSUME NEW k \in Keys
      PROVE  /\ captures[k] = Cardinality(CapturesOf(k)) /\ captures'[k] = Cardinality(CapturesOf(k))'
             /\ told[k] = ToldOf(k) /\ told'[k] = ToldOf(k)'
  OBVIOUS
<1>2. \A k \in Keys : captures[k] \in {0, 1} /\ told[k] \subseteq {captures[k] = 1}
  BY <1>1 DEF Agreed
<1>3. SUFFICES \A k \in Keys : captures'[k] \in {0, 1} /\ told'[k] \subseteq {captures'[k] = 1}
  BY <1>1 DEF Agreed
<1> HIDE DEF captures, told
<1>4. ASSUME NEW k \in Keys, Ideal!Capture(k)
      PROVE  \A j \in Keys : captures'[j] \in {0, 1} /\ told'[j] \subseteq {captures'[j] = 1}
  BY <1>2, <1>4 DEF Ideal!Capture, captures, told
<1>5. ASSUME NEW k \in Keys, Ideal!Tell(k)
      PROVE  \A j \in Keys : captures'[j] \in {0, 1} /\ told'[j] \subseteq {captures'[j] = 1}
  <2>1. captures' = captures /\ told' = [told EXCEPT ![k] = @ \cup {captures[k] = 1}]
    BY <1>5 DEF Ideal!Tell, captures, told
  <2>2. told = [j \in Keys |-> told[j]]
    BY DEF told
  <2>3. told'[k] = told[k] \cup {captures[k] = 1} /\ \A j \in Keys \ {k} : told'[j] = told[j]
    BY <2>1, <2>2
  <2>4. told'[k] \subseteq {captures'[k] = 1}
    BY <1>2, <2>1, <2>3
  <2> QED
    BY <1>2, <2>1, <2>3, <2>4
<1>6. CASE captures' = captures /\ told' = told
  BY <1>2, <1>6
<1> QED
  BY <1>4, <1>5, <1>6 DEF IdealStep, Ideal!Next, captures, told

(* README.md:8 again, for as long as the program runs, on the same conditions.  *)
THEOREM CallersAgree ==
    ASSUME SerialCallers, ReliableNetwork, Durable
    PROVE  Spec => []Agreed
<1>1. Ideal!Init => Agreed
  <2> SUFFICES ASSUME Ideal!Init, NEW k \in Keys
               PROVE  Cardinality(CapturesOf(k)) = 0 /\ ToldOf(k) = {}
    BY DEF Agreed
  <2>1. /\ [j \in Keys |-> Cardinality(CapturesOf(j))][k] = [j \in Keys |-> 0][k]
        /\ [j \in Keys |-> ToldOf(j)][k] = [j \in Keys |-> {}][k]
    BY DEF Ideal!Init
  <2> QED
    BY <2>1
<1>2. Agreed /\ IdealStep => Agreed'
  BY AgreedKept
<1> QED
  BY <1>1, <1>2, ChargeImplementsIdeal, PTL
     DEF ImplementsIdempotentCharge, Ideal!Spec, IdealStep

=============================================================================
