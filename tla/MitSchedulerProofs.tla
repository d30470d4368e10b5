-------------------------- MODULE MitSchedulerProofs --------------------------
(***************************************************************************)
(* Proofs about MitScheduler, for any subscriptions, slow ones among them,   *)
(* triggers, batch sizes, faults and crashes.                               *)
(***************************************************************************)
EXTENDS MitScheduler, SequenceTheorems, FiniteSetTheorems, TLAPS

(* What is due is listed once, and so are the members of a batch.             *)
Distinct(q) == \A i, j \in 1 .. Len(q) : q[i] = q[j] => i = j

Lists == {q \in Seq(Subscriptions) : Distinct(q)}

LEMMA AppendedList ==
    ASSUME NEW q \in Lists, NEW s \in Subscriptions, s \notin Listed(q)
    PROVE  Append(q, s) \in Lists
<1>1. q \in Seq(Subscriptions) /\ Len(q) \in Nat /\ Distinct(q)
  BY DEF Lists
<1> DEFINE r == Append(q, s)
<1>2. /\ r \in Seq(Subscriptions) /\ Len(r) = Len(q) + 1
      /\ \A i \in 1 .. Len(q) : r[i] = q[i]
      /\ r[Len(q) + 1] = s
  BY <1>1, AppendProperties
<1> HIDE DEF r
<1>3. ASSUME NEW i \in 1 .. Len(r), NEW j \in 1 .. Len(r), r[i] = r[j]
      PROVE  i = j
  <2>1. CASE i \in 1 .. Len(q) /\ j \in 1 .. Len(q)
    BY <1>1, <1>2, <1>3, <2>1 DEF Distinct
  <2>2. CASE i = Len(q) + 1 /\ j = Len(q) + 1
    BY <2>2
  <2>3. \A k \in 1 .. Len(q) : q[k] # s
    BY DEF Listed
  <2>4. (i \in 1 .. Len(q) \/ i = Len(q) + 1) /\ (j \in 1 .. Len(q) \/ j = Len(q) + 1)
    BY <1>1, <1>2
  <2> QED
    BY <1>2, <1>3, <2>1, <2>2, <2>3, <2>4
<1> QED
  BY <1>2, <1>3 DEF Lists, Distinct, r

LEMMA PartOfList ==
    ASSUME NEW q \in Lists, NEW m \in Int, NEW n \in Int, m >= 1, n <= Len(q)
    PROVE  SubSeq(q, m, n) \in Lists
<1>1. q \in Seq(Subscriptions) /\ Len(q) \in Nat /\ Distinct(q)
  BY DEF Lists
<1>2. \A i \in m .. n : q[i] \in Subscriptions
  BY <1>1
<1>3. /\ SubSeq(q, m, n) \in Seq(Subscriptions)
      /\ Len(SubSeq(q, m, n)) = IF m <= n THEN n - m + 1 ELSE 0
      /\ \A i \in 1 .. n - m + 1 : SubSeq(q, m, n)[i] = q[m + i - 1]
  BY <1>2, SubSeqProperties
<1> DEFINE r == SubSeq(q, m, n)
<1> HIDE DEF r
<1>4. ASSUME NEW i \in 1 .. Len(r), NEW j \in 1 .. Len(r), r[i] = r[j]
      PROVE  i = j
  <2>1. m <= n /\ i \in 1 .. n - m + 1 /\ j \in 1 .. n - m + 1
    BY <1>3, <1>4 DEF r
  <2>2. q[m + i - 1] = q[m + j - 1]
    BY <1>3, <1>4, <2>1 DEF r
  <2>3. m + i - 1 \in 1 .. Len(q) /\ m + j - 1 \in 1 .. Len(q)
    BY <1>1, <2>1
  <2> QED
    BY <1>1, <2>1, <2>2, <2>3 DEF Distinct
<1> QED
  BY <1>3, <1>4 DEF Lists, Distinct, r

LEMMA ListWithout ==
    ASSUME NEW q \in Lists, NEW s
    PROVE  Without(q, s) \in Lists
<1>0. q \in Seq(Subscriptions) /\ Len(q) \in Nat /\ Distinct(q)
  BY DEF Lists
<1>1. CASE s \notin Listed(q)
  BY <1>1 DEF Without
<1>2. CASE s \in Listed(q)
  <2> DEFINE i == CHOOSE i \in 1 .. Len(q) : q[i] = s
  <2>1. i \in 1 .. Len(q)
    BY <1>2 DEF Listed
  <2>2. Without(q, s) = SubSeq(q, 1, i - 1) \o SubSeq(q, i + 1, Len(q))
    BY <1>2 DEF Without
  <2> HIDE DEF i
  <2> DEFINE a == SubSeq(q, 1, i - 1)
             b == SubSeq(q, i + 1, Len(q))
             r == a \o b
  <2>3. /\ a \in Seq(Subscriptions) /\ Len(a) = i - 1
        /\ \A k \in 1 .. i - 1 : a[k] = q[k]
    BY <1>0, <2>1, SubSeqProperties
  <2>4. /\ b \in Seq(Subscriptions) /\ Len(b) = Len(q) - i
        /\ \A k \in 1 .. Len(q) - i : b[k] = q[i + k]
    BY <1>0, <2>1, SubSeqProperties
  <2> HIDE DEF a, b
  <2>5. /\ r \in Seq(Subscriptions) /\ Len(r) = Len(q) - 1
        /\ \A k \in 1 .. Len(q) - 1 : r[k] = IF k <= i - 1 THEN a[k] ELSE b[k - (i - 1)]
    <3>1. /\ r \in Seq(Subscriptions) /\ Len(r) = Len(a) + Len(b)
          /\ \A k \in 1 .. Len(a) + Len(b) : r[k] = IF k <= Len(a) THEN a[k] ELSE b[k - Len(a)]
      BY <2>3, <2>4, ConcatProperties
    <3>2. Len(a) + Len(b) = Len(q) - 1
      BY <1>0, <2>1, <2>3, <2>4
    <3> QED
      BY <2>3, <3>1, <3>2
  <2> HIDE DEF r
  <2>6. \A k \in 1 .. Len(q) - 1 : r[k] = q[IF k < i THEN k ELSE k + 1]
    <3> TAKE k \in 1 .. Len(q) - 1
    <3>1. CASE k < i
      BY <1>0, <2>1, <2>3, <2>5, <3>1
    <3>2. CASE k >= i
      <4>1. k - (i - 1) \in 1 .. Len(q) - i /\ i + (k - (i - 1)) = k + 1
        BY <1>0, <2>1, <3>2
      <4>2. b[k - (i - 1)] = q[k + 1]
        BY <2>4, <4>1
      <4>3. ~(k <= i - 1) /\ ~(k < i)
        BY <2>1, <3>2
      <4> QED
        BY <2>5, <4>2, <4>3
    <3> QED
      BY <2>1, <3>1, <3>2
  <2>7. Distinct(r)
    <3> DEFINE at(k) == IF k < i THEN k ELSE k + 1
    <3>1. ASSUME NEW k \in 1 .. Len(r) PROVE at(k) \in 1 .. Len(q) /\ r[k] = q[at(k)]
      BY <1>0, <2>1, <2>5, <2>6
    <3>2. ASSUME NEW k \in 1 .. Len(r), NEW l \in 1 .. Len(r), at(k) = at(l)
          PROVE  k = l
      BY <2>1, <2>5, <3>2
    <3> HIDE DEF at
    <3>3. ASSUME NEW k \in 1 .. Len(r), NEW l \in 1 .. Len(r), r[k] = r[l]
          PROVE  k = l
      <4>1. at(k) = at(l)
        BY <1>0, <3>1, <3>3 DEF Distinct
      <4> QED
        BY <3>2, <4>1
    <3> QED
      BY <3>3 DEF Distinct
  <2> QED
    BY <2>2, <2>5, <2>7 DEF Lists, r, a, b
<1> QED
  BY <1>1, <1>2
-----------------------------------------------------------------------------
(* The invariant.  Types are TypeOK's but for the bounds that the books imply.  *)
Places == {"select", "begin", "idle", "query", "next", "charge", "update",
           "read", "settle", "ended", "gone"}
Results == [size : Nat, successful : Nat, failed : Nat, unread : Nat, paid : Nat]

Types ==
    /\ due \in Lists
    /\ main \in {"up", "signalled", "stopping", "draining", "exited", "killed"}
    /\ reading \in BOOLEAN
    /\ pc \in [Workers -> Places]
    /\ todo \in [Workers -> Lists]
    /\ verdict \in [Workers -> BOOLEAN]
    /\ spent \in [Workers -> 0 .. Patience]
    /\ result \in [Workers -> Results]
    /\ left \subseteq Subscriptions
    /\ faults \in 0 .. MaxFaults

(* The members of a batch that are still to be charged.                       *)
Charged(w) == pc[w] \in {"update", "read"}
From(q, k) == {q[i] : i \in k .. Len(q)}
Ahead(w) == From(todo[w], IF Charged(w) THEN 2 ELSE 1)

Position(w) ==
    /\ pc[w] \in {"charge", "update", "read"} => todo[w] # <<>>
    /\ verdict[w] => Charged(w)
    /\ pc[w] \notin {"next", "charge", "update", "read"} => spent[w] = 0

(* A success that is not counted yet is the verdict at hand.                  *)
Pending(w) == IF verdict[w] THEN 1 ELSE 0

Account(w) ==
    LET r == result[w]
    IN  /\ r.size <= BatchSize
        /\ r.successful + r.failed + r.unread + Len(todo[w]) = r.size
        /\ r.successful + Pending(w) <= r.paid
        /\ r.paid + Len(todo[w]) <= r.size + (IF Charged(w) THEN 1 ELSE 0)
        /\ faults = 0 /\ ~Expired(w) => r.paid = r.successful + Pending(w)

(* Without faults the time of a batch goes to slow subscriptions alone, and to *)
(* each of them once.                                                       *)
Strain(w) ==
    faults = 0 => spent[w] + Cardinality(Ahead(w) \cap Slow) <= Cardinality(Slow)

Books(w) == Position(w) /\ Account(w) /\ Strain(w)

(* Once Stop has returned the loop is over.                                  *)
LoopInv == main \in {"draining", "exited"} => pc[Loop] \in {"ended", "gone"}

IInv ==
    /\ Types
    /\ \A w \in Workers : Books(w)
    /\ LoopInv /\ LeftoverNeedsFault

LEMMA SlowAreFew == IsFiniteSet(Slow) /\ Cardinality(Slow) \in Nat
BY MitSchedulerAssumption, FS_Subset, FS_CardinalityType

(* Who is not at a step keeps books: a fault elsewhere only excuses more.      *)
Untouched(v) ==
    /\ pc'[v] = pc[v] /\ todo'[v] = todo[v] /\ verdict'[v] = verdict[v]
    /\ spent'[v] = spent[v] /\ result'[v] = result[v]

Later == faults' = faults \/ faults' = faults + 1

LEMMA UntouchedBooks ==
    ASSUME Types, NEW v \in Workers, Books(v), Untouched(v), Later
    PROVE  Books(v)'
<1>1. faults' = 0 => faults = 0
  BY DEF Later, Types
<1>2. Position(v)'
  BY DEF Books, Position, Untouched, Charged
<1>3. Account(v)'
  BY <1>1 DEF Books, Account, Untouched, Charged, Pending, Expired
<1>4. Strain(v)'
  <2>1. Ahead(v)' = Ahead(v)
    BY DEF Ahead, Charged, Untouched
  <2> QED
    BY <1>1, <2>1 DEF Books, Strain, Untouched
<1> QED
  BY <1>2, <1>3, <1>4 DEF Books

LEMMA EmptyList == <<>> \in Lists /\ Len(<<>>) = 0
BY EmptySeq DEF Lists, Distinct

LEMMA RestOfList ==
    ASSUME NEW q \in Lists, q # <<>>
    PROVE  /\ Head(q) \in Subscriptions /\ Tail(q) \in Lists
           /\ Len(q) \in Nat \ {0} /\ Len(Tail(q)) = Len(q) - 1
           /\ \A i \in 1 .. Len(q) - 1 : Tail(q)[i] = q[i + 1]
           /\ Head(q) = q[1]
<1>1. q \in Seq(Subscriptions)
  BY DEF Lists
<1>2. /\ Head(q) \in Subscriptions /\ Len(Tail(q)) = Len(q) - 1
      /\ \A i \in 1 .. Len(Tail(q)) : Tail(q)[i] = q[i + 1]
  BY <1>1, HeadTailProperties
<1>3. Len(q) \in Nat \ {0}
  BY <1>1, EmptySeq
<1>4. Tail(q) = SubSeq(q, 2, Len(q))
  BY <1>1, TailIsSubSeq
<1>5. Tail(q) \in Lists
  <2>1. 2 \in Int /\ Len(q) \in Int /\ 2 >= 1 /\ Len(q) <= Len(q)
    BY <1>3
  <2>2. SubSeq(q, 2, Len(q)) \in Lists
    BY <2>1, PartOfList
  <2> QED
    BY <1>4, <2>2
<1> QED
  BY <1>1, <1>2, <1>3, <1>5

LEMMA IInvInit == Init => IInv
<1> SUFFICES ASSUME Init PROVE IInv
  OBVIOUS
<1>1. Types
  <2>1. pc \in [Workers -> Places] /\ main = "up" /\ reading = FALSE /\ left = {}
    BY DEF Init, Places
  <2>2. due \in Lists /\ todo \in [Workers -> Lists] /\ verdict \in [Workers -> BOOLEAN]
    BY EmptyList DEF Init
  <2>3. spent \in [Workers -> 0 .. Patience] /\ faults \in 0 .. MaxFaults
    BY MitSchedulerAssumption DEF Init
  <2>4. result \in [Workers -> Results]
    BY DEF Init, Results, NoResult
  <2> QED
    BY <2>1, <2>2, <2>3, <2>4 DEF Types
<1>2. ASSUME NEW w \in Workers PROVE Books(w)
  <2>1. Position(w) /\ Account(w)
    BY EmptyList, MitSchedulerAssumption
       DEF Init, Position, Account, Pending, Charged, NoResult
  <2>2. Ahead(w) = {}
    BY EmptyList DEF Init, Ahead, From, Charged
  <2>3. Strain(w)
    BY <2>2, SlowAreFew, FS_EmptySet DEF Init, Strain
  <2> QED
    BY <2>1, <2>3 DEF Books
<1>3. LoopInv /\ LeftoverNeedsFault
  BY DEF Init, LoopInv, LeftoverNeedsFault
<1> QED
  BY <1>1, <1>2, <1>3 DEF IInv
-----------------------------------------------------------------------------
(* The steps.                                                               *)
LEMMA FromTail ==
    ASSUME NEW q \in Lists, q # <<>>
    PROVE  /\ From(Tail(q), 1) = From(q, 2)
           /\ From(q, 1) = From(q, 2) \cup {Head(q)} /\ Head(q) \notin From(q, 2)
<1>1. /\ Len(q) \in Nat \ {0} /\ Len(Tail(q)) = Len(q) - 1 /\ Head(q) = q[1] /\ Distinct(q)
      /\ \A i \in 1 .. Len(q) - 1 : Tail(q)[i] = q[i + 1]
  BY RestOfList DEF Lists
<1>2. From(Tail(q), 1) \subseteq From(q, 2)
  BY <1>1 DEF From
<1>3. ASSUME NEW x \in From(q, 2) PROVE x \in From(Tail(q), 1)
  <2>1. PICK i \in 2 .. Len(q) : x = q[i]
    BY DEF From
  <2>2. i - 1 \in 1 .. Len(Tail(q)) /\ Tail(q)[i - 1] = x
    BY <1>1, <2>1
  <2> QED
    BY <2>2 DEF From
<1>4. From(q, 1) = From(q, 2) \cup {Head(q)}
  <2>1. 1 .. Len(q) = {1} \cup 2 .. Len(q)
    BY <1>1
  <2> QED
    BY <1>1, <2>1 DEF From
<1>5. Head(q) \notin From(q, 2)
  BY <1>1 DEF From, Distinct
<1> QED
  BY <1>2, <1>3, <1>4, <1>5

LEMMA FewerSlow ==
    ASSUME NEW A, NEW B, A \subseteq B
    PROVE  /\ Cardinality(A \cap Slow) \in Nat /\ Cardinality(B \cap Slow) \in Nat
           /\ Cardinality(A \cap Slow) <= Cardinality(B \cap Slow)
           /\ Cardinality(B \cap Slow) <= Cardinality(Slow)
<1>1. A \cap Slow \subseteq B \cap Slow /\ B \cap Slow \subseteq Slow
  OBVIOUS
<1>2. IsFiniteSet(B \cap Slow) /\ IsFiniteSet(A \cap Slow)
  BY <1>1, SlowAreFew, FS_Subset
<1> QED
  BY <1>1, <1>2, SlowAreFew, FS_Subset, FS_CardinalityType

LEMMA OneSlowLess ==
    ASSUME NEW A, NEW s \in Slow, s \notin A
    PROVE  /\ Cardinality(A \cap Slow) \in Nat
           /\ Cardinality((A \cup {s}) \cap Slow) = Cardinality(A \cap Slow) + 1
<1>1. (A \cup {s}) \cap Slow = (A \cap Slow) \cup {s} /\ s \notin A \cap Slow
  OBVIOUS
<1>2. IsFiniteSet(A \cap Slow)
  BY SlowAreFew, FS_Subset
<1> QED
  BY <1>1, <1>2, FS_AddElement, FS_CardinalityType

(* A step of one worker.                                                    *)
Over(w) == pc[w] \in {"ended", "gone"}

LEMMA WorkerStep ==
    ASSUME IInv, NEW w \in Workers, ~Over(w), Types', Books(w)', Later, UNCHANGED main,
           \A v \in Workers \ {w} : Untouched(v), LeftoverNeedsFault'
    PROVE  IInv'
<1>1. ASSUME NEW v \in Workers PROVE Books(v)'
  <2>1. CASE v = w
    BY <2>1
  <2>2. CASE v # w
    BY <2>2, UntouchedBooks DEF IInv
  <2> QED
    BY <2>1, <2>2
<1>2. LoopInv'
  <2>1. Loop \in Workers
    BY DEF Workers
  <2> QED
    BY <2>1 DEF IInv, LoopInv, Over, Untouched
<1> QED
  BY <1>1, <1>2 DEF IInv

LEMMA LeftAsBefore ==
    ASSUME IInv, Later, UNCHANGED <<main, left>>
    PROVE  LeftoverNeedsFault'
BY DEF IInv, Later, LeftoverNeedsFault, Types

LEMMA FailLater ==
    ASSUME IInv, NEW w \in Workers
    PROVE  /\ Ok(w) => ~Expired(w) /\ faults' = faults
           /\ Fails(w) => \/ Expired(w) /\ faults' = faults
                          \/ ~Expired(w) /\ faults' = faults + 1
           /\ Ok(w) \/ Fails(w) => Later /\ faults' \in 0 .. MaxFaults
           /\ Fault => Later /\ faults' = faults + 1 /\ faults' \in 0 .. MaxFaults
BY MitSchedulerAssumption DEF Ok, Fails, Fault, Later, IInv, Types

Active == {"next", "charge", "update", "read"}

(* Steps outside of a batch.                                                *)
LEMMA MoveStep ==
    ASSUME IInv, NEW w \in Workers, NEW p \in Places, ~Over(w),
           pc[w] \notin Active, p \notin Active, Moved(w, p),
           UNCHANGED <<due, main, reading, batchVars, left, faults>>
    PROVE  IInv'
<1>1. Types /\ Books(w)
  BY DEF IInv
<1>2. Types'
  BY <1>1 DEF Types, Moved, batchVars
<1>3. pc'[w] = p
  BY <1>1 DEF Types, Moved
<1>4. Books(w)'
  <2>1. Ahead(w)' = Ahead(w)
    BY <1>3 DEF Ahead, Charged, Active, batchVars
  <2> QED
    BY <1>1, <1>3, <2>1 DEF Books, Position, Account, Strain, Charged, Pending, Expired, Active, batchVars
<1>5. Later /\ \A v \in Workers \ {w} : Untouched(v)
  BY <1>1 DEF Types, Moved, Untouched, Later, batchVars
<1> QED
  BY <1>2, <1>4, <1>5, WorkerStep, LeftAsBefore

LEMMA QueryStep ==
    ASSUME IInv, NEW w \in Workers, Query(w)
    PROVE  IInv'
<1>1. Types /\ Books(w) /\ pc[w] = "query"
  BY DEF IInv, Query
<1>2. Selected \in Lists /\ Len(Selected) \in Nat /\ Len(Selected) <= BatchSize
  <2>1. due \in Lists /\ due \in Seq(Subscriptions) /\ Len(due) \in Nat
    BY <1>1 DEF Types, Lists
  <2> DEFINE n == IF Len(due) > BatchSize THEN BatchSize ELSE Len(due)
  <2>2. n \in Nat /\ n <= Len(due) /\ n <= BatchSize
    BY <2>1, MitSchedulerAssumption
  <2>3. Selected = SubSeq(due, 1, n)
    BY DEF Selected
  <2> HIDE DEF n
  <2>4. Selected \in Lists
    BY <2>1, <2>2, <2>3, PartOfList
  <2>5. \A i \in 1 .. n : due[i] \in Subscriptions
    BY <2>1, <2>2
  <2>6. Len(Selected) = IF 1 <= n THEN n - 1 + 1 ELSE 0
    BY <2>2, <2>3, <2>5, SubSeqProperties
  <2> QED
    BY <2>2, <2>4, <2>6
<1>3. PICK b \in Lists :
        /\ Len(b) \in Nat /\ Len(b) <= BatchSize
        /\ UNCHANGED faults \/ Fault
        /\ todo' = [todo EXCEPT ![w] = b]
        /\ result' = [result EXCEPT ![w] = [NoResult EXCEPT !.size = Len(b)]]
        /\ Moved(w, IF b # <<>> THEN "next" ELSE IF w = Loop THEN "settle" ELSE "idle")
  <2>1. <<>> \in Lists /\ Len(<<>>) \in Nat /\ Len(<<>>) <= BatchSize
    BY EmptyList, MitSchedulerAssumption
  <2> QED
    BY <1>2, <2>1 DEF Query
<1>4. Later /\ faults' \in 0 .. MaxFaults /\ (faults' = 0 => faults = 0)
  BY <1>1, <1>3, FailLater DEF Later, Types
<1>5. PICK p \in {"next", "settle", "idle"} : pc' = [pc EXCEPT ![w] = p] /\ (b = <<>> => p # "next")
  BY <1>3 DEF Moved
<1>6. [NoResult EXCEPT !.size = Len(b)] =
        [size |-> Len(b), successful |-> 0, failed |-> 0, unread |-> 0, paid |-> 0]
  BY DEF NoResult
<1>7. Types'
  BY <1>1, <1>3, <1>4, <1>5, <1>6, SMTT(30) DEF Types, Query, Places, Results
<1>8. /\ pc'[w] = p /\ todo'[w] = b /\ verdict'[w] = verdict[w] /\ spent'[w] = spent[w]
      /\ result'[w] = [size |-> Len(b), successful |-> 0, failed |-> 0, unread |-> 0, paid |-> 0]
  BY <1>1, <1>3, <1>5, <1>6 DEF Types, Query
<1>9. ~verdict[w] /\ spent[w] = 0
  BY <1>1 DEF Books, Position, Charged
<1>10. Position(w)' /\ Account(w)'
  BY <1>3, <1>8, <1>9 DEF Position, Account, Charged, Pending
<1>11. Strain(w)'
  <2>1. Cardinality(Ahead(w)' \cap Slow) <= Cardinality(Slow) /\ Cardinality(Ahead(w)' \cap Slow) \in Nat
    BY FewerSlow
  <2>2. spent'[w] = 0
    BY <1>8, <1>9
  <2> QED
    BY <2>1, <2>2 DEF Strain
<1>12. \A v \in Workers \ {w} : Untouched(v)
  BY <1>1, <1>3, <1>5 DEF Types, Untouched, Query
<1> QED
  BY <1>1, <1>4, <1>7, <1>10, <1>11, <1>12, WorkerStep, LeftAsBefore DEF Books, Query, Over

LEMMA StrainKept ==
    ASSUME IInv, NEW w \in Workers, faults' = 0 => faults = 0,
           Ahead(w)' \subseteq Ahead(w), spent'[w] = spent[w]
    PROVE  Strain(w)'
<1>1. /\ Cardinality(Ahead(w)' \cap Slow) <= Cardinality(Ahead(w) \cap Slow)
      /\ Cardinality(Ahead(w)' \cap Slow) \in Nat /\ Cardinality(Ahead(w) \cap Slow) \in Nat
  BY FewerSlow
<1>2. Strain(w) /\ spent[w] \in Nat
  BY MitSchedulerAssumption DEF IInv, Books, Types
<1> QED
  BY <1>1, <1>2, SlowAreFew DEF Strain

(* One more is counted, and the batch goes on with the rest.                  *)
Counts == {"successful", "failed", "unread"}

LEMMA CountedOne ==
    ASSUME NEW w \in Workers, result \in [Workers -> Results], NEW field \in Counts, Counted(w, field)
    PROVE  /\ result' \in [Workers -> Results]
           /\ \A v \in Workers \ {w} : result'[v] = result[v]
           /\ result'[w].size = result[w].size /\ result'[w].paid = result[w].paid
           /\ result'[w].successful = result[w].successful + (IF field = "successful" THEN 1 ELSE 0)
           /\ result'[w].failed = result[w].failed + (IF field = "failed" THEN 1 ELSE 0)
           /\ result'[w].unread = result[w].unread + (IF field = "unread" THEN 1 ELSE 0)
<1>1. CASE field = "successful"
  BY <1>1 DEF Counted, Results
<1>2. CASE field = "failed"
  BY <1>2 DEF Counted, Results
<1>3. CASE field = "unread"
  BY <1>3 DEF Counted, Results
<1> QED
  BY <1>1, <1>2, <1>3 DEF Counts

LEMMA RestDequeued ==
    ASSUME Types, NEW w \in Workers, todo[w] # <<>>, Dequeued(w)
    PROVE  /\ todo' \in [Workers -> Lists] /\ todo'[w] = Tail(todo[w])
           /\ Len(todo[w]) \in Nat /\ Len(todo'[w]) = Len(todo[w]) - 1
           /\ \A v \in Workers \ {w} : todo'[v] = todo[v]
           /\ From(todo'[w], 1) = From(todo[w], 2) /\ From(todo'[w], 1) \subseteq From(todo[w], 1)
<1>1. todo \in [Workers -> Lists] /\ todo[w] \in Lists
  BY DEF Types
<1>2. /\ Tail(todo[w]) \in Lists /\ Len(todo[w]) \in Nat /\ Len(Tail(todo[w])) = Len(todo[w]) - 1
  BY <1>1, RestOfList
<1>3. todo' = [todo EXCEPT ![w] = Tail(todo[w])]
  BY DEF Dequeued, Rest
<1> QED
  BY <1>1, <1>2, <1>3, FromTail

(* What a worker's books are about, as numbers.                              *)
LEMMA BooksAreNumbers ==
    ASSUME Types, NEW w \in Workers
    PROVE  /\ result[w].size \in Nat /\ result[w].successful \in Nat /\ result[w].failed \in Nat
           /\ result[w].unread \in Nat /\ result[w].paid \in Nat
           /\ todo[w] \in Lists /\ Len(todo[w]) \in Nat
           /\ spent[w] \in 0 .. Patience /\ verdict[w] \in BOOLEAN
BY DEF Types, Results, Lists

(* Whoever leaves the batch is counted once, a success only if it was charged.  *)
LEMMA CountedBooks ==
    ASSUME Types, NEW w \in Workers, todo[w] # <<>>, Account(w),
           NEW field \in Counts, Counted(w, field), Dequeued(w),
           ~verdict'[w], ~Charged(w)', spent'[w] = spent[w], faults' = 0 => faults = 0,
           field = "successful" => verdict[w],
           faults' = 0 /\ ~Expired(w) /\ verdict[w] => field = "successful"
    PROVE  Account(w)'
<1> DEFINE a == result[w].successful  f == result[w].failed  u == result[w].unread
           p == result[w].paid  n == Len(todo[w])  m == result[w].size
           k == Pending(w)  c == IF Charged(w) THEN 1 ELSE 0
           da == IF field = "successful" THEN 1 ELSE 0
           df == IF field = "failed" THEN 1 ELSE 0
           du == IF field = "unread" THEN 1 ELSE 0
<1>1. a \in Nat /\ f \in Nat /\ u \in Nat /\ p \in Nat /\ n \in Nat /\ m \in Nat
  BY BooksAreNumbers
<1>2. /\ result'[w].size = m /\ result'[w].paid = p /\ result'[w].successful = a + da
      /\ result'[w].failed = f + df /\ result'[w].unread = u + du
  BY CountedOne DEF Types
<1>3. Len(todo'[w]) = n - 1
  BY RestDequeued
<1>4. da \in {0, 1} /\ df \in {0, 1} /\ du \in {0, 1} /\ da + df + du = 1
  BY DEF Counts
<1>5. k \in {0, 1} /\ c \in {0, 1} /\ da <= k
  BY DEF Pending
<1>6. m <= BatchSize /\ a + f + u + n = m /\ a + k <= p /\ p + n <= m + c
  BY DEF Account
<1>7. faults' = 0 /\ ~Expired(w) => p = a + k /\ k = da
  BY DEF Account, Pending
<1>8. Pending(w)' = 0 /\ (Expired(w)' <=> Expired(w))
  BY DEF Pending, Expired
<1> HIDE DEF a, f, u, p, n, m, k, c, da, df, du
<1>9. (a + da) + (f + df) + (u + du) + (n - 1) = m /\ (a + da) + 0 <= p /\ p + (n - 1) <= m + 0
  <2>1. da \in Nat /\ df \in Nat /\ du \in Nat /\ k \in Nat /\ c \in Nat /\ c <= 1
    BY <1>4, <1>5
  <2>2. (a + da) + (f + df) + (u + du) + (n - 1) = (a + f + u + n) + (da + df + du) - 1
    BY <1>1, <2>1
  <2>3. (a + da) + (f + df) + (u + du) + (n - 1) = m
    BY <1>1, <1>4, <1>6, <2>2
  <2>4. (a + da) + 0 <= p
    BY <1>1, <1>5, <1>6, <2>1
  <2>5. p + (n - 1) <= m + 0
    BY <1>1, <1>6, <2>1
  <2> QED
    BY <2>3, <2>4, <2>5
<1>10. faults' = 0 /\ ~Expired(w) => p = (a + da) + 0
  BY <1>1, <1>4, <1>7
<1>11. /\ result'[w].size <= BatchSize
       /\ result'[w].successful + result'[w].failed + result'[w].unread + Len(todo'[w]) = result'[w].size
       /\ result'[w].successful + 0 <= result'[w].paid
       /\ result'[w].paid + Len(todo'[w]) <= result'[w].size + 0
       /\ faults' = 0 /\ ~Expired(w) => result'[w].paid = result'[w].successful + 0
  BY <1>2, <1>3, <1>6, <1>9, <1>10
<1> QED
  BY <1>8, <1>11 DEF Account

LEMMA CreateJobStep ==
    ASSUME IInv, NEW w \in Workers, CreateJob(w)
    PROVE  IInv'
<1>1. Types /\ Books(w) /\ pc[w] = "next" /\ todo[w] # <<>> /\ ~verdict[w]
  BY DEF IInv, CreateJob, Books, Position, Charged
<1>n. result[w].size \in Nat /\ result[w].successful \in Nat /\ result[w].failed \in Nat
      /\ result[w].unread \in Nat /\ result[w].paid \in Nat
  BY <1>1, BooksAreNumbers
<1>2. Later /\ faults' \in 0 .. MaxFaults /\ (faults' = 0 => faults = 0)
  BY <1>1, FailLater DEF CreateJob, Later, Types
<1>3. CASE Ok(w) /\ Moved(w, "charge") /\ UNCHANGED <<todo, result>>
  <2>0. UNCHANGED <<due, main, reading, todo, verdict, spent, result, left>>
    BY <1>3 DEF CreateJob
  <2>1. pc' = [pc EXCEPT ![w] = "charge"] /\ pc'[w] = "charge"
    BY <1>1, <1>3 DEF Moved, Types
  <2>2. Types' /\ \A v \in Workers \ {w} : Untouched(v)
    BY <1>1, <1>2, <2>0, <2>1 DEF Types, Places, Untouched
  <2>3. Ahead(w)' = Ahead(w)
    BY <1>1, <2>0, <2>1 DEF Ahead, Charged
  <2>4. Position(w)' /\ Account(w)'
    BY <1>1, <1>2, <2>0, <2>1 DEF Books, Position, Account, Charged, Pending, Expired
  <2>5. Strain(w)'
    BY <1>2, <2>0, <2>3, StrainKept
  <2> QED
    BY <1>1, <1>2, <2>0, <2>2, <2>4, <2>5, WorkerStep, LeftAsBefore DEF Books, Over
<1>4. CASE Fails(w) /\ Dequeued(w) /\ Counted(w, "failed") /\ UNCHANGED pc
  <2>0. UNCHANGED <<due, main, reading, pc, verdict, spent, left>>
    BY <1>4 DEF CreateJob
  <2>1. /\ result' \in [Workers -> Results] /\ \A v \in Workers \ {w} : result'[v] = result[v]
        /\ result'[w].size = result[w].size /\ result'[w].paid = result[w].paid
        /\ result'[w].successful = result[w].successful + 0
        /\ result'[w].failed = result[w].failed + 1
        /\ result'[w].unread = result[w].unread + 0
    BY <1>1, <1>4, CountedOne DEF Counts, Types
  <2>2. /\ todo' \in [Workers -> Lists] /\ \A v \in Workers \ {w} : todo'[v] = todo[v]
        /\ Len(todo[w]) \in Nat /\ Len(todo'[w]) = Len(todo[w]) - 1
        /\ From(todo'[w], 1) \subseteq From(todo[w], 1)
    BY <1>1, <1>4, RestDequeued
  <2>3. Types' /\ \A v \in Workers \ {w} : Untouched(v)
    BY <1>1, <1>2, <2>0, <2>1, <2>2 DEF Types, Untouched
  <2>4. Position(w)'
    BY <1>1, <2>0 DEF Books, Position, Charged
  <2>5. Account(w)'
    <3>1. ~verdict'[w] /\ ~Charged(w)' /\ spent'[w] = spent[w]
      BY <1>1, <2>0 DEF Charged
    <3> QED
      BY <1>1, <1>2, <1>4, <3>1, CountedBooks DEF Books, Counts
  <2>6. Strain(w)'
    BY <1>1, <1>2, <2>0, <2>2, StrainKept DEF Ahead, Charged
  <2> QED
    BY <1>1, <1>2, <2>0, <2>3, <2>4, <2>5, <2>6, WorkerStep, LeftAsBefore DEF Books, Over
<1> QED
  BY <1>3, <1>4 DEF CreateJob

LEMMA ExecuteChargeStep ==
    ASSUME IInv, NEW w \in Workers, ExecuteCharge(w)
    PROVE  IInv'
<1> DEFINE s == Head(todo[w])
<1>1. Types /\ Books(w) /\ pc[w] = "charge" /\ todo[w] # <<>> /\ ~verdict[w]
  BY DEF IInv, ExecuteCharge, Books, Position, Charged
<1>n. /\ result[w].size \in Nat /\ result[w].successful \in Nat /\ result[w].failed \in Nat
      /\ result[w].unread \in Nat /\ result[w].paid \in Nat
      /\ Len(todo[w]) \in Nat /\ spent[w] \in 0 .. Patience
  BY <1>1, BooksAreNumbers
<1>a. /\ result[w].size <= BatchSize
      /\ result[w].successful + result[w].failed + result[w].unread + Len(todo[w]) = result[w].size
      /\ result[w].successful + 0 <= result[w].paid
      /\ result[w].paid + Len(todo[w]) <= result[w].size + 0
      /\ faults = 0 /\ ~Expired(w) => result[w].paid = result[w].successful + 0
  BY <1>1 DEF Books, Account, Charged, Pending
<1>2. UNCHANGED <<main, reading, todo, left>> /\ pc' = [pc EXCEPT ![w] = "update"] /\ pc'[w] = "update"
  BY <1>1 DEF ExecuteCharge, Moved, Types
<1>3. Ahead(w) = From(todo[w], 1) /\ Ahead(w)' = From(todo[w], 2)
  BY <1>1, <1>2 DEF Ahead, Charged
<1>4. Ahead(w) = Ahead(w)' \cup {s} /\ s \notin Ahead(w)'
  BY <1>1, <1>3, FromTail DEF Types
<1>5. \A x : Without(due, x) \in Lists
  BY <1>1, ListWithout DEF Types
<1>6. CASE Answered(w)
  <2>1. PICK v \in BOOLEAN :
          /\ verdict' = [verdict EXCEPT ![w] = v]
          /\ result' = [result EXCEPT ![w].paid = IF v THEN @ + 1 ELSE @]
    BY <1>6 DEF Answered
  <2>2. UNCHANGED <<spent, faults>> /\ due' \in Lists
    BY <1>5, <1>6 DEF Answered
  <2>3. /\ verdict'[w] = v /\ result' \in [Workers -> Results]
        /\ result'[w].size = result[w].size /\ result'[w].successful = result[w].successful
        /\ result'[w].failed = result[w].failed /\ result'[w].unread = result[w].unread
        /\ result'[w].paid = result[w].paid + (IF v THEN 1 ELSE 0)
        /\ \A u \in Workers \ {w} : result'[u] = result[u]
    <3>1. verdict'[w] = v /\ result \in [Workers -> Results]
      BY <1>1, <2>1 DEF Types
    <3>2. CASE v = TRUE
      <4>1. result' = [result EXCEPT ![w].paid = @ + 1]
        BY <2>1, <3>2
      <4> QED
        BY <3>1, <3>2, <4>1 DEF Results
    <3>3. CASE v = FALSE
      <4>1. result' = [result EXCEPT ![w].paid = @]
        BY <2>1, <3>3
      <4>2. result' = result
        BY <3>1, <4>1 DEF Results
      <4> QED
        BY <1>n, <3>1, <3>3, <4>2
    <3> QED
      BY <3>2, <3>3
  <2>4. Types' /\ \A u \in Workers \ {w} : Untouched(u)
    BY <1>1, <1>2, <2>1, <2>2, <2>3 DEF Types, Places, Untouched
  <2>5. Position(w)'
    BY <1>1, <1>2 DEF Books, Position, Charged
  <2>6. Account(w)'
    <3>1. /\ (verdict'[w] <=> v) /\ Charged(w)' /\ (Expired(w)' <=> Expired(w))
      BY <1>2, <2>2, <2>3 DEF Charged, Expired
    <3>2. /\ result'[w].size <= BatchSize
          /\ result'[w].successful + result'[w].failed + result'[w].unread + Len(todo[w]) = result'[w].size
          /\ result'[w].successful + (IF v THEN 1 ELSE 0) <= result'[w].paid
          /\ result'[w].paid + Len(todo[w]) <= result'[w].size + 1
          /\ faults = 0 /\ ~Expired(w) => result'[w].paid = result'[w].successful + (IF v THEN 1 ELSE 0)
      <4> DEFINE n == IF v THEN 1 ELSE 0
      <4>0. n \in {0, 1}
        OBVIOUS
      <4>1. /\ result'[w].size = result[w].size /\ result'[w].paid = result[w].paid + n
            /\ result'[w].successful = result[w].successful
            /\ result'[w].failed = result[w].failed
            /\ result'[w].unread = result[w].unread
        BY <2>3
      <4> HIDE DEF n
      <4>2. result'[w].successful + result'[w].failed + result'[w].unread + Len(todo[w]) = result'[w].size
        BY <1>a, <4>1
      <4>3. result'[w].size <= BatchSize /\ result'[w].successful + n <= result'[w].paid
        BY <1>a, <1>n, <4>0, <4>1, MitSchedulerAssumption
      <4>4. result'[w].paid + Len(todo[w]) <= result'[w].size + 1
        BY <1>a, <1>n, <4>0, <4>1, SMTT(30)
      <4>5. faults = 0 /\ ~Expired(w) => result'[w].paid = result'[w].successful + n
        BY <1>a, <1>n, <4>0, <4>1
      <4> QED
        BY <4>2, <4>3, <4>4, <4>5 DEF n
    <3> QED
      BY <1>2, <2>2, <3>1, <3>2 DEF Account, Pending
  <2>7. Strain(w)'
    BY <1>4, <2>2, StrainKept
  <2> QED
    BY <1>1, <1>2, <2>2, <2>4, <2>5, <2>6, <2>7, WorkerStep, LeftAsBefore DEF Books, Over, Later
<1>7. CASE TimedOut(w)
  <2>1. /\ ~Expired(w) /\ due' \in Lists /\ verdict' = [verdict EXCEPT ![w] = FALSE]
        /\ spent' = [spent EXCEPT ![w] = @ + 1] /\ UNCHANGED result
        /\ Later /\ faults' \in 0 .. MaxFaults
        /\ s \in Slow \/ faults' = faults + 1
    BY <1>1, <1>5, <1>7, FailLater DEF TimedOut, Types, Later
  <2>2. ~verdict'[w] /\ spent'[w] = spent[w] + 1 /\ spent[w] + 1 \in 0 .. Patience
    BY <1>1, <1>n, <2>1, MitSchedulerAssumption DEF Types, Expired
  <2>3. Types' /\ \A u \in Workers \ {w} : Untouched(u)
    BY <1>1, <1>2, <2>1, <2>2 DEF Types, Places, Untouched
  <2>4. Position(w)'
    BY <1>1, <1>2 DEF Books, Position, Charged
  <2>0. faults' = 0 => faults = 0
    BY <1>1, <2>1 DEF Types, Later
  <2>5. Account(w)'
    BY <1>1, <1>n, <1>2, <2>0, <2>1, <2>2, SMTT(30) DEF Books, Account, Charged, Pending, Expired
  <2>6. Strain(w)'
    <3>1. CASE faults' # 0
      BY <3>1 DEF Strain
    <3>2. CASE faults' = 0
      <4>1. s \in Slow
        BY <1>1, <2>1, <3>2 DEF Types
      <4>2. /\ Cardinality(Ahead(w)' \cap Slow) \in Nat
            /\ Cardinality(Ahead(w) \cap Slow) = Cardinality(Ahead(w)' \cap Slow) + 1
        BY <1>4, <4>1, OneSlowLess
      <4>3. spent[w] + Cardinality(Ahead(w) \cap Slow) <= Cardinality(Slow)
        BY <1>1, <2>0, <3>2 DEF Books, Strain
      <4> QED
        BY <1>n, <2>2, <4>2, <4>3, SlowAreFew DEF Strain
    <3> QED
      BY <3>1, <3>2
  <2> QED
    BY <1>1, <1>2, <2>1, <2>3, <2>4, <2>5, <2>6, WorkerStep, LeftAsBefore DEF Books, Over
<1>8. CASE NotSent(w)
  <2>1. Expired(w) /\ verdict' = [verdict EXCEPT ![w] = FALSE] /\ UNCHANGED <<due, spent, result, faults>>
    BY <1>8 DEF NotSent
  <2>2. ~verdict'[w]
    BY <1>1, <2>1 DEF Types
  <2>3. Types' /\ \A u \in Workers \ {w} : Untouched(u)
    BY <1>1, <1>2, <2>1 DEF Types, Places, Untouched
  <2>4. Position(w)'
    BY <1>1, <1>2 DEF Books, Position, Charged
  <2>5. Account(w)'
    BY <1>1, <1>n, <1>2, <2>1, <2>2 DEF Books, Account, Charged, Pending, Expired
  <2>6. Strain(w)'
    BY <1>4, <2>1, StrainKept
  <2> QED
    BY <1>1, <1>2, <2>1, <2>3, <2>4, <2>5, <2>6, WorkerStep, LeftAsBefore DEF Books, Over, Later
<1> QED
  BY <1>6, <1>7, <1>8 DEF ExecuteCharge

LEMMA UpdateJobStep ==
    ASSUME IInv, NEW w \in Workers, UpdateJob(w)
    PROVE  IInv'
<1>1. Types /\ Books(w) /\ pc[w] = "update" /\ todo[w] # <<>>
  BY DEF IInv, UpdateJob, Books, Position
<1>2. Later /\ faults' \in 0 .. MaxFaults /\ (faults' = 0 => faults = 0)
  BY <1>1, FailLater DEF UpdateJob, Later, Types
<1>3. CASE Ok(w) /\ Moved(w, "read") /\ UNCHANGED <<todo, verdict, result, left>>
  <2>0. UNCHANGED <<due, main, reading, todo, verdict, spent, result, left>>
    BY <1>3 DEF UpdateJob
  <2>1. pc' = [pc EXCEPT ![w] = "read"] /\ pc'[w] = "read"
    BY <1>1, <1>3 DEF Moved, Types
  <2>2. Types' /\ \A v \in Workers \ {w} : Untouched(v)
    BY <1>1, <1>2, <2>0, <2>1 DEF Types, Places, Untouched
  <2>3. Ahead(w)' = Ahead(w)
    BY <1>1, <2>0, <2>1 DEF Ahead, Charged
  <2>4. Position(w)' /\ Account(w)'
    BY <1>1, <1>2, <2>0, <2>1 DEF Books, Position, Account, Charged, Pending, Expired
  <2>5. Strain(w)'
    BY <1>2, <2>0, <2>3, StrainKept
  <2> QED
    BY <1>1, <1>2, <2>0, <2>2, <2>4, <2>5, WorkerStep, LeftAsBefore DEF Books, Over
<1>4. CASE /\ Fails(w) /\ left' = left \cup {Head(todo[w])} /\ Dequeued(w) /\ Counted(w, "failed")
           /\ Moved(w, "next") /\ verdict' = [verdict EXCEPT ![w] = FALSE]
  <2>0. UNCHANGED <<due, main, reading, spent>>
    BY <1>4 DEF UpdateJob
  <2>1. pc' = [pc EXCEPT ![w] = "next"] /\ pc'[w] = "next" /\ ~verdict'[w]
    BY <1>1, <1>4 DEF Moved, Types
  <2>2. /\ result' \in [Workers -> Results] /\ \A v \in Workers \ {w} : result'[v] = result[v]
    BY <1>1, <1>4, CountedOne DEF Counts, Types
  <2>3. /\ todo' \in [Workers -> Lists] /\ \A v \in Workers \ {w} : todo'[v] = todo[v]
        /\ From(todo'[w], 1) = From(todo[w], 2)
    BY <1>1, <1>4, RestDequeued
  <2>4. left' \subseteq Subscriptions
    BY <1>1, <1>4, RestOfList DEF Types
  <2>5. Types' /\ \A v \in Workers \ {w} : Untouched(v)
    BY <1>1, <1>2, <1>4, <2>0, <2>1, <2>2, <2>3, <2>4 DEF Types, Places, Untouched
  <2>6. Position(w)'
    BY <2>1 DEF Position
  <2>7. Account(w)'
    <3>1. ~Charged(w)' /\ spent'[w] = spent[w]
      BY <2>0, <2>1 DEF Charged
    <3>2. faults' = 0 => Expired(w)
      BY <1>1, <1>4, FailLater DEF Types
    <3> QED
      BY <1>1, <1>2, <1>4, <2>1, <3>1, <3>2, CountedBooks DEF Books, Counts
  <2>8. Strain(w)'
    BY <1>1, <1>2, <2>0, <2>1, <2>3, StrainKept DEF Ahead, Charged
  <2>9. LeftoverNeedsFault'
    <3>1. CASE faults' > 0
      BY <3>1 DEF LeftoverNeedsFault
    <3>2. CASE ~(faults' > 0)
      <4>1. faults' = 0 /\ faults = 0 /\ Expired(w)
        BY <1>1, <1>2, <1>4, <3>2, FailLater DEF Types
      <4>2. spent[w] + Cardinality(Ahead(w) \cap Slow) <= Cardinality(Slow)
        BY <1>1, <4>1 DEF Books, Strain
      <4>3. Cardinality(Ahead(w) \cap Slow) \in Nat /\ spent[w] \in 0 .. Patience
        BY <1>1, FewerSlow, BooksAreNumbers
      <4>4. Cardinality(Slow) >= Patience
        BY <4>1, <4>2, <4>3, SlowAreFew, MitSchedulerAssumption DEF Expired
      <4> QED
        BY <4>4 DEF LeftoverNeedsFault
    <3> QED
      BY <3>1, <3>2
  <2> QED
    BY <1>1, <1>2, <2>0, <2>5, <2>6, <2>7, <2>8, <2>9, WorkerStep DEF Books, Over
<1> QED
  BY <1>3, <1>4 DEF UpdateJob

LEMMA ReadJobStep ==
    ASSUME IInv, NEW w \in Workers, ReadJob(w)
    PROVE  IInv'
<1>1. Types /\ Books(w) /\ pc[w] = "read" /\ todo[w] # <<>>
  BY DEF IInv, ReadJob, Books, Position
<1>2. Later /\ faults' \in 0 .. MaxFaults /\ (faults' = 0 => faults = 0)
  BY <1>1, FailLater DEF ReadJob, Later, Types
<1>3. PICK field \in Counts :
        /\ Counted(w, field)
        /\ field = "successful" => verdict[w]
        /\ faults' = 0 /\ ~Expired(w) /\ verdict[w] => field = "successful"
  <2>1. CASE Ok(w) /\ Counted(w, Verdict(w))
    BY <2>1 DEF Verdict, Counts
  <2>2. CASE Fails(w) /\ Counted(w, "unread")
    <3>1. faults' = 0 => Expired(w)
      BY <1>1, <2>2, FailLater DEF Types
    <3> QED
      BY <2>2, <3>1 DEF Counts
  <2> QED
    BY <2>1, <2>2 DEF ReadJob
<1>4. /\ Dequeued(w) /\ Moved(w, "next") /\ verdict' = [verdict EXCEPT ![w] = FALSE]
      /\ UNCHANGED <<due, main, reading, spent, left>>
  BY DEF ReadJob
<1>5. pc' = [pc EXCEPT ![w] = "next"] /\ pc'[w] = "next" /\ ~verdict'[w]
  BY <1>1, <1>4 DEF Moved, Types
<1>6. result' \in [Workers -> Results] /\ \A v \in Workers \ {w} : result'[v] = result[v]
  BY <1>1, <1>3, CountedOne DEF Types
<1>7. /\ todo' \in [Workers -> Lists] /\ \A v \in Workers \ {w} : todo'[v] = todo[v]
      /\ From(todo'[w], 1) = From(todo[w], 2)
  BY <1>1, <1>4, RestDequeued
<1>8. Types' /\ \A v \in Workers \ {w} : Untouched(v)
  BY <1>1, <1>2, <1>4, <1>5, <1>6, <1>7 DEF Types, Places, Untouched
<1>9. Position(w)'
  BY <1>5 DEF Position
<1>10. Account(w)'
  <2>1. ~Charged(w)' /\ spent'[w] = spent[w]
    BY <1>4, <1>5 DEF Charged
  <2> QED
    BY <1>1, <1>2, <1>3, <1>4, <1>5, <2>1, CountedBooks DEF Books
<1>11. Strain(w)'
  BY <1>1, <1>2, <1>4, <1>5, <1>7, StrainKept DEF Ahead, Charged
<1> QED
  BY <1>1, <1>2, <1>4, <1>8, <1>9, <1>10, <1>11, WorkerStep, LeftAsBefore DEF Books, Over

LEMMA HangStep ==
    ASSUME IInv, NEW w \in Workers, Hang(w)
    PROVE  IInv'
<1>1. Types /\ Books(w) /\ pc[w] \in Active
  BY DEF IInv, Hang, Active
<1>2. /\ spent' = [spent EXCEPT ![w] = Patience]
      /\ UNCHANGED <<due, main, reading, pc, todo, verdict, result, left>>
  BY DEF Hang
<1>3. Later /\ faults' = faults + 1 /\ faults' \in 0 .. MaxFaults /\ faults' # 0
  BY <1>1, FailLater DEF Hang, Types
<1>4. Types' /\ \A v \in Workers \ {w} : Untouched(v)
  BY <1>1, <1>2, <1>3, MitSchedulerAssumption DEF Types, Untouched
<1>5. Position(w)'
  BY <1>1, <1>2 DEF Books, Position, Charged, Active
<1>6. Account(w)'
  BY <1>1, <1>2, <1>3 DEF Books, Account, Charged, Pending
<1>7. Strain(w)'
  BY <1>3 DEF Strain
<1> QED
  BY <1>1, <1>2, <1>3, <1>4, <1>5, <1>6, <1>7, WorkerStep, LeftAsBefore DEF Books, Over, Active

LEMMA BatchEndsStep ==
    ASSUME IInv, NEW w \in Workers, BatchEnds(w)
    PROVE  IInv'
<1>1. Types /\ Books(w) /\ pc[w] = "next" /\ todo[w] = <<>> /\ ~verdict[w]
  BY DEF IInv, BatchEnds, Books, Position, Charged
<1>2. /\ pc' = [pc EXCEPT ![w] = "settle"] /\ spent' = [spent EXCEPT ![w] = 0]
      /\ result' = [result EXCEPT ![w] = NoResult]
      /\ UNCHANGED <<due, main, reading, todo, verdict, left, faults>>
  BY DEF BatchEnds, Moved
<1>3. NoResult \in Results
  BY DEF NoResult, Results
<1>4. Types' /\ \A v \in Workers \ {w} : Untouched(v)
  BY <1>1, <1>2, <1>3, MitSchedulerAssumption DEF Types, Places, Untouched
<1>5. pc'[w] = "settle" /\ spent'[w] = 0 /\ result'[w] = NoResult /\ ~verdict'[w] /\ todo'[w] = <<>>
  BY <1>1, <1>2 DEF Types
<1>6. Position(w)' /\ Account(w)'
  BY <1>5, EmptyList, MitSchedulerAssumption DEF Position, Account, Charged, Pending, NoResult
<1>7. Strain(w)'
  <2>1. Cardinality(Ahead(w)' \cap Slow) <= Cardinality(Slow) /\ Cardinality(Ahead(w)' \cap Slow) \in Nat
    BY FewerSlow
  <2> QED
    BY <1>5, <2>1 DEF Strain
<1>8. Later
  BY <1>2 DEF Later
<1> QED
  BY <1>1, <1>2, <1>4, <1>6, <1>7, <1>8, WorkerStep, LeftAsBefore DEF Books, Over

(* Steps of main, of Status and of the calendar touch no worker.              *)
LEMMA QuietStep ==
    ASSUME IInv, UNCHANGED <<pc, batchVars, faults, left>>,
           due' \in Lists, reading' \in BOOLEAN,
           main' \in {"up", "signalled", "stopping", "draining", "exited", "killed"},
           main' # "exited", main = "killed" => main' = "killed",
           main' = "draining" => main = "draining" \/ pc[Loop] = "ended"
    PROVE  IInv'
<1>1. Types /\ \A w \in Workers : Books(w)
  BY DEF IInv
<1>2. Types'
  BY <1>1 DEF Types, batchVars
<1>3. ASSUME NEW w \in Workers PROVE Books(w)'
  BY <1>1, UntouchedBooks DEF Untouched, Later, batchVars
<1>4. LoopInv' /\ LeftoverNeedsFault'
  BY DEF IInv, LoopInv, LeftoverNeedsFault
<1> QED
  BY <1>2, <1>3, <1>4 DEF IInv

(* The process ends; only a killed one leaves rows behind.                    *)
LEMMA EndStep ==
    ASSUME IInv, Alive, NEW how \in {"exited", "killed"}, Ends(how),
           how = "exited" => \A w \in Workers : ~HasRow(w)
    PROVE  IInv'
<1>1. Types /\ \A w \in Workers : Books(w)
  BY DEF IInv
<1>2. /\ main' = how /\ pc' = [w \in Workers |-> "gone"] /\ todo' = [w \in Workers |-> <<>>]
      /\ result' = [w \in Workers |-> NoResult] /\ verdict' = [w \in Workers |-> FALSE]
      /\ spent' = [w \in Workers |-> 0] /\ reading' = FALSE /\ UNCHANGED <<due, faults>>
      /\ left' = left \cup {Head(todo[w]) : w \in {v \in Workers : HasRow(v)}}
  BY DEF Ends
<1>3. left' \subseteq Subscriptions
  <2>1. ASSUME NEW w \in Workers, HasRow(w) PROVE Head(todo[w]) \in Subscriptions
    BY <1>1, <2>1, RestOfList DEF Types, Books, Position, HasRow
  <2> QED
    BY <1>1, <1>2, <2>1 DEF Types
<1>4. NoResult \in Results
  BY DEF NoResult, Results
<1>5. Types'
  <2>1. pc' \in [Workers -> Places] /\ main' \in {"up", "signalled", "stopping", "draining", "exited", "killed"}
    BY <1>2 DEF Places
  <2>2. todo' \in [Workers -> Lists] /\ verdict' \in [Workers -> BOOLEAN] /\ reading' \in BOOLEAN
    BY <1>2, EmptyList
  <2>3. spent' \in [Workers -> 0 .. Patience] /\ result' \in [Workers -> Results]
    BY <1>2, <1>4, MitSchedulerAssumption
  <2> QED
    BY <1>1, <1>2, <1>3, <2>1, <2>2, <2>3 DEF Types
<1>6. ASSUME NEW w \in Workers PROVE Books(w)'
  <2>1. pc'[w] = "gone" /\ todo'[w] = <<>> /\ result'[w] = NoResult /\ ~verdict'[w] /\ spent'[w] = 0
    BY <1>2
  <2>2. Position(w)' /\ Account(w)'
    BY <2>1, EmptyList, MitSchedulerAssumption DEF Position, Account, Charged, Pending, NoResult
  <2>3. Strain(w)'
    <3>1. /\ Cardinality(Ahead(w)' \cap Slow) <= Cardinality(Slow)
          /\ Cardinality(Ahead(w)' \cap Slow) \in Nat
      BY FewerSlow
    <3> QED
      BY <2>1, <3>1 DEF Strain
  <2> QED
    BY <2>2, <2>3 DEF Books
<1>7. LoopInv'
  BY <1>2 DEF LoopInv, Workers
<1>8. LeftoverNeedsFault'
  <2>1. CASE how = "killed"
    BY <1>2, <2>1 DEF LeftoverNeedsFault
  <2>2. CASE how = "exited"
    <3>1. left' = left
      BY <1>2, <2>2
    <3>2. main # "killed"
      BY DEF Alive
    <3> QED
      BY <1>2, <3>1, <3>2 DEF IInv, LeftoverNeedsFault
  <2> QED
    BY <2>1, <2>2
<1> QED
  BY <1>5, <1>6, <1>7, <1>8 DEF IInv

LEMMA IInvStays == IInv /\ [Next]_vars => IInv'
<1> SUFFICES ASSUME IInv, [Next]_vars PROVE IInv'
  OBVIOUS
<1>0. Types /\ Loop \in Workers /\ Triggers \subseteq Workers
  BY DEF IInv, Workers
<1>1. ASSUME NEW s \in Subscriptions, FallDue(s)
      PROVE  IInv'
  <2>1. due' \in Lists
    BY <1>0, <1>1, AppendedList DEF FallDue, Types
  <2> QED
    BY <1>0, <1>1, <2>1, QuietStep DEF FallDue, Alive, Types
<1>2. CASE StatusBegin \/ StatusEnd
  BY <1>0, <1>2, QuietStep DEF StatusBegin, StatusEnd, Alive, Types
<1>3. CASE Tick \/ TickBegins \/ LoopEnds
  <2>1. PICK p \in {"begin", "query", "ended"} :
          Moved(Loop, p) /\ UNCHANGED <<due, main, reading, batchVars, left, faults>>
    BY <1>3 DEF Tick, TickBegins, LoopEnds
  <2>2. pc[Loop] \in {"select", "begin"}
    BY <1>3 DEF Tick, TickBegins, LoopEnds
  <2> QED
    BY <1>0, <2>1, <2>2, MoveStep DEF Over, Active, Places
<1>4. ASSUME NEW g \in Triggers, Trigger(g)
      PROVE  IInv'
  <2>1. pc[g] = "idle" /\ Moved(g, "query") /\ UNCHANGED <<due, main, reading, batchVars, left, faults>>
    BY <1>4 DEF Trigger
  <2> QED
    BY <1>0, <2>1, MoveStep DEF Over, Active, Places
<1>5. ASSUME NEW w \in Workers, Settle(w)
      PROVE  IInv'
  <2>1. PICK p \in {"select", "idle"} :
          Moved(w, p) /\ UNCHANGED <<due, main, reading, batchVars, left, faults>>
    BY <1>5 DEF Settle
  <2>2. pc[w] = "settle"
    BY <1>5 DEF Settle
  <2> QED
    BY <2>1, <2>2, MoveStep DEF Over, Active, Places
<1>6. ASSUME NEW w \in Workers, BatchStep(w) \/ Hang(w)
      PROVE  IInv'
  BY <1>5, <1>6, QueryStep, CreateJobStep, ExecuteChargeStep, UpdateJobStep, ReadJobStep,
     BatchEndsStep, HangStep DEF BatchStep
<1>7. CASE Signal \/ Stop \/ StopReturns
  BY <1>0, <1>7, QuietStep DEF Signal, Stop, StopReturns, LoopDone, Types
<1>8. CASE Shutdown
  <2>1. \A w \in Workers : ~HasRow(w)
    BY <1>8 DEF IInv, LoopInv, Shutdown, Workers, HasRow
  <2> QED
    BY <1>8, <2>1, EndStep DEF Shutdown, Alive
<1>9. CASE ShutdownFails \/ Crash
  BY <1>9, EndStep DEF ShutdownFails, Crash, Alive
<1>10. CASE UNCHANGED vars
  <2>1. UNCHANGED <<due, main, reading, pc, batchVars, left, faults>>
    BY <1>10 DEF vars, batchVars
  <2>2. Types'
    BY <1>0, <2>1 DEF Types, batchVars
  <2>3. ASSUME NEW w \in Workers PROVE Books(w)'
    BY <1>0, <2>1, UntouchedBooks DEF Untouched, Later, batchVars, IInv
  <2>4. LoopInv' /\ LeftoverNeedsFault'
    BY <2>1 DEF IInv, LoopInv, LeftoverNeedsFault
  <2> QED
    BY <2>2, <2>3, <2>4 DEF IInv
<1> QED
  BY <1>1, <1>2, <1>3, <1>4, <1>6, <1>7, <1>8, <1>9, <1>10 DEF Next

LEMMA IInvHolds == Spec => []IInv
BY IInvInit, IInvStays, PTL DEF Spec

-----------------------------------------------------------------------------
(* Every variable keeps its type; no batch, and no count of it, outgrows       *)
(* BatchSize.                                                               *)
THEOREM TypeCorrect == Spec => []TypeOK
<1>1. ASSUME IInv PROVE TypeOK
  <2>1. Types
    BY <1>1 DEF IInv
  <2>2. ASSUME NEW w \in Workers
        PROVE  /\ todo[w] \in Seq(Subscriptions) /\ Len(todo[w]) <= BatchSize
               /\ pc[w] \in {"charge", "update", "read"} => todo[w] # <<>>
               /\ spent[w] \in 0 .. Patience
               /\ result[w] \in [{"size", "successful", "failed", "unread", "paid"} -> 0 .. BatchSize]
    <3>1. /\ todo[w] \in Lists /\ Len(todo[w]) \in Nat /\ spent[w] \in 0 .. Patience
          /\ result[w].size \in Nat /\ result[w].successful \in Nat /\ result[w].failed \in Nat
          /\ result[w].unread \in Nat /\ result[w].paid \in Nat
      BY <2>1, BooksAreNumbers
    <3>2. Books(w)
      BY <1>1 DEF IInv
    <3>3. /\ result[w].size <= BatchSize
          /\ result[w].successful + result[w].failed + result[w].unread + Len(todo[w]) = result[w].size
      BY <3>2 DEF Books, Account
    <3>4. result[w].paid + Len(todo[w]) <= result[w].size + (IF Charged(w) THEN 1 ELSE 0)
      BY <3>2 DEF Books, Account
    <3>5. pc[w] \in {"charge", "update", "read"} => todo[w] # <<>>
      BY <3>2 DEF Books, Position
    <3>6. Charged(w) => Len(todo[w]) >= 1
      BY <3>1, <3>5, RestOfList DEF Charged
    <3>7. result[w].paid <= result[w].size
      BY <3>1, <3>4, <3>6
    <3>8. /\ result[w].size \in 0 .. BatchSize /\ result[w].successful \in 0 .. BatchSize
          /\ result[w].failed \in 0 .. BatchSize /\ result[w].unread \in 0 .. BatchSize
          /\ result[w].paid \in 0 .. BatchSize /\ Len(todo[w]) <= BatchSize
      <4>1. BatchSize \in Nat
        BY MitSchedulerAssumption
      <4> DEFINE a == result[w].successful  f == result[w].failed  u == result[w].unread
                 p == result[w].paid  n == Len(todo[w])  m == result[w].size
      <4>2. a \in Nat /\ f \in Nat /\ u \in Nat /\ p \in Nat /\ n \in Nat /\ m \in Nat
        BY <3>1
      <4>3. m <= BatchSize /\ a + f + u + n = m /\ p <= m
        BY <3>3, <3>7
      <4> HIDE DEF a, f, u, p, n, m
      <4>4. /\ m \in 0 .. BatchSize /\ a \in 0 .. BatchSize /\ f \in 0 .. BatchSize
            /\ u \in 0 .. BatchSize /\ p \in 0 .. BatchSize /\ n <= BatchSize
        BY <4>1, <4>2, <4>3
      <4> QED
        BY <4>4 DEF a, f, u, p, n, m
    <3>9. result[w] \in Results
      BY <2>1 DEF Types
    <3>10. result[w] \in [{"size", "successful", "failed", "unread", "paid"} -> 0 .. BatchSize]
      <4> DEFINE r == result[w]
      <4>1. r = [x \in DOMAIN r |-> r[x]] /\ DOMAIN r = {"size", "successful", "failed", "unread", "paid"}
        BY <3>9 DEF Results
      <4>2. \A x \in {"size", "successful", "failed", "unread", "paid"} : r[x] \in 0 .. BatchSize
        BY <3>8, <3>9 DEF Results
      <4> HIDE DEF r
      <4>3. r \in [{"size", "successful", "failed", "unread", "paid"} -> 0 .. BatchSize]
        BY <4>1, <4>2
      <4> QED
        BY <4>3 DEF r
    <3>11. todo[w] \in Seq(Subscriptions)
      BY <3>1 DEF Lists
    <3> QED
      BY <3>1, <3>5, <3>8, <3>10, <3>11
  <2>3. due \in Seq(Subscriptions)
    BY <2>1 DEF Types, Lists
  <2>4. result \in [Workers -> [{"size", "successful", "failed", "unread", "paid"} -> 0 .. BatchSize]]
    BY <2>1, <2>2 DEF Types
  <2> QED
    BY <2>1, <2>2, <2>3, <2>4 DEF Types, TypeOK, Places
<1> QED
  BY <1>1, IInvHolds, PTL

(* The counts of a batch add up, and its successes are what was charged.      *)
THEOREM AccountsAddUp == Spec => []BatchAccounted
<1>1. ASSUME IInv PROVE BatchAccounted
  <2> SUFFICES ASSUME NEW w \in Workers
               PROVE  LET r == result[w]
                      IN  /\ r.successful + r.failed + r.unread + Len(todo[w]) = r.size
                          /\ r.successful <= r.paid
                          /\ pc[w] = "next" /\ todo[w] = <<>> /\ faults = 0 /\ ~Expired(w) =>
                                 r.successful = r.paid
    BY DEF BatchAccounted
  <2>1. Books(w) /\ Types
    BY <1>1 DEF IInv
  <2>2. result[w].successful \in Nat /\ result[w].paid \in Nat
    BY <2>1, BooksAreNumbers
  <2>3. result[w].successful + result[w].failed + result[w].unread + Len(todo[w]) = result[w].size
    BY <2>1 DEF Books, Account
  <2>4. result[w].successful + Pending(w) <= result[w].paid /\ Pending(w) \in {0, 1}
    BY <2>1 DEF Books, Account, Pending
  <2>5. pc[w] = "next" => Pending(w) = 0
    BY <2>1 DEF Books, Position, Charged, Pending
  <2>6. faults = 0 /\ ~Expired(w) => result[w].paid = result[w].successful + Pending(w)
    BY <2>1 DEF Books, Account
  <2> QED
    BY <2>2, <2>3, <2>4, <2>5, <2>6
<1> QED
  BY <1>1, IInvHolds, PTL

(* A job row is left pending or running only by a statement that failed, by the *)
(* death of the process, or by as many slow subscriptions as a batch's two     *)
(* minutes endure.                                                          *)
THEOREM LeftoversNeedFaults == Spec => []LeftoverNeedsFault
<1>1. IInv => LeftoverNeedsFault
  BY DEF IInv
<1> QED
  BY <1>1, IInvHolds, PTL
=============================================================================
