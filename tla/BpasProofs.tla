----------------------------- MODULE BpasProofs -----------------------------
(***************************************************************************)
(* Proofs about Bpas, for any files, edits, payments and reloads.            *)
(***************************************************************************)
EXTENDS Bpas, TLAPS

(* What the service holds, or is about to hold, is a sequence of rules.       *)
LEMMA FilesAreRules ==
    ASSUME NEW f \in Files \cup {DefaultRules}
    PROVE  f \in Seq(AllRules) /\ Len(f) \in {Len(g) : g \in Files \cup {DefaultRules}}
BY BpasAssumption

LEMMA EditsAreRules == Edits \subseteq AllRules
BY DEF AllRules

LEMMA FewChanges == MaxChanges \in Nat
BY BpasAssumption

Lengths == {Len(f) : f \in Files \cup {DefaultRules}}
RuleLists == UNION {[1 .. n -> AllRules] : n \in Lengths}

LEMMA ListsAreLists ==
    ASSUME NEW s \in RuleLists
    PROVE  Len(s) \in Lengths /\ Len(s) \in Nat /\ s \in [1 .. Len(s) -> AllRules]
<1>1. PICK n \in Lengths : s \in [1 .. n -> AllRules]
  BY DEF RuleLists
<1>2. n \in Nat
  BY FilesAreRules DEF Lengths
<1>3. s \in Seq(AllRules) /\ Len(s) = n
  BY <1>1, <1>2
<1> QED
  BY <1>1, <1>2, <1>3

LEMMA FilesAreLists ==
    ASSUME NEW f \in Files \cup {DefaultRules}
    PROVE  f \in RuleLists
<1>1. f \in Seq(AllRules) /\ Len(f) \in Lengths
  BY FilesAreRules DEF Lengths
<1> QED
  BY <1>1 DEF RuleLists

(* Sorting keeps the rules and brings them into order.                       *)
LEMMA SortedIsInOrder ==
    ASSUME NEW s \in RuleLists, NEW t \in Sorted(s)
    PROVE  t \in RuleLists /\ InOrder(t)
<1>1. PICK p \in Bijection(DOMAIN s, DOMAIN s) : t = [i \in DOMAIN s |-> s[p[i]]]
  BY DEF Sorted
<1>2. s \in [1 .. Len(s) -> AllRules] /\ Len(s) \in Lengths
  BY ListsAreLists
<1>3. p \in [DOMAIN s -> DOMAIN s]
  BY DEF Bijection, Injection
<1>4. t \in [1 .. Len(s) -> AllRules]
  BY <1>1, <1>2, <1>3
<1>5. InOrder(t)
  BY DEF Sorted
<1> QED
  BY <1>2, <1>4, <1>5 DEF RuleLists

(* An edit puts the rule of the request in the place of one of its name.       *)
LEMMA ReplacedIsList ==
    ASSUME NEW s \in RuleLists, NEW rule \in AllRules, NEW i \in Found(s, rule.name)
    PROVE  Replaced(s, i, rule) \in RuleLists
<1>1. s \in [1 .. Len(s) -> AllRules] /\ Len(s) \in Lengths
  BY ListsAreLists
<1>2. i \in DOMAIN s /\ s[i].name = rule.name
  BY DEF Found
<1>3. rule \in Rule
  BY BpasAssumption
<1>4. [rule EXCEPT !.name = s[i].name] = rule
  BY <1>2, <1>3 DEF Rule
<1>5. Replaced(s, i, rule) \in [1 .. Len(s) -> AllRules]
  BY <1>1, <1>2, <1>4 DEF Replaced
<1> QED
  BY <1>1, <1>5 DEF RuleLists

LEMMA LoadedIsInOrder ==
    ASSUME file \in Files \cup {Broken}, NEW s \in Loaded
    PROVE  s \in RuleLists /\ InOrder(s)
<1>1. CASE file = Broken
  <2>1. s = DefaultRules
    BY <1>1 DEF Loaded
  <2> QED
    BY <2>1, FilesAreLists, BpasAssumption
<1>2. CASE file # Broken
  <2>1. file \in Files /\ s \in Sorted(file)
    BY <1>2 DEF Loaded
  <2> QED
    BY <2>1, FilesAreLists, SortedIsInOrder
<1> QED
  BY <1>1, <1>2

-----------------------------------------------------------------------------
(* Between any two steps the rules are in order, and who waits to swap them   *)
(* has parsed a file.                                                       *)
ParsedInv == \A r \in Reloads : reload[r] = "read" => parsed[r] \in Files

OtherTypes ==
    /\ file \in Files \cup {Broken}
    /\ reload \in [Reloads -> {"idle", "read", "done"}]
    /\ parsed \in [Reloads -> Files \cup {Broken}]
    /\ decision \in [q : Payments \cup {Fallback}, rule : AllRules \cup {Fallback}]
    /\ overlap \in BOOLEAN /\ changes \in 0 .. MaxChanges

IInv ==
    /\ rules \in RuleLists /\ InOrder(rules) /\ latest \in RuleLists
    /\ OtherTypes /\ ParsedInv

LEMMA IInvType == IInv => TypeOK
<1> SUFFICES ASSUME IInv PROVE TypeOK
  OBVIOUS
<1>1. {rules, latest} \subseteq RuleLists
  BY DEF IInv
<1>2. RuleLists = UNION {[1 .. n -> AllRules] : n \in {Len(f) : f \in Files \cup {DefaultRules}}}
  BY DEF RuleLists, Lengths
<1> QED
  BY <1>1, <1>2 DEF IInv, OtherTypes, TypeOK

LEMMA EvaluatedIsRule ==
    ASSUME NEW s \in RuleLists, NEW q, NEW rule \in Evaluate(s, q)
    PROVE  rule \in AllRules \cup {Fallback}
<1>1. s \in [1 .. Len(s) -> AllRules]
  BY ListsAreLists
<1> QED
  BY <1>1 DEF Evaluate

LEMMA IInvInit == Init => IInv
<1> SUFFICES ASSUME Init PROVE IInv
  OBVIOUS
<1>1. rules \in RuleLists /\ InOrder(rules)
  <2>1. CASE file = Broken
    BY <2>1, FilesAreLists, BpasAssumption DEF Init, Loaded
  <2>2. CASE file # Broken
    BY <2>2, FilesAreLists, SortedIsInOrder DEF Init, Loaded
  <2> QED
    BY <2>1, <2>2
<1>2. decision \in [q : Payments \cup {Fallback}, rule : AllRules \cup {Fallback}]
  BY DEF Init
<1>3. file \in Files \cup {Broken} /\ overlap \in BOOLEAN /\ changes \in 0 .. MaxChanges
  <2>1. file \in Files \cup {Broken}
    BY DEF Init
  <2>2. overlap \in BOOLEAN
    BY DEF Init
  <2>3. changes = 0
    BY DEF Init
  <2>4. changes \in 0 .. MaxChanges
    BY <2>3, FewChanges
  <2> QED
    BY <2>1, <2>2, <2>4
<1>4. reload \in [Reloads -> {"idle", "read", "done"}] /\ parsed \in [Reloads -> Files \cup {Broken}]
  BY DEF Init
<1>5. ParsedInv
  BY DEF Init, ParsedInv
<1>6. latest \in RuleLists
  BY <1>1 DEF Init
<1> QED
  BY <1>1, <1>2, <1>3, <1>4, <1>5, <1>6 DEF IInv, OtherTypes

LEMMA IInvStays == IInv /\ [Next]_vars => IInv'
<1> SUFFICES ASSUME IInv, [Next]_vars
             PROVE  /\ rules' \in RuleLists /\ InOrder(rules') /\ latest' \in RuleLists
                    /\ OtherTypes' /\ ParsedInv'
  BY DEF IInv, InOrder
<1>0. /\ rules \in RuleLists /\ InOrder(rules) /\ latest \in RuleLists
      /\ OtherTypes /\ ParsedInv
  BY DEF IInv
<1>1. ASSUME NEW f \in Files \cup {Broken}, WriteFile(f)
      PROVE  UNCHANGED <<rules, latest>> /\ OtherTypes' /\ ParsedInv'
  BY <1>0, <1>1, BpasAssumption DEF WriteFile, OtherTypes, ParsedInv
<1>2. ASSUME NEW r \in Reloads, ReadFile(r)
      PROVE  rules' = rules /\ latest' \in RuleLists /\ OtherTypes' /\ ParsedInv'
  <2>1. latest' \in RuleLists
    BY <1>0, <1>2, FilesAreLists DEF ReadFile, Parse, OtherTypes
  <2>2. rules' = rules /\ OtherTypes' /\ ParsedInv'
    BY <1>0, <1>2 DEF ReadFile, Parse, OtherTypes, ParsedInv
  <2> QED
    BY <2>1, <2>2
<1>3. ASSUME NEW r \in Reloads, Swap(r)
      PROVE  /\ rules' \in RuleLists /\ InOrder(rules') /\ latest' = latest
             /\ OtherTypes' /\ ParsedInv'
  <2>1. OtherTypes' /\ latest' = latest /\ ParsedInv'
    BY <1>0, <1>3 DEF Swap, OtherTypes, ParsedInv
  <2>2. parsed[r] \in RuleLists /\ rules' \in Sorted(parsed[r])
    BY <1>0, <1>3, FilesAreLists DEF Swap, ParsedInv
  <2>3. rules' \in RuleLists /\ InOrder(rules')
    BY <2>2, SortedIsInOrder
  <2> QED
    BY <2>1, <2>3
<1>4. ASSUME NEW rule \in Edits, UpdateRule(rule)
      PROVE  /\ rules' \in RuleLists /\ InOrder(rules') /\ latest' \in RuleLists
             /\ OtherTypes' /\ ParsedInv'
  <2>0. rule \in AllRules
    BY <1>4, EditsAreRules
  <2>1. PICK i \in Found(rules, rule.name) : rules' \in Sorted(Replaced(rules, i, rule))
    BY <1>4 DEF UpdateRule, Updated
  <2>2. rules' \in RuleLists /\ InOrder(rules')
    BY <1>0, <2>0, <2>1, ReplacedIsList, SortedIsInOrder
  <2>3. latest' \in RuleLists
    BY <1>0, <1>4, <2>0, ReplacedIsList DEF UpdateRule
  <2>4. OtherTypes' /\ ParsedInv'
    BY <1>0, <1>4, BpasAssumption DEF UpdateRule, OtherTypes, ParsedInv
  <2> QED
    BY <2>2, <2>3, <2>4
<1>5. ASSUME NEW q \in Payments, EvaluateRouting(q)
      PROVE  UNCHANGED <<rules, latest>> /\ OtherTypes' /\ ParsedInv'
  <2>1. PICK rule \in Evaluate(rules, q) : decision' = [q |-> q, rule |-> rule]
    BY <1>5 DEF EvaluateRouting
  <2>2. rule \in AllRules \cup {Fallback}
    BY <1>0, EvaluatedIsRule
  <2> QED
    BY <1>0, <1>5, <2>1, <2>2 DEF EvaluateRouting, OtherTypes, ParsedInv
<1>6. CASE Restart
  <2>1. rules' \in RuleLists /\ InOrder(rules') /\ latest' \in RuleLists
    BY <1>0, <1>6, LoadedIsInOrder DEF Restart, OtherTypes
  <2>2. OtherTypes' /\ ParsedInv'
    BY <1>0, <1>6 DEF Restart, OtherTypes, ParsedInv
  <2> QED
    BY <2>1, <2>2
<1>7. CASE UNCHANGED vars
  BY <1>0, <1>7 DEF vars, OtherTypes, ParsedInv
<1> QED
  BY <1>0, <1>1, <1>2, <1>3, <1>4, <1>5, <1>6, <1>7 DEF Next

LEMMA IInvHolds == Spec => []IInv
BY IInvInit, IInvStays, PTL DEF Spec

(* The service's rules, its file and its answers keep their type.            *)
THEOREM TypeCorrect == Spec => []TypeOK
BY IInvType, IInvHolds, PTL

-----------------------------------------------------------------------------
(* Who is evaluated against rules in order is given none that comes after a    *)
(* rule certain to decide.                                                  *)
LEMMA FirstDecides ==
    ASSUME NEW s \in RuleLists, InOrder(s), NEW q, NEW given \in Evaluate(s, q),
           NEW rule \in Range(s), Certain(rule, q)
    PROVE  given # Fallback /\ given.priority <= rule.priority
<1>0. s \in [1 .. Len(s) -> AllRules] /\ Len(s) \in Nat
  BY ListsAreLists
<1>1. PICK j \in 1 .. Len(s) : rule = s[j]
  BY <1>0 DEF Range
<1>2. ASSUME NEW i \in Nat, i > j, Passed(s, i, q)
      PROVE  FALSE
  BY <1>0, <1>1, <1>2 DEF Passed, Certain
<1>3. ~Passed(s, Len(s) + 1, q)
  BY <1>0, <1>2
<1>4. PICK i \in 1 .. Len(s) : /\ given = s[i] /\ s[i].active /\ Matches(s[i], q)
                               /\ MayFire(s[i]) /\ Passed(s, i, q)
  BY <1>0, <1>3 DEF Evaluate
<1>5. i <= j
  BY <1>2, <1>4
<1>6. s[i].priority \in Int /\ s[j].priority \in Int
  BY <1>0, BpasAssumption DEF Rule
<1>7. s[i].priority <= s[j].priority
  BY <1>0, <1>5, <1>6 DEF InOrder
<1>8. given # Fallback
  BY <1>0, <1>4, BpasAssumption
<1> QED
  BY <1>1, <1>4, <1>7, <1>8

(* A request is given an active rule that matches and none that comes after a  *)
(* rule certain to decide, whatever was edited, reloaded or restarted before.  *)
THEOREM PriorityHolds == Spec => PriorityDecides
<1>1. ASSUME IInv, [Next]_vars, NEW p \in Payments, decision' # decision, decision'.q = p
      PROVE  LET given == decision'.rule
                 certain == {rule \in Range(rules) : Certain(rule, p)}
             IN  IF given = Fallback THEN certain = {}
                 ELSE /\ given.active /\ Matches(given, p) /\ MayFire(given)
                      /\ \A rule \in certain : given.priority <= rule.priority
  <2>0. rules \in RuleLists /\ InOrder(rules)
    BY <1>1 DEF IInv
  <2>1. PICK q \in Payments : EvaluateRouting(q)
    BY <1>1 DEF Next, WriteFile, ReadFile, Swap, UpdateRule, Restart, vars
  <2>2. PICK given \in Evaluate(rules, q) : decision' = [q |-> q, rule |-> given]
    BY <2>1 DEF EvaluateRouting
  <2>3. q = p /\ decision'.rule = given
    BY <1>1, <2>2
  <2>4. given # Fallback => given.active /\ Matches(given, q) /\ MayFire(given)
    BY DEF Evaluate
  <2>5. ASSUME NEW rule \in Range(rules), Certain(rule, q)
        PROVE  given # Fallback /\ given.priority <= rule.priority
    BY <2>0, <2>5, FirstDecides
  <2> QED
    BY <2>3, <2>4, <2>5
<1>2. IInv /\ [Next]_vars =>
        [\A q \in Payments :
          LET given == decision'.rule
              certain == {rule \in Range(rules) : Certain(rule, q)}
          IN  decision' # decision /\ decision'.q = q =>
                IF given = Fallback THEN certain = {}
                ELSE /\ given.active /\ Matches(given, q) /\ MayFire(given)
                     /\ \A rule \in certain : given.priority <= rule.priority]_vars
  BY <1>1
<1> QED
  BY <1>2, IInvHolds, PTL DEF Spec, PriorityDecides

-----------------------------------------------------------------------------
(* Changes that do not overlap.  An edit finds its rule by name and replaces    *)
(* the first: which one that is depends on the order unless names differ.      *)
Unique(s) == \A i, j \in DOMAIN s : s[i].name = s[j].name => i = j

(* configs/routing-rules.yaml and loadDefaultConfig name each rule once; the   *)
(* service does not check it.                                               *)
NamesDiffer == \A f \in Files \cup {DefaultRules} : Unique(f)

(* Sorting moves rules and neither adds nor drops one.                        *)
LEMMA SortedKeepsRules ==
    ASSUME NEW s \in RuleLists, NEW t \in Sorted(s)
    PROVE  Range(t) = Range(s) /\ (Unique(s) => Unique(t))
<1>1. PICK p \in Bijection(DOMAIN s, DOMAIN s) : t = [i \in DOMAIN s |-> s[p[i]]]
  BY DEF Sorted
<1>2. /\ p \in [DOMAIN s -> DOMAIN s]
      /\ \A i, j \in DOMAIN s : p[i] = p[j] => i = j
      /\ \A j \in DOMAIN s : \E i \in DOMAIN s : p[i] = j
  BY DEF Bijection, Injection, Surjection, IsInjective
<1>3. DOMAIN t = DOMAIN s /\ \A i \in DOMAIN s : t[i] = s[p[i]]
  BY <1>1
<1>4. Range(t) = Range(s)
  BY <1>2, <1>3 DEF Range
<1>5. Unique(s) => Unique(t)
  BY <1>2, <1>3 DEF Unique
<1> QED
  BY <1>4, <1>5

(* Where names differ, an edit takes the one rule of its name out and puts its  *)
(* own in, wherever that rule stood.                                        *)
LEMMA ReplacedRange ==
    ASSUME NEW s \in RuleLists, Unique(s), NEW rule \in AllRules, NEW i \in Found(s, rule.name)
    PROVE  /\ Range(Replaced(s, i, rule)) = {x \in Range(s) : x.name # rule.name} \cup {rule}
           /\ Unique(Replaced(s, i, rule))
<1>1. s \in [1 .. Len(s) -> AllRules]
  BY ListsAreLists
<1>2. i \in DOMAIN s /\ s[i].name = rule.name
  BY DEF Found
<1>3. rule \in Rule
  BY BpasAssumption
<1>4. [rule EXCEPT !.name = s[i].name] = rule
  BY <1>2, <1>3 DEF Rule
<1>5. Replaced(s, i, rule) = [s EXCEPT ![i] = rule]
  BY <1>4 DEF Replaced
<1> DEFINE t == Replaced(s, i, rule)
<1>6. DOMAIN t = DOMAIN s /\ t[i] = rule /\ \A j \in DOMAIN s \ {i} : t[j] = s[j]
  BY <1>1, <1>2, <1>5
<1>7. \A j \in DOMAIN s : s[j].name = rule.name <=> j = i
  BY <1>2 DEF Unique
<1> HIDE DEF t
<1>8. Range(t) = {x \in Range(s) : x.name # rule.name} \cup {rule}
  BY <1>2, <1>6, <1>7 DEF Range
<1>9. Unique(t)
  BY <1>2, <1>6, <1>7 DEF Unique
<1> QED
  BY <1>8, <1>9 DEF t

LEMMA FoundInRange ==
    ASSUME NEW s \in RuleLists, Unique(s), NEW name
    PROVE  Found(s, name) = {} <=> \A x \in Range(s) : x.name # name
<1>1. s \in [1 .. Len(s) -> AllRules] /\ Len(s) \in Nat
  BY ListsAreLists
<1>2. ASSUME NEW i \in DOMAIN s, s[i].name = name
      PROVE  i \in Found(s, name)
  BY <1>1, <1>2 DEF Found, Unique
<1>3. \A x \in Range(s) : \E i \in DOMAIN s : x = s[i]
  BY DEF Range
<1>4. \A i \in Found(s, name) : i \in DOMAIN s /\ s[i].name = name /\ s[i] \in Range(s)
  BY DEF Found, Range
<1> QED
  BY <1>2, <1>3, <1>4

(* Until changes overlap, the rules are those of the history when no reload is  *)
(* between its halves, and the one that is will bring them in.                *)
LastInv ==
    /\ Unique(rules) /\ Unique(latest)
    /\ ~overlap /\ Reading = {} => Range(rules) = Range(latest)
    /\ ~overlap => \A r \in Reloads : Reading = {r} => latest = parsed[r]

LEMMA LoadedUnique ==
    ASSUME NamesDiffer, file \in Files \cup {Broken}, NEW s \in Loaded
    PROVE  Unique(s)
<1>1. CASE file = Broken
  BY <1>1 DEF Loaded, NamesDiffer
<1>2. CASE file # Broken
  <2>1. file \in Files /\ s \in Sorted(file)
    BY <1>2 DEF Loaded
  <2> QED
    BY <2>1, FilesAreLists, SortedKeepsRules DEF NamesDiffer
<1> QED
  BY <1>1, <1>2

LEMMA LastInit == ASSUME NamesDiffer PROVE Init => LastInv
<1> SUFFICES ASSUME Init PROVE LastInv
  OBVIOUS
<1>1. Unique(rules) /\ latest = rules
  BY LoadedUnique DEF Init
<1>2. Reading = {}
  BY DEF Init, Reading
<1> QED
  BY <1>1, <1>2 DEF LastInv

LEMMA LastStays == ASSUME NamesDiffer PROVE IInv /\ LastInv /\ [Next]_vars => LastInv'
<1> SUFFICES ASSUME IInv, LastInv, [Next]_vars PROVE LastInv'
  OBVIOUS
<1>0. /\ rules \in RuleLists /\ latest \in RuleLists /\ OtherTypes /\ ParsedInv
      /\ Unique(rules) /\ Unique(latest)
  BY DEF IInv, LastInv
<1>1. ASSUME NEW r \in Reloads, ReadFile(r)
      PROVE  LastInv'
  <2>1. CASE file = Broken
    <3>1. UNCHANGED <<rules, latest, parsed, overlap>>
      BY <1>1, <2>1 DEF ReadFile, Parse
    <3>2. \A q \in Reloads : reload'[q] = "read" <=> reload[q] = "read"
      BY <1>0, <1>1, <2>1 DEF ReadFile, Parse, OtherTypes
    <3>3. Reading' = Reading
      BY <3>2 DEF Reading
    <3> QED
      BY <3>1, <3>3 DEF LastInv, Unique
  <2>2. CASE file # Broken
    <3>1. /\ file \in Files /\ latest' = file /\ parsed' = [parsed EXCEPT ![r] = file]
          /\ reload' = [reload EXCEPT ![r] = "read"] /\ UNCHANGED <<rules, overlap>>
      BY <1>0, <1>1, <2>2 DEF ReadFile, Parse, OtherTypes
    <3>2. Unique(latest')
      BY <3>1 DEF NamesDiffer
    <3>3. parsed'[r] = latest' /\ r \in Reading'
      BY <1>0, <3>1 DEF OtherTypes, Reading
    <3> QED
      BY <1>0, <3>1, <3>2, <3>3 DEF LastInv, Unique
  <2> QED
    BY <2>1, <2>2
<1>2. ASSUME NEW r \in Reloads, Swap(r)
      PROVE  LastInv'
  <2>1. parsed[r] \in Files /\ rules' \in Sorted(parsed[r]) /\ latest' = latest
    BY <1>0, <1>2 DEF Swap, ParsedInv
  <2>2. Range(rules') = Range(parsed[r]) /\ Unique(rules')
    BY <2>1, FilesAreLists, SortedKeepsRules DEF NamesDiffer
  <2>3. ASSUME ~overlap'
        PROVE  Reading = {r} /\ latest = parsed[r] /\ Reading' = {}
    <3>1. ~overlap /\ Reading = {r}
      BY <1>2, <2>3 DEF Swap
    <3>2. \A q \in Reloads : reload'[q] = IF q = r THEN "done" ELSE reload[q]
      BY <1>0, <1>2 DEF Swap, OtherTypes
    <3>3. Reading' = {}
      BY <3>1, <3>2 DEF Reading
    <3> QED
      BY <3>1, <3>3 DEF LastInv
  <2> QED
    BY <1>0, <2>1, <2>2, <2>3 DEF LastInv, Unique
<1>3. ASSUME NEW rule \in Edits, UpdateRule(rule)
      PROVE  LastInv'
  <2>0. rule \in AllRules
    BY <1>3, EditsAreRules
  <2>1. PICK i \in Found(rules, rule.name) : rules' \in Sorted(Replaced(rules, i, rule))
    BY <1>3 DEF UpdateRule, Updated
  <2>2. /\ Range(rules') = {x \in Range(rules) : x.name # rule.name} \cup {rule}
        /\ Unique(rules')
    BY <1>0, <2>0, <2>1, ReplacedIsList, ReplacedRange, SortedKeepsRules
  <2>3. CASE Found(latest, rule.name) = {}
    <3>1. latest' = latest
      BY <1>3, <2>3 DEF UpdateRule
    <3>2. Range(rules) # Range(latest)
      BY <1>0, <2>1, <2>3, FoundInRange
    <3>3. overlap'
      BY <1>3, <3>2 DEF UpdateRule, LastInv
    <3> QED
      BY <1>0, <2>2, <3>1, <3>3 DEF LastInv, Unique
  <2>4. CASE Found(latest, rule.name) # {}
    <3>1. PICK j \in Found(latest, rule.name) : latest' = Replaced(latest, j, rule)
      BY <1>3, <2>4 DEF UpdateRule
    <3>2. /\ Range(latest') = {x \in Range(latest) : x.name # rule.name} \cup {rule}
          /\ Unique(latest')
      BY <1>0, <2>0, <3>1, ReplacedRange
    <3>3. ~overlap' => ~overlap /\ Reading = {} /\ Reading' = {}
      BY <1>3 DEF UpdateRule, Reading
    <3> QED
      BY <2>2, <3>2, <3>3 DEF LastInv, Unique
  <2> QED
    BY <2>3, <2>4
<1>4. CASE Restart
  <2>1. Unique(rules') /\ latest' = rules'
    BY <1>0, <1>4, LoadedUnique DEF Restart, OtherTypes
  <2>2. \A q \in Reloads : reload'[q] # "read"
    BY <1>4 DEF Restart
  <2>3. Reading' = {}
    BY <2>2 DEF Reading
  <2> QED
    BY <2>1, <2>3 DEF LastInv, Unique
<1>5. CASE \/ \E f \in Files \cup {Broken} : WriteFile(f)
           \/ \E q \in Payments : EvaluateRouting(q)
           \/ UNCHANGED vars
  <2>1. UNCHANGED <<rules, reload, parsed, latest, overlap>>
    BY <1>5 DEF WriteFile, EvaluateRouting, vars
  <2> QED
    BY <2>1 DEF LastInv, Unique, Reading
<1> QED
  BY <1>1, <1>2, <1>3, <1>4, <1>5 DEF Next

(* If files name each rule once, no edit and no reload is undone unless a       *)
(* reload swapped in what it had read before another change.                 *)
THEOREM ChangesStay == ASSUME NamesDiffer PROVE Spec => []ChangesLast
<1>1. Init => IInv /\ LastInv
  BY IInvInit, LastInit
<1>2. IInv /\ LastInv /\ [Next]_vars => IInv' /\ LastInv'
  BY IInvStays, LastStays
<1>3. IInv /\ LastInv => ChangesLast
  BY DEF LastInv, ChangesLast
<1> QED
  BY <1>1, <1>2, <1>3, PTL DEF Spec

=============================================================================
