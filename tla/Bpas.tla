-------------------------------- MODULE Bpas --------------------------------
(***************************************************************************)
(* cmd/bpas-service: the routing rules, read from a file, replaced one by   *)
(* one and reloaded whole, and the evaluation of a request against them.    *)
(* One action is one section under the service's lock, or one read of the   *)
(* file.  Statistics, which decide nothing, are left out.                   *)
(***************************************************************************)
EXTENDS Functions, Integers, Sequences

CONSTANTS
    Files,          \* contents the rules file may have: sequences of rules
    Edits,          \* rules that clients PUT
    DefaultRules,   \* the rules the service makes up when it finds no file
    Payments,       \* what evaluations ask about
    Reloads,        \* calls of POST /bpas/reload
    MaxChanges,     \* bound on writes of the file and on edits together
    Broken,         \* a file that is missing or does not parse
    Fallback        \* no rule

Rule == [name : STRING, priority : Int, active : BOOLEAN, type : STRING, target : STRING,
         typed : BOOLEAN, amount : Int, operator : STRING, list : SUBSET STRING, percentage : Int]

AllRules == (UNION {Range(f) : f \in Files}) \cup Edits \cup Range(DefaultRules)

InOrder(s) == \A i, j \in DOMAIN s : i < j => s[i].priority <= s[j].priority

ASSUME BpasAssumption ==
    /\ Files \cup {DefaultRules} \subseteq Seq(AllRules) /\ AllRules \subseteq Rule
    /\ Broken \notin Files /\ Fallback \notin AllRules
    /\ InOrder(DefaultRules)
    /\ MaxChanges \in Nat

VARIABLES
    file,       \* the rules file
    rules,      \* b.rules
    reload,     \* each reload: "idle", "read" or "done"
    parsed,     \* what it read
    decision,   \* the last evaluation: the payment and the rule it was given
    latest,     \* history: the rules, were reloads one step
    overlap,    \* history: a reload swapped in what it read before another change
    changes     \* writes of the file and edits so far

vars == <<file, rules, reload, parsed, decision, latest, overlap, changes>>

-----------------------------------------------------------------------------
(* Matching.  Values are asserted to have a dynamic type: an integer in the    *)
(* file is no float64, and the lists of the default rules are no            *)
(* []interface{}.  Such a condition matches nothing.                        *)
FieldOf == [currency |-> "currency", marketplace |-> "marketplace", user_tier |-> "user_tier",
            client_id |-> "client_id"]

Exceeds(operator, x, y) ==
    \/ operator = "greater_than" /\ x > y
    \/ operator = "less_than" /\ x < y
    \/ operator = "equals" /\ x = y
    \/ operator = "greater_equal" /\ x >= y
    \/ operator = "less_equal" /\ x <= y

Matches(rule, q) ==
    \/ rule.type = "percentage"
    \/ rule.type = "amount_threshold" /\ rule.typed /\ Exceeds(rule.operator, q.amount, rule.amount)
    \/ /\ rule.type \in DOMAIN FieldOf /\ rule.typed
       /\ q[FieldOf[rule.type]] \in rule.list

(* Both draw rand.Intn(100) < Percentage for a rule of percentages.           *)
MayFire(rule) == rule.type = "percentage" => rule.percentage > 0
MayPass(rule) == rule.type = "percentage" /\ rule.percentage < 100

(* The first rule that matches, and that chance does not pass over, decides.  *)
Passed(s, i, q) == \A j \in 1 .. i - 1 : s[j].active /\ Matches(s[j], q) => MayPass(s[j])

Evaluate(s, q) ==
    {s[i] : i \in {i \in DOMAIN s :
        s[i].active /\ Matches(s[i], q) /\ MayFire(s[i]) /\ Passed(s, i, q)}}
    \cup {r \in {Fallback} : Passed(s, Len(s) + 1, q)}

(* sort.Slice: by priority, and equal ones in any order.                      *)
Sorted(s) ==
    LET arranged == {[i \in DOMAIN s |-> s[p[i]]] : p \in Bijection(DOMAIN s, DOMAIN s)}
    IN  {a \in arranged : InOrder(a)}

-----------------------------------------------------------------------------
(* loadConfig and, when it fails at the start, loadDefaultConfig.             *)
Loaded == IF file = Broken THEN {DefaultRules} ELSE Sorted(file)

Init ==
    /\ file \in Files \cup {Broken}
    /\ rules \in Loaded
    /\ reload = [r \in Reloads |-> "idle"] /\ parsed = [r \in Reloads |-> Broken]
    /\ decision = [q |-> Fallback, rule |-> Fallback]
    /\ latest = rules /\ overlap = FALSE /\ changes = 0

WriteFile(f) ==
    /\ changes < MaxChanges /\ changes' = changes + 1
    /\ file' = f
    /\ UNCHANGED <<rules, reload, parsed, decision, latest, overlap>>

(* A reload reads the file without the lock.  If that fails it ends there.     *)
Parse_Anyway(r) == parsed' = [parsed EXCEPT ![r] = IF file = Broken THEN <<>> ELSE file]
Parse(r) == file # Broken /\ parsed' = [parsed EXCEPT ![r] = file]

ReadFile(r) ==
    /\ reload[r] = "idle"
    /\ \/ Parse(r) /\ reload' = [reload EXCEPT ![r] = "read"] /\ latest' = file
       \/ file = Broken /\ reload' = [reload EXCEPT ![r] = "done"] /\ UNCHANGED <<parsed, latest>>
    /\ UNCHANGED <<file, rules, decision, overlap, changes>>

Reading == {r \in Reloads : reload[r] = "read"}

Swap(r) ==
    /\ reload[r] = "read"
    /\ rules' \in Sorted(parsed[r])
    /\ reload' = [reload EXCEPT ![r] = "done"]
    /\ overlap' = (overlap \/ Reading # {r})
    /\ UNCHANGED <<file, parsed, decision, latest, changes>>

(* updateRule replaces the first rule of that name and sorts again.            *)
Replaced(s, i, rule) == [s EXCEPT ![i] = [rule EXCEPT !.name = s[i].name]]

Updated_Unsorted(s, i, rule) == {Replaced(s, i, rule)}
Updated_Copy(s, i, rule) == Sorted(s)
Updated(s, i, rule) == Sorted(Replaced(s, i, rule))

Found(s, name) ==
    {i \in DOMAIN s : s[i].name = name /\ \A j \in 1 .. i - 1 : s[j].name # name}

UpdateRule(rule) ==
    /\ changes < MaxChanges /\ changes' = changes + 1
    /\ \E i \in Found(rules, rule.name) : rules' \in Updated(rules, i, rule)
    /\ latest' = IF Found(latest, rule.name) = {} THEN latest
                 ELSE Replaced(latest, CHOOSE i \in Found(latest, rule.name) : TRUE, rule)
    /\ overlap' = (overlap \/ Reading # {})
    /\ UNCHANGED <<file, reload, parsed, decision>>

(* evaluateRouting, and testRule, which counts nothing.                       *)
EvaluateRouting(q) ==
    /\ \E rule \in Evaluate(rules, q) : decision' = [q |-> q, rule |-> rule]
    /\ UNCHANGED <<file, rules, reload, parsed, latest, overlap, changes>>

(* The service starts again: edits live in memory only.                       *)
Restart ==
    /\ rules' \in Loaded /\ latest' = rules' /\ overlap' = FALSE
    /\ reload' = [r \in Reloads |-> IF reload[r] = "read" THEN "done" ELSE reload[r]]
    /\ UNCHANGED <<file, parsed, decision, changes>>

Next ==
    \/ \E f \in Files \cup {Broken} : WriteFile(f)
    \/ \E r \in Reloads : ReadFile(r) \/ Swap(r)
    \/ \E rule \in Edits : UpdateRule(rule)
    \/ \E q \in Payments : EvaluateRouting(q)
    \/ Restart

Spec == Init /\ [][Next]_vars

-----------------------------------------------------------------------------
(* Properties.                                                              *)

TypeOK ==
    /\ file \in Files \cup {Broken}
    /\ {rules, latest} \subseteq UNION {[1 .. n -> AllRules] : n \in {Len(f) : f \in Files \cup {DefaultRules}}}
    /\ reload \in [Reloads -> {"idle", "read", "done"}]
    /\ parsed \in [Reloads -> Files \cup {Broken}]
    /\ decision \in [q : Payments \cup {Fallback}, rule : AllRules \cup {Fallback}]
    /\ overlap \in BOOLEAN /\ changes \in 0 .. MaxChanges

(* The rule an evaluation is given is an active one that matches, and no rule  *)
(* of a smaller priority was certain to decide; no rule at all means that none *)
(* was.  Neither edits nor reloads leave the rules in another order.          *)
Certain(rule, q) == rule.active /\ Matches(rule, q) /\ ~MayPass(rule)

PriorityDecides ==
    [][\A q \in Payments :
          LET given == decision'.rule
              certain == {rule \in Range(rules) : Certain(rule, q)}
          IN  decision' # decision /\ decision'.q = q =>
                IF given = Fallback THEN certain = {}
                ELSE /\ given.active /\ Matches(given, q) /\ MayFire(given)
                     /\ \A rule \in certain : given.priority <= rule.priority]_vars

(* An edit stays, and a reload brings in what the file said, unless two of     *)
(* them overlap: then a reload may undo what was done after it read the file.  *)
ChangesLast ==
    Reading = {} /\ ~overlap => Range(rules) = Range(latest)
=============================================================================
