------------------------------- MODULE MCBpas -------------------------------
(***************************************************************************)
(* Instances of Bpas for TLC: rules like those of configs/routing-rules.yaml *)
(* and of loadDefaultConfig, and edits that move, switch off and retarget.   *)
(***************************************************************************)
EXTENDS Bpas

R(name, priority, active, type, target) ==
    [name |-> name, priority |-> priority, active |-> active, type |-> type, target |-> target,
     typed |-> TRUE, amount |-> 0, operator |-> "greater_than", list |-> {}, percentage |-> 100]

HighValue == [R("high_value", 1, TRUE, "amount_threshold", "processor_a") EXCEPT !.amount = 1]
Euro == [R("euro", 2, TRUE, "currency", "processor_b") EXCEPT !.list = {"EUR"}]
TestClient == [R("client", 5, FALSE, "client_id", "processor_b") EXCEPT !.list = {"demo"}]
SplitA == [R("split_a", 10, TRUE, "percentage", "processor_a") EXCEPT !.percentage = 70]
SplitB == [R("split_b", 11, TRUE, "percentage", "processor_b") EXCEPT !.percentage = 30]

MCFiles == {<<HighValue, Euro, SplitA>>, <<Euro, [SplitB EXCEPT !.percentage = 100], TestClient>>}
MCDefault == <<HighValue, [Euro EXCEPT !.typed = FALSE], SplitA, SplitB>>
MCEdits == {[Euro EXCEPT !.priority = 1], [HighValue EXCEPT !.priority = 12, !.operator = "less_equal"],
            [SplitA EXCEPT !.percentage = 0], [TestClient EXCEPT !.active = TRUE]}
MCPayments ==
    {[amount |-> a, currency |-> c, marketplace |-> "US", user_tier |-> "basic", client_id |-> "demo"] :
        a \in {1, 2}, c \in {"EUR", "USD"}}
=============================================================================
