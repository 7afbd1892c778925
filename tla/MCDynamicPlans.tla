---------------------------- MODULE MCDynamicPlans ----------------------------
(* Instances of DynamicPlans: the plans that the models choose. *)
EXTENDS DynamicPlans, TLC

CONSTANTS A, B, L, hA, hB

Plan(own, need) ==
    [owner |-> [n \in Nodes |-> IF n \in DOMAIN own THEN own[n] ELSE Nobody],
     needs |-> [n \in Nodes |-> IF n \in DOMAIN need THEN need[n] ELSE {}]]

\* A question of a nested owner beside a task and another task that needs it.
Beside == Plan(A :> Root @@ L :> Root @@ B :> Root @@ hA :> A, B :> {L})

\* Two nested owners with a question each.
Siblings == Plan(A :> Root @@ B :> Root @@ hA :> A @@ hB :> B, <<>>)

\* A question two owners deep, and one of the root that needs a task.
Chained == Plan(A :> Root @@ B :> A @@ hB :> B @@ L :> Root @@ hA :> Root, hA :> {L})

AllTrees == {Beside, Siblings, Chained}
================================================================================
