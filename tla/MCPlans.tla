-------------------------------- MODULE MCPlans --------------------------------
(***************************************************************************)
(* The two kinds of planned work, DynamicPlans and GraphService.  A root   *)
(* is one or the other, so a behaviour runs one of them, and the other has *)
(* ended.                                                                  *)
(***************************************************************************)
EXTENDS MCDynamicPlans, MCGraphService

PlanIsOver ==
    /\ tree = (CHOOSE t \in Trees : TRUE) /\ node = [n \in Nodes |-> "cancelled"]
    /\ run = [r \in Tasks \union {Root} |-> IF r = Root THEN "cancelled" ELSE "none"]
    /\ plan = [p \in Owners |-> "none"] /\ call = [p \in Owners |-> "none"]
    /\ rev = 0 /\ binding = {} /\ late = {}
    /\ pc = [p \in Owners |-> "off"]
    /\ batch = [p \in Owners |-> {}] /\ seen = [p \in Owners |-> 0]
    /\ job = [c \in Tasks |-> "none"]
    /\ slots = {} /\ stop = {} /\ resumable = {}
    /\ waits = {} /\ entries = [p \in Owners |-> {}]
    /\ committing = Nobody /\ failure = "none" /\ paused = FALSE
    /\ halt = "cancelled" /\ service = "done"

GraphIsOver ==
    /\ graph = [g \in Graphs |-> "completed"]
    /\ nodeState = [g \in Graphs |-> [n \in GraphNodes |-> "completed"]]
    /\ unmet = [g \in Graphs |-> {}]
    /\ owner = [g \in Graphs |-> "none"] /\ wakes = <<>> /\ line = <<>>
    /\ ticketOf = [g \in Graphs |-> "none"] /\ walker = [g \in Graphs |-> "none"]
    /\ userStop = {} /\ halted = {} /\ failing = {} /\ declined = {}
    /\ admitting = FALSE /\ broken = FALSE /\ ending = "closed" /\ lives = GraphRestarts

PlansInit ==
    \/ Init /\ GraphIsOver
    \/ PlanIsOver /\ GraphInit /\ OneSkips

PlansNext == (Next /\ UNCHANGED graphVars) \/ (GraphNext /\ UNCHANGED vars)

PlansSpec == PlansInit /\ [][PlansNext]_<<vars, graphVars>> /\ Fairness /\ GraphFairness

\* Both states are well typed.
PlansTypeOK == TypeOK /\ GraphTypeOK

\* An owner of a plan that is taken up again never runs twice, and a graph that is
\* woken again has one entry and one walker.
OneOwnerEach == OneThreadPerOwner /\ GraphHasOneOwner

================================================================================
