------------------------------ MODULE Plans_proofs ------------------------------
(***************************************************************************)
(* What the two kinds of planned work guarantee, for any graphs, nodes,    *)
(* workers and limits (GraphService) and any plans (DynamicPlans).         *)
(***************************************************************************)
EXTENDS MCPlans, WorkQueues_proofs

--------------------------------------------------------------------------------
(* GraphService: the steps *)

\* The actions of GraphNext, one by one; every step that starts or skips a node moves it.
LEMMA GraphCases ==
    ASSUME [GraphNext]_graphVars
    PROVE  \/ \E g \in Graphs :
                \/ SubmitGraph(g) \/ ResumeGraph(g) \/ CancelWalking(g) \/ CancelParked(g)
                \/ \E n \in HumanNodes : HumanInput(g, n) \/ HumanInputUnread(g, n)
                \/ StopItself(g) \/ ClaimGraph(g)
                \/ Open(g) \/ OpenStopped(g) \/ OpenUnavailable(g) \/ WalkerFails(g)
                \/ Conclude(g) \/ CompleteGraph(g) \/ ReturnPausedGraph(g) \/ SuspendGraph(g)
                \/ \E n \in GraphNodes :
                     \/ SettleLeaf(g, n) \/ LeafEnds(g, n)
                     \/ \E s \in {"skipped", "waiting", "running"} : MoveNode(g, n, s)
                \/ SettleEnded(g) \/ SettleAnswered(g) \/ SettlePausedGraph(g)
                \/ SettleUnavailableGraph(g) \/ SettleFailed(g)
           \/ TakeTask \/ CloseGraphs \/ JoinGraphs \/ RestartGraphs
           \/ UNCHANGED graphVars
BY DEF GraphNext, GraphController, GraphStep, Walk, SettleGraph, SkipNode, StartHuman, StartLeaf

\* What is queued, after the operations on a queue.
LEMMA QueuedAfter ==
    ASSUME wakes \in Seq(Graphs)
    PROVE  /\ Queued \subseteq Graphs
           /\ wakes' = wakes => Queued' = Queued
           /\ wakes' = <<>> => Queued' = {} /\ IsInjective(wakes')
           /\ \A g \in Graphs : wakes' = Append(wakes, g) =>
                /\ Queued' = Queued \cup {g}
                /\ IsInjective(wakes) /\ g \notin Queued => IsInjective(wakes')
           /\ \A J : wakes' = Without(wakes, J) =>
                /\ Queued' = Queued \ J
                /\ IsInjective(wakes) => IsInjective(wakes')
<1>1. Queued = Range(wakes) /\ Queued' = Range(wakes')
  BY DEF Queued, ToSet, Range
<1>2. Queued \subseteq Graphs
  BY <1>1, Members
<1>3. wakes' = <<>> => Queued' = {} /\ IsInjective(wakes')
  BY <1>1, EmptyQueue
<1>4. ASSUME NEW g \in Graphs, wakes' = Append(wakes, g)
      PROVE  /\ Queued' = Queued \cup {g}
             /\ IsInjective(wakes) /\ g \notin Queued => IsInjective(wakes')
  BY <1>1, <1>4, AppendMembers
<1>5. ASSUME NEW J, wakes' = Without(wakes, J)
      PROVE  Queued' = Queued \ J /\ (IsInjective(wakes) => IsInjective(wakes'))
  BY <1>1, <1>5, WithoutMembers
<1> QED BY <1>1, <1>2, <1>3, <1>4, <1>5

--------------------------------------------------------------------------------
(* GraphService: types *)

QueueTypes == wakes \in Seq(Graphs) /\ line \in Seq(Graphs)

RecordTypes ==
    /\ graph \in [Graphs -> GraphStates]
    /\ nodeState \in [Graphs -> [GraphNodes -> NodeStates]]
    /\ unmet \in [Graphs -> SUBSET Optional]

PlaceTypes ==
    /\ owner \in [Graphs -> {"none", "queued", "working", "waiting", "faulted"}]
    /\ ticketOf \in [Graphs -> {"none", "staged", "ready", "taken"}]
    /\ walker \in [Graphs -> {"none", "claimed", "walking", "returned", "unavailable",
                            "failing"}]

FlagTypes ==
    /\ userStop \subseteq halted /\ halted \subseteq Graphs /\ failing \subseteq Graphs
    /\ declined \subseteq Graphs
    /\ admitting \in BOOLEAN /\ broken \in BOOLEAN
    /\ ending \in {"open", "joining", "closed", "refused"}
    /\ lives \in 0..GraphRestarts

GraphTypes == QueueTypes /\ RecordTypes /\ PlaceTypes /\ FlagTypes

LEMMA GraphTypesAreTypeOK == GraphTypes <=> GraphTypeOK
BY DEF GraphTypes, QueueTypes, RecordTypes, PlaceTypes, FlagTypes, GraphTypeOK

LEMMA QueueTypesStep ==
    ASSUME GraphTypes, [GraphNext]_graphVars PROVE QueueTypes'
<1> USE DEF GraphTypes, QueueTypes
<1>a. \A g \in Graphs : Append(wakes, g) \in Seq(Graphs) /\ Append(line, g) \in Seq(Graphs)
  BY AppendMembers
<1>w. \A J : Without(wakes, J) \in Seq(Graphs) /\ Without(line, J) \in Seq(Graphs)
  BY WithoutMembers
<1>b. \A g \in Graphs : \A J : Append(Without(line, J), g) \in Seq(Graphs)
  BY <1>w, AppendMembers
<1>e. <<>> \in Seq(Graphs)
  BY EmptySeq
<1>t. line # <<>> => Tail(line) \in Seq(Graphs)
  BY TailMembers
<1> HIDE DEF QueueTypes
<1>q. wakes \in Seq(Graphs) /\ line \in Seq(Graphs)
  BY DEF QueueTypes

<1>1. ASSUME NEW g \in Graphs, SubmitGraph(g) PROVE QueueTypes'
  BY <1>1, <1>q, <1>a, <1>w, <1>b, <1>e, <1>t DEF SubmitGraph, Usable, Wake, SetOwner,
          record, jobs, process, QueueTypes
<1>2. ASSUME NEW g \in Graphs, ResumeGraph(g) PROVE QueueTypes'
  BY <1>2, <1>q, <1>a, <1>w, <1>b, <1>e, <1>t DEF ResumeGraph, MayAnswer, Usable,
          Wake, SetOwner, record, jobs, process, QueueTypes
<1>3. ASSUME NEW g \in Graphs, CancelWalking(g) PROVE QueueTypes'
  BY <1>3, <1>q, <1>a, <1>w, <1>b, <1>e, <1>t DEF CancelWalking, Usable, record, jobs,
          process, QueueTypes
<1>4. ASSUME NEW g \in Graphs, CancelParked(g) PROVE QueueTypes'
  BY <1>4, <1>q, <1>a, <1>w, <1>b, <1>e, <1>t DEF CancelParked, Usable, RetireGraph,
          SetOwner, Withdrawn, record, jobs, process, QueueTypes
<1>5. ASSUME NEW g \in Graphs, NEW n \in HumanNodes,
             HumanInput(g, n)
      PROVE  QueueTypes'
  BY <1>5, <1>q, <1>a, <1>w, <1>b, <1>e, <1>t DEF HumanInput, MayAnswer, Usable,
          Provide, Wake, SetOwner, record, jobs, process, QueueTypes
<1>6. ASSUME NEW g \in Graphs, NEW n \in HumanNodes,
             HumanInputUnread(g, n)
      PROVE  QueueTypes'
  BY <1>6, <1>q, <1>a, <1>w, <1>b, <1>e, <1>t DEF HumanInputUnread, MayAnswer, Usable,
          Provide, Break, SetOwner, Withdrawn, record, jobs, process, QueueTypes
<1>7. ASSUME NEW g \in Graphs, StopItself(g) PROVE QueueTypes'
  BY <1>7, <1>q, <1>a, <1>w, <1>b, <1>e, <1>t DEF StopItself, record, jobs, process,
          QueueTypes
<1>8. ASSUME NEW g \in Graphs, ClaimGraph(g) PROVE QueueTypes'
  BY <1>8, <1>q, <1>a, <1>w, <1>b, <1>e, <1>t DEF ClaimGraph, SetOwner, record, jobs,
          process, QueueTypes
<1>9. ASSUME NEW g \in Graphs, Open(g) PROVE QueueTypes'
  BY <1>9, <1>q, <1>a, <1>w, <1>b, <1>e, <1>t DEF Open, WalkTo, record, jobs, process,
          QueueTypes
<1>10. ASSUME NEW g \in Graphs, OpenStopped(g) PROVE QueueTypes'
  BY <1>10, <1>q, <1>a, <1>w, <1>b, <1>e, <1>t DEF OpenStopped, WalkTo, RetireGraph,
          record, jobs, process, QueueTypes
<1>11. ASSUME NEW g \in Graphs, OpenUnavailable(g) PROVE QueueTypes'
  BY <1>11, <1>q, <1>a, <1>w, <1>b, <1>e, <1>t DEF OpenUnavailable, WalkTo,
          RetireGraph, record, jobs, process, QueueTypes
<1>12. ASSUME NEW g \in Graphs, WalkerFails(g) PROVE QueueTypes'
  BY <1>12, <1>q, <1>a, <1>w, <1>b, <1>e, <1>t DEF WalkerFails, WalkTo, record, jobs,
          process, QueueTypes
<1>13. ASSUME NEW g \in Graphs, Conclude(g) PROVE QueueTypes'
  BY <1>13, <1>q, <1>a, <1>w, <1>b, <1>e, <1>t DEF Conclude, WalkTo, RetireGraph,
          record, jobs, process, QueueTypes
<1>14. ASSUME NEW g \in Graphs, CompleteGraph(g) PROVE QueueTypes'
  BY <1>14, <1>q, <1>a, <1>w, <1>b, <1>e, <1>t DEF CompleteGraph, WalkTo, Going,
          record, jobs, process, QueueTypes
<1>15. ASSUME NEW g \in Graphs, ReturnPausedGraph(g) PROVE QueueTypes'
  BY <1>15, <1>q, <1>a, <1>w, <1>b, <1>e, <1>t DEF ReturnPausedGraph, WalkTo, Going,
          record, jobs, process, QueueTypes
<1>16. ASSUME NEW g \in Graphs, SuspendGraph(g) PROVE QueueTypes'
  BY <1>16, <1>q, <1>a, <1>w, <1>b, <1>e, <1>t DEF SuspendGraph, WalkTo, Going,
          record, jobs, process, QueueTypes
<1>17. ASSUME NEW g \in Graphs, NEW n \in GraphNodes,
             SettleLeaf(g, n)
      PROVE  QueueTypes'
  BY <1>17, <1>q, <1>a, <1>w, <1>b, <1>e, <1>t DEF SettleLeaf, record, jobs, process,
          QueueTypes
<1>18. ASSUME NEW g \in Graphs, NEW n \in GraphNodes, NEW s \in {"skipped", "waiting", "running"},
             MoveNode(g, n, s)
      PROVE  QueueTypes'
  BY <1>18, <1>q, <1>a, <1>w, <1>b, <1>e, <1>t DEF MoveNode, Going, record, jobs,
          process, QueueTypes
<1>19. ASSUME NEW g \in Graphs, SettleEnded(g) PROVE QueueTypes'
  BY <1>19, <1>q, <1>a, <1>w, <1>b, <1>e, <1>t DEF SettleEnded, Returned, WalkTo,
          Forget, SetOwner, record, jobs, process, QueueTypes
<1>20. ASSUME NEW g \in Graphs, SettleAnswered(g) PROVE QueueTypes'
  BY <1>20, <1>q, <1>a, <1>w, <1>b, <1>e, <1>t DEF SettleAnswered, Returned, WalkTo,
          Forget, RetireGraph, Wake, SetOwner, record, jobs, process, QueueTypes
<1>21. ASSUME NEW g \in Graphs, SettlePausedGraph(g) PROVE QueueTypes'
  BY <1>21, <1>q, <1>a, <1>w, <1>b, <1>e, <1>t DEF SettlePausedGraph, Returned,
          WalkTo, Forget, RetireGraph, Wake, SetOwner, record, jobs, process,
          QueueTypes
<1>22. ASSUME NEW g \in Graphs, SettleUnavailableGraph(g) PROVE QueueTypes'
  BY <1>22, <1>q, <1>a, <1>w, <1>b, <1>e, <1>t DEF SettleUnavailableGraph, WalkTo,
          Forget, RetireGraph, SetOwner, record, jobs, process, QueueTypes
<1>23. ASSUME NEW g \in Graphs, SettleFailed(g) PROVE QueueTypes'
  BY <1>23, <1>q, <1>a, <1>w, <1>b, <1>e, <1>t DEF SettleFailed, WalkTo, Break,
          SetOwner, Withdrawn, record, jobs, process, QueueTypes
<1>24. ASSUME NEW g \in Graphs, NEW n \in GraphNodes, LeafEnds(g, n) PROVE QueueTypes'
  BY <1>24, <1>q, <1>a, <1>w, <1>b, <1>e, <1>t DEF LeafEnds, record, jobs, process,
          QueueTypes
<1>25. ASSUME TakeTask PROVE QueueTypes'
  BY <1>25, <1>q, <1>a, <1>w, <1>b, <1>e, <1>t DEF TakeTask, record, jobs, process,
          QueueTypes
<1>26. ASSUME CloseGraphs PROVE QueueTypes'
  BY <1>26, <1>q, <1>a, <1>w, <1>b, <1>e, <1>t DEF CloseGraphs, Withdrawn, record,
          jobs, process, QueueTypes
<1>27. ASSUME JoinGraphs PROVE QueueTypes'
  BY <1>27, <1>q, <1>a, <1>w, <1>b, <1>e, <1>t DEF JoinGraphs, record, jobs, process,
          QueueTypes
<1>28. ASSUME RestartGraphs PROVE QueueTypes'
  BY <1>28, <1>q, <1>a, <1>w, <1>b, <1>e, <1>t DEF RestartGraphs, record, jobs,
          process, QueueTypes
<1>29. ASSUME UNCHANGED graphVars PROVE QueueTypes'
  BY <1>29, <1>q, <1>a, <1>w, <1>b, <1>e, <1>t DEF graphVars, record, jobs, process,
          QueueTypes
<1> QED BY <1>1, <1>2, <1>3, <1>4, <1>5, <1>6, <1>7, <1>8, <1>9, <1>10, <1>11, <1>12,
       <1>13, <1>14, <1>15, <1>16, <1>17, <1>18, <1>19, <1>20, <1>21, <1>22, <1>23,
       <1>24, <1>25, <1>26, <1>27, <1>28, <1>29, GraphCases

LEMMA NodeTables ==
    ASSUME RecordTypes, NEW g \in Graphs
    PROVE  /\ HumanPause(g) \in [Graphs -> GraphStates]
           /\ CancelPending(g) \in [Graphs -> [GraphNodes -> NodeStates]]
           /\ \A s \in GraphStates : [graph EXCEPT ![g] = s] \in [Graphs -> GraphStates]
           /\ \A n \in GraphNodes, s \in NodeStates :
                [nodeState EXCEPT ![g][n] = s] \in [Graphs -> [GraphNodes -> NodeStates]]
<1>1. HumanPause(g) \in [Graphs -> GraphStates]
  BY DEF HumanPause, RecordTypes, GraphStates
<1>2. CancelPending(g) \in [Graphs -> [GraphNodes -> NodeStates]]
  BY DEF CancelPending, RecordTypes, NodeStates
<1>3. /\ \A s \in GraphStates : [graph EXCEPT ![g] = s] \in [Graphs -> GraphStates]
      /\ \A n \in GraphNodes, s \in NodeStates :
           [nodeState EXCEPT ![g][n] = s] \in [Graphs -> [GraphNodes -> NodeStates]]
  BY DEF RecordTypes
<1> QED BY <1>1, <1>2, <1>3

\* The states that the steps write.
LEMMA WrittenStates ==
    /\ {"queued", "running", "paused", "completed", "failed", "cancelled"} \subseteq GraphStates
    /\ {"completed", "succeeded", "broke", "failed", "skipped", "waiting", "running"}
         \subseteq NodeStates
    /\ HumanNodes \subseteq GraphNodes
BY GraphAssumption DEF GraphStates, NodeStates

LEMMA RetiredTypes ==
    ASSUME RecordTypes
    PROVE  /\ UNCHANGED record => RecordTypes'
           /\ \A g \in Graphs, s \in GraphStates : RetireGraph(g, s) => RecordTypes'
<1>1. UNCHANGED record => RecordTypes'
  BY DEF RecordTypes, record
<1>2. ASSUME NEW g \in Graphs, NEW s \in GraphStates, RetireGraph(g, s) PROVE RecordTypes'
  <2>1. graph' = [graph EXCEPT ![g] = s] /\ nodeState' = CancelPending(g) /\ unmet' = unmet
    BY <1>2 DEF RetireGraph
  <2>2. graph' \in [Graphs -> GraphStates]
    BY <1>2, <2>1, NodeTables
  <2>3. nodeState' \in [Graphs -> [GraphNodes -> NodeStates]]
    BY <1>2, <2>1, NodeTables
  <2> QED BY <2>1, <2>2, <2>3 DEF RecordTypes
<1> QED BY <1>1, <1>2

LEMMA RecordTypesStep ==
    ASSUME GraphTypes, [GraphNext]_graphVars PROVE RecordTypes'
<1>t. /\ graph \in [Graphs -> GraphStates]
      /\ nodeState \in [Graphs -> [GraphNodes -> NodeStates]]
      /\ unmet \in [Graphs -> SUBSET Optional]
  BY DEF GraphTypes, RecordTypes
<1>r. RecordTypes
  BY DEF GraphTypes

<1>1. ASSUME NEW g \in Graphs, SubmitGraph(g) PROVE RecordTypes'
  BY <1>1, <1>t, <1>r, NodeTables, WrittenStates DEF SubmitGraph, Usable, Wake,
          SetOwner, record, jobs, process, RecordTypes
<1>2. ASSUME NEW g \in Graphs, ResumeGraph(g) PROVE RecordTypes'
  BY <1>2, <1>t, <1>r, NodeTables, WrittenStates DEF ResumeGraph, MayAnswer, Usable,
          Wake, SetOwner, record, jobs, process, RecordTypes
<1>3. ASSUME NEW g \in Graphs, CancelWalking(g) PROVE RecordTypes'
  BY <1>3, <1>t, <1>r, NodeTables, WrittenStates DEF CancelWalking, Usable, record,
          jobs, process, RecordTypes
<1>4. ASSUME NEW g \in Graphs, CancelParked(g) PROVE RecordTypes'
  BY <1>4, <1>r, RetiredTypes, WrittenStates DEF CancelParked
<1>5. ASSUME NEW g \in Graphs, NEW n \in HumanNodes,
             HumanInput(g, n)
      PROVE  RecordTypes'
  BY <1>5, <1>t, <1>r, NodeTables, WrittenStates DEF HumanInput, MayAnswer, Usable,
          Provide, Wake, SetOwner, record, jobs, process, RecordTypes
<1>6. ASSUME NEW g \in Graphs, NEW n \in HumanNodes,
             HumanInputUnread(g, n)
      PROVE  RecordTypes'
  BY <1>6, <1>t, <1>r, NodeTables, WrittenStates DEF HumanInputUnread, MayAnswer,
          Usable, Provide, Break, SetOwner, Withdrawn, record, jobs, process,
          RecordTypes
<1>7. ASSUME NEW g \in Graphs, StopItself(g) PROVE RecordTypes'
  BY <1>7, <1>t, <1>r, NodeTables, WrittenStates DEF StopItself, record, jobs,
          process, RecordTypes
<1>8. ASSUME NEW g \in Graphs, ClaimGraph(g) PROVE RecordTypes'
  BY <1>8, <1>t, <1>r, NodeTables, WrittenStates DEF ClaimGraph, SetOwner, record,
          jobs, process, RecordTypes
<1>9. ASSUME NEW g \in Graphs, Open(g) PROVE RecordTypes'
  BY <1>9, <1>t, <1>r, NodeTables, WrittenStates DEF Open, WalkTo, record, jobs,
          process, RecordTypes
<1>10. ASSUME NEW g \in Graphs, OpenStopped(g) PROVE RecordTypes'
  BY <1>10, <1>r, RetiredTypes, WrittenStates DEF OpenStopped, WalkTo
<1>11. ASSUME NEW g \in Graphs, OpenUnavailable(g) PROVE RecordTypes'
  BY <1>11, <1>r, RetiredTypes, WrittenStates DEF OpenUnavailable, WalkTo
<1>12. ASSUME NEW g \in Graphs, WalkerFails(g) PROVE RecordTypes'
  BY <1>12, <1>t, <1>r, NodeTables, WrittenStates DEF WalkerFails, WalkTo, record,
          jobs, process, RecordTypes
<1>13. ASSUME NEW g \in Graphs, Conclude(g) PROVE RecordTypes'
  BY <1>13, <1>r, RetiredTypes, WrittenStates DEF Conclude, WalkTo
<1>14. ASSUME NEW g \in Graphs, CompleteGraph(g) PROVE RecordTypes'
  BY <1>14, <1>t, <1>r, NodeTables, WrittenStates DEF CompleteGraph, WalkTo, Going,
          record, jobs, process, RecordTypes
<1>15. ASSUME NEW g \in Graphs, ReturnPausedGraph(g) PROVE RecordTypes'
  BY <1>15, <1>t, <1>r, NodeTables, WrittenStates DEF ReturnPausedGraph, WalkTo,
          Going, record, jobs, process, RecordTypes
<1>16. ASSUME NEW g \in Graphs, SuspendGraph(g) PROVE RecordTypes'
  BY <1>16, <1>t, <1>r, NodeTables, WrittenStates DEF SuspendGraph, WalkTo, Going,
          record, jobs, process, RecordTypes
<1>17. ASSUME NEW g \in Graphs, NEW n \in GraphNodes,
             SettleLeaf(g, n)
      PROVE  RecordTypes'
  BY <1>17, <1>t, <1>r, NodeTables, WrittenStates DEF SettleLeaf, record, jobs,
          process, RecordTypes
<1>18. ASSUME NEW g \in Graphs, NEW n \in GraphNodes, NEW s \in {"skipped", "waiting", "running"},
             MoveNode(g, n, s)
      PROVE  RecordTypes'
  BY <1>18, <1>t, <1>r, NodeTables, WrittenStates DEF MoveNode, Going, record, jobs,
          process, RecordTypes
<1>19. ASSUME NEW g \in Graphs, SettleEnded(g) PROVE RecordTypes'
  BY <1>19, <1>t, <1>r, NodeTables, WrittenStates DEF SettleEnded, Returned, WalkTo,
          Forget, SetOwner, record, jobs, process, RecordTypes
<1>20. ASSUME NEW g \in Graphs, SettleAnswered(g) PROVE RecordTypes'
  BY <1>20, <1>r, RetiredTypes, WrittenStates DEF SettleAnswered, Returned, WalkTo
<1>21. ASSUME NEW g \in Graphs, SettlePausedGraph(g) PROVE RecordTypes'
  BY <1>21, <1>r, RetiredTypes, WrittenStates DEF SettlePausedGraph, Returned, WalkTo
<1>22. ASSUME NEW g \in Graphs, SettleUnavailableGraph(g) PROVE RecordTypes'
  BY <1>22, <1>r, RetiredTypes, WrittenStates DEF SettleUnavailableGraph, WalkTo
<1>23. ASSUME NEW g \in Graphs, SettleFailed(g) PROVE RecordTypes'
  BY <1>23, <1>t, <1>r, NodeTables, WrittenStates DEF SettleFailed, WalkTo, Break,
          SetOwner, Withdrawn, record, jobs, process, RecordTypes
<1>24. ASSUME NEW g \in Graphs, NEW n \in GraphNodes,
             LeafEnds(g, n)
      PROVE  RecordTypes'
  BY <1>24, <1>t, <1>r, NodeTables, WrittenStates DEF LeafEnds, record, jobs, process,
          RecordTypes
<1>25. ASSUME TakeTask PROVE RecordTypes'
  BY <1>25, <1>t, <1>r, NodeTables, WrittenStates DEF TakeTask, record, jobs, process,
          RecordTypes
<1>26. ASSUME CloseGraphs PROVE RecordTypes'
  BY <1>26, <1>t, <1>r, NodeTables, WrittenStates DEF CloseGraphs, Withdrawn, record,
          jobs, process, RecordTypes
<1>27. ASSUME JoinGraphs PROVE RecordTypes'
  BY <1>27, <1>t, <1>r, NodeTables, WrittenStates DEF JoinGraphs, record, jobs,
          process, RecordTypes
<1>28. ASSUME RestartGraphs PROVE RecordTypes'
  BY <1>28, <1>t, <1>r, NodeTables, WrittenStates DEF RestartGraphs, record, jobs,
          process, RecordTypes
<1>29. ASSUME UNCHANGED graphVars PROVE RecordTypes'
  BY <1>29, <1>t, <1>r, NodeTables, WrittenStates DEF graphVars, record, jobs,
          process, RecordTypes
<1> QED BY <1>1, <1>2, <1>3, <1>4, <1>5, <1>6, <1>7, <1>8, <1>9, <1>10, <1>11, <1>12,
       <1>13, <1>14, <1>15, <1>16, <1>17, <1>18, <1>19, <1>20, <1>21, <1>22, <1>23,
       <1>24, <1>25, <1>26, <1>27, <1>28, <1>29, GraphCases

LEMMA PlaceTypesStep ==
    ASSUME GraphTypes, [GraphNext]_graphVars PROVE PlaceTypes'
<1>t. PlaceTypes /\ QueueTypes
  BY DEF GraphTypes

<1>1. ASSUME NEW g \in Graphs, SubmitGraph(g) PROVE PlaceTypes'
  BY <1>1, <1>t DEF SubmitGraph, Usable, Wake, SetOwner, record, jobs, process,
          PlaceTypes
<1>2. ASSUME NEW g \in Graphs, ResumeGraph(g) PROVE PlaceTypes'
  BY <1>2, <1>t DEF ResumeGraph, MayAnswer, Usable, Wake, SetOwner, record, jobs,
          process, PlaceTypes
<1>3. ASSUME NEW g \in Graphs, CancelWalking(g) PROVE PlaceTypes'
  BY <1>3, <1>t DEF CancelWalking, Usable, record, jobs, process, PlaceTypes
<1>4. ASSUME NEW g \in Graphs, CancelParked(g) PROVE PlaceTypes'
  BY <1>4, <1>t DEF CancelParked, Usable, RetireGraph, SetOwner, Withdrawn, record,
          jobs, process, PlaceTypes
<1>5. ASSUME NEW g \in Graphs, NEW n \in HumanNodes,
             HumanInput(g, n)
      PROVE  PlaceTypes'
  BY <1>5, <1>t DEF HumanInput, MayAnswer, Usable, Provide, Wake, SetOwner, record,
          jobs, process, PlaceTypes
<1>6. ASSUME NEW g \in Graphs, NEW n \in HumanNodes,
             HumanInputUnread(g, n)
      PROVE  PlaceTypes'
  BY <1>6, <1>t DEF HumanInputUnread, MayAnswer, Usable, Provide, Break, SetOwner,
          Withdrawn, record, jobs, process, PlaceTypes
<1>7. ASSUME NEW g \in Graphs, StopItself(g) PROVE PlaceTypes'
  BY <1>7, <1>t DEF StopItself, record, jobs, process, PlaceTypes
<1>8. ASSUME NEW g \in Graphs, ClaimGraph(g) PROVE PlaceTypes'
  BY <1>8, <1>t DEF ClaimGraph, SetOwner, record, jobs, process, PlaceTypes
<1>9. ASSUME NEW g \in Graphs, Open(g) PROVE PlaceTypes'
  BY <1>9, <1>t DEF Open, WalkTo, record, jobs, process, PlaceTypes
<1>10. ASSUME NEW g \in Graphs, OpenStopped(g) PROVE PlaceTypes'
  BY <1>10, <1>t DEF OpenStopped, WalkTo, RetireGraph, record, jobs, process,
          PlaceTypes
<1>11. ASSUME NEW g \in Graphs, OpenUnavailable(g) PROVE PlaceTypes'
  BY <1>11, <1>t DEF OpenUnavailable, WalkTo, RetireGraph, record, jobs, process,
          PlaceTypes
<1>12. ASSUME NEW g \in Graphs, WalkerFails(g) PROVE PlaceTypes'
  BY <1>12, <1>t DEF WalkerFails, WalkTo, record, jobs, process, PlaceTypes
<1>13. ASSUME NEW g \in Graphs, Conclude(g) PROVE PlaceTypes'
  BY <1>13, <1>t DEF Conclude, WalkTo, RetireGraph, record, jobs, process, PlaceTypes
<1>14. ASSUME NEW g \in Graphs, CompleteGraph(g) PROVE PlaceTypes'
  BY <1>14, <1>t DEF CompleteGraph, WalkTo, Going, record, jobs, process, PlaceTypes
<1>15. ASSUME NEW g \in Graphs, ReturnPausedGraph(g) PROVE PlaceTypes'
  BY <1>15, <1>t DEF ReturnPausedGraph, WalkTo, Going, record, jobs, process,
          PlaceTypes
<1>16. ASSUME NEW g \in Graphs, SuspendGraph(g) PROVE PlaceTypes'
  BY <1>16, <1>t DEF SuspendGraph, WalkTo, Going, record, jobs, process, PlaceTypes
<1>17. ASSUME NEW g \in Graphs, NEW n \in GraphNodes,
             SettleLeaf(g, n)
      PROVE  PlaceTypes'
  BY <1>17, <1>t DEF SettleLeaf, record, jobs, process, PlaceTypes
<1>18. ASSUME NEW g \in Graphs, NEW n \in GraphNodes, NEW s \in {"skipped", "waiting", "running"},
             MoveNode(g, n, s)
      PROVE  PlaceTypes'
  BY <1>18, <1>t DEF MoveNode, Going, record, jobs, process, PlaceTypes
<1>19. ASSUME NEW g \in Graphs, SettleEnded(g) PROVE PlaceTypes'
  BY <1>19, <1>t DEF SettleEnded, Returned, WalkTo, Forget, SetOwner, record, jobs,
          process, PlaceTypes
<1>20. ASSUME NEW g \in Graphs, SettleAnswered(g) PROVE PlaceTypes'
  BY <1>20, <1>t DEF SettleAnswered, Returned, WalkTo, Forget, RetireGraph, Wake,
          SetOwner, record, jobs, process, PlaceTypes
<1>21. ASSUME NEW g \in Graphs, SettlePausedGraph(g) PROVE PlaceTypes'
  BY <1>21, <1>t DEF SettlePausedGraph, Returned, WalkTo, Forget, RetireGraph, Wake,
          SetOwner, record, jobs, process, PlaceTypes
<1>22. ASSUME NEW g \in Graphs, SettleUnavailableGraph(g) PROVE PlaceTypes'
  BY <1>22, <1>t DEF SettleUnavailableGraph, WalkTo, Forget, RetireGraph, SetOwner,
          record, jobs, process, PlaceTypes
<1>23. ASSUME NEW g \in Graphs, SettleFailed(g) PROVE PlaceTypes'
  BY <1>23, <1>t DEF SettleFailed, WalkTo, Break, SetOwner, Withdrawn, record, jobs,
          process, PlaceTypes
<1>24. ASSUME NEW g \in Graphs, NEW n \in GraphNodes, LeafEnds(g, n) PROVE PlaceTypes'
  BY <1>24, <1>t DEF LeafEnds, record, jobs, process, PlaceTypes
<1>25. ASSUME TakeTask PROVE PlaceTypes'
  BY <1>25, <1>t, TailMembers DEF TakeTask, PlaceTypes, QueueTypes, record, jobs, process
<1>26. ASSUME CloseGraphs PROVE PlaceTypes'
  BY <1>26, <1>t DEF CloseGraphs, Withdrawn, record, jobs, process, PlaceTypes
<1>27. ASSUME JoinGraphs PROVE PlaceTypes'
  BY <1>27, <1>t DEF JoinGraphs, record, jobs, process, PlaceTypes
<1>28. ASSUME RestartGraphs PROVE PlaceTypes'
  BY <1>28, <1>t DEF RestartGraphs, record, jobs, process, PlaceTypes
<1>29. ASSUME UNCHANGED graphVars PROVE PlaceTypes'
  BY <1>29, <1>t DEF graphVars, record, jobs, process, PlaceTypes
<1> QED BY <1>1, <1>2, <1>3, <1>4, <1>5, <1>6, <1>7, <1>8, <1>9, <1>10, <1>11, <1>12,
       <1>13, <1>14, <1>15, <1>16, <1>17, <1>18, <1>19, <1>20, <1>21, <1>22, <1>23,
       <1>24, <1>25, <1>26, <1>27, <1>28, <1>29, GraphCases

LEMMA FlagTypesStep ==
    ASSUME GraphTypes, [GraphNext]_graphVars PROVE FlagTypes'
<1>t. FlagTypes
  BY DEF GraphTypes
<1>o. Owned \subseteq Graphs
  BY DEF Owned

<1>1. ASSUME NEW g \in Graphs, SubmitGraph(g) PROVE FlagTypes'
  BY <1>1, <1>t, <1>o DEF SubmitGraph, Usable, Wake, SetOwner, record, jobs, process,
          FlagTypes
<1>2. ASSUME NEW g \in Graphs, ResumeGraph(g) PROVE FlagTypes'
  BY <1>2, <1>t, <1>o DEF ResumeGraph, MayAnswer, Usable, Wake, SetOwner, record,
          jobs, process, FlagTypes
<1>3. ASSUME NEW g \in Graphs, CancelWalking(g) PROVE FlagTypes'
  BY <1>3, <1>t, <1>o DEF CancelWalking, Usable, record, jobs, process, FlagTypes
<1>4. ASSUME NEW g \in Graphs, CancelParked(g) PROVE FlagTypes'
  BY <1>4, <1>t, <1>o DEF CancelParked, Usable, RetireGraph, SetOwner, Withdrawn,
          record, jobs, process, FlagTypes
<1>5. ASSUME NEW g \in Graphs, NEW n \in HumanNodes, HumanInput(g, n) PROVE FlagTypes'
  BY <1>5, <1>t, <1>o DEF HumanInput, MayAnswer, Usable, Provide, Wake, SetOwner,
          record, jobs, process, FlagTypes
<1>6. ASSUME NEW g \in Graphs, NEW n \in HumanNodes,
             HumanInputUnread(g, n)
      PROVE  FlagTypes'
  BY <1>6, <1>t, <1>o DEF HumanInputUnread, MayAnswer, Usable, Provide, Break,
          SetOwner, Withdrawn, record, jobs, process, FlagTypes
<1>7. ASSUME NEW g \in Graphs, StopItself(g) PROVE FlagTypes'
  BY <1>7, <1>t, <1>o DEF StopItself, record, jobs, process, FlagTypes
<1>8. ASSUME NEW g \in Graphs, ClaimGraph(g) PROVE FlagTypes'
  BY <1>8, <1>t, <1>o DEF ClaimGraph, SetOwner, record, jobs, process, FlagTypes
<1>9. ASSUME NEW g \in Graphs, Open(g) PROVE FlagTypes'
  BY <1>9, <1>t, <1>o DEF Open, WalkTo, record, jobs, process, FlagTypes
<1>10. ASSUME NEW g \in Graphs, OpenStopped(g) PROVE FlagTypes'
  BY <1>10, <1>t, <1>o DEF OpenStopped, WalkTo, RetireGraph, record, jobs, process,
          FlagTypes
<1>11. ASSUME NEW g \in Graphs, OpenUnavailable(g) PROVE FlagTypes'
  BY <1>11, <1>t, <1>o DEF OpenUnavailable, WalkTo, RetireGraph, record, jobs,
          process, FlagTypes
<1>12. ASSUME NEW g \in Graphs, WalkerFails(g) PROVE FlagTypes'
  BY <1>12, <1>t, <1>o DEF WalkerFails, WalkTo, record, jobs, process, FlagTypes
<1>13. ASSUME NEW g \in Graphs, Conclude(g) PROVE FlagTypes'
  BY <1>13, <1>t, <1>o DEF Conclude, WalkTo, RetireGraph, record, jobs, process,
          FlagTypes
<1>14. ASSUME NEW g \in Graphs, CompleteGraph(g) PROVE FlagTypes'
  BY <1>14, <1>t, <1>o DEF CompleteGraph, WalkTo, Going, record, jobs, process,
          FlagTypes
<1>15. ASSUME NEW g \in Graphs, ReturnPausedGraph(g) PROVE FlagTypes'
  BY <1>15, <1>t, <1>o DEF ReturnPausedGraph, WalkTo, Going, record, jobs, process,
          FlagTypes
<1>16. ASSUME NEW g \in Graphs, SuspendGraph(g) PROVE FlagTypes'
  BY <1>16, <1>t, <1>o DEF SuspendGraph, WalkTo, Going, record, jobs, process,
          FlagTypes
<1>17. ASSUME NEW g \in Graphs, NEW n \in GraphNodes,
             SettleLeaf(g, n)
      PROVE  FlagTypes'
  BY <1>17, <1>t, <1>o DEF SettleLeaf, record, jobs, process, FlagTypes
<1>18. ASSUME NEW g \in Graphs, NEW n \in GraphNodes, NEW s \in {"skipped", "waiting", "running"},
             MoveNode(g, n, s)
      PROVE  FlagTypes'
  BY <1>18, <1>t, <1>o DEF MoveNode, Going, record, jobs, process, FlagTypes
<1>19. ASSUME NEW g \in Graphs, SettleEnded(g) PROVE FlagTypes'
  BY <1>19, <1>t, <1>o DEF SettleEnded, Returned, WalkTo, Forget, SetOwner, record,
          jobs, process, FlagTypes
<1>20. ASSUME NEW g \in Graphs, SettleAnswered(g) PROVE FlagTypes'
  BY <1>20, <1>t, <1>o DEF SettleAnswered, Returned, WalkTo, Forget, RetireGraph,
          Wake, SetOwner, record, jobs, process, FlagTypes
<1>21. ASSUME NEW g \in Graphs, SettlePausedGraph(g) PROVE FlagTypes'
  BY <1>21, <1>t, <1>o DEF SettlePausedGraph, Returned, WalkTo, Forget, RetireGraph,
          Wake, SetOwner, record, jobs, process, FlagTypes
<1>22. ASSUME NEW g \in Graphs, SettleUnavailableGraph(g) PROVE FlagTypes'
  BY <1>22, <1>t, <1>o DEF SettleUnavailableGraph, WalkTo, Forget, RetireGraph,
          SetOwner, record, jobs, process, FlagTypes
<1>23. ASSUME NEW g \in Graphs, SettleFailed(g) PROVE FlagTypes'
  BY <1>23, <1>t, <1>o DEF SettleFailed, WalkTo, Break, SetOwner, Withdrawn, record,
          jobs, process, FlagTypes
<1>24. ASSUME NEW g \in Graphs, NEW n \in GraphNodes, LeafEnds(g, n) PROVE FlagTypes'
  BY <1>24, <1>t, <1>o DEF LeafEnds, record, jobs, process, FlagTypes
<1>25. ASSUME TakeTask PROVE FlagTypes'
  BY <1>25, <1>t, <1>o DEF TakeTask, record, jobs, process, FlagTypes
<1>26. ASSUME CloseGraphs PROVE FlagTypes'
  BY <1>26, <1>t, <1>o DEF CloseGraphs, Withdrawn, record, jobs, process, FlagTypes
<1>27. ASSUME JoinGraphs PROVE FlagTypes'
  BY <1>27, <1>t, <1>o DEF JoinGraphs, record, jobs, process, FlagTypes
<1>28. ASSUME RestartGraphs PROVE FlagTypes'
  <2>1. lives' \in 0..GraphRestarts
    BY <1>28, <1>t, GraphAssumption DEF RestartGraphs, FlagTypes
  <2>2. /\ userStop' = {} /\ halted' = {} /\ failing' = {} /\ admitting' = TRUE /\ broken' = FALSE
        /\ ending' \in {"open", "refused"} /\ declined' \subseteq Graphs
    BY <1>28 DEF RestartGraphs
  <2> QED BY <2>1, <2>2 DEF FlagTypes
<1>29. ASSUME UNCHANGED graphVars PROVE FlagTypes'
  BY <1>29, <1>t, <1>o DEF graphVars, record, jobs, process, FlagTypes
<1> QED BY <1>1, <1>2, <1>3, <1>4, <1>5, <1>6, <1>7, <1>8, <1>9, <1>10, <1>11, <1>12,
       <1>13, <1>14, <1>15, <1>16, <1>17, <1>18, <1>19, <1>20, <1>21, <1>22, <1>23,
       <1>24, <1>25, <1>26, <1>27, <1>28, <1>29, GraphCases

LEMMA GraphTypesStep ==
    ASSUME GraphTypes, [GraphNext]_graphVars PROVE GraphTypes'
BY QueueTypesStep, RecordTypesStep, PlaceTypesStep, FlagTypesStep DEF GraphTypes

--------------------------------------------------------------------------------
(* GraphService: what the coordinator sees *)

\* It sees the states of the nodes and the conditions of one graph.
LEMMA SameNodes ==
    ASSUME NEW g \in Graphs, nodeState'[g] = nodeState[g], unmet'[g] = unmet[g]
    PROVE  /\ \A states : NodesIn(g, states)' = NodesIn(g, states)
           /\ WaitingNodes(g)' = WaitingNodes(g) /\ OpenNodes(g)' = OpenNodes(g)
           /\ GraphHalted(g)' = GraphHalted(g) /\ CanGoOn(g)' = CanGoOn(g)
           /\ WaitingOnly(g)' = WaitingOnly(g) /\ Adoptable(g)' = Adoptable(g)
<1>1. /\ NodesIn(g, {"completed", "skipped"})' = NodesIn(g, {"completed", "skipped"})
      /\ NodesIn(g, {"skipped"})' = NodesIn(g, {"skipped"})
      /\ NodesIn(g, {"waiting"})' = NodesIn(g, {"waiting"})
      /\ NodesIn(g, {"failed", "cancelled"})' = NodesIn(g, {"failed", "cancelled"})
      /\ NodesIn(g, {"running", "succeeded", "broke"})' = NodesIn(g, {"running", "succeeded", "broke"})
  BY DEF NodesIn
<1>0. \A states : NodesIn(g, states)' = NodesIn(g, states)
  BY DEF NodesIn
<1>2. \A n \in GraphNodes : Eligible(g, n)' = Eligible(g, n) /\ Unwanted(g, n)' = Unwanted(g, n)
  BY <1>1 DEF Eligible, Unwanted
<1>3. GraphHalted(g)' = GraphHalted(g) /\ GraphFinished(g)' = GraphFinished(g)
  BY <1>1 DEF GraphHalted, GraphFinished
<1>4. ReadyNodes(g)' = ReadyNodes(g) /\ Skippable(g)' = Skippable(g)
  BY <1>2, <1>3 DEF ReadyNodes, Skippable
<1>5. WaitingNodes(g)' = WaitingNodes(g) /\ OpenNodes(g)' = OpenNodes(g)
  BY <1>1 DEF WaitingNodes, OpenNodes
<1>6. CanGoOn(g)' = CanGoOn(g)
  BY <1>3, <1>4 DEF CanGoOn
<1>7. WaitingOnly(g)' = WaitingOnly(g)
  BY <1>3, <1>5, <1>6 DEF WaitingOnly
<1>8. Adoptable(g)' = Adoptable(g)
  BY <1>3, <1>5, <1>6 DEF Adoptable
<1> QED BY <1>0, <1>3, <1>5, <1>6, <1>7, <1>8

\* A graph that waits for people, all of whose other nodes are done or depend on them,
\* has somebody to ask or something to do after each answer: plans have no cycles.
LEMMA AnswersLeaveAdoptable ==
    ASSUME RecordTypes, NEW g \in ContextGraphs, NEW n \in HumanNodes,
           Adoptable(g), nodeState[g][n] = "waiting",
           nodeState' = [nodeState EXCEPT ![g][n] = "completed"], unmet' = unmet
    PROVE  Adoptable(g)'
<1>1. g \in Graphs /\ n \in GraphNodes
  BY GraphAssumption
<1>2. /\ nodeState'[g][n] = "completed"
      /\ \A m \in GraphNodes \ {n} : nodeState'[g][m] = nodeState[g][m]
      /\ \A m \in GraphNodes : nodeState[g][m] \in NodeStates
  BY <1>1 DEF RecordTypes
<1>3. ~GraphHalted(g) /\ OpenNodes(g) = {}
  BY DEF Adoptable
<1>4. \A m \in GraphNodes : nodeState[g][m] \in {"pending", "waiting", "completed", "skipped"}
  BY <1>2, <1>3 DEF GraphHalted, OpenNodes, NodesIn, NodeStates
<1>5. \A m \in GraphNodes : nodeState'[g][m] \in {"pending", "waiting", "completed", "skipped"}
  BY <1>2, <1>4
<1>6. ~GraphHalted(g)' /\ OpenNodes(g)' = {}
  BY <1>5 DEF GraphHalted, OpenNodes, NodesIn
<1>7. CASE \E m \in GraphNodes : nodeState'[g][m] = "waiting"
  <2>1. WaitingNodes(g)' # {}
    BY <1>7 DEF WaitingNodes, NodesIn
  <2> QED BY <1>6, <2>1 DEF Adoptable
<1>8. CASE \A m \in GraphNodes : nodeState'[g][m] \in {"completed", "skipped"}
  <2>1. GraphFinished(g)'
    BY <1>8 DEF GraphFinished, NodesIn
  <2> QED BY <1>6, <2>1 DEF Adoptable, CanGoOn
<1>9. CASE /\ \A m \in GraphNodes : nodeState'[g][m] # "waiting"
           /\ \E m \in GraphNodes : nodeState'[g][m] \notin {"completed", "skipped"}
  <2> DEFINE N == {m \in GraphNodes : nodeState'[g][m] = "pending"}
  <2>1. N # {} /\ N \in SUBSET GraphNodes
    BY <1>5, <1>9
  <2>2. PICK m \in N : Needs[m] \cap N = {}
    BY <2>1, GraphAssumption
  <2>3. Needs[m] \subseteq GraphNodes
    BY <2>2, GraphAssumption
  <2>4. Needs[m] \subseteq NodesIn(g, {"completed", "skipped"})'
    BY <1>5, <1>9, <2>2, <2>3 DEF NodesIn
  <2>5. Eligible(g, m)'
    BY <2>2, <2>4 DEF Eligible
  <2>6. m \in ReadyNodes(g)' \/ m \in Skippable(g)'
    BY <1>6, <2>2, <2>5 DEF ReadyNodes, Skippable
  <2> QED BY <1>6, <2>6 DEF Adoptable, CanGoOn
<1> QED BY <1>5, <1>7, <1>8, <1>9


\* A committed pause stays one that can be adopted, whatever is done to it.
LEMMA PausesStep ==
    ASSUME GraphTypes, PausesCanBeAdopted, [GraphNext]_graphVars PROVE PausesCanBeAdopted'
<1> SUFFICES ASSUME NEW h \in Graphs, graph'[h] = "paused" PROVE Adoptable(h)'
  BY DEF PausesCanBeAdopted
<1>t. RecordTypes /\ graph \in [Graphs -> GraphStates]
      /\ nodeState \in [Graphs -> [GraphNodes -> NodeStates]]
  BY DEF GraphTypes, RecordTypes
<1>p. graph[h] = "paused" => Adoptable(h) /\ ~GraphHalted(h) /\ OpenNodes(h) = {}
  BY DEF PausesCanBeAdopted, Adoptable
<1>s. graph[h] = "paused" /\ nodeState'[h] = nodeState[h] /\ unmet' = unmet => Adoptable(h)'
  BY <1>p, SameNodes
<1>r. ASSUME NEW g \in Graphs, NEW s \in {"failed", "cancelled"}, RetireGraph(g, s)
      PROVE  Adoptable(h)'
  <2>1. h # g /\ graph[h] = "paused"
    BY <1>t, <1>r DEF RetireGraph
  <2>2. nodeState'[h] = nodeState[h] /\ unmet' = unmet
    BY <1>t, <1>r, <2>1 DEF RetireGraph, CancelPending
  <2> QED BY <1>s, <2>1, <2>2
<1>w. h \notin ContextGraphs /\ WaitingOnly(h)' => Adoptable(h)'
  BY DEF WaitingOnly, Adoptable
<1>m. ASSUME NEW g \in Graphs, NEW n \in GraphNodes, NEW s,
             nodeState' = [nodeState EXCEPT ![g][n] = s], unmet' = unmet,
             graph' = HumanPause(g),
             graph[g] # "paused" \/ nodeState[g][n] \in {"running", "succeeded", "broke"}
      PROVE  Adoptable(h)'
  <2>1. CASE h # g
    <3>1. nodeState'[h] = nodeState[h] /\ graph'[h] = graph[h]
      BY <1>t, <1>m, <2>1 DEF HumanPause
    <3> QED BY <1>m, <1>s, <3>1
  <2>2. CASE h = g
    <3>1. graph[g] # "paused"
      BY <1>m, <1>p, <2>2 DEF OpenNodes, NodesIn
    <3>2. g \notin ContextGraphs /\ WaitingOnly(g)'
      BY <1>t, <1>m, <2>2, <3>1 DEF HumanPause
    <3> QED BY <1>w, <2>2, <3>2
  <2> QED BY <2>1, <2>2
<1>a. ASSUME NEW g \in Graphs, NEW n \in HumanNodes, Provide(g, n) PROVE Adoptable(h)'
  <2>1. CASE h # g
    <3>1. nodeState'[h] = nodeState[h] /\ graph'[h] = graph[h] /\ unmet' = unmet
      BY <1>t, <1>a, <2>1 DEF Provide
    <3> QED BY <1>s, <3>1
  <2>2. CASE h = g /\ g \in ContextGraphs
    <3>1. graph[g] = "paused"
      BY <1>a, <2>2 DEF Provide
    <3> QED BY <1>t, <1>a, <1>p, <2>2, <3>1, AnswersLeaveAdoptable DEF Provide
  <2>3. CASE h = g /\ g \notin ContextGraphs
    <3>1. WaitingOnly(g)'
      BY <1>t, <1>a, <2>3 DEF Provide
    <3> QED BY <1>w, <2>3, <3>1
  <2> QED BY <2>1, <2>2, <2>3

<1>1. ASSUME NEW g \in Graphs, SubmitGraph(g) PROVE Adoptable(h)'
  BY <1>1, <1>t, <1>s DEF SubmitGraph, Usable, Wake, SetOwner, record, jobs, process
<1>2. ASSUME NEW g \in Graphs, ResumeGraph(g) PROVE Adoptable(h)'
  BY <1>2, <1>t, <1>s DEF ResumeGraph, MayAnswer, Usable, Wake, SetOwner, record,
          jobs, process
<1>3. ASSUME NEW g \in Graphs, CancelWalking(g) PROVE Adoptable(h)'
  BY <1>3, <1>t, <1>s DEF CancelWalking, Usable, record, jobs, process
<1>4. ASSUME NEW g \in Graphs, CancelParked(g) PROVE Adoptable(h)'
  BY <1>4, <1>r, <1>s DEF CancelParked, record
<1>5. ASSUME NEW g \in Graphs, NEW n \in HumanNodes,
             HumanInput(g, n)
      PROVE  Adoptable(h)'
  BY <1>5, <1>a DEF HumanInput
<1>6. ASSUME NEW g \in Graphs, NEW n \in HumanNodes,
             HumanInputUnread(g, n)
      PROVE  Adoptable(h)'
  BY <1>6, <1>a DEF HumanInputUnread
<1>7. ASSUME NEW g \in Graphs, StopItself(g) PROVE Adoptable(h)'
  BY <1>7, <1>t, <1>s DEF StopItself, record, jobs, process
<1>8. ASSUME NEW g \in Graphs, ClaimGraph(g) PROVE Adoptable(h)'
  BY <1>8, <1>t, <1>s DEF ClaimGraph, SetOwner, record, jobs, process
<1>9. ASSUME NEW g \in Graphs, Open(g) PROVE Adoptable(h)'
  BY <1>9, <1>t, <1>s DEF Open, WalkTo, record, jobs, process
<1>10. ASSUME NEW g \in Graphs, OpenStopped(g) PROVE Adoptable(h)'
  BY <1>10, <1>r, <1>s DEF OpenStopped, record, WalkTo
<1>11. ASSUME NEW g \in Graphs, OpenUnavailable(g) PROVE Adoptable(h)'
  BY <1>11, <1>r, <1>s DEF OpenUnavailable, record, WalkTo
<1>12. ASSUME NEW g \in Graphs, WalkerFails(g) PROVE Adoptable(h)'
  BY <1>12, <1>t, <1>s DEF WalkerFails, WalkTo, record, jobs, process
<1>13. ASSUME NEW g \in Graphs, Conclude(g) PROVE Adoptable(h)'
  BY <1>13, <1>r, <1>s DEF Conclude, record, WalkTo
<1>14. ASSUME NEW g \in Graphs, CompleteGraph(g) PROVE Adoptable(h)'
  BY <1>14, <1>t, <1>s DEF CompleteGraph, WalkTo, Going, record, jobs, process
<1>15. ASSUME NEW g \in Graphs, ReturnPausedGraph(g) PROVE Adoptable(h)'
  BY <1>15, <1>t, <1>s DEF ReturnPausedGraph, WalkTo, Going, record, jobs, process
<1>16. ASSUME NEW g \in Graphs, SuspendGraph(g) PROVE Adoptable(h)'
  <2>1. nodeState' = nodeState /\ unmet' = unmet /\ WaitingOnly(g) /\ g \in ContextGraphs
    BY <1>16 DEF SuspendGraph
  <2>2. CASE h = g
    <3>1. Adoptable(g)
      BY <2>1 DEF WaitingOnly, Adoptable
    <3> QED BY <2>1, <2>2, <3>1, SameNodes
  <2>3. CASE h # g
    BY <1>16, <1>t, <1>s, <2>1, <2>3 DEF SuspendGraph
  <2> QED BY <2>2, <2>3
<1>17. ASSUME NEW g \in Graphs, NEW n \in GraphNodes,
             SettleLeaf(g, n)
      PROVE  Adoptable(h)'
  BY <1>17, <1>m DEF SettleLeaf
<1>18. ASSUME NEW g \in Graphs, NEW n \in GraphNodes, NEW s \in {"skipped", "waiting", "running"},
             MoveNode(g, n, s)
      PROVE  Adoptable(h)'
  <2>1. graph[g] # "paused"
    BY <1>18 DEF MoveNode
  <2> QED BY <1>18, <1>m, <2>1 DEF MoveNode
<1>19. ASSUME NEW g \in Graphs, SettleEnded(g) PROVE Adoptable(h)'
  BY <1>19, <1>t, <1>s DEF SettleEnded, Returned, WalkTo, Forget, SetOwner, record,
          jobs, process
<1>20. ASSUME NEW g \in Graphs, SettleAnswered(g) PROVE Adoptable(h)'
  BY <1>20, <1>r, <1>s DEF SettleAnswered, record, Returned, WalkTo
<1>21. ASSUME NEW g \in Graphs, SettlePausedGraph(g) PROVE Adoptable(h)'
  BY <1>21, <1>r, <1>s DEF SettlePausedGraph, record, Returned, WalkTo
<1>22. ASSUME NEW g \in Graphs, SettleUnavailableGraph(g) PROVE Adoptable(h)'
  BY <1>22, <1>r, <1>s DEF SettleUnavailableGraph, record, WalkTo
<1>23. ASSUME NEW g \in Graphs, SettleFailed(g) PROVE Adoptable(h)'
  BY <1>23, <1>t, <1>s DEF SettleFailed, WalkTo, Break, SetOwner, Withdrawn, record,
          jobs, process
<1>24. ASSUME NEW g \in Graphs, NEW n \in GraphNodes,
             LeafEnds(g, n)
      PROVE  Adoptable(h)'
  <2>1. PICK s : nodeState' = [nodeState EXCEPT ![g][n] = s]
    BY <1>24 DEF LeafEnds
  <2>2. graph' = graph /\ unmet' = unmet /\ nodeState[g][n] = "running"
    BY <1>24 DEF LeafEnds
  <2>3. h # g
    BY <1>p, <2>2 DEF OpenNodes, NodesIn
  <2>4. nodeState'[h] = nodeState[h]
    BY <1>t, <2>1, <2>3
  <2> QED BY <1>s, <2>2, <2>4
<1>25. ASSUME TakeTask PROVE Adoptable(h)'
  BY <1>25, <1>t, <1>s DEF TakeTask, record, jobs, process
<1>26. ASSUME CloseGraphs PROVE Adoptable(h)'
  <2>1. graph[h] = "paused" /\ nodeState'[h] = nodeState[h] /\ unmet' = unmet
    BY <1>26 DEF CloseGraphs
  <2> QED BY <1>s, <2>1
<1>27. ASSUME JoinGraphs PROVE Adoptable(h)'
  BY <1>27, <1>t, <1>s DEF JoinGraphs, record, jobs, process
<1>28. ASSUME RestartGraphs PROVE Adoptable(h)'
  <2>1. graph[h] = "paused" /\ nodeState' = nodeState /\ unmet' = unmet
    BY <1>28 DEF RestartGraphs
  <2> QED BY <1>s, <2>1
<1>29. ASSUME UNCHANGED graphVars PROVE Adoptable(h)'
  BY <1>29, <1>t, <1>s DEF graphVars, record, jobs, process
<1> QED BY <1>1, <1>2, <1>3, <1>4, <1>5, <1>6, <1>7, <1>8, <1>9, <1>10, <1>11, <1>12,
       <1>13, <1>14, <1>15, <1>16, <1>17, <1>18, <1>19, <1>20, <1>21, <1>22, <1>23,
       <1>24, <1>25, <1>26, <1>27, <1>28, <1>29, GraphCases

--------------------------------------------------------------------------------
(* GraphService: the table, the queues and the workers *)

\* Where a graph of the table is: a queued one has its two entries as long as the service
\* admits work, a walked one has none, and an entry is never of a walked graph.
Placed(g) ==
    /\ graph[g] = "absent" => owner[g] = "none"
    /\ g \in Queued => owner[g] \in {"queued", "waiting", "faulted"}
    /\ g \in Queued /\ g \notin ContextGraphs => graph[g] # "paused"
    /\ admitting => owner[g] # "faulted"
    /\ admitting /\ owner[g] = "queued" => g \in Queued /\ ticketOf[g] \in {"ready", "taken"}
    /\ walker[g] # "none" => owner[g] = "working" /\ ticketOf[g] = "none"
    /\ ending = "open" /\ graph[g] \in {"queued", "running", "paused"} => owner[g] # "none"

GraphPlaces == \A g \in Graphs : Placed(g)

LEMMA PlacesOfGraphsStep ==
    ASSUME GraphTypes, GraphPlaces, [GraphNext]_graphVars PROVE GraphPlaces'
<1> SUFFICES ASSUME NEW h \in Graphs PROVE Placed(h)'
  BY DEF GraphPlaces
<1>t. /\ graph \in [Graphs -> GraphStates] /\ wakes \in Seq(Graphs)
      /\ owner \in [Graphs -> {"none", "queued", "working", "waiting", "faulted"}]
      /\ ticketOf \in [Graphs -> {"none", "staged", "ready", "taken"}]
      /\ walker \in [Graphs -> {"none", "claimed", "walking", "returned", "unavailable",
                                "failing"}]
  BY DEF GraphTypes, RecordTypes, QueueTypes, PlaceTypes
<1>h. Placed(h)
  BY DEF GraphPlaces
<1>q. /\ wakes' = wakes => Queued' = Queued
      /\ wakes' = <<>> => Queued' = {}
      /\ \A g \in Graphs : wakes' = Append(wakes, g) => Queued' = Queued \cup {g}
      /\ \A J : wakes' = Without(wakes, J) => Queued' = Queued \ J
  BY <1>t, QueuedAfter
<1>p. ASSUME NEW g \in Graphs, graph' = HumanPause(g)
      PROVE  graph'[h] = graph[h] \/ (h = g /\ graph[h] = "running" /\ graph'[h] = "paused")
  BY <1>t, <1>p DEF HumanPause
<1>a. ASSUME NEW g \in Graphs, NEW n \in HumanNodes, Provide(g, n)
      PROVE  graph'[h] = graph[h] \/ (h = g /\ graph[h] = "paused" /\ graph'[h] = "running")
  BY <1>t, <1>a DEF Provide

<1>1. ASSUME NEW g \in Graphs, SubmitGraph(g) PROVE Placed(h)'
  BY <1>1, <1>t, <1>h, <1>q DEF SubmitGraph, Usable, Wake, SetOwner, record, jobs,
          process, Placed
<1>2. ASSUME NEW g \in Graphs, ResumeGraph(g) PROVE Placed(h)'
  BY <1>2, <1>t, <1>h, <1>q DEF ResumeGraph, MayAnswer, Usable, Wake, SetOwner,
          record, jobs, process, Placed
<1>3. ASSUME NEW g \in Graphs, CancelWalking(g) PROVE Placed(h)'
  BY <1>3, <1>t, <1>h, <1>q DEF CancelWalking, Usable, record, jobs, process, Placed
<1>4. ASSUME NEW g \in Graphs, CancelParked(g) PROVE Placed(h)'
  BY <1>4, <1>t, <1>h, <1>q DEF CancelParked, Usable, RetireGraph, SetOwner,
          Withdrawn, record, jobs, process, Placed
<1>5. ASSUME NEW g \in Graphs, NEW n \in HumanNodes, HumanInput(g, n) PROVE Placed(h)'
  <2>0. graph'[h] = graph[h] \/ (h = g /\ graph[h] = "paused" /\ graph'[h] = "running")
    BY <1>5, <1>a DEF HumanInput
  <2>1. /\ owner[g] # "none" /\ admitting /\ h = g => walker[h] = "none" \/ owner[g] = "working"
        /\ walker' = walker /\ admitting' = admitting /\ ending' = ending
    BY <1>5, <1>h DEF HumanInput, MayAnswer, Usable, process, Placed
  <2>2. CASE owner[g] = "waiting" /\ Answerable(g)
    <3>1. Wake(g) /\ (g \in ContextGraphs \/ graph'[g] = "running")
      BY <1>5, <2>2 DEF HumanInput, Answerable
    <3>2. CASE h = g
      BY <1>t, <1>h, <1>q, <2>0, <2>1, <2>2, <3>1, <3>2 DEF Wake, SetOwner, Placed
    <3>3. CASE h # g
      BY <1>t, <1>h, <1>q, <2>0, <2>1, <3>1, <3>3 DEF Wake, SetOwner, Placed
    <3> QED BY <3>2, <3>3
  <2>3. CASE ~(owner[g] = "waiting" /\ Answerable(g))
    BY <1>5, <1>h, <1>q, <2>0, <2>1, <2>3 DEF HumanInput, jobs, Placed
  <2> QED BY <2>2, <2>3
<1>6. ASSUME NEW g \in Graphs, NEW n \in HumanNodes,
             HumanInputUnread(g, n)
      PROVE  Placed(h)'
  <2>0. /\ graph'[h] = graph[h] \/ (h = g /\ graph[h] = "paused" /\ graph'[h] = "running")
        /\ g \in ContextGraphs /\ owner[g] = "waiting" /\ walker' = walker
        /\ wakes' = Append(wakes, g)
    BY <1>6, <1>a DEF HumanInputUnread
  <2>1. Queued' = Queued \cup {g}
    BY <1>q, <2>0
  <2>2. CASE n \in NestedNodes
    BY <1>6, <1>t, <1>h, <2>0, <2>1, <2>2 DEF HumanInputUnread, process, Placed
  <2>3. CASE n \notin NestedNodes
    <3>1. SetOwner(g, "faulted") /\ Break
      BY <1>6, <2>3 DEF HumanInputUnread
    <3> QED BY <1>t, <1>h, <2>0, <2>1, <3>1 DEF SetOwner, Break, Withdrawn, Placed
  <2> QED BY <2>2, <2>3
<1>7. ASSUME NEW g \in Graphs, StopItself(g) PROVE Placed(h)'
  BY <1>7, <1>t, <1>h, <1>q DEF StopItself, record, jobs, process, Placed
<1>8. ASSUME NEW g \in Graphs, ClaimGraph(g) PROVE Placed(h)'
  BY <1>8, <1>t, <1>h, <1>q DEF ClaimGraph, SetOwner, record, jobs, process, Placed
<1>9. ASSUME NEW g \in Graphs, Open(g) PROVE Placed(h)'
  BY <1>9, <1>t, <1>h, <1>q DEF Open, WalkTo, record, jobs, process, Placed
<1>10. ASSUME NEW g \in Graphs, OpenStopped(g) PROVE Placed(h)'
  BY <1>10, <1>t, <1>h, <1>q DEF OpenStopped, WalkTo, RetireGraph, record, jobs,
          process, Placed
<1>11. ASSUME NEW g \in Graphs, OpenUnavailable(g) PROVE Placed(h)'
  BY <1>11, <1>t, <1>h, <1>q DEF OpenUnavailable, WalkTo, RetireGraph, record, jobs,
          process, Placed
<1>12. ASSUME NEW g \in Graphs, WalkerFails(g) PROVE Placed(h)'
  BY <1>12, <1>t, <1>h, <1>q DEF WalkerFails, WalkTo, record, jobs, process, Placed
<1>13. ASSUME NEW g \in Graphs, Conclude(g) PROVE Placed(h)'
  BY <1>13, <1>t, <1>h, <1>q DEF Conclude, WalkTo, RetireGraph, record, jobs, process,
          Placed
<1>14. ASSUME NEW g \in Graphs, CompleteGraph(g) PROVE Placed(h)'
  BY <1>14, <1>t, <1>h, <1>q DEF CompleteGraph, WalkTo, Going, record, jobs, process,
          Placed
<1>15. ASSUME NEW g \in Graphs, ReturnPausedGraph(g) PROVE Placed(h)'
  BY <1>15, <1>t, <1>h, <1>q DEF ReturnPausedGraph, WalkTo, Going, record, jobs,
          process, Placed
<1>16. ASSUME NEW g \in Graphs, SuspendGraph(g) PROVE Placed(h)'
  BY <1>16, <1>t, <1>h, <1>q DEF SuspendGraph, WalkTo, Going, record, jobs, process,
          Placed
<1>17. ASSUME NEW g \in Graphs, NEW n \in GraphNodes,
             SettleLeaf(g, n)
      PROVE  Placed(h)'
  BY <1>17, <1>t, <1>h, <1>q, <1>p DEF SettleLeaf, record, jobs, process, Placed
<1>18. ASSUME NEW g \in Graphs, NEW n \in GraphNodes, NEW s \in {"skipped", "waiting", "running"},
             MoveNode(g, n, s)
      PROVE  Placed(h)'
  BY <1>18, <1>t, <1>h, <1>q, <1>p DEF MoveNode, Going, record, jobs, process, Placed
<1>19. ASSUME NEW g \in Graphs, SettleEnded(g) PROVE Placed(h)'
  BY <1>19, <1>t, <1>h, <1>q, <1>p DEF SettleEnded, Returned, WalkTo, Forget, SetOwner,
          GraphEnded, record, jobs, process, Placed
<1>20. ASSUME NEW g \in Graphs, SettleAnswered(g) PROVE Placed(h)'
  BY <1>20, <1>t, <1>h, <1>q DEF SettleAnswered, Returned, WalkTo, Forget,
          RetireGraph, Wake, SetOwner, record, jobs, process, Placed
<1>21. ASSUME NEW g \in Graphs, SettlePausedGraph(g) PROVE Placed(h)'
  BY <1>21, <1>t, <1>h, <1>q DEF SettlePausedGraph, Returned, WalkTo, Forget,
          RetireGraph, Wake, SetOwner, record, jobs, process, Placed
<1>22. ASSUME NEW g \in Graphs, SettleUnavailableGraph(g) PROVE Placed(h)'
  BY <1>22, <1>t, <1>h, <1>q DEF SettleUnavailableGraph, WalkTo, Forget, RetireGraph,
          SetOwner, record, jobs, process, Placed
<1>23. ASSUME NEW g \in Graphs, SettleFailed(g) PROVE Placed(h)'
  BY <1>23, <1>t, <1>h, <1>q DEF SettleFailed, WalkTo, Break, SetOwner, Withdrawn,
          record, jobs, process, Placed
<1>24. ASSUME NEW g \in Graphs, NEW n \in GraphNodes, LeafEnds(g, n) PROVE Placed(h)'
  BY <1>24, <1>t, <1>h, <1>q DEF LeafEnds, record, jobs, process, Placed
<1>25. ASSUME TakeTask PROVE Placed(h)'
  BY <1>25, <1>t, <1>h, <1>q DEF TakeTask, record, jobs, process, Placed
<1>26. ASSUME CloseGraphs PROVE Placed(h)'
  <2>1. /\ Queued' = {} /\ ~admitting' /\ ending' # "open" /\ walker' = walker
        /\ ticketOf'[h] # ticketOf[h] => ticketOf'[h] = "none" /\ ticketOf[h] # "taken"
    BY <1>26, <1>t, <1>q DEF CloseGraphs, Withdrawn
  <2>2. CASE h \notin Queued
    <3>1. owner'[h] = owner[h] /\ graph'[h] = graph[h]
      BY <1>26, <2>2 DEF CloseGraphs, KeptByClose
    <3> QED BY <1>h, <2>1, <2>2, <3>1 DEF Placed
  <2>3. CASE h \in Queued /\ h \notin KeptByClose /\ graph[h] \notin GraphEnded
    <3>1. owner'[h] = "none" /\ graph'[h] = "cancelled"
      BY <1>26, <2>3 DEF CloseGraphs
    <3> QED BY <1>h, <2>1, <2>3, <3>1 DEF Placed
  <2>4. CASE h \in Queued /\ (h \in KeptByClose \/ graph[h] \in GraphEnded)
    <3>1. owner'[h] # "none" /\ graph'[h] = graph[h]
      BY <1>26, <2>4 DEF CloseGraphs, KeptByClose
    <3> QED BY <1>h, <2>1, <2>4, <3>1 DEF Placed, KeptByClose, GraphEnded
  <2> QED BY <2>2, <2>3, <2>4
<1>27. ASSUME JoinGraphs PROVE Placed(h)'
  BY <1>27, <1>t, <1>h, <1>q DEF JoinGraphs, record, jobs, process, Placed
<1>28. ASSUME RestartGraphs PROVE Placed(h)'
  BY <1>28, <1>t, <1>h, <1>q DEF RestartGraphs, record, jobs, process, Placed
<1>29. ASSUME UNCHANGED graphVars PROVE Placed(h)'
  BY <1>29, <1>t, <1>h, <1>q DEF graphVars, record, jobs, process, Placed
<1> QED BY <1>1, <1>2, <1>3, <1>4, <1>5, <1>6, <1>7, <1>8, <1>9, <1>10, <1>11, <1>12,
       <1>13, <1>14, <1>15, <1>16, <1>17, <1>18, <1>19, <1>20, <1>21, <1>22, <1>23,
       <1>24, <1>25, <1>26, <1>27, <1>28, <1>29, GraphCases

\* Each graph has one entry, and is queued: unless an answer to a nested node leaves
\* the entry it reserved.
QueuedOnce ==
    /\ IsInjective(wakes)
    /\ \A g \in Queued : owner[g] \in {"queued", "faulted"}

LEMMA QueuedOnceStep ==
    ASSUME NestedNodes = {}, GraphTypes, GraphPlaces, QueuedOnce, [GraphNext]_graphVars
    PROVE  QueuedOnce'
<1>t. /\ wakes \in Seq(Graphs)
      /\ owner \in [Graphs -> {"none", "queued", "working", "waiting", "faulted"}]
  BY DEF GraphTypes, QueueTypes, PlaceTypes
<1>h. \A g \in Graphs : walker[g] # "none" => owner[g] = "working"
  BY DEF GraphPlaces, Placed
<1>a. \A g \in Graphs : graph[g] = "absent" => owner[g] = "none"
  BY DEF GraphPlaces, Placed
<1>i. /\ IsInjective(wakes) /\ Queued \subseteq Graphs
      /\ \A g \in Queued : owner[g] \in {"queued", "faulted"}
  BY <1>t, QueuedAfter DEF QueuedOnce
<1>q. /\ wakes' = wakes => Queued' = Queued
      /\ wakes' = <<>> => Queued' = {} /\ IsInjective(wakes')
      /\ \A g \in Graphs : wakes' = Append(wakes, g) =>
           Queued' = Queued \cup {g} /\ (g \notin Queued => IsInjective(wakes'))
      /\ \A J : wakes' = Without(wakes, J) => Queued' = Queued \ J /\ IsInjective(wakes')
  BY <1>t, <1>i, QueuedAfter
<1>k. wakes' = wakes /\ (\A g \in Queued : owner'[g] = owner[g]) => QueuedOnce'
  BY <1>i, <1>q DEF QueuedOnce
<1>w. ASSUME NEW g \in Graphs, wakes' = Append(wakes, g),
             owner[g] \in {"none", "working", "waiting"},
             SetOwner(g, "queued") \/ SetOwner(g, "faulted")
      PROVE  QueuedOnce'
  BY <1>t, <1>i, <1>q, <1>w DEF QueuedOnce, SetOwner
<1>o. ASSUME NEW g \in Graphs, NEW phase, wakes' = Without(wakes, {g}), SetOwner(g, phase)
      PROVE  QueuedOnce'
  <2>1. Queued' = Queued \ {g} /\ IsInjective(wakes')
    BY <1>q, <1>o
  <2>2. \A f \in Queued \ {g} : owner'[f] = owner[f]
    BY <1>t, <1>i, <1>o DEF SetOwner
  <2> QED BY <1>i, <2>1, <2>2 DEF QueuedOnce
<1>f. ASSUME NEW g \in Graphs, NEW phase, wakes' = wakes, SetOwner(g, phase),
             owner[g] = "working"
      PROVE  QueuedOnce'
  BY <1>t, <1>i, <1>k, <1>f DEF SetOwner

<1>1. ASSUME NEW g \in Graphs, SubmitGraph(g) PROVE QueuedOnce'
  BY <1>1, <1>a, <1>w DEF SubmitGraph, Wake
<1>2. ASSUME NEW g \in Graphs, ResumeGraph(g) PROVE QueuedOnce'
  BY <1>2, <1>w DEF ResumeGraph, Wake
<1>3. ASSUME NEW g \in Graphs, CancelWalking(g) PROVE QueuedOnce'
  BY <1>3, <1>k DEF CancelWalking, jobs
<1>4. ASSUME NEW g \in Graphs, CancelParked(g) PROVE QueuedOnce'
  BY <1>4, <1>o DEF CancelParked
<1>5. ASSUME NEW g \in Graphs, NEW n \in HumanNodes,
             HumanInput(g, n)
      PROVE  QueuedOnce'
  BY <1>5, <1>k, <1>w DEF HumanInput, Wake, jobs
<1>6. ASSUME NEW g \in Graphs, NEW n \in HumanNodes,
             HumanInputUnread(g, n)
      PROVE  QueuedOnce'
  BY <1>6, <1>w DEF HumanInputUnread
<1>7. ASSUME NEW g \in Graphs, StopItself(g) PROVE QueuedOnce'
  BY <1>7, <1>k DEF StopItself, jobs
<1>8. ASSUME NEW g \in Graphs, ClaimGraph(g) PROVE QueuedOnce'
  BY <1>8, <1>k, <1>o DEF ClaimGraph
<1>9. ASSUME NEW g \in Graphs, Open(g) PROVE QueuedOnce'
  BY <1>9, <1>k DEF Open, jobs
<1>10. ASSUME NEW g \in Graphs, OpenStopped(g) PROVE QueuedOnce'
  BY <1>10, <1>k DEF OpenStopped, jobs
<1>11. ASSUME NEW g \in Graphs, OpenUnavailable(g) PROVE QueuedOnce'
  BY <1>11, <1>k DEF OpenUnavailable, jobs
<1>12. ASSUME NEW g \in Graphs, WalkerFails(g) PROVE QueuedOnce'
  BY <1>12, <1>k DEF WalkerFails, jobs
<1>13. ASSUME NEW g \in Graphs, Conclude(g) PROVE QueuedOnce'
  BY <1>13, <1>k DEF Conclude, jobs
<1>14. ASSUME NEW g \in Graphs, CompleteGraph(g) PROVE QueuedOnce'
  BY <1>14, <1>k DEF CompleteGraph, jobs
<1>15. ASSUME NEW g \in Graphs, ReturnPausedGraph(g) PROVE QueuedOnce'
  BY <1>15, <1>k DEF ReturnPausedGraph, jobs
<1>16. ASSUME NEW g \in Graphs, SuspendGraph(g) PROVE QueuedOnce'
  BY <1>16, <1>k DEF SuspendGraph, jobs
<1>17. ASSUME NEW g \in Graphs, NEW n \in GraphNodes,
             SettleLeaf(g, n)
      PROVE  QueuedOnce'
  BY <1>17, <1>k DEF SettleLeaf, jobs
<1>18. ASSUME NEW g \in Graphs, NEW n \in GraphNodes, NEW s \in {"skipped", "waiting", "running"},
             MoveNode(g, n, s)
      PROVE  QueuedOnce'
  BY <1>18, <1>k DEF MoveNode, jobs
<1>19. ASSUME NEW g \in Graphs, SettleEnded(g) PROVE QueuedOnce'
  BY <1>19, <1>h, <1>f DEF SettleEnded, Returned, Forget
<1>20. ASSUME NEW g \in Graphs, SettleAnswered(g) PROVE QueuedOnce'
  BY <1>20, <1>h, <1>w, <1>f DEF SettleAnswered, Returned, Forget, Wake
<1>21. ASSUME NEW g \in Graphs, SettlePausedGraph(g) PROVE QueuedOnce'
  BY <1>21, <1>h, <1>w, <1>f DEF SettlePausedGraph, Returned, Forget, Wake
<1>22. ASSUME NEW g \in Graphs, SettleUnavailableGraph(g) PROVE QueuedOnce'
  BY <1>22, <1>h, <1>f DEF SettleUnavailableGraph, Forget
<1>23. ASSUME NEW g \in Graphs, SettleFailed(g) PROVE QueuedOnce'
  BY <1>23, <1>h, <1>f DEF SettleFailed
<1>24. ASSUME NEW g \in Graphs, NEW n \in GraphNodes, LeafEnds(g, n) PROVE QueuedOnce'
  BY <1>24, <1>k DEF LeafEnds, jobs
<1>25. ASSUME TakeTask PROVE QueuedOnce'
  BY <1>25, <1>k DEF TakeTask, jobs
<1>26. ASSUME CloseGraphs PROVE QueuedOnce'
  BY <1>26, <1>q DEF CloseGraphs, QueuedOnce
<1>27. ASSUME JoinGraphs PROVE QueuedOnce'
  BY <1>27, <1>k DEF JoinGraphs, jobs
<1>28. ASSUME RestartGraphs PROVE QueuedOnce'
  BY <1>28, <1>q DEF RestartGraphs, QueuedOnce
<1>29. ASSUME UNCHANGED graphVars PROVE QueuedOnce'
  BY <1>29, <1>k DEF graphVars, record, jobs, process
<1> QED BY <1>1, <1>2, <1>3, <1>4, <1>5, <1>6, <1>7, <1>8, <1>9, <1>10, <1>11, <1>12,
       <1>13, <1>14, <1>15, <1>16, <1>17, <1>18, <1>19, <1>20, <1>21, <1>22, <1>23,
       <1>24, <1>25, <1>26, <1>27, <1>28, <1>29, GraphCases

\* A leaf that ends changes nothing that a paused graph could go on with.
LEMMA LeafEndsKeeps ==
    ASSUME GraphTypes, NEW g \in Graphs, NEW n \in GraphNodes, LeafEnds(g, n),
           NEW h \in Graphs
    PROVE  CanGoOn(h)' = CanGoOn(h)
<1>1. nodeState \in [Graphs -> [GraphNodes -> NodeStates]] /\ unmet' = unmet
  BY DEF GraphTypes, RecordTypes, LeafEnds
<1>2. CASE h # g
  <2>1. nodeState'[h] = nodeState[h]
    BY <1>1, <1>2 DEF LeafEnds
  <2> QED BY <1>1, <2>1, SameNodes
<1>3. CASE h = g
  <2>1. /\ nodeState[g][n] = "running" /\ nodeState'[g][n] \in {"succeeded", "broke"}
        /\ \A m \in GraphNodes \ {n} : nodeState'[g][m] = nodeState[g][m]
    BY <1>1 DEF LeafEnds
  <2>2. /\ NodesIn(g, {"completed", "skipped"})' = NodesIn(g, {"completed", "skipped"})
        /\ NodesIn(g, {"skipped"})' = NodesIn(g, {"skipped"})
        /\ NodesIn(g, {"failed", "cancelled"})' = NodesIn(g, {"failed", "cancelled"})
    BY <2>1 DEF NodesIn
  <2>3. \A m \in GraphNodes : /\ Eligible(g, m)' = Eligible(g, m)
                              /\ Unwanted(g, m)' = Unwanted(g, m)
    BY <1>1, <2>1, <2>2 DEF Eligible, Unwanted
  <2>4. GraphHalted(g)' = GraphHalted(g) /\ GraphFinished(g)' = GraphFinished(g)
    BY <2>2 DEF GraphHalted, GraphFinished
  <2>5. ReadyNodes(g)' = ReadyNodes(g) /\ Skippable(g)' = Skippable(g)
    BY <2>3, <2>4 DEF ReadyNodes, Skippable
  <2> QED BY <1>3, <2>4, <2>5 DEF CanGoOn
<1> QED BY <1>2, <1>3

LEMMA AnsweredStep ==
    ASSUME NestedNodes = {}, GraphTypes, GraphPlaces, PausesCanBeAdopted,
           AnsweredGraphIsWoken, [GraphNext]_graphVars
    PROVE  AnsweredGraphIsWoken'
<1> SUFFICES ASSUME NEW h \in Graphs, admitting', owner'[h] = "waiting", CanGoOn(h)'
             PROVE  h \in declined' \cup halted'
  BY DEF AnsweredGraphIsWoken
<1>t. /\ nodeState \in [Graphs -> [GraphNodes -> NodeStates]]
      /\ owner \in [Graphs -> {"none", "queued", "working", "waiting", "faulted"}]
      /\ graph \in [Graphs -> GraphStates] /\ HumanNodes \subseteq GraphNodes
  BY GraphAssumption DEF GraphTypes, RecordTypes, PlaceTypes
<1>h. \A g \in Graphs : walker[g] # "none" => owner[g] = "working"
  BY DEF GraphPlaces, Placed
<1>a. admitting /\ owner[h] = "waiting" /\ CanGoOn(h) => h \in declined \cup halted
  BY DEF AnsweredGraphIsWoken
<1>s. nodeState'[h] = nodeState[h] /\ unmet' = unmet => CanGoOn(h)
  BY SameNodes
<1>r. ASSUME NEW g \in Graphs, NEW s, RetireGraph(g, s), h # g
      PROVE  CanGoOn(h)
  <2>1. nodeState'[h] = nodeState[h] /\ unmet' = unmet
    BY <1>t, <1>r DEF RetireGraph, CancelPending
  <2> QED BY <1>s, <2>1
<1>n. \A g \in Graphs, n \in GraphNodes : h # g =>
        \A s : [nodeState EXCEPT ![g][n] = s][h] = nodeState[h]
  BY <1>t
<1>p. graph[h] = "paused" /\ h \notin ContextGraphs => ~CanGoOn(h)
  BY DEF PausesCanBeAdopted, Adoptable

<1>1. ASSUME NEW g \in Graphs, SubmitGraph(g) PROVE h \in declined' \cup halted'
  BY <1>1, <1>t, <1>h, <1>a, <1>s DEF SubmitGraph, Usable, Wake, SetOwner, record,
          jobs, process
<1>2. ASSUME NEW g \in Graphs, ResumeGraph(g) PROVE h \in declined' \cup halted'
  BY <1>2, <1>t, <1>h, <1>a, <1>s DEF ResumeGraph, MayAnswer, Usable, Wake, SetOwner,
          record, jobs, process
<1>3. ASSUME NEW g \in Graphs, CancelWalking(g) PROVE h \in declined' \cup halted'
  BY <1>3, <1>t, <1>h, <1>a, <1>s DEF CancelWalking, Usable, record, jobs, process
<1>4. ASSUME NEW g \in Graphs, CancelParked(g) PROVE h \in declined' \cup halted'
  BY <1>4, <1>t, <1>h, <1>a, <1>s, <1>r DEF CancelParked, Usable, SetOwner, Withdrawn,
          record, jobs, process
<1>5. ASSUME NEW g \in Graphs, NEW n \in HumanNodes,
             HumanInput(g, n)
      PROVE  h \in declined' \cup halted'
  <2>0. Provide(g, n) /\ UNCHANGED <<declined, halted, admitting>> /\ unmet' = unmet
    BY <1>5 DEF HumanInput, Provide, process
  <2>1. CASE h # g
    <3>1. owner'[h] = owner[h] /\ nodeState'[h] = nodeState[h]
      BY <1>5, <1>t, <1>n, <2>1 DEF HumanInput, Wake, SetOwner, jobs, Provide
    <3> QED BY <1>a, <1>s, <2>0, <3>1
  <2>2. CASE h = g
    <3>1. owner[g] = "waiting" /\ ~Answerable(g)
      BY <1>5, <1>t, <2>2 DEF HumanInput, Wake, SetOwner, jobs
    <3>2. g \notin ContextGraphs /\ graph'[g] # "running"
      BY <2>2, <3>1 DEF Answerable
    <3>3. WaitingOnly(g)'
      BY <1>t, <2>0, <3>2 DEF Provide
    <3> QED BY <2>2, <3>3 DEF WaitingOnly
  <2> QED BY <2>1, <2>2
<1>6. ASSUME NEW g \in Graphs, NEW n \in HumanNodes,
             HumanInputUnread(g, n)
      PROVE  h \in declined' \cup halted'
  <2>1. owner'[g] = "faulted" /\ ~admitting'
    BY <1>6, <1>t DEF HumanInputUnread, SetOwner, Break
  <2> QED BY <2>1
<1>7. ASSUME NEW g \in Graphs, StopItself(g) PROVE h \in declined' \cup halted'
  BY <1>7, <1>t, <1>h, <1>a, <1>s DEF StopItself, record, jobs, process
<1>8. ASSUME NEW g \in Graphs, ClaimGraph(g) PROVE h \in declined' \cup halted'
  BY <1>8, <1>t, <1>h, <1>a, <1>s DEF ClaimGraph, SetOwner, record, jobs, process
<1>9. ASSUME NEW g \in Graphs, Open(g) PROVE h \in declined' \cup halted'
  BY <1>9, <1>t, <1>h, <1>a, <1>s DEF Open, WalkTo, record, jobs, process
<1>10. ASSUME NEW g \in Graphs, OpenStopped(g) PROVE h \in declined' \cup halted'
  BY <1>10, <1>t, <1>h, <1>a, <1>s, <1>r DEF OpenStopped, WalkTo, record, jobs, process
<1>11. ASSUME NEW g \in Graphs, OpenUnavailable(g) PROVE h \in declined' \cup halted'
  BY <1>11, <1>t, <1>h, <1>a, <1>s, <1>r DEF OpenUnavailable, WalkTo, record, jobs,
          process
<1>12. ASSUME NEW g \in Graphs, WalkerFails(g) PROVE h \in declined' \cup halted'
  BY <1>12, <1>t, <1>h, <1>a, <1>s DEF WalkerFails, WalkTo, record, jobs, process
<1>13. ASSUME NEW g \in Graphs, Conclude(g) PROVE h \in declined' \cup halted'
  BY <1>13, <1>t, <1>h, <1>a, <1>s, <1>r DEF Conclude, WalkTo, record, jobs, process
<1>14. ASSUME NEW g \in Graphs, CompleteGraph(g) PROVE h \in declined' \cup halted'
  BY <1>14, <1>t, <1>h, <1>a, <1>s DEF CompleteGraph, WalkTo, Going, record, jobs,
          process
<1>15. ASSUME NEW g \in Graphs,
             ReturnPausedGraph(g)
      PROVE  h \in declined' \cup halted'
  BY <1>15, <1>t, <1>h, <1>a, <1>s DEF ReturnPausedGraph, WalkTo, Going, record, jobs,
          process
<1>16. ASSUME NEW g \in Graphs, SuspendGraph(g) PROVE h \in declined' \cup halted'
  BY <1>16, <1>t, <1>h, <1>a, <1>s DEF SuspendGraph, WalkTo, Going, record, jobs,
          process
<1>17. ASSUME NEW g \in Graphs, NEW n \in GraphNodes,
             SettleLeaf(g, n)
      PROVE  h \in declined' \cup halted'
  BY <1>17, <1>h, <1>a, <1>s, <1>n DEF SettleLeaf, jobs, process
<1>18. ASSUME NEW g \in Graphs, NEW n \in GraphNodes, NEW s \in {"skipped", "waiting", "running"},
             MoveNode(g, n, s)
      PROVE  h \in declined' \cup halted'
  BY <1>18, <1>h, <1>a, <1>s, <1>n DEF MoveNode, Going, jobs, process
<1>19. ASSUME NEW g \in Graphs, SettleEnded(g) PROVE h \in declined' \cup halted'
  BY <1>19, <1>t, <1>h, <1>a, <1>s DEF SettleEnded, Returned, WalkTo, Forget,
          SetOwner, record, jobs, process
<1>20. ASSUME NEW g \in Graphs, SettleAnswered(g) PROVE h \in declined' \cup halted'
  BY <1>20, <1>t, <1>h, <1>a, <1>s, <1>r DEF SettleAnswered, Returned, WalkTo, Forget,
          Wake, SetOwner, record, jobs, process
<1>21. ASSUME NEW g \in Graphs,
             SettlePausedGraph(g)
      PROVE  h \in declined' \cup halted'
  <2>1. owner[g] = "working" /\ graph[g] = "paused"
        /\ UNCHANGED <<halted, declined, admitting>>
    BY <1>21, <1>h DEF SettlePausedGraph, Returned, process
  <2>2. CASE h # g
    <3>1. owner'[h] = owner[h]
      BY <1>21, <1>t, <2>2 DEF SettlePausedGraph, Forget, Wake, SetOwner
    <3>2. CanGoOn(h)
      BY <1>21, <1>r, <1>s, <2>2 DEF SettlePausedGraph, record
    <3> QED BY <1>a, <2>1, <3>1, <3>2
  <2>3. CASE h = g
    <3>1. /\ UNCHANGED record
          /\ ~admitting \/ g \in halted \/ g \notin ContextGraphs \/ ~CanGoOn(g)
      BY <1>21, <1>t, <2>3 DEF SettlePausedGraph, Forget, Wake, SetOwner
    <3> QED BY <1>s, <1>p, <2>1, <2>3, <3>1 DEF record
  <2> QED BY <2>2, <2>3
<1>22. ASSUME NEW g \in Graphs,
             SettleUnavailableGraph(g)
      PROVE  h \in declined' \cup halted'
  BY <1>22, <1>t, <1>h, <1>a, <1>s, <1>r DEF SettleUnavailableGraph, WalkTo, Forget,
          SetOwner, record, jobs, process
<1>23. ASSUME NEW g \in Graphs, SettleFailed(g) PROVE h \in declined' \cup halted'
  BY <1>23 DEF SettleFailed, Break
<1>24. ASSUME NEW g \in Graphs, NEW n \in GraphNodes,
             LeafEnds(g, n)
      PROVE  h \in declined' \cup halted'
  <2>1. CanGoOn(h)
    BY <1>24, LeafEndsKeeps
  <2> QED BY <1>24, <1>a, <2>1 DEF LeafEnds, jobs, process
<1>25. ASSUME TakeTask PROVE h \in declined' \cup halted'
  BY <1>25, <1>t, <1>h, <1>a, <1>s DEF TakeTask, record, jobs, process
<1>26. ASSUME CloseGraphs PROVE h \in declined' \cup halted'
  BY <1>26 DEF CloseGraphs
<1>27. ASSUME JoinGraphs PROVE h \in declined' \cup halted'
  BY <1>27, <1>t, <1>h, <1>a, <1>s DEF JoinGraphs, record, jobs, process
<1>28. ASSUME RestartGraphs PROVE h \in declined' \cup halted'
  BY <1>28, <1>t, <1>h, <1>a, <1>s DEF RestartGraphs, record, jobs, process
<1>29. ASSUME UNCHANGED graphVars PROVE h \in declined' \cup halted'
  BY <1>29, <1>t, <1>h, <1>a, <1>s DEF graphVars, record, jobs, process
<1> QED BY <1>1, <1>2, <1>3, <1>4, <1>5, <1>6, <1>7, <1>8, <1>9, <1>10, <1>11, <1>12,
       <1>13, <1>14, <1>15, <1>16, <1>17, <1>18, <1>19, <1>20, <1>21, <1>22, <1>23,
       <1>24, <1>25, <1>26, <1>27, <1>28, <1>29, GraphCases

--------------------------------------------------------------------------------
(* GraphService: what always holds *)

\* Only a graph with a context can be paused again while its entry waits, and close()
\* keeps those; so a pause ends as cancelled by a user's call only.
OnlyUsersCancel ==
    \A g \in Graphs : graph[g] = "paused" /\ graph'[g] = "cancelled"
        => g \in userStop \/ (owner[g] \in {"queued", "waiting"} /\ Usable)

LEMMA OnlyUsersCancelStep ==
    ASSUME GraphTypes, GraphPlaces, [GraphNext]_graphVars PROVE OnlyUsersCancel
<1> SUFFICES ASSUME NEW h \in Graphs, graph[h] = "paused", graph'[h] = "cancelled"
             PROVE  h \in userStop \/ (owner[h] \in {"queued", "waiting"} /\ Usable)
  BY DEF OnlyUsersCancel
<1> DEFINE Asked == h \in userStop \/ (owner[h] \in {"queued", "waiting"} /\ Usable)
<1>t. graph \in [Graphs -> GraphStates]
  BY DEF GraphTypes, RecordTypes
<1>h. /\ walker[h] # "none" => owner[h] = "working"
      /\ h \in Queued /\ h \notin ContextGraphs => graph[h] # "paused"
  BY DEF GraphPlaces, Placed
<1>r. \A g \in Graphs, s \in {"failed", "cancelled"} :
        RetireGraph(g, s) => h = g /\ s = "cancelled"
  BY <1>t DEF RetireGraph
<1>p. \A g \in Graphs : graph' # HumanPause(g)
  BY <1>t DEF HumanPause
<1>a. \A g \in Graphs, n \in HumanNodes : ~Provide(g, n)
  BY <1>t DEF Provide

<1>1. ASSUME NEW g \in Graphs, SubmitGraph(g) PROVE Asked
  BY <1>1, <1>t DEF SubmitGraph, Usable, Wake, SetOwner, record, jobs, process
<1>2. ASSUME NEW g \in Graphs, ResumeGraph(g) PROVE Asked
  BY <1>2, <1>t DEF ResumeGraph, MayAnswer, Usable, Wake, SetOwner, record, jobs,
          process
<1>3. ASSUME NEW g \in Graphs, CancelWalking(g) PROVE Asked
  BY <1>3, <1>t DEF CancelWalking, Usable, record, jobs, process
<1>4. ASSUME NEW g \in Graphs, CancelParked(g) PROVE Asked
  BY <1>4, <1>t, <1>h, <1>r DEF CancelParked, record
<1>5. ASSUME NEW g \in Graphs, NEW n \in HumanNodes, HumanInput(g, n) PROVE Asked
  BY <1>5, <1>a DEF HumanInput
<1>6. ASSUME NEW g \in Graphs, NEW n \in HumanNodes,
             HumanInputUnread(g, n)
      PROVE  Asked
  BY <1>6, <1>a DEF HumanInputUnread
<1>7. ASSUME NEW g \in Graphs, StopItself(g) PROVE Asked
  BY <1>7, <1>t DEF StopItself, record, jobs, process
<1>8. ASSUME NEW g \in Graphs, ClaimGraph(g) PROVE Asked
  BY <1>8, <1>t DEF ClaimGraph, SetOwner, record, jobs, process
<1>9. ASSUME NEW g \in Graphs, Open(g) PROVE Asked
  BY <1>9, <1>t DEF Open, WalkTo, record, jobs, process
<1>10. ASSUME NEW g \in Graphs, OpenStopped(g) PROVE Asked
  BY <1>10, <1>t, <1>h, <1>r DEF OpenStopped, record
<1>11. ASSUME NEW g \in Graphs, OpenUnavailable(g) PROVE Asked
  BY <1>11, <1>t, <1>h, <1>r DEF OpenUnavailable, record
<1>12. ASSUME NEW g \in Graphs, WalkerFails(g) PROVE Asked
  BY <1>12, <1>t DEF WalkerFails, WalkTo, record, jobs, process
<1>13. ASSUME NEW g \in Graphs, Conclude(g) PROVE Asked
  BY <1>13, <1>t, <1>h, <1>r DEF Conclude, record
<1>14. ASSUME NEW g \in Graphs, CompleteGraph(g) PROVE Asked
  BY <1>14, <1>t DEF CompleteGraph, WalkTo, Going, record, jobs, process
<1>15. ASSUME NEW g \in Graphs, ReturnPausedGraph(g) PROVE Asked
  BY <1>15, <1>t DEF ReturnPausedGraph, WalkTo, Going, record, jobs, process
<1>16. ASSUME NEW g \in Graphs, SuspendGraph(g) PROVE Asked
  BY <1>16, <1>t DEF SuspendGraph, WalkTo, Going, record, jobs, process
<1>17. ASSUME NEW g \in Graphs, NEW n \in GraphNodes, SettleLeaf(g, n) PROVE Asked
  BY <1>17, <1>p DEF SettleLeaf
<1>18. ASSUME NEW g \in Graphs, NEW n \in GraphNodes, NEW s \in {"skipped", "waiting", "running"},
             MoveNode(g, n, s)
      PROVE  Asked
  BY <1>18, <1>p DEF MoveNode
<1>19. ASSUME NEW g \in Graphs, SettleEnded(g) PROVE Asked
  BY <1>19, <1>t DEF SettleEnded, Returned, WalkTo, Forget, SetOwner, record, jobs,
          process
<1>20. ASSUME NEW g \in Graphs, SettleAnswered(g) PROVE Asked
  BY <1>20, <1>t, <1>h, <1>r DEF SettleAnswered, record, Returned
<1>21. ASSUME NEW g \in Graphs, SettlePausedGraph(g) PROVE Asked
  BY <1>21, <1>t, <1>h, <1>r DEF SettlePausedGraph, record, Returned
<1>22. ASSUME NEW g \in Graphs, SettleUnavailableGraph(g) PROVE Asked
  BY <1>22, <1>t, <1>h, <1>r DEF SettleUnavailableGraph, record
<1>23. ASSUME NEW g \in Graphs, SettleFailed(g) PROVE Asked
  BY <1>23, <1>t DEF SettleFailed, WalkTo, Break, SetOwner, Withdrawn, record, jobs,
          process
<1>24. ASSUME NEW g \in Graphs, NEW n \in GraphNodes, LeafEnds(g, n) PROVE Asked
  BY <1>24, <1>t DEF LeafEnds, record, jobs, process
<1>25. ASSUME TakeTask PROVE Asked
  BY <1>25, <1>t DEF TakeTask, record, jobs, process
<1>26. ASSUME CloseGraphs PROVE Asked
  BY <1>26, <1>h DEF CloseGraphs, KeptByClose
<1>27. ASSUME JoinGraphs PROVE Asked
  BY <1>27, <1>t DEF JoinGraphs, record, jobs, process
<1>28. ASSUME RestartGraphs PROVE Asked
  BY <1>28, <1>t DEF RestartGraphs, record, jobs, process
<1>29. ASSUME UNCHANGED graphVars PROVE Asked
  BY <1>29, <1>t DEF graphVars, record, jobs, process
<1> QED BY <1>1, <1>2, <1>3, <1>4, <1>5, <1>6, <1>7, <1>8, <1>9, <1>10, <1>11, <1>12,
       <1>13, <1>14, <1>15, <1>16, <1>17, <1>18, <1>19, <1>20, <1>21, <1>22, <1>23,
       <1>24, <1>25, <1>26, <1>27, <1>28, <1>29, GraphCases

\* The inductive invariant.  The last two parts are lost when the answer to a nested
\* node is committed and cannot be read (HumanInputUnread): the graph keeps the entry
\* that was reserved for it, and a later answer adds another.
GraphInv ==
    /\ GraphTypes /\ GraphPlaces /\ PausesCanBeAdopted
    /\ NestedNodes = {} => QueuedOnce /\ AnsweredGraphIsWoken

LEMMA GraphInvStep == GraphInv /\ [GraphNext]_graphVars => GraphInv'
<1> SUFFICES ASSUME GraphInv, [GraphNext]_graphVars PROVE GraphInv'
  OBVIOUS
<1>1. GraphTypes' /\ GraphPlaces' /\ PausesCanBeAdopted'
  BY GraphTypesStep, PlacesOfGraphsStep, PausesStep DEF GraphInv
<1>2. NestedNodes = {} => QueuedOnce' /\ AnsweredGraphIsWoken'
  BY QueuedOnceStep, AnsweredStep DEF GraphInv
<1> QED BY <1>1, <1>2 DEF GraphInv

LEMMA NoGraphInHand ==
    ASSUME GraphTypes, wakes = <<>>,
           \A g \in Graphs : owner[g] = "none" /\ walker[g] = "none" /\ graph[g] # "paused",
           ending = "open" => \A g \in Graphs : graph[g] = "absent"
    PROVE  GraphInv
<1>1. Queued = {} /\ IsInjective(wakes)
  BY EmptyQueue DEF Queued, ToSet, Range
<1>2. GraphPlaces /\ PausesCanBeAdopted
  BY <1>1 DEF GraphPlaces, Placed, PausesCanBeAdopted
<1>3. QueuedOnce /\ AnsweredGraphIsWoken
  BY <1>1 DEF QueuedOnce, AnsweredGraphIsWoken
<1> QED BY <1>2, <1>3 DEF GraphInv

LEMMA GraphInvInit == GraphInit => GraphInv
<1> SUFFICES ASSUME GraphInit PROVE GraphInv
  OBVIOUS
<1>1. wakes \in Seq(Graphs) /\ line \in Seq(Graphs) /\ wakes = <<>>
  BY EmptySeq DEF GraphInit
<1>2. RecordTypes /\ PlaceTypes
  BY DEF GraphInit, RecordTypes, PlaceTypes, GraphStates, NodeStates
<1>3. 0 \in 0..GraphRestarts
  BY GraphAssumption
<1>4. FlagTypes
  BY <1>3 DEF GraphInit, FlagTypes
<1>5. GraphTypes
  BY <1>1, <1>2, <1>4 DEF GraphTypes, QueueTypes
<1> QED BY <1>1, <1>5, NoGraphInHand DEF GraphInit

LEMMA WokenOnce ==
    GraphInv /\ NestedNodes = {} => GraphHasOneOwner /\ AnsweredGraphIsWoken
<1> SUFFICES ASSUME GraphInv, NestedNodes = {} PROVE GraphHasOneOwner /\ AnsweredGraphIsWoken
  OBVIOUS
<1>1. QueuedOnce /\ AnsweredGraphIsWoken /\ GraphPlaces /\ wakes \in Seq(Graphs)
  BY DEF GraphInv, GraphTypes, QueueTypes
<1>2. ASSUME NEW g \in Graphs
      PROVE  Cardinality({i \in DOMAIN wakes : wakes[i] = g}) <= 1
  <2> DEFINE Places == {i \in DOMAIN wakes : wakes[i] = g}
  <2>1. \A i, j \in Places : i = j
    BY <1>1 DEF QueuedOnce, IsInjective
  <2>2. CASE Places = {}
    BY <2>2, FS_EmptySet
  <2>3. CASE \E i \in Places : TRUE
    <3>1. PICK i \in Places : TRUE
      BY <2>3
    <3>2. Places = {i}
      BY <2>1, <3>1
    <3>3. Cardinality({i}) = 1
      BY FS_Singleton
    <3> QED BY <3>2, <3>3
  <2> QED BY <2>2, <2>3
<1>3. GraphHasOneOwner
  BY <1>1, <1>2 DEF GraphHasOneOwner, GraphPlaces, Placed
<1> QED BY <1>1, <1>3

THEOREM GraphInvariant == GraphSpec => []GraphInv
BY GraphInvInit, GraphInvStep, PTL DEF GraphSpec

\* The checkpoint, the table, the queues and the flags keep their types.
THEOREM GraphTypeCorrect == GraphSpec => []GraphTypeOK
<1>1. GraphInv => GraphTypeOK
  BY GraphTypesAreTypeOK DEF GraphInv
<1> QED BY <1>1, GraphInvariant, PTL

\* The next process can adopt every committed pause, whichever nodes wait and
\* whatever is answered meanwhile: plans without cycles always offer a next step.
THEOREM PausesAreAdoptable == GraphSpec => []PausesCanBeAdopted
<1>1. GraphInv => PausesCanBeAdopted
  BY DEF GraphInv
<1> QED BY <1>1, GraphInvariant, PTL

\* Only a cancellation that a user asked for ends a graph's pause as cancelled.
THEOREM GraphPausesOutliveTheService == GraphSpec => OnlyUsersCancelGraphPauses
<1>1. ASSUME GraphInv, [GraphNext]_graphVars PROVE [OnlyUsersCancel]_graphVars
  BY <1>1, OnlyUsersCancelStep DEF GraphInv
<1> QED BY <1>1, GraphInvariant, PTL DEF GraphSpec, OnlyUsersCancelGraphPauses, OnlyUsersCancel

\* Where no nested invocation asks, a graph has one entry, one ticket and one walker.
THEOREM GraphsHaveOneOwner ==
    ASSUME NestedNodes = {} PROVE GraphSpec => []GraphHasOneOwner
<1>1. GraphInv => GraphHasOneOwner
  BY WokenOnce
<1> QED BY <1>1, GraphInvariant, PTL

\* Where no nested invocation asks, an answer that lets a waiting graph go on wakes it.
THEOREM AnswersAreNotLost ==
    ASSUME NestedNodes = {} PROVE GraphSpec => []AnsweredGraphIsWoken
<1>1. GraphInv => AnsweredGraphIsWoken
  BY WokenOnce
<1> QED BY <1>1, GraphInvariant, PTL

--------------------------------------------------------------------------------
(* DynamicPlans: owners and children *)

\* The kinds of node are disjoint, and the root is none of them.
LEMMA Kinds ==
    /\ Tasks \subseteq Nodes /\ Planners \subseteq Tasks /\ Leaves \subseteq Tasks
    /\ \A c \in Tasks : c \in Leaves \/ c \in Planners
    /\ \A c \in Leaves : c \notin Planners
    /\ Humans \subseteq Nodes /\ \A h \in Humans : h \notin Tasks
    /\ Planners \subseteq Owners /\ Root \in Owners /\ Root \notin Tasks
    /\ \A p \in Owners : p # Root => p \in Planners /\ p \in Tasks
    /\ Nobody \notin Owners /\ MaxParallel \in {1, 2}
BY TreesAssumption DEF Tasks, Nodes, Owners

\* Each node of a plan has an owner, or belongs to no plan.
LEMMA OwnersOfNodes ==
    ASSUME tree \in Trees, NEW n \in Nodes
    PROVE  tree.owner[n] \in Owners \union {Nobody}
BY TreesAssumption

\* Nested plans are nested in finite depth: some owner of any set hangs outside it.
LEMMA SomeHangsOutside ==
    ASSUME tree \in Trees, NEW P \in SUBSET Planners, P # {}
    PROVE  \E p \in P : tree.owner[p] \notin P
BY TreesAssumption

LEMMA ChainHolds ==
    ASSUME tree \in Trees, NEW P \in SUBSET Owners
    PROVE  /\ P \ {Root} \subseteq Chain(P) /\ Chain(P) \subseteq Planners
           /\ \A q \in Chain(P) : tree.owner[q] \in Chain(P) \union {Root, Nobody}
<1>1. Chain(P) \subseteq Planners
  BY DEF Chain
<1>2. P \ {Root} \subseteq Chain(P)
  BY Kinds DEF Chain
<1>3. ASSUME NEW q \in Chain(P), tree.owner[q] \notin {Root, Nobody}
      PROVE  tree.owner[q] \in Chain(P)
  <2>1. tree.owner[q] \in Planners
    BY <1>1, <1>3, OwnersOfNodes, Kinds
  <2>2. ASSUME NEW S \in SUBSET Planners, P \ {Root} \subseteq S,
               \A s \in S : tree.owner[s] \in S \union {Root, Nobody}
        PROVE  tree.owner[q] \in S
    <3>1. q \in S
      BY <2>2 DEF Chain
    <3> QED BY <3>1, <2>2, <1>3
  <2> QED BY <2>1, <2>2 DEF Chain
<1> QED BY <1>1, <1>2, <1>3

LEMMA ChainIsLeast ==
    ASSUME NEW P, NEW S \in SUBSET Planners, P \ {Root} \subseteq S,
           \A s \in S : tree.owner[s] \in S \union {Root, Nobody}
    PROVE  Chain(P) \subseteq S
BY DEF Chain

\* An owner that does not wait itself is in the chain because of a child.
LEMMA ChainReaches ==
    ASSUME tree \in Trees, NEW P \in SUBSET Owners, NEW q \in Chain(P), q \notin P
    PROVE  \E c \in Chain(P) : tree.owner[c] = q
<1> SUFFICES ASSUME \A c \in Chain(P) : tree.owner[c] # q PROVE FALSE
  OBVIOUS
<1> DEFINE S == Chain(P) \ {q}
<1>1. S \in SUBSET Planners /\ P \ {Root} \subseteq S
  BY ChainHolds
<1>2. \A s \in S : tree.owner[s] \in S \union {Root, Nobody}
  BY ChainHolds
<1>3. Chain(P) \subseteq S
  BY <1>1, <1>2, ChainIsLeast
<1> QED BY <1>3

--------------------------------------------------------------------------------
(* DynamicPlans: the inductive invariant *)

\* A thread that has children in flight, and a thread that holds a leaf slot.
Busy == {"loop", "decide", "admit", "joining", "unwind", "fault"}
Holding == {"model", "resumed", "turn", "final", "failing"}

Positions == {"off", "model", "resumed", "loop", "decide", "admit", "drain", "register",
              "poll", "safe", "suspend", "joining", "report", "turn", "final", "unwind",
              "fault", "failing"}
FutureStates == {"none", "pending", "live", "returning", "throwing", "ended", "paused", "threw"}
PlanNodeStates == {"pending", "claimed", "waiting", "completed", "failed", "answered",
               "expired", "cancelled"}
RunStates == {"none"} \union Live \union Finished

SlotTypes == slots \subseteq Tasks /\ IsFiniteSet(slots) /\ Cardinality(slots) <= MaxParallel

RowTypes ==
    /\ tree \in Trees
    /\ node \in [Nodes -> PlanNodeStates] /\ \A h \in Humans : node[h] # "claimed"
    /\ run \in [Tasks \union {Root} -> RunStates]
    /\ plan \in [Owners -> {"none", "active", "waiting_human"} \union Finished]
    /\ call \in [Owners -> {"none", "accepted", "report_ready", "turn_committed"}]
    /\ rev \in Nat /\ seen \in [Owners -> 0..rev]
    /\ binding \subseteq Owners /\ late \subseteq Humans

ThreadTypes ==
    /\ pc \in [Owners -> Positions]
    /\ batch \in [Owners -> SUBSET Tasks]
    /\ job \in [Tasks -> FutureStates]
    /\ stop \subseteq Tasks

BudgetTypes ==
    /\ resumable \subseteq Planners
    /\ waits \subseteq Owners /\ entries \in [Owners -> SUBSET Owners]
    /\ committing \in Owners \union {Nobody}
    /\ failure \in {"none", "changed", "conflict"} /\ paused \in BOOLEAN
    /\ halt \in {"no", "cancelled", "deadline"}
    /\ service \in {"working", "waiting", "queued", "retiring", "done", "faulted"}

PlanTypes == SlotTypes /\ RowTypes /\ ThreadTypes /\ BudgetTypes

LEMMA PlanTypesAreTypeOK == PlanTypes => TypeOK
BY DEF PlanTypes, SlotTypes, RowTypes, ThreadTypes, BudgetTypes, TypeOK,
        Positions, FutureStates, PlanNodeStates, RunStates

LEMMA RowTypesStep ==
    ASSUME PlanTypes, [Next]_vars
    PROVE  RowTypes'
<1>i. PlanTypes
  OBVIOUS
<1>c. Chain(binding) \subseteq Planners
  BY ChainHolds DEF PlanTypes, RowTypes
<1>1. ASSUME NEW c \in Tasks, StartChild(c) PROVE RowTypes'
  BY <1>1, <1>i, Kinds DEF StartChild, Halted, SlotFree, Goto, durable, threads,
          rendezvous, PlanTypes, RowTypes, ThreadTypes, BudgetTypes, Live, Finished,
          PlanNodeStates, RunStates
<1>2. ASSUME NEW c \in Tasks, FinishLeaf(c) PROVE RowTypes'
  BY <1>2, <1>i, Kinds DEF FinishLeaf, Return, Goto, durable, threads, rendezvous,
          PlanTypes, RowTypes, ThreadTypes, BudgetTypes, Live, Finished, PlanNodeStates,
          RunStates
<1>3. ASSUME NEW p \in Owners, YieldResumed(p) PROVE RowTypes'
  BY <1>3, <1>i, Kinds DEF YieldResumed, Goto, durable, threads, rendezvous, PlanTypes,
          RowTypes, ThreadTypes, BudgetTypes, Live, Finished, PlanNodeStates, RunStates
<1>4. ASSUME NEW p \in Owners, AcceptPlan(p) PROVE RowTypes'
  BY <1>4, <1>i, Kinds DEF AcceptPlan, Halted, Goto, durable, threads, rendezvous,
          PlanTypes, RowTypes, ThreadTypes, BudgetTypes, Live, Finished, PlanNodeStates,
          RunStates
<1>5. ASSUME NEW p \in Owners, AgentEnds(p) PROVE RowTypes'
  BY <1>5, <1>i, Kinds DEF AgentEnds, Halted, RootEnds, Return, In, Of, Goto, durable,
          threads, rendezvous, PlanTypes, RowTypes, ThreadTypes, BudgetTypes, Live,
          Finished, PlanNodeStates, RunStates
<1>6. ASSUME NEW p \in Owners, NEW c \in Tasks, SettleChild(p, c) PROVE RowTypes'
  BY <1>6, <1>i, Kinds DEF SettleChild, Settle, Unsettled, Of, Goto, durable, threads,
          rendezvous, PlanTypes, RowTypes, ThreadTypes, BudgetTypes, Live, Finished,
          PlanNodeStates, RunStates
<1>7. ASSUME NEW p \in Owners, NEW c \in Tasks, ObservePause(p, c) PROVE RowTypes'
  BY <1>7, <1>i, Kinds DEF ObservePause, Unsettled, Of, Goto, durable, threads,
          rendezvous, PlanTypes, RowTypes, ThreadTypes, BudgetTypes, Live, Finished,
          PlanNodeStates, RunStates
<1>8. ASSUME NEW p \in Owners, Joined(p) PROVE RowTypes'
  BY <1>8, <1>i, Kinds DEF Joined, AllDrained, Unsettled, Of, ReturnPaused, Goto,
          durable, threads, rendezvous, PlanTypes, RowTypes, ThreadTypes, BudgetTypes,
          Live, Finished, PlanNodeStates, RunStates
<1>9. ASSUME NEW p \in Owners, NEW c \in Tasks, JoinSibling(p, c) PROVE RowTypes'
  BY <1>9, <1>i, Kinds DEF JoinSibling, Settle, Unsettled, Of, Goto, durable, threads,
          rendezvous, PlanTypes, RowTypes, ThreadTypes, BudgetTypes, Live, Finished,
          PlanNodeStates, RunStates
<1>10. ASSUME NEW p \in Owners, LoopThrows(p) PROVE RowTypes'
  BY <1>10, <1>i, Kinds DEF LoopThrows, Halted, Throw, Unsettled, Of, Goto, durable,
          threads, rendezvous, PlanTypes, RowTypes, ThreadTypes, BudgetTypes, Live,
          Finished, PlanNodeStates, RunStates
<1>11. ASSUME NEW p \in Owners, Inspect(p) PROVE RowTypes'
  BY <1>11, <1>i, Kinds DEF Inspect, Halted, Unsettled, Of, Goto, durable, threads,
          rendezvous, PlanTypes, RowTypes, ThreadTypes, BudgetTypes, Live, Finished,
          PlanNodeStates, RunStates
<1>12. ASSUME NEW p \in Owners, NEW h \in Humans, Expire(p, h) PROVE RowTypes'
  BY <1>12, <1>i, Kinds DEF Expire, Late, Waiting, Throw, Unsettled, In, Of, Goto,
          durable, threads, rendezvous, PlanTypes, RowTypes, ThreadTypes, BudgetTypes,
          Live, Finished, PlanNodeStates, RunStates
<1>13. ASSUME NEW p \in Owners, ResumeChildren(p) PROVE RowTypes'
  BY <1>13, <1>i, Kinds DEF ResumeChildren, Late, TakesUp, Resuming, Claimed, Unsettled,
          In, Of, Goto, durable, threads, rendezvous, PlanTypes, RowTypes, ThreadTypes,
          BudgetTypes, Live, Finished, PlanNodeStates, RunStates
<1>14. ASSUME NEW p \in Owners, Report(p) PROVE RowTypes'
  BY <1>14, <1>i, Kinds DEF Report, Deciding, ReportReady, Throw, Unsettled, In, Of,
          Claimed, Goto, durable, threads, rendezvous, PlanTypes, RowTypes, ThreadTypes,
          BudgetTypes, Live, Finished, PlanNodeStates, RunStates
<1>15. ASSUME NEW p \in Owners, NEW h \in Humans, Publish(p, h) PROVE RowTypes'
  BY <1>15, <1>i, Kinds DEF Publish, Deciding, Ready, Throw, Unsettled, In, Of, Goto,
          durable, threads, rendezvous, PlanTypes, RowTypes, ThreadTypes, BudgetTypes,
          Live, Finished, PlanNodeStates, RunStates
<1>16. ASSUME NEW p \in Owners, NEW F \in SUBSET Tasks, Stage(p, F) PROVE RowTypes'
  BY <1>16, <1>i, Kinds DEF Stage, Deciding, Ready, In, Of, Goto, durable, threads,
          rendezvous, PlanTypes, RowTypes, ThreadTypes, BudgetTypes, Live, Finished,
          PlanNodeStates, RunStates
<1>17. ASSUME NEW p \in Owners, Idle(p) PROVE RowTypes'
  BY <1>17, <1>i, Kinds DEF Idle, Deciding, Goto, durable, threads, rendezvous,
          PlanTypes, RowTypes, ThreadTypes, BudgetTypes, Live, Finished, PlanNodeStates,
          RunStates
<1>18. ASSUME NEW p \in Owners, Admit(p) PROVE RowTypes'
  BY <1>18, <1>i, Kinds DEF Admit, Halted, Throw, Unsettled, Of, Goto, durable, threads,
          rendezvous, PlanTypes, RowTypes, ThreadTypes, BudgetTypes, Live, Finished,
          PlanNodeStates, RunStates
<1>19. ASSUME NEW p \in Owners, AwaitPeople(p) PROVE RowTypes'
  BY <1>19, <1>i, Kinds DEF AwaitPeople, Deciding, Unsettled, Of, Goto, durable,
          threads, rendezvous, PlanTypes, RowTypes, ThreadTypes, BudgetTypes, Live,
          Finished, PlanNodeStates, RunStates
<1>20. ASSUME NEW p \in Owners, Drain(p) PROVE RowTypes'
  BY <1>20, <1>i, Kinds DEF Drain, Halted, Throw, Unsettled, Of, Goto, durable, threads,
          rendezvous, PlanTypes, RowTypes, ThreadTypes, BudgetTypes, Live, Finished,
          PlanNodeStates, RunStates
<1>21. ASSUME NEW p \in Owners, Register(p) PROVE RowTypes'
  BY <1>21, <1>i, Kinds DEF Register, Throw, Rethrow, ReturnPaused, Unsettled, Of, Goto,
          durable, threads, rendezvous, PlanTypes, RowTypes, ThreadTypes, BudgetTypes,
          Live, Finished, PlanNodeStates, RunStates
<1>22. ASSUME NEW p \in Owners, Concluded(p) PROVE RowTypes'
  BY <1>22, <1>i, Kinds DEF Concluded, Rethrow, Throw, ReturnPaused, Unsettled, Of,
          Goto, durable, threads, rendezvous, PlanTypes, RowTypes, ThreadTypes,
          BudgetTypes, Live, Finished, PlanNodeStates, RunStates
<1>23. ASSUME NEW p \in Owners, PollThrows(p) PROVE RowTypes'
  BY <1>23, <1>i, Kinds DEF PollThrows, Waits, Throw, Unsettled, Of, Goto, durable,
          threads, rendezvous, PlanTypes, RowTypes, ThreadTypes, BudgetTypes, Live,
          Finished, PlanNodeStates, RunStates
<1>24. ASSUME NEW p \in Owners, Poll(p) PROVE RowTypes'
  BY <1>24, <1>i, Kinds DEF Poll, Waits, Goto, durable, threads, rendezvous, PlanTypes,
          RowTypes, ThreadTypes, BudgetTypes, Live, Finished, PlanNodeStates, RunStates
<1>25. ASSUME NEW p \in Owners, Commit(p) PROVE RowTypes'
  BY <1>25, <1>i, Kinds DEF Commit, Goto, durable, threads, rendezvous, PlanTypes,
          RowTypes, ThreadTypes, BudgetTypes, Live, Finished, PlanNodeStates, RunStates
<1>26. ASSUME NEW p \in Owners, Suspend(p) PROVE RowTypes'
  BY <1>26, <1>i, Kinds DEF Suspend, PauseFailed, ReturnPaused, Throw, Unsettled, Of,
          Goto, durable, threads, rendezvous, PlanTypes, RowTypes, ThreadTypes,
          BudgetTypes, Live, Finished, PlanNodeStates, RunStates
<1>27. ASSUME NEW p \in Owners, Reacquire(p) PROVE RowTypes'
  BY <1>27, <1>i, Kinds DEF Reacquire, Return, Halted, SlotFree, Goto, durable, threads,
          rendezvous, PlanTypes, RowTypes, ThreadTypes, BudgetTypes, Live, Finished,
          PlanNodeStates, RunStates
<1>28. ASSUME NEW p \in Owners, CommitTurn(p) PROVE RowTypes'
  BY <1>28, <1>i, Kinds DEF CommitTurn, Goto, durable, threads, rendezvous, PlanTypes,
          RowTypes, ThreadTypes, BudgetTypes, Live, Finished, PlanNodeStates, RunStates
<1>29. ASSUME NEW p \in Owners, FinishOwner(p) PROVE RowTypes'
  BY <1>29, <1>i, Kinds DEF FinishOwner, RootEnds, Return, Halted, In, Of, Goto,
          durable, threads, rendezvous, PlanTypes, RowTypes, ThreadTypes, BudgetTypes,
          Live, Finished, PlanNodeStates, RunStates
<1>30. ASSUME NEW p \in Owners, NEW c \in Tasks, Drained(p, c) PROVE RowTypes'
  BY <1>30, <1>i, Kinds DEF Drained, Settle, Unsettled, Of, Goto, durable, threads,
          rendezvous, PlanTypes, RowTypes, ThreadTypes, BudgetTypes, Live, Finished,
          PlanNodeStates, RunStates
<1>31. ASSUME NEW p \in Owners, EndUnwind(p) PROVE RowTypes'
  BY <1>31, <1>i, Kinds DEF EndUnwind, AllDrained, Unsettled, Of, RootEnds, Return,
          Halted, SlotFree, In, Goto, durable, threads, rendezvous, PlanTypes, RowTypes,
          ThreadTypes, BudgetTypes, Live, Finished, PlanNodeStates, RunStates
<1>32. ASSUME NEW p \in Owners, Fail(p) PROVE RowTypes'
  BY <1>32, <1>i, Kinds DEF Fail, Return, Goto, durable, threads, rendezvous, PlanTypes,
          RowTypes, ThreadTypes, BudgetTypes, Live, Finished, PlanNodeStates, RunStates
<1>33. ASSUME NEW p \in Owners, EndFault(p) PROVE RowTypes'
  BY <1>33, <1>i, Kinds DEF EndFault, AllDrained, Unsettled, Of, Goto, durable, threads,
          rendezvous, PlanTypes, RowTypes, ThreadTypes, BudgetTypes, Live, Finished,
          PlanNodeStates, RunStates
<1>34. ASSUME NEW h \in Humans, Answer(h) PROVE RowTypes'
  BY <1>34, <1>i, Kinds DEF Answer, Goto, durable, threads, rendezvous, PlanTypes,
          RowTypes, ThreadTypes, BudgetTypes, Live, Finished, PlanNodeStates, RunStates
<1>35. ASSUME ResumeRoot PROVE RowTypes'
  BY <1>35, <1>i, Kinds DEF ResumeRoot, MayResume, Goto, durable, threads, rendezvous,
          PlanTypes, RowTypes, ThreadTypes, BudgetTypes, Live, Finished, PlanNodeStates,
          RunStates
<1>36. ASSUME ExpireWaiting PROVE RowTypes'
  BY <1>36, <1>i, Kinds DEF ExpireWaiting, RetirePaused, Goto, durable, threads,
          rendezvous, PlanTypes, RowTypes, ThreadTypes, BudgetTypes, Live, Finished,
          PlanNodeStates, RunStates
<1>37. ASSUME CancelPaused PROVE RowTypes'
  BY <1>37, <1>i, Kinds DEF CancelPaused, RetirePaused, Goto, durable, threads,
          rendezvous, PlanTypes, RowTypes, ThreadTypes, BudgetTypes, Live, Finished,
          PlanNodeStates, RunStates
<1>38. ASSUME Cancel PROVE RowTypes'
  BY <1>38, <1>i, Kinds DEF Cancel, Goto, durable, threads, rendezvous, PlanTypes,
          RowTypes, ThreadTypes, BudgetTypes, Live, Finished, PlanNodeStates, RunStates
<1>39. ASSUME Deadline PROVE RowTypes'
  BY <1>39, <1>i, Kinds DEF Deadline, Goto, durable, threads, rendezvous, PlanTypes,
          RowTypes, ThreadTypes, BudgetTypes, Live, Finished, PlanNodeStates, RunStates
<1>40. ASSUME NEW h \in Humans, Expiry(h) PROVE RowTypes'
  BY <1>40, <1>i, Kinds DEF Expiry, Goto, durable, threads, rendezvous, PlanTypes,
          RowTypes, ThreadTypes, BudgetTypes, Live, Finished, PlanNodeStates, RunStates
<1>41. ASSUME NEW c \in Tasks, ReleaseSlot(c) PROVE RowTypes'
  BY <1>41, <1>i, Kinds DEF ReleaseSlot, Goto, durable, threads, rendezvous, PlanTypes,
          RowTypes, ThreadTypes, BudgetTypes, Live, Finished, PlanNodeStates, RunStates
<1>42. ASSUME ResumeRefused PROVE RowTypes'
  BY <1>42, <1>i, Kinds DEF ResumeRefused, Goto, durable, threads, rendezvous,
          PlanTypes, RowTypes, ThreadTypes, BudgetTypes, Live, Finished, PlanNodeStates,
          RunStates
<1>43. CASE UNCHANGED vars
  BY <1>43, <1>i, Kinds DEF vars, Goto, durable, threads, rendezvous, PlanTypes,
          RowTypes, ThreadTypes, BudgetTypes, Live, Finished, PlanNodeStates, RunStates
<1> QED BY <1>1, <1>2, <1>3, <1>4, <1>5, <1>6, <1>7, <1>8, <1>9, <1>10, <1>11, <1>12, <1>13,
          <1>14, <1>15, <1>16, <1>17, <1>18, <1>19, <1>20, <1>21, <1>22, <1>23, <1>24,
          <1>25, <1>26, <1>27, <1>28, <1>29, <1>30, <1>31, <1>32, <1>33, <1>34, <1>35,
          <1>36, <1>37, <1>38, <1>39, <1>40, <1>41, <1>42, <1>43
          DEF Next, ThreadStep, ChildStep, WorkerStep

LEMMA ThreadTypesStep ==
    ASSUME PlanTypes, [Next]_vars
    PROVE  ThreadTypes'
<1>i. PlanTypes
  OBVIOUS
<1>c. Chain(binding) \subseteq Planners
  BY ChainHolds DEF PlanTypes, RowTypes
<1>1. ASSUME NEW c \in Tasks, StartChild(c) PROVE ThreadTypes'
  BY <1>1, <1>i, Kinds DEF StartChild, Halted, SlotFree, Goto, durable, threads,
          rendezvous, PlanTypes, ThreadTypes, RowTypes, Positions, FutureStates
<1>2. ASSUME NEW c \in Tasks, FinishLeaf(c) PROVE ThreadTypes'
  BY <1>2, <1>i, Kinds DEF FinishLeaf, Return, Goto, durable, threads, rendezvous,
          PlanTypes, ThreadTypes, RowTypes, Positions, FutureStates
<1>3. ASSUME NEW p \in Owners, YieldResumed(p) PROVE ThreadTypes'
  BY <1>3, <1>i, Kinds DEF YieldResumed, Goto, durable, threads, rendezvous, PlanTypes,
          ThreadTypes, RowTypes, Positions, FutureStates
<1>4. ASSUME NEW p \in Owners, AcceptPlan(p) PROVE ThreadTypes'
  BY <1>4, <1>i, Kinds DEF AcceptPlan, Halted, Goto, durable, threads, rendezvous,
          PlanTypes, ThreadTypes, RowTypes, Positions, FutureStates
<1>5. ASSUME NEW p \in Owners, AgentEnds(p) PROVE ThreadTypes'
  BY <1>5, <1>i, Kinds DEF AgentEnds, Halted, RootEnds, Return, In, Of, Goto, durable,
          threads, rendezvous, PlanTypes, ThreadTypes, RowTypes, Positions, FutureStates
<1>6. ASSUME NEW p \in Owners, NEW c \in Tasks, SettleChild(p, c) PROVE ThreadTypes'
  BY <1>6, <1>i, Kinds DEF SettleChild, Settle, Unsettled, Of, Goto, durable, threads,
          rendezvous, PlanTypes, ThreadTypes, RowTypes, Positions, FutureStates
<1>7. ASSUME NEW p \in Owners, NEW c \in Tasks, ObservePause(p, c) PROVE ThreadTypes'
  BY <1>7, <1>i, Kinds DEF ObservePause, Unsettled, Of, Goto, durable, threads,
          rendezvous, PlanTypes, ThreadTypes, RowTypes, Positions, FutureStates
<1>8. ASSUME NEW p \in Owners, Joined(p) PROVE ThreadTypes'
  BY <1>8, <1>i, Kinds DEF Joined, AllDrained, Unsettled, Of, ReturnPaused, Goto,
          durable, threads, rendezvous, PlanTypes, ThreadTypes, RowTypes, Positions,
          FutureStates
<1>9. ASSUME NEW p \in Owners, NEW c \in Tasks, JoinSibling(p, c) PROVE ThreadTypes'
  BY <1>9, <1>i, Kinds DEF JoinSibling, Settle, Unsettled, Of, Goto, durable, threads,
          rendezvous, PlanTypes, ThreadTypes, RowTypes, Positions, FutureStates
<1>10. ASSUME NEW p \in Owners, LoopThrows(p) PROVE ThreadTypes'
  BY <1>10, <1>i, Kinds DEF LoopThrows, Halted, Throw, Unsettled, Of, Goto, durable,
          threads, rendezvous, PlanTypes, ThreadTypes, RowTypes, Positions, FutureStates
<1>11. ASSUME NEW p \in Owners, Inspect(p) PROVE ThreadTypes'
  BY <1>11, <1>i, Kinds DEF Inspect, Halted, Unsettled, Of, Goto, durable, threads,
          rendezvous, PlanTypes, ThreadTypes, RowTypes, Positions, FutureStates
<1>12. ASSUME NEW p \in Owners, NEW h \in Humans, Expire(p, h) PROVE ThreadTypes'
  BY <1>12, <1>i, Kinds DEF Expire, Late, Waiting, Throw, Unsettled, In, Of, Goto,
          durable, threads, rendezvous, PlanTypes, ThreadTypes, RowTypes, Positions,
          FutureStates
<1>13. ASSUME NEW p \in Owners, ResumeChildren(p) PROVE ThreadTypes'
  BY <1>13, <1>i, Kinds DEF ResumeChildren, Late, TakesUp, Resuming, Claimed, Unsettled,
          In, Of, Goto, durable, threads, rendezvous, PlanTypes, ThreadTypes, RowTypes,
          Positions, FutureStates
<1>14. ASSUME NEW p \in Owners, Report(p) PROVE ThreadTypes'
  BY <1>14, <1>i, Kinds DEF Report, Deciding, ReportReady, Throw, Unsettled, In, Of,
          Claimed, Goto, durable, threads, rendezvous, PlanTypes, ThreadTypes, RowTypes,
          Positions, FutureStates
<1>15. ASSUME NEW p \in Owners, NEW h \in Humans, Publish(p, h) PROVE ThreadTypes'
  BY <1>15, <1>i, Kinds DEF Publish, Deciding, Ready, Throw, Unsettled, In, Of, Goto,
          durable, threads, rendezvous, PlanTypes, ThreadTypes, RowTypes, Positions,
          FutureStates
<1>16. ASSUME NEW p \in Owners, NEW F \in SUBSET Tasks, Stage(p, F) PROVE ThreadTypes'
  BY <1>16, <1>i, Kinds DEF Stage, Deciding, Ready, In, Of, Goto, durable, threads,
          rendezvous, PlanTypes, ThreadTypes, RowTypes, Positions, FutureStates
<1>17. ASSUME NEW p \in Owners, Idle(p) PROVE ThreadTypes'
  BY <1>17, <1>i, Kinds DEF Idle, Deciding, Goto, durable, threads, rendezvous,
          PlanTypes, ThreadTypes, RowTypes, Positions, FutureStates
<1>18. ASSUME NEW p \in Owners, Admit(p) PROVE ThreadTypes'
  BY <1>18, <1>i, Kinds DEF Admit, Halted, Throw, Unsettled, Of, Goto, durable, threads,
          rendezvous, PlanTypes, ThreadTypes, RowTypes, Positions, FutureStates
<1>19. ASSUME NEW p \in Owners, AwaitPeople(p) PROVE ThreadTypes'
  BY <1>19, <1>i, Kinds DEF AwaitPeople, Deciding, Unsettled, Of, Goto, durable,
          threads, rendezvous, PlanTypes, ThreadTypes, RowTypes, Positions, FutureStates
<1>20. ASSUME NEW p \in Owners, Drain(p) PROVE ThreadTypes'
  BY <1>20, <1>i, Kinds DEF Drain, Halted, Throw, Unsettled, Of, Goto, durable, threads,
          rendezvous, PlanTypes, ThreadTypes, RowTypes, Positions, FutureStates
<1>21. ASSUME NEW p \in Owners, Register(p) PROVE ThreadTypes'
  BY <1>21, <1>i, Kinds DEF Register, Throw, Rethrow, ReturnPaused, Unsettled, Of, Goto,
          durable, threads, rendezvous, PlanTypes, ThreadTypes, RowTypes, Positions,
          FutureStates
<1>22. ASSUME NEW p \in Owners, Concluded(p) PROVE ThreadTypes'
  BY <1>22, <1>i, Kinds DEF Concluded, Rethrow, Throw, ReturnPaused, Unsettled, Of,
          Goto, durable, threads, rendezvous, PlanTypes, ThreadTypes, RowTypes,
          Positions, FutureStates
<1>23. ASSUME NEW p \in Owners, PollThrows(p) PROVE ThreadTypes'
  BY <1>23, <1>i, Kinds DEF PollThrows, Waits, Throw, Unsettled, Of, Goto, durable,
          threads, rendezvous, PlanTypes, ThreadTypes, RowTypes, Positions, FutureStates
<1>24. ASSUME NEW p \in Owners, Poll(p) PROVE ThreadTypes'
  BY <1>24, <1>i, Kinds DEF Poll, Waits, Goto, durable, threads, rendezvous, PlanTypes,
          ThreadTypes, RowTypes, Positions, FutureStates
<1>25. ASSUME NEW p \in Owners, Commit(p) PROVE ThreadTypes'
  BY <1>25, <1>i, Kinds DEF Commit, Goto, durable, threads, rendezvous, PlanTypes,
          ThreadTypes, RowTypes, Positions, FutureStates
<1>26. ASSUME NEW p \in Owners, Suspend(p) PROVE ThreadTypes'
  BY <1>26, <1>i, Kinds DEF Suspend, PauseFailed, ReturnPaused, Throw, Unsettled, Of,
          Goto, durable, threads, rendezvous, PlanTypes, ThreadTypes, RowTypes,
          Positions, FutureStates
<1>27. ASSUME NEW p \in Owners, Reacquire(p) PROVE ThreadTypes'
  BY <1>27, <1>i, Kinds DEF Reacquire, Return, Halted, SlotFree, Goto, durable, threads,
          rendezvous, PlanTypes, ThreadTypes, RowTypes, Positions, FutureStates
<1>28. ASSUME NEW p \in Owners, CommitTurn(p) PROVE ThreadTypes'
  BY <1>28, <1>i, Kinds DEF CommitTurn, Goto, durable, threads, rendezvous, PlanTypes,
          ThreadTypes, RowTypes, Positions, FutureStates
<1>29. ASSUME NEW p \in Owners, FinishOwner(p) PROVE ThreadTypes'
  BY <1>29, <1>i, Kinds DEF FinishOwner, RootEnds, Return, Halted, In, Of, Goto,
          durable, threads, rendezvous, PlanTypes, ThreadTypes, RowTypes, Positions,
          FutureStates
<1>30. ASSUME NEW p \in Owners, NEW c \in Tasks, Drained(p, c) PROVE ThreadTypes'
  BY <1>30, <1>i, Kinds DEF Drained, Settle, Unsettled, Of, Goto, durable, threads,
          rendezvous, PlanTypes, ThreadTypes, RowTypes, Positions, FutureStates
<1>31. ASSUME NEW p \in Owners, EndUnwind(p) PROVE ThreadTypes'
  BY <1>31, <1>i, Kinds DEF EndUnwind, AllDrained, Unsettled, Of, RootEnds, Return,
          Halted, SlotFree, In, Goto, durable, threads, rendezvous, PlanTypes,
          ThreadTypes, RowTypes, Positions, FutureStates
<1>32. ASSUME NEW p \in Owners, Fail(p) PROVE ThreadTypes'
  BY <1>32, <1>i, Kinds DEF Fail, Return, Goto, durable, threads, rendezvous, PlanTypes,
          ThreadTypes, RowTypes, Positions, FutureStates
<1>33. ASSUME NEW p \in Owners, EndFault(p) PROVE ThreadTypes'
  BY <1>33, <1>i, Kinds DEF EndFault, AllDrained, Unsettled, Of, Goto, durable, threads,
          rendezvous, PlanTypes, ThreadTypes, RowTypes, Positions, FutureStates
<1>34. ASSUME NEW h \in Humans, Answer(h) PROVE ThreadTypes'
  BY <1>34, <1>i, Kinds DEF Answer, Goto, durable, threads, rendezvous, PlanTypes,
          ThreadTypes, RowTypes, Positions, FutureStates
<1>35. ASSUME ResumeRoot PROVE ThreadTypes'
  BY <1>35, <1>i, Kinds DEF ResumeRoot, MayResume, Goto, durable, threads, rendezvous,
          PlanTypes, ThreadTypes, RowTypes, Positions, FutureStates
<1>36. ASSUME ExpireWaiting PROVE ThreadTypes'
  BY <1>36, <1>i, Kinds DEF ExpireWaiting, RetirePaused, Goto, durable, threads,
          rendezvous, PlanTypes, ThreadTypes, RowTypes, Positions, FutureStates
<1>37. ASSUME CancelPaused PROVE ThreadTypes'
  BY <1>37, <1>i, Kinds DEF CancelPaused, RetirePaused, Goto, durable, threads,
          rendezvous, PlanTypes, ThreadTypes, RowTypes, Positions, FutureStates
<1>38. ASSUME Cancel PROVE ThreadTypes'
  BY <1>38, <1>i, Kinds DEF Cancel, Goto, durable, threads, rendezvous, PlanTypes,
          ThreadTypes, RowTypes, Positions, FutureStates
<1>39. ASSUME Deadline PROVE ThreadTypes'
  BY <1>39, <1>i, Kinds DEF Deadline, Goto, durable, threads, rendezvous, PlanTypes,
          ThreadTypes, RowTypes, Positions, FutureStates
<1>40. ASSUME NEW h \in Humans, Expiry(h) PROVE ThreadTypes'
  BY <1>40, <1>i, Kinds DEF Expiry, Goto, durable, threads, rendezvous, PlanTypes,
          ThreadTypes, RowTypes, Positions, FutureStates
<1>41. ASSUME NEW c \in Tasks, ReleaseSlot(c) PROVE ThreadTypes'
  BY <1>41, <1>i, Kinds DEF ReleaseSlot, Goto, durable, threads, rendezvous, PlanTypes,
          ThreadTypes, RowTypes, Positions, FutureStates
<1>42. ASSUME ResumeRefused PROVE ThreadTypes'
  BY <1>42, <1>i, Kinds DEF ResumeRefused, Goto, durable, threads, rendezvous,
          PlanTypes, ThreadTypes, RowTypes, Positions, FutureStates
<1>43. CASE UNCHANGED vars
  BY <1>43, <1>i, Kinds DEF vars, Goto, durable, threads, rendezvous, PlanTypes,
          ThreadTypes, RowTypes, Positions, FutureStates
<1> QED BY <1>1, <1>2, <1>3, <1>4, <1>5, <1>6, <1>7, <1>8, <1>9, <1>10, <1>11, <1>12, <1>13,
          <1>14, <1>15, <1>16, <1>17, <1>18, <1>19, <1>20, <1>21, <1>22, <1>23, <1>24,
          <1>25, <1>26, <1>27, <1>28, <1>29, <1>30, <1>31, <1>32, <1>33, <1>34, <1>35,
          <1>36, <1>37, <1>38, <1>39, <1>40, <1>41, <1>42, <1>43
          DEF Next, ThreadStep, ChildStep, WorkerStep

LEMMA BudgetTypesStep ==
    ASSUME PlanTypes, [Next]_vars
    PROVE  BudgetTypes'
<1>i. PlanTypes
  OBVIOUS
<1>c. Chain(binding) \subseteq Planners
  BY ChainHolds DEF PlanTypes, RowTypes
<1>1. ASSUME NEW c \in Tasks, StartChild(c) PROVE BudgetTypes'
  BY <1>1, <1>i, <1>c, Kinds DEF StartChild, Halted, SlotFree, Goto, durable, threads,
          rendezvous, PlanTypes, BudgetTypes, RowTypes
<1>2. ASSUME NEW c \in Tasks, FinishLeaf(c) PROVE BudgetTypes'
  BY <1>2, <1>i, <1>c, Kinds DEF FinishLeaf, Return, Goto, durable, threads, rendezvous,
          PlanTypes, BudgetTypes, RowTypes
<1>3. ASSUME NEW p \in Owners, YieldResumed(p) PROVE BudgetTypes'
  BY <1>3, <1>i, <1>c, Kinds DEF YieldResumed, Goto, durable, threads, rendezvous,
          PlanTypes, BudgetTypes, RowTypes
<1>4. ASSUME NEW p \in Owners, AcceptPlan(p) PROVE BudgetTypes'
  BY <1>4, <1>i, <1>c, Kinds DEF AcceptPlan, Halted, Goto, durable, threads, rendezvous,
          PlanTypes, BudgetTypes, RowTypes
<1>5. ASSUME NEW p \in Owners, AgentEnds(p) PROVE BudgetTypes'
  BY <1>5, <1>i, <1>c, Kinds DEF AgentEnds, Halted, RootEnds, Return, In, Of, Goto,
          durable, threads, rendezvous, PlanTypes, BudgetTypes, RowTypes
<1>6. ASSUME NEW p \in Owners, NEW c \in Tasks, SettleChild(p, c) PROVE BudgetTypes'
  BY <1>6, <1>i, <1>c, Kinds DEF SettleChild, Settle, Unsettled, Of, Goto, durable,
          threads, rendezvous, PlanTypes, BudgetTypes, RowTypes
<1>7. ASSUME NEW p \in Owners, NEW c \in Tasks, ObservePause(p, c) PROVE BudgetTypes'
  BY <1>7, <1>i, <1>c, Kinds DEF ObservePause, Unsettled, Of, Goto, durable, threads,
          rendezvous, PlanTypes, BudgetTypes, RowTypes
<1>8. ASSUME NEW p \in Owners, Joined(p) PROVE BudgetTypes'
  BY <1>8, <1>i, <1>c, Kinds DEF Joined, AllDrained, Unsettled, Of, ReturnPaused, Goto,
          durable, threads, rendezvous, PlanTypes, BudgetTypes, RowTypes
<1>9. ASSUME NEW p \in Owners, NEW c \in Tasks, JoinSibling(p, c) PROVE BudgetTypes'
  BY <1>9, <1>i, <1>c, Kinds DEF JoinSibling, Settle, Unsettled, Of, Goto, durable,
          threads, rendezvous, PlanTypes, BudgetTypes, RowTypes
<1>10. ASSUME NEW p \in Owners, LoopThrows(p) PROVE BudgetTypes'
  BY <1>10, <1>i, <1>c, Kinds DEF LoopThrows, Halted, Throw, Unsettled, Of, Goto,
          durable, threads, rendezvous, PlanTypes, BudgetTypes, RowTypes
<1>11. ASSUME NEW p \in Owners, Inspect(p) PROVE BudgetTypes'
  BY <1>11, <1>i, <1>c, Kinds DEF Inspect, Halted, Unsettled, Of, Goto, durable,
          threads, rendezvous, PlanTypes, BudgetTypes, RowTypes
<1>12. ASSUME NEW p \in Owners, NEW h \in Humans, Expire(p, h) PROVE BudgetTypes'
  BY <1>12, <1>i, <1>c, Kinds DEF Expire, Late, Waiting, Throw, Unsettled, In, Of, Goto,
          durable, threads, rendezvous, PlanTypes, BudgetTypes, RowTypes
<1>13. ASSUME NEW p \in Owners, ResumeChildren(p) PROVE BudgetTypes'
  BY <1>13, <1>i, <1>c, Kinds DEF ResumeChildren, Late, TakesUp, Resuming, Claimed,
          Unsettled, In, Of, Goto, durable, threads, rendezvous, PlanTypes, BudgetTypes,
          RowTypes
<1>14. ASSUME NEW p \in Owners, Report(p) PROVE BudgetTypes'
  BY <1>14, <1>i, <1>c, Kinds DEF Report, Deciding, ReportReady, Throw, Unsettled, In,
          Of, Claimed, Goto, durable, threads, rendezvous, PlanTypes, BudgetTypes,
          RowTypes
<1>15. ASSUME NEW p \in Owners, NEW h \in Humans, Publish(p, h) PROVE BudgetTypes'
  BY <1>15, <1>i, <1>c, Kinds DEF Publish, Deciding, Ready, Throw, Unsettled, In, Of,
          Goto, durable, threads, rendezvous, PlanTypes, BudgetTypes, RowTypes
<1>16. ASSUME NEW p \in Owners, NEW F \in SUBSET Tasks, Stage(p, F) PROVE BudgetTypes'
  BY <1>16, <1>i, <1>c, Kinds DEF Stage, Deciding, Ready, In, Of, Goto, durable,
          threads, rendezvous, PlanTypes, BudgetTypes, RowTypes
<1>17. ASSUME NEW p \in Owners, Idle(p) PROVE BudgetTypes'
  BY <1>17, <1>i, <1>c, Kinds DEF Idle, Deciding, Goto, durable, threads, rendezvous,
          PlanTypes, BudgetTypes, RowTypes
<1>18. ASSUME NEW p \in Owners, Admit(p) PROVE BudgetTypes'
  BY <1>18, <1>i, <1>c, Kinds DEF Admit, Halted, Throw, Unsettled, Of, Goto, durable,
          threads, rendezvous, PlanTypes, BudgetTypes, RowTypes
<1>19. ASSUME NEW p \in Owners, AwaitPeople(p) PROVE BudgetTypes'
  BY <1>19, <1>i, <1>c, Kinds DEF AwaitPeople, Deciding, Unsettled, Of, Goto, durable,
          threads, rendezvous, PlanTypes, BudgetTypes, RowTypes
<1>20. ASSUME NEW p \in Owners, Drain(p) PROVE BudgetTypes'
  BY <1>20, <1>i, <1>c, Kinds DEF Drain, Halted, Throw, Unsettled, Of, Goto, durable,
          threads, rendezvous, PlanTypes, BudgetTypes, RowTypes
<1>21. ASSUME NEW p \in Owners, Register(p) PROVE BudgetTypes'
  BY <1>21, <1>i, <1>c, Kinds DEF Register, Throw, Rethrow, ReturnPaused, Unsettled, Of,
          Goto, durable, threads, rendezvous, PlanTypes, BudgetTypes, RowTypes
<1>22. ASSUME NEW p \in Owners, Concluded(p) PROVE BudgetTypes'
  BY <1>22, <1>i, <1>c, Kinds DEF Concluded, Rethrow, Throw, ReturnPaused, Unsettled,
          Of, Goto, durable, threads, rendezvous, PlanTypes, BudgetTypes, RowTypes
<1>23. ASSUME NEW p \in Owners, PollThrows(p) PROVE BudgetTypes'
  BY <1>23, <1>i, <1>c, Kinds DEF PollThrows, Waits, Throw, Unsettled, Of, Goto,
          durable, threads, rendezvous, PlanTypes, BudgetTypes, RowTypes
<1>24. ASSUME NEW p \in Owners, Poll(p) PROVE BudgetTypes'
  BY <1>24, <1>i, <1>c, Kinds DEF Poll, Waits, Goto, durable, threads, rendezvous,
          PlanTypes, BudgetTypes, RowTypes
<1>25. ASSUME NEW p \in Owners, Commit(p) PROVE BudgetTypes'
  BY <1>25, <1>i, <1>c, Kinds DEF Commit, Goto, durable, threads, rendezvous, PlanTypes,
          BudgetTypes, RowTypes
<1>26. ASSUME NEW p \in Owners, Suspend(p) PROVE BudgetTypes'
  BY <1>26, <1>i, <1>c, Kinds DEF Suspend, PauseFailed, ReturnPaused, Throw, Unsettled,
          Of, Goto, durable, threads, rendezvous, PlanTypes, BudgetTypes, RowTypes
<1>27. ASSUME NEW p \in Owners, Reacquire(p) PROVE BudgetTypes'
  BY <1>27, <1>i, <1>c, Kinds DEF Reacquire, Return, Halted, SlotFree, Goto, durable,
          threads, rendezvous, PlanTypes, BudgetTypes, RowTypes
<1>28. ASSUME NEW p \in Owners, CommitTurn(p) PROVE BudgetTypes'
  BY <1>28, <1>i, <1>c, Kinds DEF CommitTurn, Goto, durable, threads, rendezvous,
          PlanTypes, BudgetTypes, RowTypes
<1>29. ASSUME NEW p \in Owners, FinishOwner(p) PROVE BudgetTypes'
  BY <1>29, <1>i, <1>c, Kinds DEF FinishOwner, RootEnds, Return, Halted, In, Of, Goto,
          durable, threads, rendezvous, PlanTypes, BudgetTypes, RowTypes
<1>30. ASSUME NEW p \in Owners, NEW c \in Tasks, Drained(p, c) PROVE BudgetTypes'
  BY <1>30, <1>i, <1>c, Kinds DEF Drained, Settle, Unsettled, Of, Goto, durable,
          threads, rendezvous, PlanTypes, BudgetTypes, RowTypes
<1>31. ASSUME NEW p \in Owners, EndUnwind(p) PROVE BudgetTypes'
  BY <1>31, <1>i, <1>c, Kinds DEF EndUnwind, AllDrained, Unsettled, Of, RootEnds,
          Return, Halted, SlotFree, In, Goto, durable, threads, rendezvous, PlanTypes,
          BudgetTypes, RowTypes
<1>32. ASSUME NEW p \in Owners, Fail(p) PROVE BudgetTypes'
  BY <1>32, <1>i, <1>c, Kinds DEF Fail, Return, Goto, durable, threads, rendezvous,
          PlanTypes, BudgetTypes, RowTypes
<1>33. ASSUME NEW p \in Owners, EndFault(p) PROVE BudgetTypes'
  BY <1>33, <1>i, <1>c, Kinds DEF EndFault, AllDrained, Unsettled, Of, Goto, durable,
          threads, rendezvous, PlanTypes, BudgetTypes, RowTypes
<1>34. ASSUME NEW h \in Humans, Answer(h) PROVE BudgetTypes'
  BY <1>34, <1>i, <1>c, Kinds DEF Answer, Goto, durable, threads, rendezvous, PlanTypes,
          BudgetTypes, RowTypes
<1>35. ASSUME ResumeRoot PROVE BudgetTypes'
  BY <1>35, <1>i, <1>c, Kinds DEF ResumeRoot, MayResume, Goto, durable, threads,
          rendezvous, PlanTypes, BudgetTypes, RowTypes
<1>36. ASSUME ExpireWaiting PROVE BudgetTypes'
  BY <1>36, <1>i, <1>c, Kinds DEF ExpireWaiting, RetirePaused, Goto, durable, threads,
          rendezvous, PlanTypes, BudgetTypes, RowTypes
<1>37. ASSUME CancelPaused PROVE BudgetTypes'
  BY <1>37, <1>i, <1>c, Kinds DEF CancelPaused, RetirePaused, Goto, durable, threads,
          rendezvous, PlanTypes, BudgetTypes, RowTypes
<1>38. ASSUME Cancel PROVE BudgetTypes'
  BY <1>38, <1>i, <1>c, Kinds DEF Cancel, Goto, durable, threads, rendezvous, PlanTypes,
          BudgetTypes, RowTypes
<1>39. ASSUME Deadline PROVE BudgetTypes'
  BY <1>39, <1>i, <1>c, Kinds DEF Deadline, Goto, durable, threads, rendezvous,
          PlanTypes, BudgetTypes, RowTypes
<1>40. ASSUME NEW h \in Humans, Expiry(h) PROVE BudgetTypes'
  BY <1>40, <1>i, <1>c, Kinds DEF Expiry, Goto, durable, threads, rendezvous, PlanTypes,
          BudgetTypes, RowTypes
<1>41. ASSUME NEW c \in Tasks, ReleaseSlot(c) PROVE BudgetTypes'
  BY <1>41, <1>i, <1>c, Kinds DEF ReleaseSlot, Goto, durable, threads, rendezvous,
          PlanTypes, BudgetTypes, RowTypes
<1>42. ASSUME ResumeRefused PROVE BudgetTypes'
  BY <1>42, <1>i, <1>c, Kinds DEF ResumeRefused, Goto, durable, threads, rendezvous,
          PlanTypes, BudgetTypes, RowTypes
<1>43. CASE UNCHANGED vars
  BY <1>43, <1>i, <1>c, Kinds DEF vars, Goto, durable, threads, rendezvous, PlanTypes,
          BudgetTypes, RowTypes
<1> QED BY <1>1, <1>2, <1>3, <1>4, <1>5, <1>6, <1>7, <1>8, <1>9, <1>10, <1>11, <1>12, <1>13,
          <1>14, <1>15, <1>16, <1>17, <1>18, <1>19, <1>20, <1>21, <1>22, <1>23, <1>24,
          <1>25, <1>26, <1>27, <1>28, <1>29, <1>30, <1>31, <1>32, <1>33, <1>34, <1>35,
          <1>36, <1>37, <1>38, <1>39, <1>40, <1>41, <1>42, <1>43
          DEF Next, ThreadStep, ChildStep, WorkerStep

LEMMA SlotAdded ==
    ASSUME SlotTypes, SlotFree, NEW c \in Tasks
    PROVE  /\ slots \union {c} \subseteq Tasks /\ IsFiniteSet(slots \union {c})
           /\ Cardinality(slots \union {c}) <= MaxParallel
<1>1. Cardinality(slots) \in Nat
  BY FS_CardinalityType DEF SlotTypes
<1>2. /\ IsFiniteSet(slots \union {c})
      /\ Cardinality(slots \union {c}) = IF c \in slots THEN Cardinality(slots)
                                          ELSE Cardinality(slots) + 1
  BY FS_AddElement DEF SlotTypes
<1> QED BY <1>1, <1>2, Kinds DEF SlotTypes, SlotFree

LEMMA SlotRemoved ==
    ASSUME SlotTypes, NEW c
    PROVE  /\ slots \ {c} \subseteq Tasks /\ IsFiniteSet(slots \ {c})
           /\ Cardinality(slots \ {c}) <= MaxParallel
<1>1. Cardinality(slots) \in Nat
  BY FS_CardinalityType DEF SlotTypes
<1>2. /\ IsFiniteSet(slots \ {c})
      /\ Cardinality(slots \ {c}) = IF c \in slots THEN Cardinality(slots) - 1
                                     ELSE Cardinality(slots)
  BY FS_RemoveElement DEF SlotTypes
<1> QED BY <1>1, <1>2, Kinds DEF SlotTypes

LEMMA SlotTypesStep ==
    ASSUME PlanTypes, [Next]_vars
    PROVE  SlotTypes'
<1>i. SlotTypes
  BY DEF PlanTypes
<1>r. \A c : /\ slots \ {c} \subseteq Tasks /\ IsFiniteSet(slots \ {c})
             /\ Cardinality(slots \ {c}) <= MaxParallel
  BY <1>i, SlotRemoved
<1>a. SlotFree => \A c \in Tasks : /\ slots \union {c} \subseteq Tasks
                                   /\ IsFiniteSet(slots \union {c})
                                   /\ Cardinality(slots \union {c}) <= MaxParallel
  BY <1>i, SlotAdded
<1>1. ASSUME NEW c \in Tasks, StartChild(c) PROVE SlotTypes'
  <2>1. slots' = slots \/ (SlotFree /\ slots' = slots \union {c})
    BY <1>1 DEF StartChild
  <2> QED BY <2>1, <1>i, <1>a DEF SlotTypes
<1>2. ASSUME NEW c \in Tasks, FinishLeaf(c) PROVE SlotTypes'
  <2>1. slots' = slots
    BY <1>2 DEF FinishLeaf, Return
  <2> QED BY <2>1, <1>i DEF SlotTypes
<1>3. ASSUME NEW p \in Owners, YieldResumed(p) PROVE SlotTypes'
  <2>1. slots' = slots \/ slots' = slots \ {p}
    BY <1>3 DEF YieldResumed, Return
  <2> QED BY <2>1, <1>i, <1>r DEF SlotTypes
<1>4. ASSUME NEW p \in Owners, AcceptPlan(p) PROVE SlotTypes'
  <2>1. slots' = slots \/ slots' = slots \ {p}
    BY <1>4 DEF AcceptPlan, Return
  <2> QED BY <2>1, <1>i, <1>r DEF SlotTypes
<1>5. ASSUME NEW p \in Owners, AgentEnds(p) PROVE SlotTypes'
  <2>1. slots' = slots
    BY <1>5 DEF AgentEnds, Return
  <2> QED BY <2>1, <1>i DEF SlotTypes
<1>6. ASSUME NEW p \in Owners, NEW c \in Tasks, SettleChild(p, c) PROVE SlotTypes'
  BY <1>6, <1>i DEF SettleChild, Settle, Unsettled, Of, Goto, durable, threads,
          rendezvous, SlotTypes
<1>7. ASSUME NEW p \in Owners, NEW c \in Tasks, ObservePause(p, c) PROVE SlotTypes'
  BY <1>7, <1>i DEF ObservePause, Unsettled, Of, Goto, durable, threads, rendezvous,
          SlotTypes
<1>8. ASSUME NEW p \in Owners, Joined(p) PROVE SlotTypes'
  BY <1>8, <1>i DEF Joined, AllDrained, Unsettled, Of, ReturnPaused, Goto, durable,
          threads, rendezvous, SlotTypes
<1>9. ASSUME NEW p \in Owners, NEW c \in Tasks, JoinSibling(p, c) PROVE SlotTypes'
  BY <1>9, <1>i DEF JoinSibling, Settle, Unsettled, Of, Goto, durable, threads,
          rendezvous, SlotTypes
<1>10. ASSUME NEW p \in Owners, LoopThrows(p) PROVE SlotTypes'
  BY <1>10, <1>i DEF LoopThrows, Halted, Throw, Unsettled, Of, Goto, durable, threads,
          rendezvous, SlotTypes
<1>11. ASSUME NEW p \in Owners, Inspect(p) PROVE SlotTypes'
  BY <1>11, <1>i DEF Inspect, Halted, Unsettled, Of, Goto, durable, threads, rendezvous,
          SlotTypes
<1>12. ASSUME NEW p \in Owners, NEW h \in Humans, Expire(p, h) PROVE SlotTypes'
  BY <1>12, <1>i DEF Expire, Late, Waiting, Throw, Unsettled, In, Of, Goto, durable,
          threads, rendezvous, SlotTypes
<1>13. ASSUME NEW p \in Owners, ResumeChildren(p) PROVE SlotTypes'
  BY <1>13, <1>i DEF ResumeChildren, Late, TakesUp, Resuming, Claimed, Unsettled, In,
          Of, Goto, durable, threads, rendezvous, SlotTypes
<1>14. ASSUME NEW p \in Owners, Report(p) PROVE SlotTypes'
  BY <1>14, <1>i DEF Report, Deciding, ReportReady, Throw, Unsettled, In, Of, Claimed,
          Goto, durable, threads, rendezvous, SlotTypes
<1>15. ASSUME NEW p \in Owners, NEW h \in Humans, Publish(p, h) PROVE SlotTypes'
  BY <1>15, <1>i DEF Publish, Deciding, Ready, Throw, Unsettled, In, Of, Goto, durable,
          threads, rendezvous, SlotTypes
<1>16. ASSUME NEW p \in Owners, NEW F \in SUBSET Tasks, Stage(p, F) PROVE SlotTypes'
  BY <1>16, <1>i DEF Stage, Deciding, Ready, In, Of, Goto, durable, threads, rendezvous,
          SlotTypes
<1>17. ASSUME NEW p \in Owners, Idle(p) PROVE SlotTypes'
  BY <1>17, <1>i DEF Idle, Deciding, Goto, durable, threads, rendezvous, SlotTypes
<1>18. ASSUME NEW p \in Owners, Admit(p) PROVE SlotTypes'
  BY <1>18, <1>i DEF Admit, Halted, Throw, Unsettled, Of, Goto, durable, threads,
          rendezvous, SlotTypes
<1>19. ASSUME NEW p \in Owners, AwaitPeople(p) PROVE SlotTypes'
  BY <1>19, <1>i DEF AwaitPeople, Deciding, Unsettled, Of, Goto, durable, threads,
          rendezvous, SlotTypes
<1>20. ASSUME NEW p \in Owners, Drain(p) PROVE SlotTypes'
  BY <1>20, <1>i DEF Drain, Halted, Throw, Unsettled, Of, Goto, durable, threads,
          rendezvous, SlotTypes
<1>21. ASSUME NEW p \in Owners, Register(p) PROVE SlotTypes'
  BY <1>21, <1>i DEF Register, Throw, Rethrow, ReturnPaused, Unsettled, Of, Goto,
          durable, threads, rendezvous, SlotTypes
<1>22. ASSUME NEW p \in Owners, Concluded(p) PROVE SlotTypes'
  BY <1>22, <1>i DEF Concluded, Rethrow, Throw, ReturnPaused, Unsettled, Of, Goto,
          durable, threads, rendezvous, SlotTypes
<1>23. ASSUME NEW p \in Owners, PollThrows(p) PROVE SlotTypes'
  BY <1>23, <1>i DEF PollThrows, Waits, Throw, Unsettled, Of, Goto, durable, threads,
          rendezvous, SlotTypes
<1>24. ASSUME NEW p \in Owners, Poll(p) PROVE SlotTypes'
  BY <1>24, <1>i DEF Poll, Waits, Goto, durable, threads, rendezvous, SlotTypes
<1>25. ASSUME NEW p \in Owners, Commit(p) PROVE SlotTypes'
  BY <1>25, <1>i DEF Commit, Goto, durable, threads, rendezvous, SlotTypes
<1>26. ASSUME NEW p \in Owners, Suspend(p) PROVE SlotTypes'
  BY <1>26, <1>i DEF Suspend, PauseFailed, ReturnPaused, Throw, Unsettled, Of, Goto,
          durable, threads, rendezvous, SlotTypes
<1>27. ASSUME NEW p \in Owners, Reacquire(p) PROVE SlotTypes'
  <2>1. CASE p = Root
    <3>1. slots' = slots
      BY <1>27, <2>1 DEF Reacquire
    <3> QED BY <3>1, <1>i DEF SlotTypes
  <2>2. CASE p # Root
    <3>1. p \in Tasks
      BY <2>2, Kinds
    <3>2. slots' = slots \/ (SlotFree /\ slots' = slots \union {p})
      BY <1>27, <2>2 DEF Reacquire, Return
    <3> QED BY <3>1, <3>2, <1>i, <1>a DEF SlotTypes
  <2> QED BY <2>1, <2>2
<1>28. ASSUME NEW p \in Owners, CommitTurn(p) PROVE SlotTypes'
  BY <1>28, <1>i DEF CommitTurn, Goto, durable, threads, rendezvous, SlotTypes
<1>29. ASSUME NEW p \in Owners, FinishOwner(p) PROVE SlotTypes'
  <2>1. slots' = slots
    BY <1>29 DEF FinishOwner, Return
  <2> QED BY <2>1, <1>i DEF SlotTypes
<1>30. ASSUME NEW p \in Owners, NEW c \in Tasks, Drained(p, c) PROVE SlotTypes'
  BY <1>30, <1>i DEF Drained, Settle, Unsettled, Of, Goto, durable, threads, rendezvous,
          SlotTypes
<1>31. ASSUME NEW p \in Owners, EndUnwind(p) PROVE SlotTypes'
  <2>1. CASE p = Root
    <3>1. slots' = slots
      BY <1>31, <2>1 DEF EndUnwind
    <3> QED BY <3>1, <1>i DEF SlotTypes
  <2>2. CASE p # Root
    <3>1. p \in Tasks
      BY <2>2, Kinds
    <3>2. slots' = slots \/ (SlotFree /\ slots' = slots \union {p})
      BY <1>31, <2>2 DEF EndUnwind, Return
    <3> QED BY <3>1, <3>2, <1>i, <1>a DEF SlotTypes
  <2> QED BY <2>1, <2>2
<1>32. ASSUME NEW p \in Owners, Fail(p) PROVE SlotTypes'
  <2>1. slots' = slots
    BY <1>32 DEF Fail, Return
  <2> QED BY <2>1, <1>i DEF SlotTypes
<1>33. ASSUME NEW p \in Owners, EndFault(p) PROVE SlotTypes'
  BY <1>33, <1>i DEF EndFault, AllDrained, Unsettled, Of, Goto, durable, threads,
          rendezvous, SlotTypes
<1>34. ASSUME NEW h \in Humans, Answer(h) PROVE SlotTypes'
  BY <1>34, <1>i DEF Answer, Goto, durable, threads, rendezvous, SlotTypes
<1>35. ASSUME ResumeRoot PROVE SlotTypes'
  BY <1>35, <1>i DEF ResumeRoot, MayResume, Goto, durable, threads, rendezvous,
          SlotTypes
<1>36. ASSUME ExpireWaiting PROVE SlotTypes'
  BY <1>36, <1>i DEF ExpireWaiting, RetirePaused, Goto, durable, threads, rendezvous,
          SlotTypes
<1>37. ASSUME CancelPaused PROVE SlotTypes'
  BY <1>37, <1>i DEF CancelPaused, RetirePaused, Goto, durable, threads, rendezvous,
          SlotTypes
<1>38. ASSUME Cancel PROVE SlotTypes'
  BY <1>38, <1>i DEF Cancel, Goto, durable, threads, rendezvous, SlotTypes
<1>39. ASSUME Deadline PROVE SlotTypes'
  BY <1>39, <1>i DEF Deadline, Goto, durable, threads, rendezvous, SlotTypes
<1>40. ASSUME NEW h \in Humans, Expiry(h) PROVE SlotTypes'
  BY <1>40, <1>i DEF Expiry, Goto, durable, threads, rendezvous, SlotTypes
<1>41. ASSUME NEW c \in Tasks, ReleaseSlot(c) PROVE SlotTypes'
  <2>1. slots' = slots \ {c}
    BY <1>41 DEF ReleaseSlot
  <2> QED BY <2>1, <1>i, <1>r DEF SlotTypes
<1>42. ASSUME ResumeRefused PROVE SlotTypes'
  BY <1>42, <1>i DEF ResumeRefused, Goto, durable, threads, rendezvous, SlotTypes
<1>43. CASE UNCHANGED vars
  BY <1>43, <1>i DEF vars, Goto, durable, threads, rendezvous, SlotTypes
<1> QED BY <1>1, <1>2, <1>3, <1>4, <1>5, <1>6, <1>7, <1>8, <1>9, <1>10, <1>11, <1>12, <1>13,
          <1>14, <1>15, <1>16, <1>17, <1>18, <1>19, <1>20, <1>21, <1>22, <1>23, <1>24,
          <1>25, <1>26, <1>27, <1>28, <1>29, <1>30, <1>31, <1>32, <1>33, <1>34, <1>35,
          <1>36, <1>37, <1>38, <1>39, <1>40, <1>41, <1>42, <1>43
          DEF Next, ThreadStep, ChildStep, WorkerStep

LEMMA PlanTypesStep == ASSUME PlanTypes, [Next]_vars PROVE PlanTypes'
BY RowTypesStep, ThreadTypesStep, BudgetTypesStep, SlotTypesStep DEF PlanTypes

--------------------------------------------------------------------------------
(* DynamicPlans: what each thread, future and row knows of the others *)

\* A job's future is awaited by the thread that owns the node, which is at work.
JobsAreClaimed ==
    \A c \in Tasks : job[c] # "none" =>
        node[c] = "claimed" /\ tree.owner[c] \in Owners /\ pc[tree.owner[c]] \in Busy

\* A node that was never claimed has no run, and a staged frontier is made of these.
PendingIsFresh ==
    /\ \A c \in Tasks : node[c] = "pending" => run[c] = "none"
    /\ \A p \in Owners : pc[p] = "admit" =>
           \A c \in batch[p] : tree.owner[c] = p /\ node[c] = "pending"

\* A future says of its child's run what the row says.
JobsMatchRuns ==
    \A c \in Tasks :
        /\ job[c] = "pending" => run[c] \in {"queued", "running"}
        /\ job[c] \in {"live", "throwing", "threw"} => run[c] \in {"running", "paused"}
        /\ job[c] \in {"returning", "ended"} => run[c] \in Finished
        /\ job[c] = "paused" => run[c] = "paused"

\* A leaf slot is held by a child that lives, or whose row has just ended; a planner
\* holds it while it talks to its model, and not while it waits for children.
SlotsAreHeld ==
    \A c \in slots :
        \/ job[c] = "returning"
        \/ job[c] = "live" /\ (c \in Planners => pc[c] \in Holding)

\* The service follows the thread of the root, and an ended root has ended work.
RootAgrees ==
    /\ service = "working" <=> pc[Root] # "off"
    /\ pc[Root] # "off" => run[Root] \in {"running", "paused"}
    /\ pc[Root] \notin {"resumed", "failing"}
    /\ service \in {"waiting", "queued", "retiring"} => run[Root] = "paused"
    /\ run[Root] \in Finished => pc[Root] = "off" /\ \A c \in Tasks : run[c] \notin Live

\* No future is lost while the root runs: only a pause makes threads join or fault.
OnlyPausesJoin ==
    run[Root] # "paused" =>
        /\ \A p \in Owners : pc[p] \notin {"joining", "fault"}
        /\ \A c \in Tasks : /\ job[c] \notin {"paused", "throwing", "threw"}
                            /\ run[c] # "paused"

\* One owner commits the pause, and its result is everybody's.
OnePauses ==
    /\ run[Root] = "paused" => paused /\ binding # {}
    /\ paused => run[Root] = "paused" \/ pc[Root] = "off"
    /\ \A p \in Owners : pc[p] = "suspend" <=> committing = p
    /\ committing # Nobody \/ paused => failure = "none"
    /\ paused => committing = Nobody

\* Whoever registered waits, until the root is cancelled or out of time: then it
\* unwinds, without children, or has ended.
WaitersWait ==
    failure = "none" /\ ~paused => \A w \in waits :
        \/ pc[w] \in {"poll", "safe", "suspend"}
        \/ pc[w] = "unwind" /\ halt # "no" /\ Unsettled(w) = {}
        \/ pc[w] = "off" /\ (w = Root \/ run[w] \in Finished)

\* An owner that reads the waits is one of them.
ReadersWait ==
    /\ \A p \in Owners : pc[p] \in {"poll", "safe", "suspend"} => p \in waits
    /\ \A p \in Owners : pc[p] \in {"safe", "suspend"} =>
           p \in entries[p] /\ entries[p] \subseteq waits

\* A claimed child without a future has an unfinished run, and can be taken up
\* again unless its owner is about to give it up.
ClaimsAreKept ==
    \A c \in Tasks : node[c] = "claimed" /\ job[c] = "none" =>
        /\ run[c] \in Live /\ tree.owner[c] \in Owners
        /\ c \notin resumable =>
               run[Root] = "paused" /\ pc[tree.owner[c]] \notin {"loop", "decide", "admit"}

\* The paused children are the owners above the waiting plans.
PausedRows ==
    /\ \A c \in Tasks : run[c] \in Live <=> c \in Chain(binding)
    /\ \A c \in Chain(binding) : run[c] = "paused" /\ node[c] = "claimed"

\* A thread that still runs is an owner that waits, or one above that still has a
\* child in flight, whose future will tell it.
PausedThreads ==
    /\ \A p \in Owners : pc[p] # "off" =>
         IF p \in binding
         THEN p # Root /\ (\/ pc[p] \in {"poll", "safe"}
                           \/ pc[p] = "unwind" /\ halt # "no" /\ Unsettled(p) = {})
         ELSE pc[p] \in Busy
    /\ \A p \in Owners \ binding : pc[p] \in {"loop", "decide", "admit", "unwind"} =>
         \E c \in Tasks : /\ tree.owner[c] = p
                         /\ job[c] \in {"live", "paused", "throwing", "threw"}

PauseIsClosed == run[Root] = "paused" => PausedRows /\ PausedThreads

\* The inductive invariant of dynamic plans.
PlanInv ==
    /\ PlanTypes /\ JobsAreClaimed /\ PendingIsFresh /\ OneThreadPerOwner /\ JobsMatchRuns
    /\ SlotsAreHeld /\ RootAgrees /\ OnlyPausesJoin /\ OnePauses /\ WaitersWait
    /\ ReadersWait /\ ClaimsAreKept /\ PauseIsClosed

\* Where the root awaits nobody, nobody is at work below it.
LEMMA NobodyBelow ==
    ASSUME PlanTypes, JobsAreClaimed, OneThreadPerOwner,
           pc[Root] \notin Busy \/ Unsettled(Root) = {}
    PROVE  /\ \A p \in Planners : pc[p] = "off"
           /\ \A c \in Tasks : job[c] = "none"
<1>0. \A c \in Tasks : job[c] # "none" => tree.owner[c] # Root
  BY Kinds DEF JobsAreClaimed, Unsettled, Of
<1> DEFINE P == {p \in Planners : pc[p] # "off"}
<1>1. P = {}
  <2> SUFFICES ASSUME P # {} PROVE FALSE
    OBVIOUS
  <2>1. PICK p \in P : tree.owner[p] \notin P
    BY SomeHangsOutside DEF PlanTypes, RowTypes
  <2>2. job[p] = "live" /\ p \in Tasks
    BY <2>1, Kinds DEF OneThreadPerOwner
  <2>3. tree.owner[p] \in Owners /\ pc[tree.owner[p]] \in Busy /\ tree.owner[p] # Root
    BY <2>2, <1>0 DEF JobsAreClaimed
  <2> QED BY <2>1, <2>3, Kinds DEF Busy
<1>2. ASSUME NEW c \in Tasks, job[c] # "none" PROVE FALSE
  <2>1. tree.owner[c] \in Planners /\ pc[tree.owner[c]] \in Busy
    BY <1>2, <1>0, Kinds DEF JobsAreClaimed
  <2> QED BY <2>1, <1>1 DEF Busy
<1> QED BY <1>1, <1>2

LEMMA AllOff ==
    ASSUME PlanTypes, JobsAreClaimed, OneThreadPerOwner, pc[Root] = "off"
    PROVE  /\ \A p \in Owners : pc[p] = "off"
           /\ \A c \in Tasks : job[c] = "none"
BY NobodyBelow, Kinds DEF Busy

\* A future is live exactly while a thread works for it.
LEMMA OneThreadStep ==
    ASSUME PlanInv, [Next]_vars
    PROVE  OneThreadPerOwner'
<1>t. /\ pc \in [Owners -> Positions]
      /\ job \in [Tasks -> FutureStates]
  BY DEF PlanInv, PlanTypes, SlotTypes, RowTypes, ThreadTypes, BudgetTypes
<1>i. OneThreadPerOwner /\ JobsAreClaimed /\ PendingIsFresh
  BY DEF PlanInv
<1>o. pc[Root] = "off" => /\ \A p \in Owners : pc[p] = "off"
                         /\ \A c \in Tasks : job[c] = "none"
  BY AllOff DEF PlanInv
<1>s. service \in {"waiting", "queued", "retiring"} => pc[Root] = "off"
  BY DEF PlanInv, RootAgrees
<1>1. ASSUME NEW c \in Tasks, StartChild(c) PROVE OneThreadPerOwner'
  BY <1>1, <1>i, <1>t, Kinds DEF StartChild, Halted, SlotFree, Goto, durable, threads,
          rendezvous, OneThreadPerOwner
<1>2. ASSUME NEW c \in Tasks, FinishLeaf(c) PROVE OneThreadPerOwner'
  BY <1>2, <1>i, <1>t, Kinds DEF FinishLeaf, Return, Goto, durable, threads, rendezvous,
          OneThreadPerOwner
<1>3. ASSUME NEW p \in Owners, YieldResumed(p) PROVE OneThreadPerOwner'
  BY <1>3, <1>i, <1>t, Kinds DEF YieldResumed, Goto, durable, threads, rendezvous,
          OneThreadPerOwner
<1>4. ASSUME NEW p \in Owners, AcceptPlan(p) PROVE OneThreadPerOwner'
  BY <1>4, <1>i, <1>t, Kinds DEF AcceptPlan, Halted, Goto, durable, threads, rendezvous,
          OneThreadPerOwner
<1>5. ASSUME NEW p \in Owners, AgentEnds(p) PROVE OneThreadPerOwner'
  BY <1>5, <1>i, <1>t, Kinds DEF AgentEnds, Halted, RootEnds, Return, In, Of, Goto,
          durable, threads, rendezvous, OneThreadPerOwner
<1>6. ASSUME NEW p \in Owners, NEW c \in Tasks, SettleChild(p, c) PROVE OneThreadPerOwner'
  BY <1>6, <1>i, <1>t, Kinds DEF SettleChild, Settle, Unsettled, Of, Goto, durable,
          threads, rendezvous, OneThreadPerOwner
<1>7. ASSUME NEW p \in Owners, NEW c \in Tasks, ObservePause(p, c) PROVE OneThreadPerOwner'
  BY <1>7, <1>i, <1>t, Kinds DEF ObservePause, Unsettled, Of, Goto, durable, threads,
          rendezvous, OneThreadPerOwner
<1>8. ASSUME NEW p \in Owners, Joined(p) PROVE OneThreadPerOwner'
  BY <1>8, <1>i, <1>t, Kinds DEF Joined, AllDrained, Unsettled, Of, ReturnPaused, Goto,
          durable, threads, rendezvous, OneThreadPerOwner
<1>9. ASSUME NEW p \in Owners, NEW c \in Tasks, JoinSibling(p, c) PROVE OneThreadPerOwner'
  BY <1>9, <1>i, <1>t, Kinds DEF JoinSibling, Settle, Unsettled, Of, Goto, durable,
          threads, rendezvous, OneThreadPerOwner
<1>10. ASSUME NEW p \in Owners, LoopThrows(p) PROVE OneThreadPerOwner'
  BY <1>10, <1>i, <1>t, Kinds DEF LoopThrows, Halted, Throw, Unsettled, Of, Goto,
          durable, threads, rendezvous, OneThreadPerOwner
<1>11. ASSUME NEW p \in Owners, Inspect(p) PROVE OneThreadPerOwner'
  BY <1>11, <1>i, <1>t, Kinds DEF Inspect, Halted, Unsettled, Of, Goto, durable,
          threads, rendezvous, OneThreadPerOwner
<1>12. ASSUME NEW p \in Owners, NEW h \in Humans, Expire(p, h) PROVE OneThreadPerOwner'
  BY <1>12, <1>i, <1>t, Kinds DEF Expire, Late, Waiting, Throw, Unsettled, In, Of, Goto,
          durable, threads, rendezvous, OneThreadPerOwner
<1>13. ASSUME NEW p \in Owners, ResumeChildren(p) PROVE OneThreadPerOwner'
  BY <1>13, <1>i, <1>t, Kinds DEF ResumeChildren, Late, TakesUp, Resuming, Claimed,
          Unsettled, In, Of, Goto, durable, threads, rendezvous, OneThreadPerOwner
<1>14. ASSUME NEW p \in Owners, Report(p) PROVE OneThreadPerOwner'
  BY <1>14, <1>i, <1>t, Kinds DEF Report, Deciding, ReportReady, Throw, Unsettled, In,
          Of, Claimed, Goto, durable, threads, rendezvous, OneThreadPerOwner
<1>15. ASSUME NEW p \in Owners, NEW h \in Humans, Publish(p, h) PROVE OneThreadPerOwner'
  BY <1>15, <1>i, <1>t, Kinds DEF Publish, Deciding, Ready, Throw, Unsettled, In, Of,
          Goto, durable, threads, rendezvous, OneThreadPerOwner
<1>16. ASSUME NEW p \in Owners, NEW F \in SUBSET Tasks, Stage(p, F) PROVE OneThreadPerOwner'
  BY <1>16, <1>i, <1>t, Kinds DEF Stage, Deciding, Ready, In, Of, Goto, durable,
          threads, rendezvous, OneThreadPerOwner
<1>17. ASSUME NEW p \in Owners, Idle(p) PROVE OneThreadPerOwner'
  BY <1>17, <1>i, <1>t, Kinds DEF Idle, Deciding, Goto, durable, threads, rendezvous,
          OneThreadPerOwner
<1>18. ASSUME NEW p \in Owners, Admit(p) PROVE OneThreadPerOwner'
  BY <1>18, <1>i, <1>t, Kinds DEF Admit, Halted, Throw, Unsettled, Of, Goto, durable,
          threads, rendezvous, OneThreadPerOwner, PendingIsFresh, JobsAreClaimed
<1>19. ASSUME NEW p \in Owners, AwaitPeople(p) PROVE OneThreadPerOwner'
  BY <1>19, <1>i, <1>t, Kinds DEF AwaitPeople, Deciding, Unsettled, Of, Goto, durable,
          threads, rendezvous, OneThreadPerOwner
<1>20. ASSUME NEW p \in Owners, Drain(p) PROVE OneThreadPerOwner'
  BY <1>20, <1>i, <1>t, Kinds DEF Drain, Halted, Throw, Unsettled, Of, Goto, durable,
          threads, rendezvous, OneThreadPerOwner
<1>21. ASSUME NEW p \in Owners, Register(p) PROVE OneThreadPerOwner'
  BY <1>21, <1>i, <1>t, Kinds DEF Register, Throw, Rethrow, ReturnPaused, Unsettled, Of,
          Goto, durable, threads, rendezvous, OneThreadPerOwner
<1>22. ASSUME NEW p \in Owners, Concluded(p) PROVE OneThreadPerOwner'
  BY <1>22, <1>i, <1>t, Kinds DEF Concluded, Rethrow, Throw, ReturnPaused, Unsettled,
          Of, Goto, durable, threads, rendezvous, OneThreadPerOwner
<1>23. ASSUME NEW p \in Owners, PollThrows(p) PROVE OneThreadPerOwner'
  BY <1>23, <1>i, <1>t, Kinds DEF PollThrows, Waits, Throw, Unsettled, Of, Goto,
          durable, threads, rendezvous, OneThreadPerOwner
<1>24. ASSUME NEW p \in Owners, Poll(p) PROVE OneThreadPerOwner'
  BY <1>24, <1>i, <1>t, Kinds DEF Poll, Waits, Goto, durable, threads, rendezvous,
          OneThreadPerOwner
<1>25. ASSUME NEW p \in Owners, Commit(p) PROVE OneThreadPerOwner'
  BY <1>25, <1>i, <1>t, Kinds DEF Commit, Goto, durable, threads, rendezvous,
          OneThreadPerOwner
<1>26. ASSUME NEW p \in Owners, Suspend(p) PROVE OneThreadPerOwner'
  BY <1>26, <1>i, <1>t, Kinds DEF Suspend, PauseFailed, ReturnPaused, Throw, Unsettled,
          Of, Goto, durable, threads, rendezvous, OneThreadPerOwner
<1>27. ASSUME NEW p \in Owners, Reacquire(p) PROVE OneThreadPerOwner'
  BY <1>27, <1>i, <1>t, Kinds DEF Reacquire, Return, Halted, SlotFree, Goto, durable,
          threads, rendezvous, OneThreadPerOwner
<1>28. ASSUME NEW p \in Owners, CommitTurn(p) PROVE OneThreadPerOwner'
  BY <1>28, <1>i, <1>t, Kinds DEF CommitTurn, Goto, durable, threads, rendezvous,
          OneThreadPerOwner
<1>29. ASSUME NEW p \in Owners, FinishOwner(p) PROVE OneThreadPerOwner'
  BY <1>29, <1>i, <1>t, Kinds DEF FinishOwner, RootEnds, Return, Halted, In, Of, Goto,
          durable, threads, rendezvous, OneThreadPerOwner
<1>30. ASSUME NEW p \in Owners, NEW c \in Tasks, Drained(p, c) PROVE OneThreadPerOwner'
  BY <1>30, <1>i, <1>t, Kinds DEF Drained, Settle, Unsettled, Of, Goto, durable,
          threads, rendezvous, OneThreadPerOwner
<1>31. ASSUME NEW p \in Owners, EndUnwind(p) PROVE OneThreadPerOwner'
  BY <1>31, <1>i, <1>t, Kinds DEF EndUnwind, AllDrained, Unsettled, Of, RootEnds,
          Return, Halted, SlotFree, In, Goto, durable, threads, rendezvous,
          OneThreadPerOwner
<1>32. ASSUME NEW p \in Owners, Fail(p) PROVE OneThreadPerOwner'
  BY <1>32, <1>i, <1>t, Kinds DEF Fail, Return, Goto, durable, threads, rendezvous,
          OneThreadPerOwner
<1>33. ASSUME NEW p \in Owners, EndFault(p) PROVE OneThreadPerOwner'
  BY <1>33, <1>i, <1>t, Kinds DEF EndFault, AllDrained, Unsettled, Of, Goto, durable,
          threads, rendezvous, OneThreadPerOwner
<1>34. ASSUME NEW h \in Humans, Answer(h) PROVE OneThreadPerOwner'
  BY <1>34, <1>i, <1>t, Kinds DEF Answer, Goto, durable, threads, rendezvous,
          OneThreadPerOwner
<1>35. ASSUME ResumeRoot PROVE OneThreadPerOwner'
  BY <1>35, <1>i, <1>t, Kinds, <1>o, <1>s DEF ResumeRoot, MayResume, Goto, durable,
          threads, rendezvous, OneThreadPerOwner
<1>36. ASSUME ExpireWaiting PROVE OneThreadPerOwner'
  BY <1>36, <1>i, <1>t, Kinds DEF ExpireWaiting, RetirePaused, Goto, durable, threads,
          rendezvous, OneThreadPerOwner
<1>37. ASSUME CancelPaused PROVE OneThreadPerOwner'
  BY <1>37, <1>i, <1>t, Kinds DEF CancelPaused, RetirePaused, Goto, durable, threads,
          rendezvous, OneThreadPerOwner
<1>38. ASSUME Cancel PROVE OneThreadPerOwner'
  BY <1>38, <1>i, <1>t, Kinds DEF Cancel, Goto, durable, threads, rendezvous,
          OneThreadPerOwner
<1>39. ASSUME Deadline PROVE OneThreadPerOwner'
  BY <1>39, <1>i, <1>t, Kinds DEF Deadline, Goto, durable, threads, rendezvous,
          OneThreadPerOwner
<1>40. ASSUME NEW h \in Humans, Expiry(h) PROVE OneThreadPerOwner'
  BY <1>40, <1>i, <1>t, Kinds DEF Expiry, Goto, durable, threads, rendezvous,
          OneThreadPerOwner
<1>41. ASSUME NEW c \in Tasks, ReleaseSlot(c) PROVE OneThreadPerOwner'
  BY <1>41, <1>i, <1>t, Kinds DEF ReleaseSlot, Goto, durable, threads, rendezvous,
          OneThreadPerOwner
<1>42. ASSUME ResumeRefused PROVE OneThreadPerOwner'
  BY <1>42, <1>i, <1>t, Kinds DEF ResumeRefused, Goto, durable, threads, rendezvous,
          OneThreadPerOwner
<1>43. CASE UNCHANGED vars
  BY <1>43, <1>i, <1>t, Kinds DEF vars, Goto, durable, threads, rendezvous,
          OneThreadPerOwner
<1> QED BY <1>1, <1>2, <1>3, <1>4, <1>5, <1>6, <1>7, <1>8, <1>9, <1>10, <1>11, <1>12, <1>13,
          <1>14, <1>15, <1>16, <1>17, <1>18, <1>19, <1>20, <1>21, <1>22, <1>23, <1>24,
          <1>25, <1>26, <1>27, <1>28, <1>29, <1>30, <1>31, <1>32, <1>33, <1>34, <1>35,
          <1>36, <1>37, <1>38, <1>39, <1>40, <1>41, <1>42, <1>43
          DEF Next, ThreadStep, ChildStep, WorkerStep

\* A future belongs to a claimed node of a thread that waits for it.
LEMMA JobsAreClaimedStep ==
    ASSUME PlanInv, [Next]_vars
    PROVE  JobsAreClaimed'
<1>t. /\ pc \in [Owners -> Positions]
      /\ job \in [Tasks -> FutureStates]
      /\ node \in [Nodes -> PlanNodeStates]
  BY DEF PlanInv, PlanTypes, SlotTypes, RowTypes, ThreadTypes, BudgetTypes
<1>i. JobsAreClaimed /\ PendingIsFresh /\ OneThreadPerOwner
  BY DEF PlanInv
<1>o. pc[Root] = "off" => /\ \A p \in Owners : pc[p] = "off"
                         /\ \A c \in Tasks : job[c] = "none"
  BY AllOff DEF PlanInv
<1>s. service \in {"waiting", "queued", "retiring"} => pc[Root] = "off"
  BY DEF PlanInv, RootAgrees
<1>1. ASSUME NEW c \in Tasks, StartChild(c) PROVE JobsAreClaimed'
  BY <1>1, <1>i, <1>t, Kinds DEF StartChild, Halted, SlotFree, Goto, durable, threads,
          rendezvous, JobsAreClaimed, Busy, OneThreadPerOwner
<1>2. ASSUME NEW c \in Tasks, FinishLeaf(c) PROVE JobsAreClaimed'
  BY <1>2, <1>i, <1>t, Kinds DEF FinishLeaf, Return, Goto, durable, threads, rendezvous,
          JobsAreClaimed, Busy
<1>3. ASSUME NEW p \in Owners, YieldResumed(p) PROVE JobsAreClaimed'
  BY <1>3, <1>i, <1>t, Kinds DEF YieldResumed, Goto, durable, threads, rendezvous,
          JobsAreClaimed, Busy
<1>4. ASSUME NEW p \in Owners, AcceptPlan(p) PROVE JobsAreClaimed'
  BY <1>4, <1>i, <1>t, Kinds DEF AcceptPlan, Halted, Goto, durable, threads, rendezvous,
          JobsAreClaimed, Busy
<1>5. ASSUME NEW p \in Owners, AgentEnds(p) PROVE JobsAreClaimed'
  BY <1>5, <1>i, <1>t, Kinds DEF AgentEnds, Halted, RootEnds, Return, In, Of, Goto,
          durable, threads, rendezvous, JobsAreClaimed, Busy, OneThreadPerOwner
<1>6. ASSUME NEW p \in Owners, NEW c \in Tasks, SettleChild(p, c) PROVE JobsAreClaimed'
  BY <1>6, <1>i, <1>t, Kinds DEF SettleChild, Settle, Unsettled, Of, Goto, durable,
          threads, rendezvous, JobsAreClaimed, Busy
<1>7. ASSUME NEW p \in Owners, NEW c \in Tasks, ObservePause(p, c) PROVE JobsAreClaimed'
  BY <1>7, <1>i, <1>t, Kinds DEF ObservePause, Unsettled, Of, Goto, durable, threads,
          rendezvous, JobsAreClaimed, Busy
<1>8. ASSUME NEW p \in Owners, Joined(p) PROVE JobsAreClaimed'
  BY <1>8, <1>i, <1>t, Kinds DEF Joined, AllDrained, Unsettled, Of, ReturnPaused, Goto,
          durable, threads, rendezvous, JobsAreClaimed, Busy, OneThreadPerOwner
<1>9. ASSUME NEW p \in Owners, NEW c \in Tasks, JoinSibling(p, c) PROVE JobsAreClaimed'
  BY <1>9, <1>i, <1>t, Kinds DEF JoinSibling, Settle, Unsettled, Of, Goto, durable,
          threads, rendezvous, JobsAreClaimed, Busy
<1>10. ASSUME NEW p \in Owners, LoopThrows(p) PROVE JobsAreClaimed'
  BY <1>10, <1>i, <1>t, Kinds DEF LoopThrows, Halted, Throw, Unsettled, Of, Goto,
          durable, threads, rendezvous, JobsAreClaimed, Busy
<1>11. ASSUME NEW p \in Owners, Inspect(p) PROVE JobsAreClaimed'
  BY <1>11, <1>i, <1>t, Kinds DEF Inspect, Halted, Unsettled, Of, Goto, durable,
          threads, rendezvous, JobsAreClaimed, Busy
<1>12. ASSUME NEW p \in Owners, NEW h \in Humans, Expire(p, h) PROVE JobsAreClaimed'
  BY <1>12, <1>i, <1>t, Kinds DEF Expire, Late, Waiting, Throw, Unsettled, In, Of, Goto,
          durable, threads, rendezvous, JobsAreClaimed, Busy
<1>13. ASSUME NEW p \in Owners, ResumeChildren(p) PROVE JobsAreClaimed'
  BY <1>13, <1>i, <1>t, Kinds DEF ResumeChildren, Late, TakesUp, Resuming, Claimed,
          Unsettled, In, Of, Goto, durable, threads, rendezvous, JobsAreClaimed, Busy
<1>14. ASSUME NEW p \in Owners, Report(p) PROVE JobsAreClaimed'
  BY <1>14, <1>i, <1>t, Kinds DEF Report, Deciding, ReportReady, Throw, Unsettled, In,
          Of, Claimed, Goto, durable, threads, rendezvous, JobsAreClaimed, Busy
<1>15. ASSUME NEW p \in Owners, NEW h \in Humans, Publish(p, h) PROVE JobsAreClaimed'
  BY <1>15, <1>i, <1>t, Kinds DEF Publish, Deciding, Ready, Throw, Unsettled, In, Of,
          Goto, durable, threads, rendezvous, JobsAreClaimed, Busy
<1>16. ASSUME NEW p \in Owners, NEW F \in SUBSET Tasks, Stage(p, F) PROVE JobsAreClaimed'
  BY <1>16, <1>i, <1>t, Kinds DEF Stage, Deciding, Ready, In, Of, Goto, durable,
          threads, rendezvous, JobsAreClaimed, Busy
<1>17. ASSUME NEW p \in Owners, Idle(p) PROVE JobsAreClaimed'
  BY <1>17, <1>i, <1>t, Kinds DEF Idle, Deciding, Goto, durable, threads, rendezvous,
          JobsAreClaimed, Busy
<1>18. ASSUME NEW p \in Owners, Admit(p) PROVE JobsAreClaimed'
  BY <1>18, <1>i, <1>t, Kinds DEF Admit, Halted, Throw, Unsettled, Of, Goto, durable,
          threads, rendezvous, JobsAreClaimed, Busy, PendingIsFresh
<1>19. ASSUME NEW p \in Owners, AwaitPeople(p) PROVE JobsAreClaimed'
  BY <1>19, <1>i, <1>t, Kinds DEF AwaitPeople, Deciding, Unsettled, Of, Goto, durable,
          threads, rendezvous, JobsAreClaimed, Busy
<1>20. ASSUME NEW p \in Owners, Drain(p) PROVE JobsAreClaimed'
  BY <1>20, <1>i, <1>t, Kinds DEF Drain, Halted, Throw, Unsettled, Of, Goto, durable,
          threads, rendezvous, JobsAreClaimed, Busy
<1>21. ASSUME NEW p \in Owners, Register(p) PROVE JobsAreClaimed'
  BY <1>21, <1>i, <1>t, Kinds DEF Register, Throw, Rethrow, ReturnPaused, Unsettled, Of,
          Goto, durable, threads, rendezvous, JobsAreClaimed, Busy, OneThreadPerOwner
<1>22. ASSUME NEW p \in Owners, Concluded(p) PROVE JobsAreClaimed'
  BY <1>22, <1>i, <1>t, Kinds DEF Concluded, Rethrow, Throw, ReturnPaused, Unsettled,
          Of, Goto, durable, threads, rendezvous, JobsAreClaimed, Busy,
          OneThreadPerOwner
<1>23. ASSUME NEW p \in Owners, PollThrows(p) PROVE JobsAreClaimed'
  BY <1>23, <1>i, <1>t, Kinds DEF PollThrows, Waits, Throw, Unsettled, Of, Goto,
          durable, threads, rendezvous, JobsAreClaimed, Busy
<1>24. ASSUME NEW p \in Owners, Poll(p) PROVE JobsAreClaimed'
  BY <1>24, <1>i, <1>t, Kinds DEF Poll, Waits, Goto, durable, threads, rendezvous,
          JobsAreClaimed, Busy
<1>25. ASSUME NEW p \in Owners, Commit(p) PROVE JobsAreClaimed'
  BY <1>25, <1>i, <1>t, Kinds DEF Commit, Goto, durable, threads, rendezvous,
          JobsAreClaimed, Busy
<1>26. ASSUME NEW p \in Owners, Suspend(p) PROVE JobsAreClaimed'
  BY <1>26, <1>i, <1>t, Kinds DEF Suspend, PauseFailed, ReturnPaused, Throw, Unsettled,
          Of, Goto, durable, threads, rendezvous, JobsAreClaimed, Busy,
          OneThreadPerOwner
<1>27. ASSUME NEW p \in Owners, Reacquire(p) PROVE JobsAreClaimed'
  BY <1>27, <1>i, <1>t, Kinds DEF Reacquire, Return, Halted, SlotFree, Goto, durable,
          threads, rendezvous, JobsAreClaimed, Busy, OneThreadPerOwner
<1>28. ASSUME NEW p \in Owners, CommitTurn(p) PROVE JobsAreClaimed'
  BY <1>28, <1>i, <1>t, Kinds DEF CommitTurn, Goto, durable, threads, rendezvous,
          JobsAreClaimed, Busy
<1>29. ASSUME NEW p \in Owners, FinishOwner(p) PROVE JobsAreClaimed'
  BY <1>29, <1>i, <1>t, Kinds DEF FinishOwner, RootEnds, Return, Halted, In, Of, Goto,
          durable, threads, rendezvous, JobsAreClaimed, Busy, OneThreadPerOwner
<1>30. ASSUME NEW p \in Owners, NEW c \in Tasks, Drained(p, c) PROVE JobsAreClaimed'
  BY <1>30, <1>i, <1>t, Kinds DEF Drained, Settle, Unsettled, Of, Goto, durable,
          threads, rendezvous, JobsAreClaimed, Busy
<1>31. ASSUME NEW p \in Owners, EndUnwind(p) PROVE JobsAreClaimed'
  BY <1>31, <1>i, <1>t, Kinds DEF EndUnwind, AllDrained, Unsettled, Of, RootEnds,
          Return, Halted, SlotFree, In, Goto, durable, threads, rendezvous,
          JobsAreClaimed, Busy, OneThreadPerOwner
<1>32. ASSUME NEW p \in Owners, Fail(p) PROVE JobsAreClaimed'
  BY <1>32, <1>i, <1>t, Kinds DEF Fail, Return, Goto, durable, threads, rendezvous,
          JobsAreClaimed, Busy, OneThreadPerOwner
<1>33. ASSUME NEW p \in Owners, EndFault(p) PROVE JobsAreClaimed'
  BY <1>33, <1>i, <1>t, Kinds DEF EndFault, AllDrained, Unsettled, Of, Goto, durable,
          threads, rendezvous, JobsAreClaimed, Busy, OneThreadPerOwner
<1>34. ASSUME NEW h \in Humans, Answer(h) PROVE JobsAreClaimed'
  BY <1>34, <1>i, <1>t, Kinds DEF Answer, Goto, durable, threads, rendezvous,
          JobsAreClaimed, Busy
<1>35. ASSUME ResumeRoot PROVE JobsAreClaimed'
  BY <1>35, <1>i, <1>t, Kinds, <1>o, <1>s DEF ResumeRoot, MayResume, Goto, durable,
          threads, rendezvous, JobsAreClaimed, Busy
<1>36. ASSUME ExpireWaiting PROVE JobsAreClaimed'
  BY <1>36, <1>i, <1>t, Kinds, <1>o, <1>s DEF ExpireWaiting, RetirePaused, Goto,
          durable, threads, rendezvous, JobsAreClaimed, Busy
<1>37. ASSUME CancelPaused PROVE JobsAreClaimed'
  BY <1>37, <1>i, <1>t, Kinds, <1>o, <1>s DEF CancelPaused, RetirePaused, Goto, durable,
          threads, rendezvous, JobsAreClaimed, Busy
<1>38. ASSUME Cancel PROVE JobsAreClaimed'
  BY <1>38, <1>i, <1>t, Kinds DEF Cancel, Goto, durable, threads, rendezvous,
          JobsAreClaimed, Busy
<1>39. ASSUME Deadline PROVE JobsAreClaimed'
  BY <1>39, <1>i, <1>t, Kinds DEF Deadline, Goto, durable, threads, rendezvous,
          JobsAreClaimed, Busy
<1>40. ASSUME NEW h \in Humans, Expiry(h) PROVE JobsAreClaimed'
  BY <1>40, <1>i, <1>t, Kinds DEF Expiry, Goto, durable, threads, rendezvous,
          JobsAreClaimed, Busy
<1>41. ASSUME NEW c \in Tasks, ReleaseSlot(c) PROVE JobsAreClaimed'
  BY <1>41, <1>i, <1>t, Kinds DEF ReleaseSlot, Goto, durable, threads, rendezvous,
          JobsAreClaimed, Busy
<1>42. ASSUME ResumeRefused PROVE JobsAreClaimed'
  BY <1>42, <1>i, <1>t, Kinds DEF ResumeRefused, Goto, durable, threads, rendezvous,
          JobsAreClaimed, Busy
<1>43. CASE UNCHANGED vars
  BY <1>43, <1>i, <1>t, Kinds DEF vars, Goto, durable, threads, rendezvous,
          JobsAreClaimed, Busy
<1> QED BY <1>1, <1>2, <1>3, <1>4, <1>5, <1>6, <1>7, <1>8, <1>9, <1>10, <1>11, <1>12, <1>13,
          <1>14, <1>15, <1>16, <1>17, <1>18, <1>19, <1>20, <1>21, <1>22, <1>23, <1>24,
          <1>25, <1>26, <1>27, <1>28, <1>29, <1>30, <1>31, <1>32, <1>33, <1>34, <1>35,
          <1>36, <1>37, <1>38, <1>39, <1>40, <1>41, <1>42, <1>43
          DEF Next, ThreadStep, ChildStep, WorkerStep

\* Every owner above the waits that a pause records is at work.
LEMMA ChainIsAtWork ==
    ASSUME PlanInv, NEW p \in Owners, pc[p] = "suspend", WaitsHold(entries[p])
    PROVE  \A c \in Chain(entries[p]) : pc[c] # "off" /\ job[c] = "live"
<1> DEFINE W == entries[p]
           S == {c \in Planners : pc[c] # "off"}
<1>1. W \in SUBSET Owners /\ W \subseteq waits /\ tree \in Trees
  BY DEF PlanInv, ReadersWait, PlanTypes, BudgetTypes, RowTypes
<1>2. failure = "none" /\ ~paused
  BY Kinds DEF PlanInv, OnePauses
<1>3. ASSUME NEW w \in W, w # Root PROVE w \in S
  <2>1. w \in Chain(W) /\ w \in Planners
    BY <1>1, <1>3, ChainHolds
  <2>2. run[w] = "running"
    BY <2>1 DEF WaitsHold
  <2> QED BY <1>1, <1>2, <1>3, <2>1, <2>2 DEF PlanInv, WaitersWait, Finished
<1>4. ASSUME NEW c \in S PROVE tree.owner[c] \in S \union {Root, Nobody}
  BY Kinds DEF PlanInv, OneThreadPerOwner, JobsAreClaimed, Busy
<1>5. Chain(W) \subseteq S
  BY <1>3, <1>4, ChainIsLeast
<1> QED BY <1>5 DEF PlanInv, OneThreadPerOwner

\* A root that has paused, or was paused when its thread ended: what its flag tells.
LEMMA PauseIsKnown ==
    ASSUME PlanInv, paused, NEW p \in Owners, pc[p] # "off"
    PROVE  /\ run[Root] = "paused"
           /\ p # Root => run[p] = "paused"
           /\ pc[p] # "register"
<1>1. run[Root] = "paused"
  BY AllOff DEF PlanInv, OnePauses
<1>2. pc[p] # "register"
  BY <1>1 DEF PlanInv, PauseIsClosed, PausedRows, PausedThreads, Busy
<1>3. p # Root => run[p] = "paused"
  BY <1>1, Kinds DEF PlanInv, OneThreadPerOwner, JobsMatchRuns, PauseIsClosed, PausedRows, PausedThreads, Live
<1> QED BY <1>1, <1>2, <1>3

\* Only a root that is not paused takes its children up again, and they run.
LEMMA TakenUpRun ==
    ASSUME PlanInv, NEW p \in Owners, pc[p] = "decide", TakesUp(p)
    PROVE  \A c \in Resuming(p) : job[c] = "none" /\ (c \in Tasks => run[c] \in {"queued", "running"})
<1>1. \A c \in Tasks : tree.owner[c] = p => job[c] = "none"
  BY Kinds DEF TakesUp, Unsettled, Of
<1>2. run[Root] # "paused"
  BY <1>1 DEF PlanInv, PauseIsClosed, PausedRows, PausedThreads
<1>3. \A c \in Resuming(p) : c \in Tasks /\ tree.owner[c] = p /\ node[c] = "claimed"
  BY Kinds DEF Resuming, Claimed, In, Of, PlanInv, PlanTypes, BudgetTypes
<1> QED BY <1>1, <1>2, <1>3 DEF PlanInv, ClaimsAreKept, OnlyPausesJoin, Live

\* A node that is not claimed yet has no run, nor has a staged one.
LEMMA PendingIsFreshStep ==
    ASSUME PlanInv, [Next]_vars
    PROVE  PendingIsFresh'
<1>t. /\ pc \in [Owners -> Positions]
      /\ job \in [Tasks -> FutureStates]
      /\ node \in [Nodes -> PlanNodeStates]
      /\ run \in [Tasks \union {Root} -> RunStates]
      /\ batch \in [Owners -> SUBSET Tasks]
      /\ tree \in Trees
  BY DEF PlanInv, PlanTypes, SlotTypes, RowTypes, ThreadTypes, BudgetTypes
<1>i. /\ PendingIsFresh /\ OneThreadPerOwner
      /\ \A c \in Tasks : job[c] # "none" => node[c] = "claimed"
  BY DEF PlanInv, JobsAreClaimed
<1>o. pc[Root] = "off" => /\ \A p \in Owners : pc[p] = "off"
                         /\ \A c \in Tasks : job[c] = "none"
  BY AllOff DEF PlanInv
<1>s. service \in {"waiting", "queued", "retiring"} => pc[Root] = "off"
  BY DEF PlanInv, RootAgrees
<1>c. Chain(binding) \subseteq Tasks
  BY ChainHolds, Kinds DEF PlanInv, PlanTypes, RowTypes
<1>1. ASSUME NEW c \in Tasks, StartChild(c) PROVE PendingIsFresh'
  BY <1>1, <1>i, <1>t, Kinds DEF StartChild, Halted, SlotFree, Goto, durable, threads,
          rendezvous, PendingIsFresh
<1>2. ASSUME NEW c \in Tasks, FinishLeaf(c) PROVE PendingIsFresh'
  BY <1>2, <1>i, <1>t, Kinds DEF FinishLeaf, Return, Goto, durable, threads, rendezvous,
          PendingIsFresh
<1>3. ASSUME NEW p \in Owners, YieldResumed(p) PROVE PendingIsFresh'
  BY <1>3, <1>i, <1>t, Kinds DEF YieldResumed, Goto, durable, threads, rendezvous,
          PendingIsFresh
<1>4. ASSUME NEW p \in Owners, AcceptPlan(p) PROVE PendingIsFresh'
  BY <1>4, <1>i, <1>t, Kinds DEF AcceptPlan, Halted, Goto, durable, threads, rendezvous,
          PendingIsFresh
<1>5. ASSUME NEW p \in Owners, AgentEnds(p) PROVE PendingIsFresh'
  BY <1>5, <1>i, <1>t, Kinds DEF AgentEnds, Halted, RootEnds, Return, In, Of, Goto,
          durable, threads, rendezvous, PendingIsFresh, OneThreadPerOwner
<1>6. ASSUME NEW p \in Owners, NEW c \in Tasks, SettleChild(p, c) PROVE PendingIsFresh'
  BY <1>6, <1>i, <1>t, Kinds DEF SettleChild, Settle, Unsettled, Of, Goto, durable,
          threads, rendezvous, PendingIsFresh
<1>7. ASSUME NEW p \in Owners, NEW c \in Tasks, ObservePause(p, c) PROVE PendingIsFresh'
  BY <1>7, <1>i, <1>t, Kinds DEF ObservePause, Unsettled, Of, Goto, durable, threads,
          rendezvous, PendingIsFresh
<1>8. ASSUME NEW p \in Owners, Joined(p) PROVE PendingIsFresh'
  BY <1>8, <1>i, <1>t, Kinds DEF Joined, AllDrained, Unsettled, Of, ReturnPaused, Goto,
          durable, threads, rendezvous, PendingIsFresh
<1>9. ASSUME NEW p \in Owners, NEW c \in Tasks, JoinSibling(p, c) PROVE PendingIsFresh'
  BY <1>9, <1>i, <1>t, Kinds DEF JoinSibling, Settle, Unsettled, Of, Goto, durable,
          threads, rendezvous, PendingIsFresh
<1>10. ASSUME NEW p \in Owners, LoopThrows(p) PROVE PendingIsFresh'
  BY <1>10, <1>i, <1>t, Kinds DEF LoopThrows, Halted, Throw, Unsettled, Of, Goto,
          durable, threads, rendezvous, PendingIsFresh
<1>11. ASSUME NEW p \in Owners, Inspect(p) PROVE PendingIsFresh'
  BY <1>11, <1>i, <1>t, Kinds DEF Inspect, Halted, Unsettled, Of, Goto, durable,
          threads, rendezvous, PendingIsFresh
<1>12. ASSUME NEW p \in Owners, NEW h \in Humans, Expire(p, h) PROVE PendingIsFresh'
  BY <1>12, <1>i, <1>t, Kinds DEF Expire, Late, Waiting, Throw, Unsettled, In, Of, Goto,
          durable, threads, rendezvous, PendingIsFresh
<1>13. ASSUME NEW p \in Owners, ResumeChildren(p) PROVE PendingIsFresh'
  BY <1>13, <1>i, <1>t, Kinds DEF ResumeChildren, Late, TakesUp, Resuming, Claimed,
          Unsettled, In, Of, Goto, durable, threads, rendezvous, PendingIsFresh
<1>14. ASSUME NEW p \in Owners, Report(p) PROVE PendingIsFresh'
  BY <1>14, <1>i, <1>t, Kinds DEF Report, Deciding, ReportReady, Throw, Unsettled, In,
          Of, Claimed, Goto, durable, threads, rendezvous, PendingIsFresh
<1>15. ASSUME NEW p \in Owners, NEW h \in Humans, Publish(p, h) PROVE PendingIsFresh'
  BY <1>15, <1>i, <1>t, Kinds DEF Publish, Deciding, Ready, Throw, Unsettled, In, Of,
          Goto, durable, threads, rendezvous, PendingIsFresh
<1>16. ASSUME NEW p \in Owners, NEW F \in SUBSET Tasks, Stage(p, F) PROVE PendingIsFresh'
  BY <1>16, <1>i, <1>t, Kinds DEF Stage, Deciding, Ready, In, Of, Goto, durable,
          threads, rendezvous, PendingIsFresh
<1>17. ASSUME NEW p \in Owners, Idle(p) PROVE PendingIsFresh'
  BY <1>17, <1>i, <1>t, Kinds DEF Idle, Deciding, Goto, durable, threads, rendezvous,
          PendingIsFresh
<1>18. ASSUME NEW p \in Owners, Admit(p) PROVE PendingIsFresh'
  BY <1>18, <1>i, <1>t, Kinds DEF Admit, Halted, Throw, Unsettled, Of, Goto, durable,
          threads, rendezvous, PendingIsFresh
<1>19. ASSUME NEW p \in Owners, AwaitPeople(p) PROVE PendingIsFresh'
  BY <1>19, <1>i, <1>t, Kinds DEF AwaitPeople, Deciding, Unsettled, Of, Goto, durable,
          threads, rendezvous, PendingIsFresh
<1>20. ASSUME NEW p \in Owners, Drain(p) PROVE PendingIsFresh'
  BY <1>20, <1>i, <1>t, Kinds DEF Drain, Halted, Throw, Unsettled, Of, Goto, durable,
          threads, rendezvous, PendingIsFresh
<1>21. ASSUME NEW p \in Owners, Register(p) PROVE PendingIsFresh'
  BY <1>21, <1>i, <1>t, Kinds DEF Register, Throw, Rethrow, ReturnPaused, Unsettled, Of,
          Goto, durable, threads, rendezvous, PendingIsFresh
<1>22. ASSUME NEW p \in Owners, Concluded(p) PROVE PendingIsFresh'
  BY <1>22, <1>i, <1>t, Kinds DEF Concluded, Rethrow, Throw, ReturnPaused, Unsettled,
          Of, Goto, durable, threads, rendezvous, PendingIsFresh
<1>23. ASSUME NEW p \in Owners, PollThrows(p) PROVE PendingIsFresh'
  BY <1>23, <1>i, <1>t, Kinds DEF PollThrows, Waits, Throw, Unsettled, Of, Goto,
          durable, threads, rendezvous, PendingIsFresh
<1>24. ASSUME NEW p \in Owners, Poll(p) PROVE PendingIsFresh'
  BY <1>24, <1>i, <1>t, Kinds DEF Poll, Waits, Goto, durable, threads, rendezvous,
          PendingIsFresh
<1>25. ASSUME NEW p \in Owners, Commit(p) PROVE PendingIsFresh'
  BY <1>25, <1>i, <1>t, Kinds DEF Commit, Goto, durable, threads, rendezvous,
          PendingIsFresh
<1>26. ASSUME NEW p \in Owners, Suspend(p) PROVE PendingIsFresh'
  BY <1>26, <1>i, <1>t, Kinds DEF Suspend, PauseFailed, ReturnPaused, Throw, Unsettled,
          Of, Goto, durable, threads, rendezvous, PendingIsFresh, WaitsHold
<1>27. ASSUME NEW p \in Owners, Reacquire(p) PROVE PendingIsFresh'
  BY <1>27, <1>i, <1>t, Kinds DEF Reacquire, Return, Halted, SlotFree, Goto, durable,
          threads, rendezvous, PendingIsFresh, OneThreadPerOwner
<1>28. ASSUME NEW p \in Owners, CommitTurn(p) PROVE PendingIsFresh'
  BY <1>28, <1>i, <1>t, Kinds DEF CommitTurn, Goto, durable, threads, rendezvous,
          PendingIsFresh
<1>29. ASSUME NEW p \in Owners, FinishOwner(p) PROVE PendingIsFresh'
  BY <1>29, <1>i, <1>t, Kinds DEF FinishOwner, RootEnds, Return, Halted, In, Of, Goto,
          durable, threads, rendezvous, PendingIsFresh, OneThreadPerOwner
<1>30. ASSUME NEW p \in Owners, NEW c \in Tasks, Drained(p, c) PROVE PendingIsFresh'
  BY <1>30, <1>i, <1>t, Kinds DEF Drained, Settle, Unsettled, Of, Goto, durable,
          threads, rendezvous, PendingIsFresh
<1>31. ASSUME NEW p \in Owners, EndUnwind(p) PROVE PendingIsFresh'
  BY <1>31, <1>i, <1>t, Kinds DEF EndUnwind, AllDrained, Unsettled, Of, RootEnds,
          Return, Halted, SlotFree, In, Goto, durable, threads, rendezvous,
          PendingIsFresh, OneThreadPerOwner
<1>32. ASSUME NEW p \in Owners, Fail(p) PROVE PendingIsFresh'
  BY <1>32, <1>i, <1>t, Kinds DEF Fail, Return, Goto, durable, threads, rendezvous,
          PendingIsFresh, OneThreadPerOwner
<1>33. ASSUME NEW p \in Owners, EndFault(p) PROVE PendingIsFresh'
  BY <1>33, <1>i, <1>t, Kinds DEF EndFault, AllDrained, Unsettled, Of, Goto, durable,
          threads, rendezvous, PendingIsFresh
<1>34. ASSUME NEW h \in Humans, Answer(h) PROVE PendingIsFresh'
  BY <1>34, <1>i, <1>t, Kinds DEF Answer, Goto, durable, threads, rendezvous,
          PendingIsFresh
<1>35. ASSUME ResumeRoot PROVE PendingIsFresh'
  BY <1>35, <1>i, <1>t, Kinds, <1>o, <1>s, <1>c DEF ResumeRoot, MayResume, Goto,
          durable, threads, rendezvous, PendingIsFresh, PlanInv, PauseIsClosed,
          PausedRows, PausedThreads
<1>36. ASSUME ExpireWaiting PROVE PendingIsFresh'
  BY <1>36, <1>i, <1>t, Kinds, <1>o, <1>s, <1>c DEF ExpireWaiting, RetirePaused, Goto,
          durable, threads, rendezvous, PendingIsFresh
<1>37. ASSUME CancelPaused PROVE PendingIsFresh'
  BY <1>37, <1>i, <1>t, Kinds, <1>o, <1>s, <1>c DEF CancelPaused, RetirePaused, Goto,
          durable, threads, rendezvous, PendingIsFresh
<1>38. ASSUME Cancel PROVE PendingIsFresh'
  BY <1>38, <1>i, <1>t, Kinds DEF Cancel, Goto, durable, threads, rendezvous,
          PendingIsFresh
<1>39. ASSUME Deadline PROVE PendingIsFresh'
  BY <1>39, <1>i, <1>t, Kinds DEF Deadline, Goto, durable, threads, rendezvous,
          PendingIsFresh
<1>40. ASSUME NEW h \in Humans, Expiry(h) PROVE PendingIsFresh'
  BY <1>40, <1>i, <1>t, Kinds DEF Expiry, Goto, durable, threads, rendezvous,
          PendingIsFresh
<1>41. ASSUME NEW c \in Tasks, ReleaseSlot(c) PROVE PendingIsFresh'
  BY <1>41, <1>i, <1>t, Kinds DEF ReleaseSlot, Goto, durable, threads, rendezvous,
          PendingIsFresh
<1>42. ASSUME ResumeRefused PROVE PendingIsFresh'
  BY <1>42, <1>i, <1>t, Kinds DEF ResumeRefused, Goto, durable, threads, rendezvous,
          PendingIsFresh
<1>43. CASE UNCHANGED vars
  BY <1>43, <1>i, <1>t, Kinds DEF vars, Goto, durable, threads, rendezvous,
          PendingIsFresh
<1> QED BY <1>1, <1>2, <1>3, <1>4, <1>5, <1>6, <1>7, <1>8, <1>9, <1>10, <1>11, <1>12, <1>13,
          <1>14, <1>15, <1>16, <1>17, <1>18, <1>19, <1>20, <1>21, <1>22, <1>23, <1>24,
          <1>25, <1>26, <1>27, <1>28, <1>29, <1>30, <1>31, <1>32, <1>33, <1>34, <1>35,
          <1>36, <1>37, <1>38, <1>39, <1>40, <1>41, <1>42, <1>43
          DEF Next, ThreadStep, ChildStep, WorkerStep

\* A future tells how its child's run ended.
LEMMA JobsMatchRunsStep ==
    ASSUME PlanInv, [Next]_vars
    PROVE  JobsMatchRuns'
<1>t. /\ pc \in [Owners -> Positions]
      /\ job \in [Tasks -> FutureStates]
      /\ run \in [Tasks \union {Root} -> RunStates]
      /\ tree \in Trees
  BY DEF PlanInv, PlanTypes, SlotTypes, RowTypes, ThreadTypes, BudgetTypes
<1>i. JobsMatchRuns /\ OneThreadPerOwner
  BY DEF PlanInv
<1>o. pc[Root] = "off" => /\ \A p \in Owners : pc[p] = "off"
                         /\ \A c \in Tasks : job[c] = "none"
  BY AllOff DEF PlanInv
<1>s. service \in {"waiting", "queued", "retiring"} => pc[Root] = "off"
  BY DEF PlanInv, RootAgrees
<1>c. Chain(binding) \subseteq Tasks
  BY ChainHolds, Kinds DEF PlanInv, PlanTypes, RowTypes
<1>d. \A p \in Owners : paused /\ pc[p] # "off" => (p # Root => run[p] = "paused") /\ pc[p] # "register"
  BY PauseIsKnown
<1>e. \A p \in Owners : pc[p] = "joining" /\ p # Root => run[p] = "paused"
  <2> SUFFICES ASSUME NEW p \in Owners, pc[p] = "joining", p # Root PROVE run[p] = "paused"
    OBVIOUS
  <2>1. run[Root] = "paused"
    BY DEF PlanInv, OnlyPausesJoin
  <2>2. paused
    BY <2>1 DEF PlanInv, OnePauses
  <2> QED BY <1>d, <2>2
<1>1. ASSUME NEW c \in Tasks, StartChild(c) PROVE JobsMatchRuns'
  BY <1>1, <1>i, <1>t, Kinds DEF StartChild, Halted, SlotFree, Goto, durable, threads,
          rendezvous, JobsMatchRuns, Finished, OneThreadPerOwner
<1>2. ASSUME NEW c \in Tasks, FinishLeaf(c) PROVE JobsMatchRuns'
  BY <1>2, <1>i, <1>t, Kinds DEF FinishLeaf, Return, Goto, durable, threads, rendezvous,
          JobsMatchRuns, Finished
<1>3. ASSUME NEW p \in Owners, YieldResumed(p) PROVE JobsMatchRuns'
  BY <1>3, <1>i, <1>t, Kinds DEF YieldResumed, Goto, durable, threads, rendezvous,
          JobsMatchRuns, Finished
<1>4. ASSUME NEW p \in Owners, AcceptPlan(p) PROVE JobsMatchRuns'
  BY <1>4, <1>i, <1>t, Kinds DEF AcceptPlan, Halted, Goto, durable, threads, rendezvous,
          JobsMatchRuns, Finished
<1>5. ASSUME NEW p \in Owners, AgentEnds(p) PROVE JobsMatchRuns'
  BY <1>5, <1>i, <1>t, Kinds DEF AgentEnds, Halted, RootEnds, Return, In, Of, Goto,
          durable, threads, rendezvous, JobsMatchRuns, Finished, OneThreadPerOwner
<1>6. ASSUME NEW p \in Owners, NEW c \in Tasks, SettleChild(p, c) PROVE JobsMatchRuns'
  BY <1>6, <1>i, <1>t, Kinds DEF SettleChild, Settle, Unsettled, Of, Goto, durable,
          threads, rendezvous, JobsMatchRuns, Finished
<1>7. ASSUME NEW p \in Owners, NEW c \in Tasks, ObservePause(p, c) PROVE JobsMatchRuns'
  BY <1>7, <1>i, <1>t, Kinds DEF ObservePause, Unsettled, Of, Goto, durable, threads,
          rendezvous, JobsMatchRuns, Finished
<1>8. ASSUME NEW p \in Owners, Joined(p) PROVE JobsMatchRuns'
  BY <1>8, <1>i, <1>t, Kinds, <1>d, <1>e DEF Joined, AllDrained, Unsettled, Of,
          ReturnPaused, Goto, durable, threads, rendezvous, JobsMatchRuns, Finished
<1>9. ASSUME NEW p \in Owners, NEW c \in Tasks, JoinSibling(p, c) PROVE JobsMatchRuns'
  BY <1>9, <1>i, <1>t, Kinds DEF JoinSibling, Settle, Unsettled, Of, Goto, durable,
          threads, rendezvous, JobsMatchRuns, Finished
<1>10. ASSUME NEW p \in Owners, LoopThrows(p) PROVE JobsMatchRuns'
  BY <1>10, <1>i, <1>t, Kinds DEF LoopThrows, Halted, Throw, Unsettled, Of, Goto,
          durable, threads, rendezvous, JobsMatchRuns, Finished
<1>11. ASSUME NEW p \in Owners, Inspect(p) PROVE JobsMatchRuns'
  BY <1>11, <1>i, <1>t, Kinds DEF Inspect, Halted, Unsettled, Of, Goto, durable,
          threads, rendezvous, JobsMatchRuns, Finished
<1>12. ASSUME NEW p \in Owners, NEW h \in Humans, Expire(p, h) PROVE JobsMatchRuns'
  BY <1>12, <1>i, <1>t, Kinds DEF Expire, Late, Waiting, Throw, Unsettled, In, Of, Goto,
          durable, threads, rendezvous, JobsMatchRuns, Finished
<1>13. ASSUME NEW p \in Owners, ResumeChildren(p) PROVE JobsMatchRuns'
  <2>1. \A c \in Resuming(p) : c \in Tasks => run[c] \in {"queued", "running"}
    BY <1>13, TakenUpRun DEF ResumeChildren
  <2> QED BY <1>13, <2>1, <1>i, <1>t DEF ResumeChildren, durable, JobsMatchRuns
<1>14. ASSUME NEW p \in Owners, Report(p) PROVE JobsMatchRuns'
  BY <1>14, <1>i, <1>t, Kinds DEF Report, Deciding, ReportReady, Throw, Unsettled, In,
          Of, Claimed, Goto, durable, threads, rendezvous, JobsMatchRuns, Finished
<1>15. ASSUME NEW p \in Owners, NEW h \in Humans, Publish(p, h) PROVE JobsMatchRuns'
  BY <1>15, <1>i, <1>t, Kinds DEF Publish, Deciding, Ready, Throw, Unsettled, In, Of,
          Goto, durable, threads, rendezvous, JobsMatchRuns, Finished
<1>16. ASSUME NEW p \in Owners, NEW F \in SUBSET Tasks, Stage(p, F) PROVE JobsMatchRuns'
  BY <1>16, <1>i, <1>t, Kinds DEF Stage, Deciding, Ready, In, Of, Goto, durable,
          threads, rendezvous, JobsMatchRuns, Finished
<1>17. ASSUME NEW p \in Owners, Idle(p) PROVE JobsMatchRuns'
  BY <1>17, <1>i, <1>t, Kinds DEF Idle, Deciding, Goto, durable, threads, rendezvous,
          JobsMatchRuns, Finished
<1>18. ASSUME NEW p \in Owners, Admit(p) PROVE JobsMatchRuns'
  BY <1>18, <1>i, <1>t, Kinds DEF Admit, Halted, Throw, Unsettled, Of, Goto, durable,
          threads, rendezvous, JobsMatchRuns, Finished
<1>19. ASSUME NEW p \in Owners, AwaitPeople(p) PROVE JobsMatchRuns'
  BY <1>19, <1>i, <1>t, Kinds DEF AwaitPeople, Deciding, Unsettled, Of, Goto, durable,
          threads, rendezvous, JobsMatchRuns, Finished
<1>20. ASSUME NEW p \in Owners, Drain(p) PROVE JobsMatchRuns'
  BY <1>20, <1>i, <1>t, Kinds DEF Drain, Halted, Throw, Unsettled, Of, Goto, durable,
          threads, rendezvous, JobsMatchRuns, Finished
<1>21. ASSUME NEW p \in Owners, Register(p) PROVE JobsMatchRuns'
  BY <1>21, <1>i, <1>t, Kinds, <1>d, <1>e DEF Register, Throw, Rethrow, ReturnPaused,
          Unsettled, Of, Goto, durable, threads, rendezvous, JobsMatchRuns, Finished
<1>22. ASSUME NEW p \in Owners, Concluded(p) PROVE JobsMatchRuns'
  BY <1>22, <1>i, <1>t, Kinds, <1>d, <1>e DEF Concluded, Rethrow, Throw, ReturnPaused,
          Unsettled, Of, Goto, durable, threads, rendezvous, JobsMatchRuns, Finished
<1>23. ASSUME NEW p \in Owners, PollThrows(p) PROVE JobsMatchRuns'
  BY <1>23, <1>i, <1>t, Kinds DEF PollThrows, Waits, Throw, Unsettled, Of, Goto,
          durable, threads, rendezvous, JobsMatchRuns, Finished
<1>24. ASSUME NEW p \in Owners, Poll(p) PROVE JobsMatchRuns'
  BY <1>24, <1>i, <1>t, Kinds DEF Poll, Waits, Goto, durable, threads, rendezvous,
          JobsMatchRuns, Finished
<1>25. ASSUME NEW p \in Owners, Commit(p) PROVE JobsMatchRuns'
  BY <1>25, <1>i, <1>t, Kinds DEF Commit, Goto, durable, threads, rendezvous,
          JobsMatchRuns, Finished
<1>26. ASSUME NEW p \in Owners, Suspend(p) PROVE JobsMatchRuns'
  <2> DEFINE W == entries[p]
          Pauses == WaitsHold(W) /\ rev = seen[p] /\ NothingElseLives(W) /\ halt # "deadline"
  <2>1. CASE ~Pauses
    <3>1. run' = run /\ job' = job
      BY <1>26, <2>1 DEF Suspend
    <3> QED BY <3>1, <1>i DEF JobsMatchRuns
  <2>2. CASE Pauses
    <3>1. /\ WaitsHold(W)
          /\ run' = [r \in Tasks \union {Root} |->
                        IF r \in Chain(W) \union {Root} THEN "paused" ELSE run[r]]
          /\ ReturnPaused(p)
      BY <1>26, <2>2 DEF Suspend
    <3>2. \A c \in Chain(W) : pc[c] # "off" /\ job[c] = "live"
      BY <1>26, <3>1, ChainIsAtWork DEF Suspend
    <3>3. p # Root => p \in Chain(W)
      <4>1. W \in SUBSET Owners /\ p \in W
        BY <1>26 DEF PlanInv, ReadersWait, PlanTypes, BudgetTypes, Suspend
      <4> QED BY <4>1, <1>t, ChainHolds
    <3>4. job' = IF p = Root THEN job ELSE [job EXCEPT ![p] = "paused"]
      BY <3>1 DEF ReturnPaused
    <3> QED BY <3>1, <3>2, <3>3, <3>4, <1>i, <1>t, Kinds DEF JobsMatchRuns, Finished
  <2> QED BY <2>1, <2>2
<1>27. ASSUME NEW p \in Owners, Reacquire(p) PROVE JobsMatchRuns'
  BY <1>27, <1>i, <1>t, Kinds DEF Reacquire, Return, Halted, SlotFree, Goto, durable,
          threads, rendezvous, JobsMatchRuns, Finished, OneThreadPerOwner
<1>28. ASSUME NEW p \in Owners, CommitTurn(p) PROVE JobsMatchRuns'
  BY <1>28, <1>i, <1>t, Kinds DEF CommitTurn, Goto, durable, threads, rendezvous,
          JobsMatchRuns, Finished
<1>29. ASSUME NEW p \in Owners, FinishOwner(p) PROVE JobsMatchRuns'
  BY <1>29, <1>i, <1>t, Kinds DEF FinishOwner, RootEnds, Return, Halted, In, Of, Goto,
          durable, threads, rendezvous, JobsMatchRuns, Finished, OneThreadPerOwner
<1>30. ASSUME NEW p \in Owners, NEW c \in Tasks, Drained(p, c) PROVE JobsMatchRuns'
  BY <1>30, <1>i, <1>t, Kinds DEF Drained, Settle, Unsettled, Of, Goto, durable,
          threads, rendezvous, JobsMatchRuns, Finished
<1>31. ASSUME NEW p \in Owners, EndUnwind(p) PROVE JobsMatchRuns'
  BY <1>31, <1>i, <1>t, Kinds DEF EndUnwind, AllDrained, Unsettled, Of, RootEnds,
          Return, Halted, SlotFree, In, Goto, durable, threads, rendezvous,
          JobsMatchRuns, Finished, OneThreadPerOwner
<1>32. ASSUME NEW p \in Owners, Fail(p) PROVE JobsMatchRuns'
  BY <1>32, <1>i, <1>t, Kinds DEF Fail, Return, Goto, durable, threads, rendezvous,
          JobsMatchRuns, Finished, OneThreadPerOwner
<1>33. ASSUME NEW p \in Owners, EndFault(p) PROVE JobsMatchRuns'
  BY <1>33, <1>i, <1>t, Kinds DEF EndFault, AllDrained, Unsettled, Of, Goto, durable,
          threads, rendezvous, JobsMatchRuns, Finished, OneThreadPerOwner
<1>34. ASSUME NEW h \in Humans, Answer(h) PROVE JobsMatchRuns'
  BY <1>34, <1>i, <1>t, Kinds DEF Answer, Goto, durable, threads, rendezvous,
          JobsMatchRuns, Finished
<1>35. ASSUME ResumeRoot PROVE JobsMatchRuns'
  BY <1>35, <1>i, <1>t, Kinds, <1>o, <1>s DEF ResumeRoot, MayResume, Goto, durable,
          threads, rendezvous, JobsMatchRuns, Finished
<1>36. ASSUME ExpireWaiting PROVE JobsMatchRuns'
  BY <1>36, <1>i, <1>t, Kinds, <1>o, <1>s DEF ExpireWaiting, RetirePaused, Goto,
          durable, threads, rendezvous, JobsMatchRuns, Finished
<1>37. ASSUME CancelPaused PROVE JobsMatchRuns'
  BY <1>37, <1>i, <1>t, Kinds, <1>o, <1>s DEF CancelPaused, RetirePaused, Goto, durable,
          threads, rendezvous, JobsMatchRuns, Finished
<1>38. ASSUME Cancel PROVE JobsMatchRuns'
  BY <1>38, <1>i, <1>t, Kinds DEF Cancel, Goto, durable, threads, rendezvous,
          JobsMatchRuns, Finished
<1>39. ASSUME Deadline PROVE JobsMatchRuns'
  BY <1>39, <1>i, <1>t, Kinds DEF Deadline, Goto, durable, threads, rendezvous,
          JobsMatchRuns, Finished
<1>40. ASSUME NEW h \in Humans, Expiry(h) PROVE JobsMatchRuns'
  BY <1>40, <1>i, <1>t, Kinds DEF Expiry, Goto, durable, threads, rendezvous,
          JobsMatchRuns, Finished
<1>41. ASSUME NEW c \in Tasks, ReleaseSlot(c) PROVE JobsMatchRuns'
  BY <1>41, <1>i, <1>t, Kinds DEF ReleaseSlot, Goto, durable, threads, rendezvous,
          JobsMatchRuns, Finished
<1>42. ASSUME ResumeRefused PROVE JobsMatchRuns'
  BY <1>42, <1>i, <1>t, Kinds DEF ResumeRefused, Goto, durable, threads, rendezvous,
          JobsMatchRuns, Finished
<1>43. CASE UNCHANGED vars
  BY <1>43, <1>i, <1>t, Kinds DEF vars, Goto, durable, threads, rendezvous,
          JobsMatchRuns, Finished
<1> QED BY <1>1, <1>2, <1>3, <1>4, <1>5, <1>6, <1>7, <1>8, <1>9, <1>10, <1>11, <1>12, <1>13,
          <1>14, <1>15, <1>16, <1>17, <1>18, <1>19, <1>20, <1>21, <1>22, <1>23, <1>24,
          <1>25, <1>26, <1>27, <1>28, <1>29, <1>30, <1>31, <1>32, <1>33, <1>34, <1>35,
          <1>36, <1>37, <1>38, <1>39, <1>40, <1>41, <1>42, <1>43
          DEF Next, ThreadStep, ChildStep, WorkerStep

\* A pause finds no child at work with a slot, so that whoever holds one while it lives
\* has a running row.
LEMMA HoldersRun ==
    ASSUME PlanInv, NEW c \in slots, job[c] = "live"
    PROVE  run[c] = "running" /\ run[Root] # "paused"
<1>1. /\ c \in Tasks /\ (c \in Planners => pc[c] \in Holding)
      /\ run[c] \in {"running", "paused"}
  BY DEF PlanInv, PlanTypes, SlotTypes, SlotsAreHeld, JobsMatchRuns
<1>2. ASSUME run[Root] = "paused" PROVE FALSE
  <2>1. PausedRows /\ PausedThreads
    BY <1>2 DEF PlanInv, PauseIsClosed
  <2>2. c \in Chain(binding)
    BY <1>1, <2>1 DEF PausedRows, Live
  <2>3. c \in Planners
    BY <2>2, ChainHolds DEF PlanInv, PlanTypes, RowTypes
  <2> QED BY <1>1, <2>1, <2>3, Kinds DEF PausedThreads, Holding, Busy
<1>3. run[c] # "paused"
  BY <1>1, <1>2 DEF PlanInv, OnlyPausesJoin
<1> QED BY <1>1, <1>2, <1>3

\* A slot is given back before its holder waits, or after its row has ended.
LEMMA SlotsAreHeldStep ==
    ASSUME PlanInv, [Next]_vars
    PROVE  SlotsAreHeld'
<1>t. /\ pc \in [Owners -> Positions]
      /\ job \in [Tasks -> FutureStates]
      /\ slots \subseteq Tasks
  BY DEF PlanInv, PlanTypes, SlotTypes, RowTypes, ThreadTypes, BudgetTypes
<1>i. SlotsAreHeld /\ OneThreadPerOwner
  BY DEF PlanInv
<1>h. \A c \in slots : job[c] = "live" => run[c] = "running"
  BY HoldersRun
<1>k. \A p \in Planners : p \in slots /\ pc[p] # "off" => job[p] = "live" /\ pc[p] \in Holding
  BY <1>i DEF SlotsAreHeld, OneThreadPerOwner
<1>b. \A p \in Owners : pc[p] = "admit" => \A c \in batch[p] : c \in Tasks => job[c] = "none"
  BY DEF PlanInv, PendingIsFresh, JobsAreClaimed
<1>1. ASSUME NEW c \in Tasks, StartChild(c) PROVE SlotsAreHeld'
  BY <1>1, <1>i, <1>t, Kinds DEF StartChild, Halted, SlotFree, Goto, durable, threads,
          rendezvous, SlotsAreHeld, Holding, OneThreadPerOwner
<1>2. ASSUME NEW c \in Tasks, FinishLeaf(c) PROVE SlotsAreHeld'
  BY <1>2, <1>i, <1>h, <1>k, <1>t, Kinds DEF FinishLeaf, Return, Goto, durable, threads, rendezvous,
          SlotsAreHeld, Holding
<1>3. ASSUME NEW p \in Owners, YieldResumed(p) PROVE SlotsAreHeld'
  BY <1>3, <1>i, <1>t, Kinds DEF YieldResumed, Goto, durable, threads, rendezvous,
          SlotsAreHeld, Holding
<1>4. ASSUME NEW p \in Owners, AcceptPlan(p) PROVE SlotsAreHeld'
  BY <1>4, <1>i, <1>t, Kinds DEF AcceptPlan, Halted, Goto, durable, threads, rendezvous,
          SlotsAreHeld, Holding
<1>5. ASSUME NEW p \in Owners, AgentEnds(p) PROVE SlotsAreHeld'
  BY <1>5, <1>i, <1>h, <1>k, <1>t, Kinds DEF AgentEnds, Halted, RootEnds, Return, In, Of, Goto,
          durable, threads, rendezvous, SlotsAreHeld, Holding
<1>6. ASSUME NEW p \in Owners, NEW c \in Tasks, SettleChild(p, c) PROVE SlotsAreHeld'
  BY <1>6, <1>i, <1>t, Kinds DEF SettleChild, Settle, Unsettled, Of, Goto, durable,
          threads, rendezvous, SlotsAreHeld, Holding
<1>7. ASSUME NEW p \in Owners, NEW c \in Tasks, ObservePause(p, c) PROVE SlotsAreHeld'
  BY <1>7, <1>i, <1>t, Kinds DEF ObservePause, Unsettled, Of, Goto, durable, threads,
          rendezvous, SlotsAreHeld, Holding
<1>8. ASSUME NEW p \in Owners, Joined(p) PROVE SlotsAreHeld'
  BY <1>8, <1>i, <1>h, <1>k, <1>t, Kinds DEF Joined, AllDrained, Unsettled, Of, ReturnPaused, Goto,
          durable, threads, rendezvous, SlotsAreHeld, Holding
<1>9. ASSUME NEW p \in Owners, NEW c \in Tasks, JoinSibling(p, c) PROVE SlotsAreHeld'
  BY <1>9, <1>i, <1>t, Kinds DEF JoinSibling, Settle, Unsettled, Of, Goto, durable,
          threads, rendezvous, SlotsAreHeld, Holding
<1>10. ASSUME NEW p \in Owners, LoopThrows(p) PROVE SlotsAreHeld'
  BY <1>10, <1>i, <1>t, Kinds DEF LoopThrows, Halted, Throw, Unsettled, Of, Goto,
          durable, threads, rendezvous, SlotsAreHeld, Holding
<1>11. ASSUME NEW p \in Owners, Inspect(p) PROVE SlotsAreHeld'
  BY <1>11, <1>i, <1>t, Kinds DEF Inspect, Halted, Unsettled, Of, Goto, durable,
          threads, rendezvous, SlotsAreHeld, Holding
<1>12. ASSUME NEW p \in Owners, NEW h \in Humans, Expire(p, h) PROVE SlotsAreHeld'
  BY <1>12, <1>i, <1>t, Kinds DEF Expire, Late, Waiting, Throw, Unsettled, In, Of, Goto,
          durable, threads, rendezvous, SlotsAreHeld, Holding
<1>13. ASSUME NEW p \in Owners, ResumeChildren(p) PROVE SlotsAreHeld'
  <2>1. \A c \in Resuming(p) : job[c] = "none"
    BY <1>13, TakenUpRun DEF ResumeChildren
  <2> QED BY <1>13, <2>1, <1>i, <1>t, Kinds DEF ResumeChildren, Goto, durable, SlotsAreHeld, Holding
<1>14. ASSUME NEW p \in Owners, Report(p) PROVE SlotsAreHeld'
  BY <1>14, <1>i, <1>t, Kinds DEF Report, Deciding, ReportReady, Throw, Unsettled, In,
          Of, Claimed, Goto, durable, threads, rendezvous, SlotsAreHeld, Holding
<1>15. ASSUME NEW p \in Owners, NEW h \in Humans, Publish(p, h) PROVE SlotsAreHeld'
  BY <1>15, <1>i, <1>t, Kinds DEF Publish, Deciding, Ready, Throw, Unsettled, In, Of,
          Goto, durable, threads, rendezvous, SlotsAreHeld, Holding
<1>16. ASSUME NEW p \in Owners, NEW F \in SUBSET Tasks, Stage(p, F) PROVE SlotsAreHeld'
  BY <1>16, <1>i, <1>t, Kinds DEF Stage, Deciding, Ready, In, Of, Goto, durable,
          threads, rendezvous, SlotsAreHeld, Holding
<1>17. ASSUME NEW p \in Owners, Idle(p) PROVE SlotsAreHeld'
  BY <1>17, <1>i, <1>t, Kinds DEF Idle, Deciding, Goto, durable, threads, rendezvous,
          SlotsAreHeld, Holding
<1>18. ASSUME NEW p \in Owners, Admit(p) PROVE SlotsAreHeld'
  BY <1>18, <1>i, <1>t, Kinds, <1>b DEF Admit, Halted, Throw, Unsettled, Of, Goto,
          durable, threads, rendezvous, SlotsAreHeld, Holding
<1>19. ASSUME NEW p \in Owners, AwaitPeople(p) PROVE SlotsAreHeld'
  BY <1>19, <1>i, <1>t, Kinds DEF AwaitPeople, Deciding, Unsettled, Of, Goto, durable,
          threads, rendezvous, SlotsAreHeld, Holding
<1>20. ASSUME NEW p \in Owners, Drain(p) PROVE SlotsAreHeld'
  BY <1>20, <1>i, <1>t, Kinds DEF Drain, Halted, Throw, Unsettled, Of, Goto, durable,
          threads, rendezvous, SlotsAreHeld, Holding
<1>21. ASSUME NEW p \in Owners, Register(p) PROVE SlotsAreHeld'
  BY <1>21, <1>i, <1>t, Kinds DEF Register, Throw, Rethrow, ReturnPaused, Unsettled, Of,
          Goto, durable, threads, rendezvous, SlotsAreHeld, Holding
<1>22. ASSUME NEW p \in Owners, Concluded(p) PROVE SlotsAreHeld'
  BY <1>22, <1>i, <1>h, <1>k, <1>t, Kinds DEF Concluded, Rethrow, Throw, ReturnPaused, Unsettled,
          Of, Goto, durable, threads, rendezvous, SlotsAreHeld, Holding
<1>23. ASSUME NEW p \in Owners, PollThrows(p) PROVE SlotsAreHeld'
  BY <1>23, <1>i, <1>t, Kinds DEF PollThrows, Waits, Throw, Unsettled, Of, Goto,
          durable, threads, rendezvous, SlotsAreHeld, Holding
<1>24. ASSUME NEW p \in Owners, Poll(p) PROVE SlotsAreHeld'
  BY <1>24, <1>i, <1>t, Kinds DEF Poll, Waits, Goto, durable, threads, rendezvous,
          SlotsAreHeld, Holding
<1>25. ASSUME NEW p \in Owners, Commit(p) PROVE SlotsAreHeld'
  BY <1>25, <1>i, <1>t, Kinds DEF Commit, Goto, durable, threads, rendezvous,
          SlotsAreHeld, Holding
<1>26. ASSUME NEW p \in Owners, Suspend(p) PROVE SlotsAreHeld'
  BY <1>26, <1>i, <1>h, <1>k, <1>t, Kinds DEF Suspend, PauseFailed, ReturnPaused, Throw, Unsettled,
          Of, Goto, durable, threads, rendezvous, SlotsAreHeld, Holding
<1>27. ASSUME NEW p \in Owners, Reacquire(p) PROVE SlotsAreHeld'
  BY <1>27, <1>i, <1>h, <1>k, <1>t, Kinds DEF Reacquire, Return, Halted, SlotFree, Goto, durable,
          threads, rendezvous, SlotsAreHeld, Holding, OneThreadPerOwner
<1>28. ASSUME NEW p \in Owners, CommitTurn(p) PROVE SlotsAreHeld'
  BY <1>28, <1>i, <1>t, Kinds DEF CommitTurn, Goto, durable, threads, rendezvous,
          SlotsAreHeld, Holding
<1>29. ASSUME NEW p \in Owners, FinishOwner(p) PROVE SlotsAreHeld'
  BY <1>29, <1>i, <1>h, <1>k, <1>t, Kinds DEF FinishOwner, RootEnds, Return, Halted, In, Of, Goto,
          durable, threads, rendezvous, SlotsAreHeld, Holding
<1>30. ASSUME NEW p \in Owners, NEW c \in Tasks, Drained(p, c) PROVE SlotsAreHeld'
  BY <1>30, <1>i, <1>t, Kinds DEF Drained, Settle, Unsettled, Of, Goto, durable,
          threads, rendezvous, SlotsAreHeld, Holding
<1>31. ASSUME NEW p \in Owners, EndUnwind(p) PROVE SlotsAreHeld'
  BY <1>31, <1>i, <1>h, <1>k, <1>t, Kinds DEF EndUnwind, AllDrained, Unsettled, Of, RootEnds,
          Return, Halted, SlotFree, In, Goto, durable, threads, rendezvous,
          SlotsAreHeld, Holding, OneThreadPerOwner
<1>32. ASSUME NEW p \in Owners, Fail(p) PROVE SlotsAreHeld'
  BY <1>32, <1>i, <1>h, <1>k, <1>t, Kinds DEF Fail, Return, Goto, durable, threads, rendezvous,
          SlotsAreHeld, Holding
<1>33. ASSUME NEW p \in Owners, EndFault(p) PROVE SlotsAreHeld'
  BY <1>33, <1>i, <1>h, <1>k, <1>t, Kinds DEF EndFault, AllDrained, Unsettled, Of, Goto, durable,
          threads, rendezvous, SlotsAreHeld, Holding
<1>34. ASSUME NEW h \in Humans, Answer(h) PROVE SlotsAreHeld'
  BY <1>34, <1>i, <1>t, Kinds DEF Answer, Goto, durable, threads, rendezvous,
          SlotsAreHeld, Holding
<1>35. ASSUME ResumeRoot PROVE SlotsAreHeld'
  BY <1>35, <1>i, <1>t, Kinds DEF ResumeRoot, MayResume, Goto, durable, threads,
          rendezvous, SlotsAreHeld, Holding
<1>36. ASSUME ExpireWaiting PROVE SlotsAreHeld'
  BY <1>36, <1>i, <1>t, Kinds DEF ExpireWaiting, RetirePaused, Goto, durable, threads,
          rendezvous, SlotsAreHeld, Holding
<1>37. ASSUME CancelPaused PROVE SlotsAreHeld'
  BY <1>37, <1>i, <1>t, Kinds DEF CancelPaused, RetirePaused, Goto, durable, threads,
          rendezvous, SlotsAreHeld, Holding
<1>38. ASSUME Cancel PROVE SlotsAreHeld'
  BY <1>38, <1>i, <1>t, Kinds DEF Cancel, Goto, durable, threads, rendezvous,
          SlotsAreHeld, Holding
<1>39. ASSUME Deadline PROVE SlotsAreHeld'
  BY <1>39, <1>i, <1>t, Kinds DEF Deadline, Goto, durable, threads, rendezvous,
          SlotsAreHeld, Holding
<1>40. ASSUME NEW h \in Humans, Expiry(h) PROVE SlotsAreHeld'
  BY <1>40, <1>i, <1>t, Kinds DEF Expiry, Goto, durable, threads, rendezvous,
          SlotsAreHeld, Holding
<1>41. ASSUME NEW c \in Tasks, ReleaseSlot(c) PROVE SlotsAreHeld'
  BY <1>41, <1>i, <1>t, Kinds DEF ReleaseSlot, Goto, durable, threads, rendezvous,
          SlotsAreHeld, Holding
<1>42. ASSUME ResumeRefused PROVE SlotsAreHeld'
  BY <1>42, <1>i, <1>t, Kinds DEF ResumeRefused, Goto, durable, threads, rendezvous,
          SlotsAreHeld, Holding
<1>43. CASE UNCHANGED vars
  BY <1>43, <1>i, <1>t, Kinds DEF vars, Goto, durable, threads, rendezvous,
          SlotsAreHeld, Holding
<1> QED BY <1>1, <1>2, <1>3, <1>4, <1>5, <1>6, <1>7, <1>8, <1>9, <1>10, <1>11, <1>12, <1>13,
          <1>14, <1>15, <1>16, <1>17, <1>18, <1>19, <1>20, <1>21, <1>22, <1>23, <1>24,
          <1>25, <1>26, <1>27, <1>28, <1>29, <1>30, <1>31, <1>32, <1>33, <1>34, <1>35,
          <1>36, <1>37, <1>38, <1>39, <1>40, <1>41, <1>42, <1>43
          DEF Next, ThreadStep, ChildStep, WorkerStep

\* The service and the rows agree on whether the root runs, rests or has ended.
LEMMA RootAgreesStep ==
    ASSUME PlanInv, [Next]_vars
    PROVE  RootAgrees'
<1>t. /\ pc \in [Owners -> Positions]
      /\ job \in [Tasks -> FutureStates]
      /\ run \in [Tasks \union {Root} -> RunStates]
      /\ batch \in [Owners -> SUBSET Tasks]
      /\ tree \in Trees
  BY DEF PlanInv, PlanTypes, SlotTypes, RowTypes, ThreadTypes, BudgetTypes
<1>i. RootAgrees
  BY DEF PlanInv
<1>c. run[Root] = "paused" => \A c \in Tasks : run[c] \in Live <=> c \in Chain(binding)
  BY DEF PlanInv, PauseIsClosed, PausedRows, PausedThreads
<1>d. \A p \in Owners : paused /\ pc[p] # "off" => run[Root] = "paused"
  BY PauseIsKnown
<1>e. \A p \in Owners : pc[p] = "joining" => run[Root] = "paused"
  BY DEF PlanInv, OnlyPausesJoin
<1>f. run[Root] \in Finished => /\ \A p \in Owners : pc[p] = "off"
                                /\ \A c \in Tasks : job[c] = "none"
  BY <1>i, AllOff DEF PlanInv, RootAgrees
<1>1. ASSUME NEW c \in Tasks, StartChild(c) PROVE RootAgrees'
  BY <1>1, <1>i, <1>t, <1>f, Kinds DEF StartChild, Halted, SlotFree, Goto, durable,
          threads, rendezvous, RootAgrees, Finished, Live
<1>2. ASSUME NEW c \in Tasks, FinishLeaf(c) PROVE RootAgrees'
  BY <1>2, <1>i, <1>t, <1>f, Kinds DEF FinishLeaf, Return, Goto, durable, threads,
          rendezvous, RootAgrees, Finished, Live
<1>3. ASSUME NEW p \in Owners, YieldResumed(p) PROVE RootAgrees'
  BY <1>3, <1>i, <1>t, <1>f, Kinds DEF YieldResumed, Goto, durable, threads, rendezvous,
          RootAgrees, Finished, Live
<1>4. ASSUME NEW p \in Owners, AcceptPlan(p) PROVE RootAgrees'
  BY <1>4, <1>i, <1>t, <1>f, Kinds DEF AcceptPlan, Halted, Goto, durable, threads,
          rendezvous, RootAgrees, Finished, Live
<1>5. ASSUME NEW p \in Owners, AgentEnds(p) PROVE RootAgrees'
  BY <1>5, <1>i, <1>t, <1>f, Kinds DEF AgentEnds, Halted, RootEnds, Return, In, Of,
          Goto, durable, threads, rendezvous, RootAgrees, Finished, Live
<1>6. ASSUME NEW p \in Owners, NEW c \in Tasks, SettleChild(p, c) PROVE RootAgrees'
  BY <1>6, <1>i, <1>t, <1>f, Kinds DEF SettleChild, Settle, Unsettled, Of, Goto,
          durable, threads, rendezvous, RootAgrees, Finished, Live
<1>7. ASSUME NEW p \in Owners, NEW c \in Tasks, ObservePause(p, c) PROVE RootAgrees'
  BY <1>7, <1>i, <1>t, <1>f, Kinds DEF ObservePause, Unsettled, Of, Goto, durable,
          threads, rendezvous, RootAgrees, Finished, Live
<1>8. ASSUME NEW p \in Owners, Joined(p) PROVE RootAgrees'
  BY <1>8, <1>i, <1>t, <1>f, Kinds, <1>d, <1>e DEF Joined, AllDrained, Unsettled, Of,
          ReturnPaused, Goto, durable, threads, rendezvous, RootAgrees, Finished, Live
<1>9. ASSUME NEW p \in Owners, NEW c \in Tasks, JoinSibling(p, c) PROVE RootAgrees'
  BY <1>9, <1>i, <1>t, <1>f, Kinds DEF JoinSibling, Settle, Unsettled, Of, Goto,
          durable, threads, rendezvous, RootAgrees, Finished, Live
<1>10. ASSUME NEW p \in Owners, LoopThrows(p) PROVE RootAgrees'
  BY <1>10, <1>i, <1>t, <1>f, Kinds DEF LoopThrows, Halted, Throw, Unsettled, Of, Goto,
          durable, threads, rendezvous, RootAgrees, Finished, Live
<1>11. ASSUME NEW p \in Owners, Inspect(p) PROVE RootAgrees'
  BY <1>11, <1>i, <1>t, <1>f, Kinds DEF Inspect, Halted, Unsettled, Of, Goto, durable,
          threads, rendezvous, RootAgrees, Finished, Live
<1>12. ASSUME NEW p \in Owners, NEW h \in Humans, Expire(p, h) PROVE RootAgrees'
  BY <1>12, <1>i, <1>t, <1>f, Kinds DEF Expire, Late, Waiting, Throw, Unsettled, In, Of,
          Goto, durable, threads, rendezvous, RootAgrees, Finished, Live
<1>13. ASSUME NEW p \in Owners, ResumeChildren(p) PROVE RootAgrees'
  BY <1>13, <1>i, <1>t, <1>f, Kinds DEF ResumeChildren, Late, TakesUp, Resuming,
          Claimed, Unsettled, In, Of, Goto, durable, threads, rendezvous, RootAgrees,
          Finished, Live
<1>14. ASSUME NEW p \in Owners, Report(p) PROVE RootAgrees'
  BY <1>14, <1>i, <1>t, <1>f, Kinds DEF Report, Deciding, ReportReady, Throw, Unsettled,
          In, Of, Claimed, Goto, durable, threads, rendezvous, RootAgrees, Finished,
          Live
<1>15. ASSUME NEW p \in Owners, NEW h \in Humans, Publish(p, h) PROVE RootAgrees'
  BY <1>15, <1>i, <1>t, <1>f, Kinds DEF Publish, Deciding, Ready, Throw, Unsettled, In,
          Of, Goto, durable, threads, rendezvous, RootAgrees, Finished, Live
<1>16. ASSUME NEW p \in Owners, NEW F \in SUBSET Tasks, Stage(p, F) PROVE RootAgrees'
  BY <1>16, <1>i, <1>t, <1>f, Kinds DEF Stage, Deciding, Ready, In, Of, Goto, durable,
          threads, rendezvous, RootAgrees, Finished, Live
<1>17. ASSUME NEW p \in Owners, Idle(p) PROVE RootAgrees'
  BY <1>17, <1>i, <1>t, <1>f, Kinds DEF Idle, Deciding, Goto, durable, threads,
          rendezvous, RootAgrees, Finished, Live
<1>18. ASSUME NEW p \in Owners, Admit(p) PROVE RootAgrees'
  BY <1>18, <1>i, <1>t, <1>f, Kinds DEF Admit, Halted, Throw, Unsettled, Of, Goto,
          durable, threads, rendezvous, RootAgrees, Finished, Live
<1>19. ASSUME NEW p \in Owners, AwaitPeople(p) PROVE RootAgrees'
  BY <1>19, <1>i, <1>t, <1>f, Kinds DEF AwaitPeople, Deciding, Unsettled, Of, Goto,
          durable, threads, rendezvous, RootAgrees, Finished, Live
<1>20. ASSUME NEW p \in Owners, Drain(p) PROVE RootAgrees'
  BY <1>20, <1>i, <1>t, <1>f, Kinds DEF Drain, Halted, Throw, Unsettled, Of, Goto,
          durable, threads, rendezvous, RootAgrees, Finished, Live
<1>21. ASSUME NEW p \in Owners, Register(p) PROVE RootAgrees'
  BY <1>21, <1>i, <1>t, <1>f, Kinds, <1>d, <1>e DEF Register, Throw, Rethrow,
          ReturnPaused, Unsettled, Of, Goto, durable, threads, rendezvous, RootAgrees,
          Finished, Live
<1>22. ASSUME NEW p \in Owners, Concluded(p) PROVE RootAgrees'
  BY <1>22, <1>i, <1>t, <1>f, Kinds, <1>d, <1>e DEF Concluded, Rethrow, Throw,
          ReturnPaused, Unsettled, Of, Goto, durable, threads, rendezvous, RootAgrees,
          Finished, Live
<1>23. ASSUME NEW p \in Owners, PollThrows(p) PROVE RootAgrees'
  BY <1>23, <1>i, <1>t, <1>f, Kinds DEF PollThrows, Waits, Throw, Unsettled, Of, Goto,
          durable, threads, rendezvous, RootAgrees, Finished, Live
<1>24. ASSUME NEW p \in Owners, Poll(p) PROVE RootAgrees'
  BY <1>24, <1>i, <1>t, <1>f, Kinds DEF Poll, Waits, Goto, durable, threads, rendezvous,
          RootAgrees, Finished, Live
<1>25. ASSUME NEW p \in Owners, Commit(p) PROVE RootAgrees'
  BY <1>25, <1>i, <1>t, <1>f, Kinds DEF Commit, Goto, durable, threads, rendezvous,
          RootAgrees, Finished, Live
<1>26. ASSUME NEW p \in Owners, Suspend(p) PROVE RootAgrees'
  BY <1>26, <1>i, <1>t, <1>f, Kinds DEF Suspend, PauseFailed, ReturnPaused, Throw,
          Unsettled, Of, Goto, durable, threads, rendezvous, RootAgrees, Finished, Live,
          WaitsHold
<1>27. ASSUME NEW p \in Owners, Reacquire(p) PROVE RootAgrees'
  BY <1>27, <1>i, <1>t, <1>f, Kinds DEF Reacquire, Return, Halted, SlotFree, Goto,
          durable, threads, rendezvous, RootAgrees, Finished, Live
<1>28. ASSUME NEW p \in Owners, CommitTurn(p) PROVE RootAgrees'
  BY <1>28, <1>i, <1>t, <1>f, Kinds DEF CommitTurn, Goto, durable, threads, rendezvous,
          RootAgrees, Finished, Live
<1>29. ASSUME NEW p \in Owners, FinishOwner(p) PROVE RootAgrees'
  BY <1>29, <1>i, <1>t, <1>f, Kinds DEF FinishOwner, RootEnds, Return, Halted, In, Of,
          Goto, durable, threads, rendezvous, RootAgrees, Finished, Live
<1>30. ASSUME NEW p \in Owners, NEW c \in Tasks, Drained(p, c) PROVE RootAgrees'
  BY <1>30, <1>i, <1>t, <1>f, Kinds DEF Drained, Settle, Unsettled, Of, Goto, durable,
          threads, rendezvous, RootAgrees, Finished, Live
<1>31. ASSUME NEW p \in Owners, EndUnwind(p) PROVE RootAgrees'
  BY <1>31, <1>i, <1>t, <1>f, Kinds DEF EndUnwind, AllDrained, Unsettled, Of, RootEnds,
          Return, Halted, SlotFree, In, Goto, durable, threads, rendezvous, RootAgrees,
          Finished, Live
<1>32. ASSUME NEW p \in Owners, Fail(p) PROVE RootAgrees'
  BY <1>32, <1>i, <1>t, <1>f, Kinds DEF Fail, Return, Goto, durable, threads,
          rendezvous, RootAgrees, Finished, Live
<1>33. ASSUME NEW p \in Owners, EndFault(p) PROVE RootAgrees'
  BY <1>33, <1>i, <1>t, <1>f, Kinds DEF EndFault, AllDrained, Unsettled, Of, Goto,
          durable, threads, rendezvous, RootAgrees, Finished, Live
<1>34. ASSUME NEW h \in Humans, Answer(h) PROVE RootAgrees'
  BY <1>34, <1>i, <1>t, <1>f, Kinds DEF Answer, Goto, durable, threads, rendezvous,
          RootAgrees, Finished, Live
<1>35. ASSUME ResumeRoot PROVE RootAgrees'
  BY <1>35, <1>i, <1>t, <1>f, Kinds, <1>c DEF ResumeRoot, MayResume, Goto, durable,
          threads, rendezvous, RootAgrees, Finished, Live
<1>36. ASSUME ExpireWaiting PROVE RootAgrees'
  BY <1>36, <1>i, <1>t, <1>f, Kinds, <1>c DEF ExpireWaiting, RetirePaused, Goto,
          durable, threads, rendezvous, RootAgrees, Finished, Live
<1>37. ASSUME CancelPaused PROVE RootAgrees'
  BY <1>37, <1>i, <1>t, <1>f, Kinds, <1>c DEF CancelPaused, RetirePaused, Goto, durable,
          threads, rendezvous, RootAgrees, Finished, Live
<1>38. ASSUME Cancel PROVE RootAgrees'
  BY <1>38, <1>i, <1>t, <1>f, Kinds DEF Cancel, Goto, durable, threads, rendezvous,
          RootAgrees, Finished, Live
<1>39. ASSUME Deadline PROVE RootAgrees'
  BY <1>39, <1>i, <1>t, <1>f, Kinds DEF Deadline, Goto, durable, threads, rendezvous,
          RootAgrees, Finished, Live
<1>40. ASSUME NEW h \in Humans, Expiry(h) PROVE RootAgrees'
  BY <1>40, <1>i, <1>t, <1>f, Kinds DEF Expiry, Goto, durable, threads, rendezvous,
          RootAgrees, Finished, Live
<1>41. ASSUME NEW c \in Tasks, ReleaseSlot(c) PROVE RootAgrees'
  BY <1>41, <1>i, <1>t, <1>f, Kinds DEF ReleaseSlot, Goto, durable, threads, rendezvous,
          RootAgrees, Finished, Live
<1>42. ASSUME ResumeRefused PROVE RootAgrees'
  BY <1>42, <1>i, <1>t, <1>f, Kinds DEF ResumeRefused, Goto, durable, threads,
          rendezvous, RootAgrees, Finished, Live
<1>43. CASE UNCHANGED vars
  BY <1>43, <1>i, <1>t, <1>f, Kinds DEF vars, Goto, durable, threads, rendezvous,
          RootAgrees, Finished, Live
<1> QED BY <1>1, <1>2, <1>3, <1>4, <1>5, <1>6, <1>7, <1>8, <1>9, <1>10, <1>11, <1>12, <1>13,
          <1>14, <1>15, <1>16, <1>17, <1>18, <1>19, <1>20, <1>21, <1>22, <1>23, <1>24,
          <1>25, <1>26, <1>27, <1>28, <1>29, <1>30, <1>31, <1>32, <1>33, <1>34, <1>35,
          <1>36, <1>37, <1>38, <1>39, <1>40, <1>41, <1>42, <1>43
          DEF Next, ThreadStep, ChildStep, WorkerStep

\* A root that is paused does not end by itself: some child still has to tell it.
LEMMA PausedRootGoesOn ==
    ASSUME PlanInv, run[Root] = "paused", pc[Root] # "off"
    PROVE  pc[Root] \in Busy /\ ~(pc[Root] = "unwind" /\ AllDrained(Root))
<1>1. Root \notin binding /\ pc[Root] \in Busy
  BY Kinds DEF PlanInv, PauseIsClosed, PausedRows, PausedThreads
<1>2. pc[Root] = "unwind" => \E c \in Tasks : tree.owner[c] = Root /\ job[c] # "none"
  BY <1>1, Kinds DEF PlanInv, PauseIsClosed, PausedRows, PausedThreads
<1> QED BY <1>1, <1>2, Kinds DEF AllDrained, Unsettled, Of

\* Threads join or fault, and futures pause or throw, only while the root is paused.
LEMMA OnlyPausesJoinStep ==
    ASSUME PlanInv, [Next]_vars
    PROVE  OnlyPausesJoin'
<1>t. /\ pc \in [Owners -> Positions]
      /\ job \in [Tasks -> FutureStates]
      /\ run \in [Tasks \union {Root} -> RunStates]
      /\ batch \in [Owners -> SUBSET Tasks]
      /\ tree \in Trees
  BY DEF PlanInv, PlanTypes, SlotTypes, RowTypes, ThreadTypes, BudgetTypes
<1>i. OnlyPausesJoin /\ JobsMatchRuns /\ OneThreadPerOwner
  BY DEF PlanInv
<1>d. \A p \in Owners : paused /\ pc[p] # "off" => run[Root] = "paused"
  BY PauseIsKnown
<1>x. run[Root] = "paused" =>
        pc[Root] \notin {"model", "final"} /\ ~(pc[Root] = "unwind" /\ AllDrained(Root))
  BY PausedRootGoesOn DEF Busy
<1>o. pc[Root] = "off" => /\ \A p \in Owners : pc[p] = "off"
                         /\ \A c \in Tasks : job[c] = "none"
  BY AllOff DEF PlanInv
<1>s. service \in {"waiting", "queued", "retiring"} => pc[Root] = "off"
  BY DEF PlanInv, RootAgrees
<1>c. run[Root] = "paused" => \A c \in Tasks : run[c] \in Live <=> c \in Chain(binding)
  BY DEF PlanInv, PauseIsClosed, PausedRows, PausedThreads
<1>1. ASSUME NEW c \in Tasks, StartChild(c) PROVE OnlyPausesJoin'
  BY <1>1, <1>i, <1>t, Kinds DEF StartChild, Halted, SlotFree, Goto, durable, threads,
          rendezvous, OnlyPausesJoin, JobsMatchRuns, OneThreadPerOwner
<1>2. ASSUME NEW c \in Tasks, FinishLeaf(c) PROVE OnlyPausesJoin'
  BY <1>2, <1>i, <1>t, Kinds DEF FinishLeaf, Return, Goto, durable, threads, rendezvous,
          OnlyPausesJoin, JobsMatchRuns, OneThreadPerOwner
<1>3. ASSUME NEW p \in Owners, YieldResumed(p) PROVE OnlyPausesJoin'
  BY <1>3, <1>i, <1>t, Kinds DEF YieldResumed, Goto, durable, threads, rendezvous,
          OnlyPausesJoin
<1>4. ASSUME NEW p \in Owners, AcceptPlan(p) PROVE OnlyPausesJoin'
  BY <1>4, <1>i, <1>t, Kinds DEF AcceptPlan, Halted, Goto, durable, threads, rendezvous,
          OnlyPausesJoin
<1>5. ASSUME NEW p \in Owners, AgentEnds(p) PROVE OnlyPausesJoin'
  BY <1>5, <1>i, <1>t, Kinds, <1>x DEF AgentEnds, Halted, RootEnds, Return, In, Of,
          Goto, durable, threads, rendezvous, OnlyPausesJoin, JobsMatchRuns,
          OneThreadPerOwner
<1>6. ASSUME NEW p \in Owners, NEW c \in Tasks, SettleChild(p, c) PROVE OnlyPausesJoin'
  BY <1>6, <1>i, <1>t, Kinds DEF SettleChild, Settle, Unsettled, Of, Goto, durable,
          threads, rendezvous, OnlyPausesJoin
<1>7. ASSUME NEW p \in Owners, NEW c \in Tasks, ObservePause(p, c) PROVE OnlyPausesJoin'
  BY <1>7, <1>i, <1>t, Kinds DEF ObservePause, Unsettled, Of, Goto, durable, threads,
          rendezvous, OnlyPausesJoin
<1>8. ASSUME NEW p \in Owners, Joined(p) PROVE OnlyPausesJoin'
  BY <1>8, <1>i, <1>t, Kinds, <1>d DEF Joined, AllDrained, Unsettled, Of, ReturnPaused,
          Goto, durable, threads, rendezvous, OnlyPausesJoin
<1>9. ASSUME NEW p \in Owners, NEW c \in Tasks, JoinSibling(p, c) PROVE OnlyPausesJoin'
  BY <1>9, <1>i, <1>t, Kinds DEF JoinSibling, Settle, Unsettled, Of, Goto, durable,
          threads, rendezvous, OnlyPausesJoin
<1>10. ASSUME NEW p \in Owners, LoopThrows(p) PROVE OnlyPausesJoin'
  BY <1>10, <1>i, <1>t, Kinds DEF LoopThrows, Halted, Throw, Unsettled, Of, Goto,
          durable, threads, rendezvous, OnlyPausesJoin
<1>11. ASSUME NEW p \in Owners, Inspect(p) PROVE OnlyPausesJoin'
  BY <1>11, <1>i, <1>t, Kinds DEF Inspect, Halted, Unsettled, Of, Goto, durable,
          threads, rendezvous, OnlyPausesJoin
<1>12. ASSUME NEW p \in Owners, NEW h \in Humans, Expire(p, h) PROVE OnlyPausesJoin'
  BY <1>12, <1>i, <1>t, Kinds DEF Expire, Late, Waiting, Throw, Unsettled, In, Of, Goto,
          durable, threads, rendezvous, OnlyPausesJoin
<1>13. ASSUME NEW p \in Owners, ResumeChildren(p) PROVE OnlyPausesJoin'
  BY <1>13, <1>i, <1>t, Kinds DEF ResumeChildren, Late, TakesUp, Resuming, Claimed,
          Unsettled, In, Of, Goto, durable, threads, rendezvous, OnlyPausesJoin
<1>14. ASSUME NEW p \in Owners, Report(p) PROVE OnlyPausesJoin'
  BY <1>14, <1>i, <1>t, Kinds DEF Report, Deciding, ReportReady, Throw, Unsettled, In,
          Of, Claimed, Goto, durable, threads, rendezvous, OnlyPausesJoin
<1>15. ASSUME NEW p \in Owners, NEW h \in Humans, Publish(p, h) PROVE OnlyPausesJoin'
  BY <1>15, <1>i, <1>t, Kinds DEF Publish, Deciding, Ready, Throw, Unsettled, In, Of,
          Goto, durable, threads, rendezvous, OnlyPausesJoin
<1>16. ASSUME NEW p \in Owners, NEW F \in SUBSET Tasks, Stage(p, F) PROVE OnlyPausesJoin'
  BY <1>16, <1>i, <1>t, Kinds DEF Stage, Deciding, Ready, In, Of, Goto, durable,
          threads, rendezvous, OnlyPausesJoin
<1>17. ASSUME NEW p \in Owners, Idle(p) PROVE OnlyPausesJoin'
  BY <1>17, <1>i, <1>t, Kinds DEF Idle, Deciding, Goto, durable, threads, rendezvous,
          OnlyPausesJoin
<1>18. ASSUME NEW p \in Owners, Admit(p) PROVE OnlyPausesJoin'
  BY <1>18, <1>i, <1>t, Kinds DEF Admit, Halted, Throw, Unsettled, Of, Goto, durable,
          threads, rendezvous, OnlyPausesJoin
<1>19. ASSUME NEW p \in Owners, AwaitPeople(p) PROVE OnlyPausesJoin'
  BY <1>19, <1>i, <1>t, Kinds DEF AwaitPeople, Deciding, Unsettled, Of, Goto, durable,
          threads, rendezvous, OnlyPausesJoin
<1>20. ASSUME NEW p \in Owners, Drain(p) PROVE OnlyPausesJoin'
  BY <1>20, <1>i, <1>t, Kinds DEF Drain, Halted, Throw, Unsettled, Of, Goto, durable,
          threads, rendezvous, OnlyPausesJoin
<1>21. ASSUME NEW p \in Owners, Register(p) PROVE OnlyPausesJoin'
  BY <1>21, <1>i, <1>t, Kinds, <1>d DEF Register, Throw, Rethrow, ReturnPaused,
          Unsettled, Of, Goto, durable, threads, rendezvous, OnlyPausesJoin
<1>22. ASSUME NEW p \in Owners, Concluded(p) PROVE OnlyPausesJoin'
  BY <1>22, <1>i, <1>t, Kinds, <1>d DEF Concluded, Rethrow, Throw, ReturnPaused,
          Unsettled, Of, Goto, durable, threads, rendezvous, OnlyPausesJoin
<1>23. ASSUME NEW p \in Owners, PollThrows(p) PROVE OnlyPausesJoin'
  BY <1>23, <1>i, <1>t, Kinds DEF PollThrows, Waits, Throw, Unsettled, Of, Goto,
          durable, threads, rendezvous, OnlyPausesJoin
<1>24. ASSUME NEW p \in Owners, Poll(p) PROVE OnlyPausesJoin'
  BY <1>24, <1>i, <1>t, Kinds DEF Poll, Waits, Goto, durable, threads, rendezvous,
          OnlyPausesJoin
<1>25. ASSUME NEW p \in Owners, Commit(p) PROVE OnlyPausesJoin'
  BY <1>25, <1>i, <1>t, Kinds DEF Commit, Goto, durable, threads, rendezvous,
          OnlyPausesJoin
<1>26. ASSUME NEW p \in Owners, Suspend(p) PROVE OnlyPausesJoin'
  BY <1>26, <1>i, <1>t, Kinds DEF Suspend, PauseFailed, ReturnPaused, Throw, Unsettled,
          Of, Goto, durable, threads, rendezvous, OnlyPausesJoin
<1>27. ASSUME NEW p \in Owners, Reacquire(p) PROVE OnlyPausesJoin'
  BY <1>27, <1>i, <1>t, Kinds DEF Reacquire, Return, Halted, SlotFree, Goto, durable,
          threads, rendezvous, OnlyPausesJoin, JobsMatchRuns, OneThreadPerOwner
<1>28. ASSUME NEW p \in Owners, CommitTurn(p) PROVE OnlyPausesJoin'
  BY <1>28, <1>i, <1>t, Kinds DEF CommitTurn, Goto, durable, threads, rendezvous,
          OnlyPausesJoin
<1>29. ASSUME NEW p \in Owners, FinishOwner(p) PROVE OnlyPausesJoin'
  BY <1>29, <1>i, <1>t, Kinds, <1>x DEF FinishOwner, RootEnds, Return, Halted, In, Of,
          Goto, durable, threads, rendezvous, OnlyPausesJoin, JobsMatchRuns,
          OneThreadPerOwner
<1>30. ASSUME NEW p \in Owners, NEW c \in Tasks, Drained(p, c) PROVE OnlyPausesJoin'
  BY <1>30, <1>i, <1>t, Kinds DEF Drained, Settle, Unsettled, Of, Goto, durable,
          threads, rendezvous, OnlyPausesJoin
<1>31. ASSUME NEW p \in Owners, EndUnwind(p) PROVE OnlyPausesJoin'
  BY <1>31, <1>i, <1>t, Kinds, <1>x DEF EndUnwind, AllDrained, Unsettled, Of, RootEnds,
          Return, Halted, SlotFree, In, Goto, durable, threads, rendezvous,
          OnlyPausesJoin, JobsMatchRuns, OneThreadPerOwner
<1>32. ASSUME NEW p \in Owners, Fail(p) PROVE OnlyPausesJoin'
  BY <1>32, <1>i, <1>t, Kinds DEF Fail, Return, Goto, durable, threads, rendezvous,
          OnlyPausesJoin, JobsMatchRuns, OneThreadPerOwner
<1>33. ASSUME NEW p \in Owners, EndFault(p) PROVE OnlyPausesJoin'
  BY <1>33, <1>i, <1>t, Kinds DEF EndFault, AllDrained, Unsettled, Of, Goto, durable,
          threads, rendezvous, OnlyPausesJoin, JobsMatchRuns, OneThreadPerOwner
<1>34. ASSUME NEW h \in Humans, Answer(h) PROVE OnlyPausesJoin'
  BY <1>34, <1>i, <1>t, Kinds DEF Answer, Goto, durable, threads, rendezvous,
          OnlyPausesJoin
<1>35. ASSUME ResumeRoot PROVE OnlyPausesJoin'
  BY <1>35, <1>i, <1>t, Kinds, <1>o, <1>s, <1>c DEF ResumeRoot, MayResume, Goto,
          durable, threads, rendezvous, OnlyPausesJoin, Live
<1>36. ASSUME ExpireWaiting PROVE OnlyPausesJoin'
  BY <1>36, <1>i, <1>t, Kinds, <1>o, <1>s, <1>c DEF ExpireWaiting, RetirePaused, Goto,
          durable, threads, rendezvous, OnlyPausesJoin, Live
<1>37. ASSUME CancelPaused PROVE OnlyPausesJoin'
  BY <1>37, <1>i, <1>t, Kinds, <1>o, <1>s, <1>c DEF CancelPaused, RetirePaused, Goto,
          durable, threads, rendezvous, OnlyPausesJoin, Live
<1>38. ASSUME Cancel PROVE OnlyPausesJoin'
  BY <1>38, <1>i, <1>t, Kinds DEF Cancel, Goto, durable, threads, rendezvous,
          OnlyPausesJoin
<1>39. ASSUME Deadline PROVE OnlyPausesJoin'
  BY <1>39, <1>i, <1>t, Kinds DEF Deadline, Goto, durable, threads, rendezvous,
          OnlyPausesJoin
<1>40. ASSUME NEW h \in Humans, Expiry(h) PROVE OnlyPausesJoin'
  BY <1>40, <1>i, <1>t, Kinds DEF Expiry, Goto, durable, threads, rendezvous,
          OnlyPausesJoin
<1>41. ASSUME NEW c \in Tasks, ReleaseSlot(c) PROVE OnlyPausesJoin'
  BY <1>41, <1>i, <1>t, Kinds DEF ReleaseSlot, Goto, durable, threads, rendezvous,
          OnlyPausesJoin, JobsMatchRuns, OneThreadPerOwner
<1>42. ASSUME ResumeRefused PROVE OnlyPausesJoin'
  BY <1>42, <1>i, <1>t, Kinds DEF ResumeRefused, Goto, durable, threads, rendezvous,
          OnlyPausesJoin
<1>43. CASE UNCHANGED vars
  BY <1>43, <1>i, <1>t, Kinds DEF vars, Goto, durable, threads, rendezvous,
          OnlyPausesJoin
<1> QED BY <1>1, <1>2, <1>3, <1>4, <1>5, <1>6, <1>7, <1>8, <1>9, <1>10, <1>11, <1>12, <1>13,
          <1>14, <1>15, <1>16, <1>17, <1>18, <1>19, <1>20, <1>21, <1>22, <1>23, <1>24,
          <1>25, <1>26, <1>27, <1>28, <1>29, <1>30, <1>31, <1>32, <1>33, <1>34, <1>35,
          <1>36, <1>37, <1>38, <1>39, <1>40, <1>41, <1>42, <1>43
          DEF Next, ThreadStep, ChildStep, WorkerStep

\* One thread commits the pause, and the result is there as long as the root is paused.
LEMMA OnePausesStep ==
    ASSUME PlanInv, [Next]_vars
    PROVE  OnePauses'
<1>t. /\ pc \in [Owners -> Positions]
      /\ run \in [Tasks \union {Root} -> RunStates]
      /\ tree \in Trees
  BY DEF PlanInv, PlanTypes, SlotTypes, RowTypes, ThreadTypes, BudgetTypes
<1>i. OnePauses /\ ReadersWait
  BY DEF PlanInv
<1>x. run[Root] = "paused" =>
        pc[Root] \notin {"model", "final"} /\ ~(pc[Root] = "unwind" /\ AllDrained(Root))
  BY PausedRootGoesOn DEF Busy
<1>o. pc[Root] = "off" => /\ \A p \in Owners : pc[p] = "off"
                         /\ \A c \in Tasks : job[c] = "none"
  BY AllOff DEF PlanInv
<1>s. service \in {"waiting", "queued", "retiring"} => pc[Root] = "off"
  BY DEF PlanInv, RootAgrees
<1>1. ASSUME NEW c \in Tasks, StartChild(c) PROVE OnePauses'
  BY <1>1, <1>i, <1>t, Kinds DEF StartChild, Halted, SlotFree, Goto, durable, threads,
          rendezvous, OnePauses, PlanInv, OneThreadPerOwner
<1>2. ASSUME NEW c \in Tasks, FinishLeaf(c) PROVE OnePauses'
  BY <1>2, <1>i, <1>t, Kinds DEF FinishLeaf, Return, Goto, durable, threads, rendezvous,
          OnePauses
<1>3. ASSUME NEW p \in Owners, YieldResumed(p) PROVE OnePauses'
  BY <1>3, <1>i, <1>t, Kinds DEF YieldResumed, Goto, durable, threads, rendezvous,
          OnePauses
<1>4. ASSUME NEW p \in Owners, AcceptPlan(p) PROVE OnePauses'
  BY <1>4, <1>i, <1>t, Kinds DEF AcceptPlan, Halted, Goto, durable, threads, rendezvous,
          OnePauses
<1>5. ASSUME NEW p \in Owners, AgentEnds(p) PROVE OnePauses'
  BY <1>5, <1>i, <1>t, Kinds, <1>x DEF AgentEnds, Halted, RootEnds, Return, In, Of,
          Goto, durable, threads, rendezvous, OnePauses
<1>6. ASSUME NEW p \in Owners, NEW c \in Tasks, SettleChild(p, c) PROVE OnePauses'
  BY <1>6, <1>i, <1>t, Kinds DEF SettleChild, Settle, Unsettled, Of, Goto, durable,
          threads, rendezvous, OnePauses
<1>7. ASSUME NEW p \in Owners, NEW c \in Tasks, ObservePause(p, c) PROVE OnePauses'
  BY <1>7, <1>i, <1>t, Kinds DEF ObservePause, Unsettled, Of, Goto, durable, threads,
          rendezvous, OnePauses
<1>8. ASSUME NEW p \in Owners, Joined(p) PROVE OnePauses'
  BY <1>8, <1>i, <1>t, Kinds DEF Joined, AllDrained, Unsettled, Of, ReturnPaused, Goto,
          durable, threads, rendezvous, OnePauses
<1>9. ASSUME NEW p \in Owners, NEW c \in Tasks, JoinSibling(p, c) PROVE OnePauses'
  BY <1>9, <1>i, <1>t, Kinds DEF JoinSibling, Settle, Unsettled, Of, Goto, durable,
          threads, rendezvous, OnePauses
<1>10. ASSUME NEW p \in Owners, LoopThrows(p) PROVE OnePauses'
  BY <1>10, <1>i, <1>t, Kinds DEF LoopThrows, Halted, Throw, Unsettled, Of, Goto,
          durable, threads, rendezvous, OnePauses
<1>11. ASSUME NEW p \in Owners, Inspect(p) PROVE OnePauses'
  BY <1>11, <1>i, <1>t, Kinds DEF Inspect, Halted, Unsettled, Of, Goto, durable,
          threads, rendezvous, OnePauses
<1>12. ASSUME NEW p \in Owners, NEW h \in Humans, Expire(p, h) PROVE OnePauses'
  BY <1>12, <1>i, <1>t, Kinds DEF Expire, Late, Waiting, Throw, Unsettled, In, Of, Goto,
          durable, threads, rendezvous, OnePauses
<1>13. ASSUME NEW p \in Owners, ResumeChildren(p) PROVE OnePauses'
  BY <1>13, <1>i, <1>t, Kinds DEF ResumeChildren, Late, TakesUp, Resuming, Claimed,
          Unsettled, In, Of, Goto, durable, threads, rendezvous, OnePauses
<1>14. ASSUME NEW p \in Owners, Report(p) PROVE OnePauses'
  BY <1>14, <1>i, <1>t, Kinds DEF Report, Deciding, ReportReady, Throw, Unsettled, In,
          Of, Claimed, Goto, durable, threads, rendezvous, OnePauses
<1>15. ASSUME NEW p \in Owners, NEW h \in Humans, Publish(p, h) PROVE OnePauses'
  BY <1>15, <1>i, <1>t, Kinds DEF Publish, Deciding, Ready, Throw, Unsettled, In, Of,
          Goto, durable, threads, rendezvous, OnePauses
<1>16. ASSUME NEW p \in Owners, NEW F \in SUBSET Tasks, Stage(p, F) PROVE OnePauses'
  BY <1>16, <1>i, <1>t, Kinds DEF Stage, Deciding, Ready, In, Of, Goto, durable,
          threads, rendezvous, OnePauses
<1>17. ASSUME NEW p \in Owners, Idle(p) PROVE OnePauses'
  BY <1>17, <1>i, <1>t, Kinds DEF Idle, Deciding, Goto, durable, threads, rendezvous,
          OnePauses
<1>18. ASSUME NEW p \in Owners, Admit(p) PROVE OnePauses'
  BY <1>18, <1>i, <1>t, Kinds DEF Admit, Halted, Throw, Unsettled, Of, Goto, durable,
          threads, rendezvous, OnePauses, PlanInv, PlanTypes, ThreadTypes
<1>19. ASSUME NEW p \in Owners, AwaitPeople(p) PROVE OnePauses'
  BY <1>19, <1>i, <1>t, Kinds DEF AwaitPeople, Deciding, Unsettled, Of, Goto, durable,
          threads, rendezvous, OnePauses
<1>20. ASSUME NEW p \in Owners, Drain(p) PROVE OnePauses'
  BY <1>20, <1>i, <1>t, Kinds DEF Drain, Halted, Throw, Unsettled, Of, Goto, durable,
          threads, rendezvous, OnePauses
<1>21. ASSUME NEW p \in Owners, Register(p) PROVE OnePauses'
  BY <1>21, <1>i, <1>t, Kinds DEF Register, Throw, Rethrow, ReturnPaused, Unsettled, Of,
          Goto, durable, threads, rendezvous, OnePauses
<1>22. ASSUME NEW p \in Owners, Concluded(p) PROVE OnePauses'
  BY <1>22, <1>i, <1>t, Kinds DEF Concluded, Rethrow, Throw, ReturnPaused, Unsettled,
          Of, Goto, durable, threads, rendezvous, OnePauses
<1>23. ASSUME NEW p \in Owners, PollThrows(p) PROVE OnePauses'
  BY <1>23, <1>i, <1>t, Kinds DEF PollThrows, Waits, Throw, Unsettled, Of, Goto,
          durable, threads, rendezvous, OnePauses
<1>24. ASSUME NEW p \in Owners, Poll(p) PROVE OnePauses'
  BY <1>24, <1>i, <1>t, Kinds DEF Poll, Waits, Goto, durable, threads, rendezvous,
          OnePauses
<1>25. ASSUME NEW p \in Owners, Commit(p) PROVE OnePauses'
  BY <1>25, <1>i, <1>t, Kinds DEF Commit, Goto, durable, threads, rendezvous, OnePauses
<1>26. ASSUME NEW p \in Owners, Suspend(p) PROVE OnePauses'
  BY <1>26, <1>i, <1>t, Kinds DEF Suspend, PauseFailed, ReturnPaused, Throw, Unsettled,
          Of, Goto, durable, threads, rendezvous, OnePauses, ReadersWait
<1>27. ASSUME NEW p \in Owners, Reacquire(p) PROVE OnePauses'
  BY <1>27, <1>i, <1>t, Kinds DEF Reacquire, Return, Halted, SlotFree, Goto, durable,
          threads, rendezvous, OnePauses
<1>28. ASSUME NEW p \in Owners, CommitTurn(p) PROVE OnePauses'
  BY <1>28, <1>i, <1>t, Kinds DEF CommitTurn, Goto, durable, threads, rendezvous,
          OnePauses
<1>29. ASSUME NEW p \in Owners, FinishOwner(p) PROVE OnePauses'
  BY <1>29, <1>i, <1>t, Kinds, <1>x DEF FinishOwner, RootEnds, Return, Halted, In, Of,
          Goto, durable, threads, rendezvous, OnePauses
<1>30. ASSUME NEW p \in Owners, NEW c \in Tasks, Drained(p, c) PROVE OnePauses'
  BY <1>30, <1>i, <1>t, Kinds DEF Drained, Settle, Unsettled, Of, Goto, durable,
          threads, rendezvous, OnePauses
<1>31. ASSUME NEW p \in Owners, EndUnwind(p) PROVE OnePauses'
  BY <1>31, <1>i, <1>t, Kinds, <1>x DEF EndUnwind, AllDrained, Unsettled, Of, RootEnds,
          Return, Halted, SlotFree, In, Goto, durable, threads, rendezvous, OnePauses
<1>32. ASSUME NEW p \in Owners, Fail(p) PROVE OnePauses'
  BY <1>32, <1>i, <1>t, Kinds DEF Fail, Return, Goto, durable, threads, rendezvous,
          OnePauses
<1>33. ASSUME NEW p \in Owners, EndFault(p) PROVE OnePauses'
  BY <1>33, <1>i, <1>t, Kinds DEF EndFault, AllDrained, Unsettled, Of, Goto, durable,
          threads, rendezvous, OnePauses
<1>34. ASSUME NEW h \in Humans, Answer(h) PROVE OnePauses'
  BY <1>34, <1>i, <1>t, Kinds DEF Answer, Goto, durable, threads, rendezvous, OnePauses
<1>35. ASSUME ResumeRoot PROVE OnePauses'
  BY <1>35, <1>i, <1>t, Kinds, <1>o, <1>s DEF ResumeRoot, MayResume, Goto, durable,
          threads, rendezvous, OnePauses
<1>36. ASSUME ExpireWaiting PROVE OnePauses'
  BY <1>36, <1>i, <1>t, Kinds, <1>o, <1>s DEF ExpireWaiting, RetirePaused, Goto,
          durable, threads, rendezvous, OnePauses
<1>37. ASSUME CancelPaused PROVE OnePauses'
  BY <1>37, <1>i, <1>t, Kinds, <1>o, <1>s DEF CancelPaused, RetirePaused, Goto, durable,
          threads, rendezvous, OnePauses
<1>38. ASSUME Cancel PROVE OnePauses'
  BY <1>38, <1>i, <1>t, Kinds DEF Cancel, Goto, durable, threads, rendezvous, OnePauses
<1>39. ASSUME Deadline PROVE OnePauses'
  BY <1>39, <1>i, <1>t, Kinds DEF Deadline, Goto, durable, threads, rendezvous,
          OnePauses
<1>40. ASSUME NEW h \in Humans, Expiry(h) PROVE OnePauses'
  BY <1>40, <1>i, <1>t, Kinds DEF Expiry, Goto, durable, threads, rendezvous, OnePauses
<1>41. ASSUME NEW c \in Tasks, ReleaseSlot(c) PROVE OnePauses'
  BY <1>41, <1>i, <1>t, Kinds DEF ReleaseSlot, Goto, durable, threads, rendezvous,
          OnePauses
<1>42. ASSUME ResumeRefused PROVE OnePauses'
  BY <1>42, <1>i, <1>t, Kinds DEF ResumeRefused, Goto, durable, threads, rendezvous,
          OnePauses
<1>43. CASE UNCHANGED vars
  BY <1>43, <1>i, <1>t, Kinds DEF vars, Goto, durable, threads, rendezvous, OnePauses
<1> QED BY <1>1, <1>2, <1>3, <1>4, <1>5, <1>6, <1>7, <1>8, <1>9, <1>10, <1>11, <1>12, <1>13,
          <1>14, <1>15, <1>16, <1>17, <1>18, <1>19, <1>20, <1>21, <1>22, <1>23, <1>24,
          <1>25, <1>26, <1>27, <1>28, <1>29, <1>30, <1>31, <1>32, <1>33, <1>34, <1>35,
          <1>36, <1>37, <1>38, <1>39, <1>40, <1>41, <1>42, <1>43
          DEF Next, ThreadStep, ChildStep, WorkerStep

\* An owner that looks at the waits finds itself.
LEMMA ReadersWaitStep ==
    ASSUME PlanInv, [Next]_vars
    PROVE  ReadersWait'
<1>t. /\ pc \in [Owners -> Positions]
      /\ waits \subseteq Owners
      /\ entries \in [Owners -> SUBSET Owners]
  BY DEF PlanInv, PlanTypes, SlotTypes, RowTypes, ThreadTypes, BudgetTypes
<1>i. ReadersWait
  BY DEF PlanInv
<1>o. pc[Root] = "off" => /\ \A p \in Owners : pc[p] = "off"
                         /\ \A c \in Tasks : job[c] = "none"
  BY AllOff DEF PlanInv
<1>s. service \in {"waiting", "queued", "retiring"} => pc[Root] = "off"
  BY DEF PlanInv, RootAgrees
<1>1. ASSUME NEW c \in Tasks, StartChild(c) PROVE ReadersWait'
  BY <1>1, <1>i, <1>t, Kinds DEF StartChild, Halted, SlotFree, Goto, durable, threads,
          rendezvous, ReadersWait
<1>2. ASSUME NEW c \in Tasks, FinishLeaf(c) PROVE ReadersWait'
  BY <1>2, <1>i, <1>t, Kinds DEF FinishLeaf, Return, Goto, durable, threads, rendezvous,
          ReadersWait
<1>3. ASSUME NEW p \in Owners, YieldResumed(p) PROVE ReadersWait'
  BY <1>3, <1>i, <1>t, Kinds DEF YieldResumed, Goto, durable, threads, rendezvous,
          ReadersWait
<1>4. ASSUME NEW p \in Owners, AcceptPlan(p) PROVE ReadersWait'
  BY <1>4, <1>i, <1>t, Kinds DEF AcceptPlan, Halted, Goto, durable, threads, rendezvous,
          ReadersWait
<1>5. ASSUME NEW p \in Owners, AgentEnds(p) PROVE ReadersWait'
  BY <1>5, <1>i, <1>t, Kinds DEF AgentEnds, Halted, RootEnds, Return, In, Of, Goto,
          durable, threads, rendezvous, ReadersWait
<1>6. ASSUME NEW p \in Owners, NEW c \in Tasks, SettleChild(p, c) PROVE ReadersWait'
  BY <1>6, <1>i, <1>t, Kinds DEF SettleChild, Settle, Unsettled, Of, Goto, durable,
          threads, rendezvous, ReadersWait
<1>7. ASSUME NEW p \in Owners, NEW c \in Tasks, ObservePause(p, c) PROVE ReadersWait'
  BY <1>7, <1>i, <1>t, Kinds DEF ObservePause, Unsettled, Of, Goto, durable, threads,
          rendezvous, ReadersWait
<1>8. ASSUME NEW p \in Owners, Joined(p) PROVE ReadersWait'
  BY <1>8, <1>i, <1>t, Kinds DEF Joined, AllDrained, Unsettled, Of, ReturnPaused, Goto,
          durable, threads, rendezvous, ReadersWait
<1>9. ASSUME NEW p \in Owners, NEW c \in Tasks, JoinSibling(p, c) PROVE ReadersWait'
  BY <1>9, <1>i, <1>t, Kinds DEF JoinSibling, Settle, Unsettled, Of, Goto, durable,
          threads, rendezvous, ReadersWait
<1>10. ASSUME NEW p \in Owners, LoopThrows(p) PROVE ReadersWait'
  BY <1>10, <1>i, <1>t, Kinds DEF LoopThrows, Halted, Throw, Unsettled, Of, Goto,
          durable, threads, rendezvous, ReadersWait
<1>11. ASSUME NEW p \in Owners, Inspect(p) PROVE ReadersWait'
  BY <1>11, <1>i, <1>t, Kinds DEF Inspect, Halted, Unsettled, Of, Goto, durable,
          threads, rendezvous, ReadersWait
<1>12. ASSUME NEW p \in Owners, NEW h \in Humans, Expire(p, h) PROVE ReadersWait'
  BY <1>12, <1>i, <1>t, Kinds DEF Expire, Late, Waiting, Throw, Unsettled, In, Of, Goto,
          durable, threads, rendezvous, ReadersWait
<1>13. ASSUME NEW p \in Owners, ResumeChildren(p) PROVE ReadersWait'
  BY <1>13, <1>i, <1>t, Kinds DEF ResumeChildren, Late, TakesUp, Resuming, Claimed,
          Unsettled, In, Of, Goto, durable, threads, rendezvous, ReadersWait
<1>14. ASSUME NEW p \in Owners, Report(p) PROVE ReadersWait'
  BY <1>14, <1>i, <1>t, Kinds DEF Report, Deciding, ReportReady, Throw, Unsettled, In,
          Of, Claimed, Goto, durable, threads, rendezvous, ReadersWait
<1>15. ASSUME NEW p \in Owners, NEW h \in Humans, Publish(p, h) PROVE ReadersWait'
  BY <1>15, <1>i, <1>t, Kinds DEF Publish, Deciding, Ready, Throw, Unsettled, In, Of,
          Goto, durable, threads, rendezvous, ReadersWait
<1>16. ASSUME NEW p \in Owners, NEW F \in SUBSET Tasks, Stage(p, F) PROVE ReadersWait'
  BY <1>16, <1>i, <1>t, Kinds DEF Stage, Deciding, Ready, In, Of, Goto, durable,
          threads, rendezvous, ReadersWait
<1>17. ASSUME NEW p \in Owners, Idle(p) PROVE ReadersWait'
  BY <1>17, <1>i, <1>t, Kinds DEF Idle, Deciding, Goto, durable, threads, rendezvous,
          ReadersWait
<1>18. ASSUME NEW p \in Owners, Admit(p) PROVE ReadersWait'
  BY <1>18, <1>i, <1>t, Kinds DEF Admit, Halted, Throw, Unsettled, Of, Goto, durable,
          threads, rendezvous, ReadersWait
<1>19. ASSUME NEW p \in Owners, AwaitPeople(p) PROVE ReadersWait'
  BY <1>19, <1>i, <1>t, Kinds DEF AwaitPeople, Deciding, Unsettled, Of, Goto, durable,
          threads, rendezvous, ReadersWait
<1>20. ASSUME NEW p \in Owners, Drain(p) PROVE ReadersWait'
  BY <1>20, <1>i, <1>t, Kinds DEF Drain, Halted, Throw, Unsettled, Of, Goto, durable,
          threads, rendezvous, ReadersWait
<1>21. ASSUME NEW p \in Owners, Register(p) PROVE ReadersWait'
  BY <1>21, <1>i, <1>t, Kinds DEF Register, Throw, Rethrow, ReturnPaused, Unsettled, Of,
          Goto, durable, threads, rendezvous, ReadersWait
<1>22. ASSUME NEW p \in Owners, Concluded(p) PROVE ReadersWait'
  BY <1>22, <1>i, <1>t, Kinds DEF Concluded, Rethrow, Throw, ReturnPaused, Unsettled,
          Of, Goto, durable, threads, rendezvous, ReadersWait
<1>23. ASSUME NEW p \in Owners, PollThrows(p) PROVE ReadersWait'
  BY <1>23, <1>i, <1>t, Kinds DEF PollThrows, Waits, Throw, Unsettled, Of, Goto,
          durable, threads, rendezvous, ReadersWait
<1>24. ASSUME NEW p \in Owners, Poll(p) PROVE ReadersWait'
  BY <1>24, <1>i, <1>t, Kinds DEF Poll, Waits, Goto, durable, threads, rendezvous,
          ReadersWait
<1>25. ASSUME NEW p \in Owners, Commit(p) PROVE ReadersWait'
  BY <1>25, <1>i, <1>t, Kinds DEF Commit, Goto, durable, threads, rendezvous,
          ReadersWait
<1>26. ASSUME NEW p \in Owners, Suspend(p) PROVE ReadersWait'
  BY <1>26, <1>i, <1>t, Kinds DEF Suspend, PauseFailed, ReturnPaused, Throw, Unsettled,
          Of, Goto, durable, threads, rendezvous, ReadersWait
<1>27. ASSUME NEW p \in Owners, Reacquire(p) PROVE ReadersWait'
  BY <1>27, <1>i, <1>t, Kinds DEF Reacquire, Return, Halted, SlotFree, Goto, durable,
          threads, rendezvous, ReadersWait
<1>28. ASSUME NEW p \in Owners, CommitTurn(p) PROVE ReadersWait'
  BY <1>28, <1>i, <1>t, Kinds DEF CommitTurn, Goto, durable, threads, rendezvous,
          ReadersWait
<1>29. ASSUME NEW p \in Owners, FinishOwner(p) PROVE ReadersWait'
  BY <1>29, <1>i, <1>t, Kinds DEF FinishOwner, RootEnds, Return, Halted, In, Of, Goto,
          durable, threads, rendezvous, ReadersWait
<1>30. ASSUME NEW p \in Owners, NEW c \in Tasks, Drained(p, c) PROVE ReadersWait'
  BY <1>30, <1>i, <1>t, Kinds DEF Drained, Settle, Unsettled, Of, Goto, durable,
          threads, rendezvous, ReadersWait
<1>31. ASSUME NEW p \in Owners, EndUnwind(p) PROVE ReadersWait'
  BY <1>31, <1>i, <1>t, Kinds DEF EndUnwind, AllDrained, Unsettled, Of, RootEnds,
          Return, Halted, SlotFree, In, Goto, durable, threads, rendezvous, ReadersWait
<1>32. ASSUME NEW p \in Owners, Fail(p) PROVE ReadersWait'
  BY <1>32, <1>i, <1>t, Kinds DEF Fail, Return, Goto, durable, threads, rendezvous,
          ReadersWait
<1>33. ASSUME NEW p \in Owners, EndFault(p) PROVE ReadersWait'
  BY <1>33, <1>i, <1>t, Kinds DEF EndFault, AllDrained, Unsettled, Of, Goto, durable,
          threads, rendezvous, ReadersWait
<1>34. ASSUME NEW h \in Humans, Answer(h) PROVE ReadersWait'
  BY <1>34, <1>i, <1>t, Kinds DEF Answer, Goto, durable, threads, rendezvous,
          ReadersWait
<1>35. ASSUME ResumeRoot PROVE ReadersWait'
  BY <1>35, <1>i, <1>t, Kinds, <1>o, <1>s DEF ResumeRoot, MayResume, Goto, durable,
          threads, rendezvous, ReadersWait
<1>36. ASSUME ExpireWaiting PROVE ReadersWait'
  BY <1>36, <1>i, <1>t, Kinds DEF ExpireWaiting, RetirePaused, Goto, durable, threads,
          rendezvous, ReadersWait
<1>37. ASSUME CancelPaused PROVE ReadersWait'
  BY <1>37, <1>i, <1>t, Kinds DEF CancelPaused, RetirePaused, Goto, durable, threads,
          rendezvous, ReadersWait
<1>38. ASSUME Cancel PROVE ReadersWait'
  BY <1>38, <1>i, <1>t, Kinds DEF Cancel, Goto, durable, threads, rendezvous,
          ReadersWait
<1>39. ASSUME Deadline PROVE ReadersWait'
  BY <1>39, <1>i, <1>t, Kinds DEF Deadline, Goto, durable, threads, rendezvous,
          ReadersWait
<1>40. ASSUME NEW h \in Humans, Expiry(h) PROVE ReadersWait'
  BY <1>40, <1>i, <1>t, Kinds DEF Expiry, Goto, durable, threads, rendezvous,
          ReadersWait
<1>41. ASSUME NEW c \in Tasks, ReleaseSlot(c) PROVE ReadersWait'
  BY <1>41, <1>i, <1>t, Kinds DEF ReleaseSlot, Goto, durable, threads, rendezvous,
          ReadersWait
<1>42. ASSUME ResumeRefused PROVE ReadersWait'
  BY <1>42, <1>i, <1>t, Kinds DEF ResumeRefused, Goto, durable, threads, rendezvous,
          ReadersWait
<1>43. CASE UNCHANGED vars
  BY <1>43, <1>i, <1>t, Kinds DEF vars, Goto, durable, threads, rendezvous, ReadersWait
<1> QED BY <1>1, <1>2, <1>3, <1>4, <1>5, <1>6, <1>7, <1>8, <1>9, <1>10, <1>11, <1>12, <1>13,
          <1>14, <1>15, <1>16, <1>17, <1>18, <1>19, <1>20, <1>21, <1>22, <1>23, <1>24,
          <1>25, <1>26, <1>27, <1>28, <1>29, <1>30, <1>31, <1>32, <1>33, <1>34, <1>35,
          <1>36, <1>37, <1>38, <1>39, <1>40, <1>41, <1>42, <1>43
          DEF Next, ThreadStep, ChildStep, WorkerStep

\* Whoever registered stays until the pause, unless the root is halted.
LEMMA WaitersWaitStep ==
    ASSUME PlanInv, [Next]_vars
    PROVE  WaitersWait'
<1>t. /\ pc \in [Owners -> Positions]
      /\ job \in [Tasks -> FutureStates]
      /\ run \in [Tasks \union {Root} -> RunStates]
      /\ waits \subseteq Owners
      /\ batch \in [Owners -> SUBSET Tasks]
      /\ tree \in Trees
  BY DEF PlanInv, PlanTypes, SlotTypes, RowTypes, ThreadTypes, BudgetTypes
<1>i. /\ WaitersWait /\ OneThreadPerOwner /\ JobsMatchRuns
      /\ \A c \in Tasks : node[c] = "pending" => run[c] = "none"
  BY DEF PlanInv, PendingIsFresh
<1>b. /\ \A p \in Owners : pc[p] \notin Busy => Unsettled(p) = {}
      /\ \A p \in Owners : pc[p] = "admit" => \A c \in batch[p] :
             tree.owner[c] = p /\ node[c] = "pending"
  BY DEF PlanInv, JobsAreClaimed, Unsettled, Of, PendingIsFresh
<1>d. run[Root] = "paused" => paused
  BY DEF PlanInv, OnePauses
<1>e. \A c \in Tasks : run[c] = "paused" => paused
  BY <1>d DEF PlanInv, OnlyPausesJoin
<1>f. failure # "none" => ~paused /\ committing = Nobody
  BY DEF PlanInv, OnePauses
<1>g. /\ \A p \in Owners : pc[p] = "joining" => paused
      /\ service \in {"waiting", "queued", "retiring"} => paused
  BY <1>d DEF PlanInv, OnlyPausesJoin, RootAgrees
<1>o. pc[Root] = "off" => /\ \A p \in Owners : pc[p] = "off"
                         /\ \A c \in Tasks : job[c] = "none"
  BY AllOff DEF PlanInv
<1>s. service \in {"waiting", "queued", "retiring"} => pc[Root] = "off"
  BY DEF PlanInv, RootAgrees
<1>1. ASSUME NEW c \in Tasks, StartChild(c) PROVE WaitersWait'
  BY <1>1, <1>i, <1>t, <1>b, <1>d, <1>e, <1>f, Kinds DEF StartChild, Halted, SlotFree,
          Goto, durable, threads, rendezvous, WaitersWait, Unsettled, Of, Busy,
          JobsMatchRuns, OneThreadPerOwner, Finished
<1>2. ASSUME NEW c \in Tasks, FinishLeaf(c) PROVE WaitersWait'
  BY <1>2, <1>i, <1>t, <1>b, <1>d, <1>e, <1>f, Kinds DEF FinishLeaf, Return, Goto,
          durable, threads, rendezvous, WaitersWait, Unsettled, Of, Busy, JobsMatchRuns,
          OneThreadPerOwner, Finished
<1>3. ASSUME NEW p \in Owners, YieldResumed(p) PROVE WaitersWait'
  BY <1>3, <1>i, <1>t, <1>b, <1>d, <1>e, <1>f, Kinds DEF YieldResumed, Goto, durable,
          threads, rendezvous, WaitersWait, Unsettled, Of, Busy
<1>4. ASSUME NEW p \in Owners, AcceptPlan(p) PROVE WaitersWait'
  BY <1>4, <1>i, <1>t, <1>b, <1>d, <1>e, <1>f, Kinds DEF AcceptPlan, Halted, Goto,
          durable, threads, rendezvous, WaitersWait, Unsettled, Of, Busy
<1>5. ASSUME NEW p \in Owners, AgentEnds(p) PROVE WaitersWait'
  BY <1>5, <1>i, <1>t, <1>b, <1>d, <1>e, <1>f, Kinds DEF AgentEnds, Halted, RootEnds,
          Return, In, Of, Goto, durable, threads, rendezvous, WaitersWait, Unsettled,
          Busy, JobsMatchRuns, OneThreadPerOwner, Finished
<1>6. ASSUME NEW p \in Owners, NEW c \in Tasks, SettleChild(p, c) PROVE WaitersWait'
  BY <1>6, <1>i, <1>t, <1>b, <1>d, <1>e, <1>f, Kinds DEF SettleChild, Settle, Unsettled,
          Of, Goto, durable, threads, rendezvous, WaitersWait, Busy
<1>7. ASSUME NEW p \in Owners, NEW c \in Tasks, ObservePause(p, c) PROVE WaitersWait'
  BY <1>7, <1>i, <1>t, <1>b, <1>d, <1>e, <1>f, Kinds DEF ObservePause, Unsettled, Of,
          Goto, durable, threads, rendezvous, WaitersWait, Busy
<1>8. ASSUME NEW p \in Owners, Joined(p) PROVE WaitersWait'
  BY <1>8, <1>i, <1>t, <1>b, <1>d, <1>e, <1>f, Kinds, <1>g DEF Joined, AllDrained,
          Unsettled, Of, ReturnPaused, Goto, durable, threads, rendezvous, WaitersWait,
          Busy
<1>9. ASSUME NEW p \in Owners, NEW c \in Tasks, JoinSibling(p, c) PROVE WaitersWait'
  BY <1>9, <1>i, <1>t, <1>b, <1>d, <1>e, <1>f, Kinds DEF JoinSibling, Settle, Unsettled,
          Of, Goto, durable, threads, rendezvous, WaitersWait, Busy
<1>10. ASSUME NEW p \in Owners, LoopThrows(p) PROVE WaitersWait'
  BY <1>10, <1>i, <1>t, <1>b, <1>d, <1>e, <1>f, Kinds DEF LoopThrows, Halted, Throw,
          Unsettled, Of, Goto, durable, threads, rendezvous, WaitersWait, Busy
<1>11. ASSUME NEW p \in Owners, Inspect(p) PROVE WaitersWait'
  BY <1>11, <1>i, <1>t, <1>b, <1>d, <1>e, <1>f, Kinds DEF Inspect, Halted, Unsettled,
          Of, Goto, durable, threads, rendezvous, WaitersWait, Busy
<1>12. ASSUME NEW p \in Owners, NEW h \in Humans, Expire(p, h) PROVE WaitersWait'
  BY <1>12, <1>i, <1>t, <1>b, <1>d, <1>e, <1>f, Kinds DEF Expire, Late, Waiting, Throw,
          Unsettled, In, Of, Goto, durable, threads, rendezvous, WaitersWait, Busy
<1>13. ASSUME NEW p \in Owners, ResumeChildren(p) PROVE WaitersWait'
  BY <1>13, <1>i, <1>t, <1>b, <1>d, <1>e, <1>f, Kinds DEF ResumeChildren, Late, TakesUp,
          Resuming, Claimed, Unsettled, In, Of, Goto, durable, threads, rendezvous,
          WaitersWait, Busy
<1>14. ASSUME NEW p \in Owners, Report(p) PROVE WaitersWait'
  BY <1>14, <1>i, <1>t, <1>b, <1>d, <1>e, <1>f, Kinds DEF Report, Deciding, ReportReady,
          Throw, Unsettled, In, Of, Claimed, Goto, durable, threads, rendezvous,
          WaitersWait, Busy
<1>15. ASSUME NEW p \in Owners, NEW h \in Humans, Publish(p, h) PROVE WaitersWait'
  BY <1>15, <1>i, <1>t, <1>b, <1>d, <1>e, <1>f, Kinds DEF Publish, Deciding, Ready,
          Throw, Unsettled, In, Of, Goto, durable, threads, rendezvous, WaitersWait,
          Busy
<1>16. ASSUME NEW p \in Owners, NEW F \in SUBSET Tasks, Stage(p, F) PROVE WaitersWait'
  BY <1>16, <1>i, <1>t, <1>b, <1>d, <1>e, <1>f, Kinds DEF Stage, Deciding, Ready, In,
          Of, Goto, durable, threads, rendezvous, WaitersWait, Unsettled, Busy
<1>17. ASSUME NEW p \in Owners, Idle(p) PROVE WaitersWait'
  BY <1>17, <1>i, <1>t, <1>b, <1>d, <1>e, <1>f, Kinds DEF Idle, Deciding, Goto, durable,
          threads, rendezvous, WaitersWait, Unsettled, Of, Busy
<1>18. ASSUME NEW p \in Owners, Admit(p) PROVE WaitersWait'
  BY <1>18, <1>i, <1>t, <1>b, <1>d, <1>e, <1>f, Kinds DEF Admit, Halted, Throw,
          Unsettled, Of, Goto, durable, threads, rendezvous, WaitersWait, Busy,
          JobsMatchRuns, OneThreadPerOwner, Finished
<1>19. ASSUME NEW p \in Owners, AwaitPeople(p) PROVE WaitersWait'
  BY <1>19, <1>i, <1>t, <1>b, <1>d, <1>e, <1>f, Kinds DEF AwaitPeople, Deciding,
          Unsettled, Of, Goto, durable, threads, rendezvous, WaitersWait, Busy
<1>20. ASSUME NEW p \in Owners, Drain(p) PROVE WaitersWait'
  BY <1>20, <1>i, <1>t, <1>b, <1>d, <1>e, <1>f, Kinds DEF Drain, Halted, Throw,
          Unsettled, Of, Goto, durable, threads, rendezvous, WaitersWait, Busy
<1>21. ASSUME NEW p \in Owners, Register(p) PROVE WaitersWait'
  BY <1>21, <1>i, <1>t, <1>b, <1>d, <1>e, <1>f, Kinds DEF Register, Throw, Rethrow,
          ReturnPaused, Unsettled, Of, Goto, durable, threads, rendezvous, WaitersWait,
          Busy
<1>22. ASSUME NEW p \in Owners, Concluded(p) PROVE WaitersWait'
  BY <1>22, <1>i, <1>t, <1>b, <1>d, <1>e, <1>f, Kinds DEF Concluded, Rethrow, Throw,
          ReturnPaused, Unsettled, Of, Goto, durable, threads, rendezvous, WaitersWait,
          Busy
<1>23. ASSUME NEW p \in Owners, PollThrows(p) PROVE WaitersWait'
  BY <1>23, <1>i, <1>t, <1>b, <1>d, <1>e, <1>f, Kinds DEF PollThrows, Waits, Throw,
          Unsettled, Of, Goto, durable, threads, rendezvous, WaitersWait, Busy
<1>24. ASSUME NEW p \in Owners, Poll(p) PROVE WaitersWait'
  BY <1>24, <1>i, <1>t, <1>b, <1>d, <1>e, <1>f, Kinds DEF Poll, Waits, Goto, durable,
          threads, rendezvous, WaitersWait, Unsettled, Of, Busy
<1>25. ASSUME NEW p \in Owners, Commit(p) PROVE WaitersWait'
  BY <1>25, <1>i, <1>t, <1>b, <1>d, <1>e, <1>f, Kinds DEF Commit, Goto, durable,
          threads, rendezvous, WaitersWait, Unsettled, Of, Busy
<1>26. ASSUME NEW p \in Owners, Suspend(p) PROVE WaitersWait'
  BY <1>26, <1>i, <1>t, <1>b, <1>d, <1>e, <1>f, Kinds DEF Suspend, PauseFailed,
          ReturnPaused, Throw, Unsettled, Of, Goto, durable, threads, rendezvous,
          WaitersWait, Busy, JobsMatchRuns, OneThreadPerOwner, Finished
<1>27. ASSUME NEW p \in Owners, Reacquire(p) PROVE WaitersWait'
  BY <1>27, <1>i, <1>t, <1>b, <1>d, <1>e, <1>f, Kinds DEF Reacquire, Return, Halted,
          SlotFree, Goto, durable, threads, rendezvous, WaitersWait, Unsettled, Of,
          Busy, JobsMatchRuns, OneThreadPerOwner, Finished
<1>28. ASSUME NEW p \in Owners, CommitTurn(p) PROVE WaitersWait'
  BY <1>28, <1>i, <1>t, <1>b, <1>d, <1>e, <1>f, Kinds DEF CommitTurn, Goto, durable,
          threads, rendezvous, WaitersWait, Unsettled, Of, Busy
<1>29. ASSUME NEW p \in Owners, FinishOwner(p) PROVE WaitersWait'
  BY <1>29, <1>i, <1>t, <1>b, <1>d, <1>e, <1>f, Kinds DEF FinishOwner, RootEnds, Return,
          Halted, In, Of, Goto, durable, threads, rendezvous, WaitersWait, Unsettled,
          Busy, JobsMatchRuns, OneThreadPerOwner, Finished
<1>30. ASSUME NEW p \in Owners, NEW c \in Tasks, Drained(p, c) PROVE WaitersWait'
  BY <1>30, <1>i, <1>t, <1>b, <1>d, <1>e, <1>f, Kinds DEF Drained, Settle, Unsettled,
          Of, Goto, durable, threads, rendezvous, WaitersWait, Busy
<1>31. ASSUME NEW p \in Owners, EndUnwind(p) PROVE WaitersWait'
  BY <1>31, <1>i, <1>t, <1>b, <1>d, <1>e, <1>f, Kinds DEF EndUnwind, AllDrained,
          Unsettled, Of, RootEnds, Return, Halted, SlotFree, In, Goto, durable, threads,
          rendezvous, WaitersWait, Busy, JobsMatchRuns, OneThreadPerOwner, Finished
<1>32. ASSUME NEW p \in Owners, Fail(p) PROVE WaitersWait'
  BY <1>32, <1>i, <1>t, <1>b, <1>d, <1>e, <1>f, Kinds DEF Fail, Return, Goto, durable,
          threads, rendezvous, WaitersWait, Unsettled, Of, Busy, JobsMatchRuns,
          OneThreadPerOwner, Finished
<1>33. ASSUME NEW p \in Owners, EndFault(p) PROVE WaitersWait'
  BY <1>33, <1>i, <1>t, <1>b, <1>d, <1>e, <1>f, Kinds DEF EndFault, AllDrained,
          Unsettled, Of, Goto, durable, threads, rendezvous, WaitersWait, Busy,
          JobsMatchRuns, OneThreadPerOwner, Finished
<1>34. ASSUME NEW h \in Humans, Answer(h) PROVE WaitersWait'
  BY <1>34, <1>i, <1>t, <1>b, <1>d, <1>e, <1>f, Kinds DEF Answer, Goto, durable,
          threads, rendezvous, WaitersWait, Unsettled, Of, Busy
<1>35. ASSUME ResumeRoot PROVE WaitersWait'
  BY <1>35, <1>i, <1>t, <1>b, <1>d, <1>e, <1>f, Kinds, <1>o, <1>s, <1>g DEF ResumeRoot,
          MayResume, Goto, durable, threads, rendezvous, WaitersWait, Unsettled, Of,
          Busy
<1>36. ASSUME ExpireWaiting PROVE WaitersWait'
  BY <1>36, <1>i, <1>t, <1>b, <1>d, <1>e, <1>f, Kinds, <1>o, <1>s, <1>g DEF
          ExpireWaiting, RetirePaused, Goto, durable, threads, rendezvous, WaitersWait,
          Unsettled, Of, Busy
<1>37. ASSUME CancelPaused PROVE WaitersWait'
  BY <1>37, <1>i, <1>t, <1>b, <1>d, <1>e, <1>f, Kinds, <1>o, <1>s, <1>g DEF
          CancelPaused, RetirePaused, Goto, durable, threads, rendezvous, WaitersWait,
          Unsettled, Of, Busy
<1>38. ASSUME Cancel PROVE WaitersWait'
  BY <1>38, <1>i, <1>t, <1>b, <1>d, <1>e, <1>f, Kinds DEF Cancel, Goto, durable,
          threads, rendezvous, WaitersWait, Unsettled, Of, Busy
<1>39. ASSUME Deadline PROVE WaitersWait'
  BY <1>39, <1>i, <1>t, <1>b, <1>d, <1>e, <1>f, Kinds DEF Deadline, Goto, durable,
          threads, rendezvous, WaitersWait, Unsettled, Of, Busy
<1>40. ASSUME NEW h \in Humans, Expiry(h) PROVE WaitersWait'
  BY <1>40, <1>i, <1>t, <1>b, <1>d, <1>e, <1>f, Kinds DEF Expiry, Goto, durable,
          threads, rendezvous, WaitersWait, Unsettled, Of, Busy
<1>41. ASSUME NEW c \in Tasks, ReleaseSlot(c) PROVE WaitersWait'
  BY <1>41, <1>i, <1>t, <1>b, <1>d, <1>e, <1>f, Kinds DEF ReleaseSlot, Goto, durable,
          threads, rendezvous, WaitersWait, Unsettled, Of, Busy, JobsMatchRuns,
          OneThreadPerOwner, Finished
<1>42. ASSUME ResumeRefused PROVE WaitersWait'
  BY <1>42, <1>i, <1>t, <1>b, <1>d, <1>e, <1>f, Kinds DEF ResumeRefused, Goto, durable,
          threads, rendezvous, WaitersWait, Unsettled, Of, Busy
<1>43. CASE UNCHANGED vars
  BY <1>43, <1>i, <1>t, <1>b, <1>d, <1>e, <1>f, Kinds DEF vars, Goto, durable, threads,
          rendezvous, WaitersWait, Unsettled, Of, Busy
<1> QED BY <1>1, <1>2, <1>3, <1>4, <1>5, <1>6, <1>7, <1>8, <1>9, <1>10, <1>11, <1>12, <1>13,
          <1>14, <1>15, <1>16, <1>17, <1>18, <1>19, <1>20, <1>21, <1>22, <1>23, <1>24,
          <1>25, <1>26, <1>27, <1>28, <1>29, <1>30, <1>31, <1>32, <1>33, <1>34, <1>35,
          <1>36, <1>37, <1>38, <1>39, <1>40, <1>41, <1>42, <1>43
          DEF Next, ThreadStep, ChildStep, WorkerStep

\* No claim is forgotten: a thread inspects its plan knowing all of them.
LEMMA ClaimsAreKeptStep ==
    ASSUME PlanInv, [Next]_vars
    PROVE  ClaimsAreKept'
<1>t. /\ pc \in [Owners -> Positions]
      /\ job \in [Tasks -> FutureStates]
      /\ run \in [Tasks \union {Root} -> RunStates]
      /\ node \in [Nodes -> PlanNodeStates]
      /\ batch \in [Owners -> SUBSET Tasks]
      /\ tree \in Trees
  BY DEF PlanInv, PlanTypes, SlotTypes, RowTypes, ThreadTypes, BudgetTypes
<1>i. ClaimsAreKept /\ OnlyPausesJoin /\ JobsMatchRuns /\ OnePauses
  BY DEF PlanInv
<1>j. OneThreadPerOwner /\ JobsAreClaimed /\ PendingIsFresh
  BY DEF PlanInv
<1>c. run[Root] = "paused" => \A c \in Tasks : run[c] \in Live <=> c \in Chain(binding)
  BY DEF PlanInv, PauseIsClosed, PausedRows, PausedThreads
<1>y. run[Root] = "paused" => \A p \in Owners : pc[p] \notin {"model", "resumed", "register"}
  BY DEF PlanInv, PauseIsClosed, PausedRows, PausedThreads, Busy
<1>x. run[Root] = "paused" =>
        pc[Root] \notin {"model", "final"} /\ ~(pc[Root] = "unwind" /\ AllDrained(Root))
  BY PausedRootGoesOn DEF Busy
<1>o. pc[Root] = "off" => /\ \A p \in Owners : pc[p] = "off"
                         /\ \A c \in Tasks : job[c] = "none"
  BY AllOff DEF PlanInv
<1>s. service \in {"waiting", "queued", "retiring"} => pc[Root] = "off"
  BY DEF PlanInv, RootAgrees
<1>1. ASSUME NEW c \in Tasks, StartChild(c) PROVE ClaimsAreKept'
  BY <1>1, <1>i, <1>t, <1>y, Kinds, <1>j DEF StartChild, Halted, SlotFree, Goto,
          durable, threads, rendezvous, ClaimsAreKept, JobsMatchRuns, OneThreadPerOwner
<1>2. ASSUME NEW c \in Tasks, FinishLeaf(c) PROVE ClaimsAreKept'
  BY <1>2, <1>i, <1>t, <1>y, Kinds, <1>j DEF FinishLeaf, Return, Goto, durable, threads,
          rendezvous, ClaimsAreKept, JobsMatchRuns, OneThreadPerOwner
<1>3. ASSUME NEW p \in Owners, YieldResumed(p) PROVE ClaimsAreKept'
  BY <1>3, <1>i, <1>t, <1>y, Kinds DEF YieldResumed, Goto, durable, threads, rendezvous,
          ClaimsAreKept
<1>4. ASSUME NEW p \in Owners, AcceptPlan(p) PROVE ClaimsAreKept'
  BY <1>4, <1>i, <1>t, <1>y, Kinds DEF AcceptPlan, Halted, Goto, durable, threads,
          rendezvous, ClaimsAreKept
<1>5. ASSUME NEW p \in Owners, AgentEnds(p) PROVE ClaimsAreKept'
  BY <1>5, <1>i, <1>t, <1>y, Kinds, <1>j DEF AgentEnds, Halted, RootEnds, Return, In,
          Of, Goto, durable, threads, rendezvous, ClaimsAreKept, JobsMatchRuns,
          OneThreadPerOwner
<1>6. ASSUME NEW p \in Owners, NEW c \in Tasks, SettleChild(p, c) PROVE ClaimsAreKept'
  BY <1>6, <1>i, <1>t, <1>y, Kinds DEF SettleChild, Settle, Unsettled, Of, Goto,
          durable, threads, rendezvous, ClaimsAreKept
<1>7. ASSUME NEW p \in Owners, NEW c \in Tasks, ObservePause(p, c) PROVE ClaimsAreKept'
  BY <1>7, <1>i, <1>t, <1>y, Kinds DEF ObservePause, Unsettled, Of, Goto, durable,
          threads, rendezvous, ClaimsAreKept, JobsMatchRuns, Live
<1>8. ASSUME NEW p \in Owners, Joined(p) PROVE ClaimsAreKept'
  BY <1>8, <1>i, <1>t, <1>y, Kinds DEF Joined, AllDrained, Unsettled, Of, ReturnPaused,
          Goto, durable, threads, rendezvous, ClaimsAreKept
<1>9. ASSUME NEW p \in Owners, NEW c \in Tasks, JoinSibling(p, c) PROVE ClaimsAreKept'
  BY <1>9, <1>i, <1>t, <1>y, Kinds DEF JoinSibling, Settle, Unsettled, Of, Goto,
          durable, threads, rendezvous, ClaimsAreKept, JobsMatchRuns, Live,
          OnlyPausesJoin
<1>10. ASSUME NEW p \in Owners, LoopThrows(p) PROVE ClaimsAreKept'
  BY <1>10, <1>i, <1>t, <1>y, Kinds DEF LoopThrows, Halted, Throw, Unsettled, Of, Goto,
          durable, threads, rendezvous, ClaimsAreKept
<1>11. ASSUME NEW p \in Owners, Inspect(p) PROVE ClaimsAreKept'
  BY <1>11, <1>i, <1>t, <1>y, Kinds DEF Inspect, Halted, Unsettled, Of, Goto, durable,
          threads, rendezvous, ClaimsAreKept
<1>12. ASSUME NEW p \in Owners, NEW h \in Humans, Expire(p, h) PROVE ClaimsAreKept'
  BY <1>12, <1>i, <1>t, <1>y, Kinds DEF Expire, Late, Waiting, Throw, Unsettled, In, Of,
          Goto, durable, threads, rendezvous, ClaimsAreKept
<1>13. ASSUME NEW p \in Owners, ResumeChildren(p) PROVE ClaimsAreKept'
  BY <1>13, <1>i, <1>t, <1>y, Kinds DEF ResumeChildren, Late, TakesUp, Resuming,
          Claimed, Unsettled, In, Of, Goto, durable, threads, rendezvous, ClaimsAreKept
<1>14. ASSUME NEW p \in Owners, Report(p) PROVE ClaimsAreKept'
  BY <1>14, <1>i, <1>t, <1>y, Kinds DEF Report, Deciding, ReportReady, Throw, Unsettled,
          In, Of, Claimed, Goto, durable, threads, rendezvous, ClaimsAreKept
<1>15. ASSUME NEW p \in Owners, NEW h \in Humans, Publish(p, h) PROVE ClaimsAreKept'
  BY <1>15, <1>i, <1>t, <1>y, Kinds DEF Publish, Deciding, Ready, Throw, Unsettled, In,
          Of, Goto, durable, threads, rendezvous, ClaimsAreKept
<1>16. ASSUME NEW p \in Owners, NEW F \in SUBSET Tasks, Stage(p, F) PROVE ClaimsAreKept'
  BY <1>16, <1>i, <1>t, <1>y, Kinds DEF Stage, Deciding, Ready, In, Of, Goto, durable,
          threads, rendezvous, ClaimsAreKept
<1>17. ASSUME NEW p \in Owners, Idle(p) PROVE ClaimsAreKept'
  BY <1>17, <1>i, <1>t, <1>y, Kinds DEF Idle, Deciding, Goto, durable, threads,
          rendezvous, ClaimsAreKept
<1>18. ASSUME NEW p \in Owners, Admit(p) PROVE ClaimsAreKept'
  BY <1>18, <1>i, <1>t, <1>y, Kinds DEF Admit, Halted, Throw, Unsettled, Of, Goto,
          durable, threads, rendezvous, ClaimsAreKept, Live
<1>19. ASSUME NEW p \in Owners, AwaitPeople(p) PROVE ClaimsAreKept'
  BY <1>19, <1>i, <1>t, <1>y, Kinds DEF AwaitPeople, Deciding, Unsettled, Of, Goto,
          durable, threads, rendezvous, ClaimsAreKept
<1>20. ASSUME NEW p \in Owners, Drain(p) PROVE ClaimsAreKept'
  BY <1>20, <1>i, <1>t, <1>y, Kinds DEF Drain, Halted, Throw, Unsettled, Of, Goto,
          durable, threads, rendezvous, ClaimsAreKept
<1>21. ASSUME NEW p \in Owners, Register(p) PROVE ClaimsAreKept'
  BY <1>21, <1>i, <1>t, <1>y, Kinds DEF Register, Throw, Rethrow, ReturnPaused,
          Unsettled, Of, Goto, durable, threads, rendezvous, ClaimsAreKept, OnePauses
<1>22. ASSUME NEW p \in Owners, Concluded(p) PROVE ClaimsAreKept'
  BY <1>22, <1>i, <1>t, <1>y, Kinds DEF Concluded, Rethrow, Throw, ReturnPaused,
          Unsettled, Of, Goto, durable, threads, rendezvous, ClaimsAreKept, OnePauses
<1>23. ASSUME NEW p \in Owners, PollThrows(p) PROVE ClaimsAreKept'
  BY <1>23, <1>i, <1>t, <1>y, Kinds DEF PollThrows, Waits, Throw, Unsettled, Of, Goto,
          durable, threads, rendezvous, ClaimsAreKept
<1>24. ASSUME NEW p \in Owners, Poll(p) PROVE ClaimsAreKept'
  BY <1>24, <1>i, <1>t, <1>y, Kinds DEF Poll, Waits, Goto, durable, threads, rendezvous,
          ClaimsAreKept
<1>25. ASSUME NEW p \in Owners, Commit(p) PROVE ClaimsAreKept'
  BY <1>25, <1>i, <1>t, <1>y, Kinds DEF Commit, Goto, durable, threads, rendezvous,
          ClaimsAreKept
<1>26. ASSUME NEW p \in Owners, Suspend(p) PROVE ClaimsAreKept'
  BY <1>26, <1>i, <1>t, <1>y, Kinds DEF Suspend, PauseFailed, ReturnPaused, Throw,
          Unsettled, Of, Goto, durable, threads, rendezvous, ClaimsAreKept, Live,
          OnePauses
<1>27. ASSUME NEW p \in Owners, Reacquire(p) PROVE ClaimsAreKept'
  BY <1>27, <1>i, <1>t, <1>y, Kinds, <1>j DEF Reacquire, Return, Halted, SlotFree, Goto,
          durable, threads, rendezvous, ClaimsAreKept, JobsMatchRuns, OneThreadPerOwner
<1>28. ASSUME NEW p \in Owners, CommitTurn(p) PROVE ClaimsAreKept'
  BY <1>28, <1>i, <1>t, <1>y, Kinds DEF CommitTurn, Goto, durable, threads, rendezvous,
          ClaimsAreKept
<1>29. ASSUME NEW p \in Owners, FinishOwner(p) PROVE ClaimsAreKept'
  BY <1>29, <1>i, <1>t, <1>y, Kinds, <1>j DEF FinishOwner, RootEnds, Return, Halted, In,
          Of, Goto, durable, threads, rendezvous, ClaimsAreKept, JobsMatchRuns,
          OneThreadPerOwner
<1>30. ASSUME NEW p \in Owners, NEW c \in Tasks, Drained(p, c) PROVE ClaimsAreKept'
  BY <1>30, <1>i, <1>t, <1>y, Kinds DEF Drained, Settle, Unsettled, Of, Goto, durable,
          threads, rendezvous, ClaimsAreKept, JobsMatchRuns, Live, OnlyPausesJoin
<1>31. ASSUME NEW p \in Owners, EndUnwind(p) PROVE ClaimsAreKept'
  BY <1>31, <1>i, <1>t, <1>y, Kinds, <1>j DEF EndUnwind, AllDrained, Unsettled, Of,
          RootEnds, Return, Halted, SlotFree, In, Goto, durable, threads, rendezvous,
          ClaimsAreKept, JobsMatchRuns, OneThreadPerOwner
<1>32. ASSUME NEW p \in Owners, Fail(p) PROVE ClaimsAreKept'
  BY <1>32, <1>i, <1>t, <1>y, Kinds, <1>j DEF Fail, Return, Goto, durable, threads,
          rendezvous, ClaimsAreKept, JobsMatchRuns, OneThreadPerOwner
<1>33. ASSUME NEW p \in Owners, EndFault(p) PROVE ClaimsAreKept'
  BY <1>33, <1>i, <1>t, <1>y, Kinds, <1>j DEF EndFault, AllDrained, Unsettled, Of, Goto,
          durable, threads, rendezvous, ClaimsAreKept, JobsMatchRuns, OneThreadPerOwner
<1>34. ASSUME NEW h \in Humans, Answer(h) PROVE ClaimsAreKept'
  BY <1>34, <1>i, <1>t, <1>y, Kinds DEF Answer, Goto, durable, threads, rendezvous,
          ClaimsAreKept
<1>35. ASSUME ResumeRoot PROVE ClaimsAreKept'
  BY <1>35, <1>i, <1>t, <1>y, Kinds, <1>o, <1>s, <1>c DEF ResumeRoot, MayResume, Goto,
          durable, threads, rendezvous, ClaimsAreKept, Live
<1>36. ASSUME ExpireWaiting PROVE ClaimsAreKept'
  BY <1>36, <1>i, <1>t, <1>y, Kinds, <1>o, <1>s, <1>c DEF ExpireWaiting, RetirePaused,
          Goto, durable, threads, rendezvous, ClaimsAreKept
<1>37. ASSUME CancelPaused PROVE ClaimsAreKept'
  BY <1>37, <1>i, <1>t, <1>y, Kinds, <1>o, <1>s, <1>c DEF CancelPaused, RetirePaused,
          Goto, durable, threads, rendezvous, ClaimsAreKept
<1>38. ASSUME Cancel PROVE ClaimsAreKept'
  BY <1>38, <1>i, <1>t, <1>y, Kinds DEF Cancel, Goto, durable, threads, rendezvous,
          ClaimsAreKept
<1>39. ASSUME Deadline PROVE ClaimsAreKept'
  BY <1>39, <1>i, <1>t, <1>y, Kinds DEF Deadline, Goto, durable, threads, rendezvous,
          ClaimsAreKept
<1>40. ASSUME NEW h \in Humans, Expiry(h) PROVE ClaimsAreKept'
  BY <1>40, <1>i, <1>t, <1>y, Kinds DEF Expiry, Goto, durable, threads, rendezvous,
          ClaimsAreKept
<1>41. ASSUME NEW c \in Tasks, ReleaseSlot(c) PROVE ClaimsAreKept'
  BY <1>41, <1>i, <1>t, <1>y, Kinds, <1>j DEF ReleaseSlot, Goto, durable, threads,
          rendezvous, ClaimsAreKept, JobsMatchRuns, OneThreadPerOwner
<1>42. ASSUME ResumeRefused PROVE ClaimsAreKept'
  BY <1>42, <1>i, <1>t, <1>y, Kinds DEF ResumeRefused, Goto, durable, threads,
          rendezvous, ClaimsAreKept
<1>43. CASE UNCHANGED vars
  BY <1>43, <1>i, <1>t, <1>y, Kinds DEF vars, Goto, durable, threads, rendezvous,
          ClaimsAreKept
<1> QED BY <1>1, <1>2, <1>3, <1>4, <1>5, <1>6, <1>7, <1>8, <1>9, <1>10, <1>11, <1>12, <1>13,
          <1>14, <1>15, <1>16, <1>17, <1>18, <1>19, <1>20, <1>21, <1>22, <1>23, <1>24,
          <1>25, <1>26, <1>27, <1>28, <1>29, <1>30, <1>31, <1>32, <1>33, <1>34, <1>35,
          <1>36, <1>37, <1>38, <1>39, <1>40, <1>41, <1>42, <1>43
          DEF Next, ThreadStep, ChildStep, WorkerStep

\* The root is paused by the transaction of one registered owner, and by nothing else.
LEMMA OnlySuspendPauses ==
    ASSUME PlanTypes, [Next]_vars, run[Root] # "paused", run'[Root] = "paused"
    PROVE  \E q \in Owners : Suspend(q)
<1>t. run \in [Tasks \union {Root} -> RunStates] /\ batch \in [Owners -> SUBSET Tasks]
  BY DEF PlanTypes, RowTypes, ThreadTypes
<1>1. ASSUME NEW c \in Tasks, StartChild(c) PROVE \E q \in Owners : Suspend(q)
  BY <1>1, <1>t, Kinds DEF StartChild, Halted, SlotFree, Goto, durable, threads,
          rendezvous
<1>2. ASSUME NEW c \in Tasks, FinishLeaf(c) PROVE \E q \in Owners : Suspend(q)
  BY <1>2, <1>t, Kinds DEF FinishLeaf, Return, Goto, durable, threads, rendezvous
<1>3. ASSUME NEW p \in Owners, YieldResumed(p) PROVE \E q \in Owners : Suspend(q)
  BY <1>3, <1>t, Kinds DEF YieldResumed, Goto, durable, threads, rendezvous
<1>4. ASSUME NEW p \in Owners, AcceptPlan(p) PROVE \E q \in Owners : Suspend(q)
  BY <1>4, <1>t, Kinds DEF AcceptPlan, Halted, Goto, durable, threads, rendezvous
<1>5. ASSUME NEW p \in Owners, AgentEnds(p) PROVE \E q \in Owners : Suspend(q)
  BY <1>5, <1>t, Kinds DEF AgentEnds, Halted, RootEnds, Return, In, Of, Goto, durable,
          threads, rendezvous
<1>6. ASSUME NEW p \in Owners, NEW c \in Tasks, SettleChild(p, c)
      PROVE  \E q \in Owners : Suspend(q)
  BY <1>6, <1>t, Kinds DEF SettleChild, Settle, Unsettled, Of, Goto, durable, threads,
          rendezvous
<1>7. ASSUME NEW p \in Owners, NEW c \in Tasks, ObservePause(p, c)
      PROVE  \E q \in Owners : Suspend(q)
  BY <1>7, <1>t, Kinds DEF ObservePause, Unsettled, Of, Goto, durable, threads,
          rendezvous
<1>8. ASSUME NEW p \in Owners, Joined(p) PROVE \E q \in Owners : Suspend(q)
  BY <1>8, <1>t, Kinds DEF Joined, AllDrained, Unsettled, Of, ReturnPaused, Goto,
          durable, threads, rendezvous
<1>9. ASSUME NEW p \in Owners, NEW c \in Tasks, JoinSibling(p, c)
      PROVE  \E q \in Owners : Suspend(q)
  BY <1>9, <1>t, Kinds DEF JoinSibling, Settle, Unsettled, Of, Goto, durable, threads,
          rendezvous
<1>10. ASSUME NEW p \in Owners, LoopThrows(p) PROVE \E q \in Owners : Suspend(q)
  BY <1>10, <1>t, Kinds DEF LoopThrows, Halted, Throw, Unsettled, Of, Goto, durable,
          threads, rendezvous
<1>11. ASSUME NEW p \in Owners, Inspect(p) PROVE \E q \in Owners : Suspend(q)
  BY <1>11, <1>t, Kinds DEF Inspect, Halted, Unsettled, Of, Goto, durable, threads,
          rendezvous
<1>12. ASSUME NEW p \in Owners, NEW h \in Humans, Expire(p, h)
      PROVE  \E q \in Owners : Suspend(q)
  BY <1>12, <1>t, Kinds DEF Expire, Late, Waiting, Throw, Unsettled, In, Of, Goto,
          durable, threads, rendezvous
<1>13. ASSUME NEW p \in Owners, ResumeChildren(p) PROVE \E q \in Owners : Suspend(q)
  BY <1>13, <1>t, Kinds DEF ResumeChildren, Late, TakesUp, Resuming, Claimed, Unsettled,
          In, Of, Goto, durable, threads, rendezvous
<1>14. ASSUME NEW p \in Owners, Report(p) PROVE \E q \in Owners : Suspend(q)
  BY <1>14, <1>t, Kinds DEF Report, Deciding, ReportReady, Throw, Unsettled, In, Of,
          Claimed, Goto, durable, threads, rendezvous
<1>15. ASSUME NEW p \in Owners, NEW h \in Humans, Publish(p, h)
      PROVE  \E q \in Owners : Suspend(q)
  BY <1>15, <1>t, Kinds DEF Publish, Deciding, Ready, Throw, Unsettled, In, Of, Goto,
          durable, threads, rendezvous
<1>16. ASSUME NEW p \in Owners, NEW F \in SUBSET Tasks, Stage(p, F)
      PROVE  \E q \in Owners : Suspend(q)
  BY <1>16, <1>t, Kinds DEF Stage, Deciding, Ready, In, Of, Goto, durable, threads,
          rendezvous
<1>17. ASSUME NEW p \in Owners, Idle(p) PROVE \E q \in Owners : Suspend(q)
  BY <1>17, <1>t, Kinds DEF Idle, Deciding, Goto, durable, threads, rendezvous
<1>18. ASSUME NEW p \in Owners, Admit(p) PROVE \E q \in Owners : Suspend(q)
  BY <1>18, <1>t, Kinds DEF Admit, Halted, Throw, Unsettled, Of, Goto, durable, threads,
          rendezvous
<1>19. ASSUME NEW p \in Owners, AwaitPeople(p) PROVE \E q \in Owners : Suspend(q)
  BY <1>19, <1>t, Kinds DEF AwaitPeople, Deciding, Unsettled, Of, Goto, durable,
          threads, rendezvous
<1>20. ASSUME NEW p \in Owners, Drain(p) PROVE \E q \in Owners : Suspend(q)
  BY <1>20, <1>t, Kinds DEF Drain, Halted, Throw, Unsettled, Of, Goto, durable, threads,
          rendezvous
<1>21. ASSUME NEW p \in Owners, Register(p) PROVE \E q \in Owners : Suspend(q)
  BY <1>21, <1>t, Kinds DEF Register, Throw, Rethrow, ReturnPaused, Unsettled, Of, Goto,
          durable, threads, rendezvous
<1>22. ASSUME NEW p \in Owners, Concluded(p) PROVE \E q \in Owners : Suspend(q)
  BY <1>22, <1>t, Kinds DEF Concluded, Rethrow, Throw, ReturnPaused, Unsettled, Of,
          Goto, durable, threads, rendezvous
<1>23. ASSUME NEW p \in Owners, PollThrows(p) PROVE \E q \in Owners : Suspend(q)
  BY <1>23, <1>t, Kinds DEF PollThrows, Waits, Throw, Unsettled, Of, Goto, durable,
          threads, rendezvous
<1>24. ASSUME NEW p \in Owners, Poll(p) PROVE \E q \in Owners : Suspend(q)
  BY <1>24, <1>t, Kinds DEF Poll, Waits, Goto, durable, threads, rendezvous
<1>25. ASSUME NEW p \in Owners, Commit(p) PROVE \E q \in Owners : Suspend(q)
  BY <1>25, <1>t, Kinds DEF Commit, Goto, durable, threads, rendezvous
<1>26. ASSUME NEW p \in Owners, Suspend(p) PROVE \E q \in Owners : Suspend(q)
  BY <1>26, <1>t, Kinds DEF Suspend, PauseFailed, ReturnPaused, Throw, Unsettled, Of,
          Goto, durable, threads, rendezvous
<1>27. ASSUME NEW p \in Owners, Reacquire(p) PROVE \E q \in Owners : Suspend(q)
  BY <1>27, <1>t, Kinds DEF Reacquire, Return, Halted, SlotFree, Goto, durable, threads,
          rendezvous
<1>28. ASSUME NEW p \in Owners, CommitTurn(p) PROVE \E q \in Owners : Suspend(q)
  BY <1>28, <1>t, Kinds DEF CommitTurn, Goto, durable, threads, rendezvous
<1>29. ASSUME NEW p \in Owners, FinishOwner(p) PROVE \E q \in Owners : Suspend(q)
  BY <1>29, <1>t, Kinds DEF FinishOwner, RootEnds, Return, Halted, In, Of, Goto,
          durable, threads, rendezvous
<1>30. ASSUME NEW p \in Owners, NEW c \in Tasks, Drained(p, c)
      PROVE  \E q \in Owners : Suspend(q)
  BY <1>30, <1>t, Kinds DEF Drained, Settle, Unsettled, Of, Goto, durable, threads,
          rendezvous
<1>31. ASSUME NEW p \in Owners, EndUnwind(p) PROVE \E q \in Owners : Suspend(q)
  BY <1>31, <1>t, Kinds DEF EndUnwind, AllDrained, Unsettled, Of, RootEnds, Return,
          Halted, SlotFree, In, Goto, durable, threads, rendezvous
<1>32. ASSUME NEW p \in Owners, Fail(p) PROVE \E q \in Owners : Suspend(q)
  BY <1>32, <1>t, Kinds DEF Fail, Return, Goto, durable, threads, rendezvous
<1>33. ASSUME NEW p \in Owners, EndFault(p) PROVE \E q \in Owners : Suspend(q)
  BY <1>33, <1>t, Kinds DEF EndFault, AllDrained, Unsettled, Of, Goto, durable, threads,
          rendezvous
<1>34. ASSUME NEW h \in Humans, Answer(h) PROVE \E q \in Owners : Suspend(q)
  BY <1>34, <1>t, Kinds DEF Answer, Goto, durable, threads, rendezvous
<1>35. ASSUME ResumeRoot PROVE \E q \in Owners : Suspend(q)
  BY <1>35, <1>t, Kinds DEF ResumeRoot, MayResume, Goto, durable, threads, rendezvous
<1>36. ASSUME ExpireWaiting PROVE \E q \in Owners : Suspend(q)
  BY <1>36, <1>t, Kinds DEF ExpireWaiting, RetirePaused, Goto, durable, threads,
          rendezvous
<1>37. ASSUME CancelPaused PROVE \E q \in Owners : Suspend(q)
  BY <1>37, <1>t, Kinds DEF CancelPaused, RetirePaused, Goto, durable, threads,
          rendezvous
<1>38. ASSUME Cancel PROVE \E q \in Owners : Suspend(q)
  BY <1>38, <1>t, Kinds DEF Cancel, Goto, durable, threads, rendezvous
<1>39. ASSUME Deadline PROVE \E q \in Owners : Suspend(q)
  BY <1>39, <1>t, Kinds DEF Deadline, Goto, durable, threads, rendezvous
<1>40. ASSUME NEW h \in Humans, Expiry(h) PROVE \E q \in Owners : Suspend(q)
  BY <1>40, <1>t, Kinds DEF Expiry, Goto, durable, threads, rendezvous
<1>41. ASSUME NEW c \in Tasks, ReleaseSlot(c) PROVE \E q \in Owners : Suspend(q)
  BY <1>41, <1>t, Kinds DEF ReleaseSlot, Goto, durable, threads, rendezvous
<1>42. ASSUME ResumeRefused PROVE \E q \in Owners : Suspend(q)
  BY <1>42, <1>t, Kinds DEF ResumeRefused, Goto, durable, threads, rendezvous
<1>43. CASE UNCHANGED vars
  BY <1>43, <1>t, Kinds DEF vars, Goto, durable, threads, rendezvous
<1> QED BY <1>1, <1>2, <1>3, <1>4, <1>5, <1>6, <1>7, <1>8, <1>9, <1>10, <1>11, <1>12, <1>13,
          <1>14, <1>15, <1>16, <1>17, <1>18, <1>19, <1>20, <1>21, <1>22, <1>23, <1>24,
          <1>25, <1>26, <1>27, <1>28, <1>29, <1>30, <1>31, <1>32, <1>33, <1>34, <1>35,
          <1>36, <1>37, <1>38, <1>39, <1>40, <1>41, <1>42, <1>43
          DEF Next, ThreadStep, ChildStep, WorkerStep

\* An owner at work above the waits that a pause records has a child at work.
LEMMA AboveTheWaits ==
    ASSUME PlanInv, NEW p \in Owners, pc[p] = "suspend", WaitsHold(entries[p]),
           NothingElseLives(entries[p]), NEW q \in Owners \ entries[p], pc[q] # "off"
    PROVE  /\ pc[q] \in Busy
           /\ \E d \in Tasks : tree.owner[d] = q /\ job[d] = "live"
<1> DEFINE W == entries[p]
<1>1. W \in SUBSET Owners /\ p \in W /\ tree \in Trees
  BY DEF PlanInv, ReadersWait, PlanTypes, BudgetTypes, RowTypes
<1>2. \A d \in Chain(W) : d \in Tasks /\ job[d] = "live" /\ tree.owner[d] \in Owners
  BY <1>1, ChainIsAtWork, ChainHolds, Kinds DEF PlanInv, JobsAreClaimed
<1>3. \E d \in Chain(W) : tree.owner[d] = q
  <2>1. CASE q = Root
    <3>1. Chain(W) \in SUBSET Planners /\ p \in Chain(W)
      BY <1>1, <2>1, ChainHolds
    <3>2. PICK d \in Chain(W) : tree.owner[d] \notin Chain(W)
      BY <1>1, <3>1, SomeHangsOutside
    <3> QED BY <1>1, <1>2, <2>1, <3>2, ChainHolds, Kinds
  <2>2. CASE q # Root
    <3>1. run[q] \in Live
      BY <2>2, Kinds DEF PlanInv, OneThreadPerOwner, JobsMatchRuns, Live
    <3>2. q \in Chain(W)
      BY <2>2, <3>1, Kinds DEF NothingElseLives
    <3> QED BY <1>1, <3>2, ChainReaches
  <2> QED BY <2>1, <2>2
<1> QED BY <1>2, <1>3 DEF PlanInv, JobsAreClaimed

\* suspend_dynamic_owner pauses the root over work that has come to rest.
LEMMA SuspendClosesThePause ==
    ASSUME PlanInv, NEW p \in Owners, Suspend(p), run[Root] # "paused",
           run'[Root] = "paused"
    PROVE  PausedRows' /\ PausedThreads'
<1> DEFINE W == entries[p]
<1>1. /\ WaitsHold(W) /\ NothingElseLives(W) /\ pc[p] = "suspend"
      /\ run' = [r \in Tasks \union {Root} |->
                    IF r \in Chain(W) \union {Root} THEN "paused" ELSE run[r]]
      /\ binding' = W /\ ReturnPaused(p)
      /\ tree' = tree /\ node' = node /\ halt' = halt
  BY DEF Suspend
<1>t. /\ pc \in [Owners -> Positions] /\ job \in [Tasks -> FutureStates]
      /\ W \in SUBSET Owners /\ tree \in Trees
  BY DEF PlanInv, PlanTypes, RowTypes, ThreadTypes, BudgetTypes
<1>2. /\ pc' = [pc EXCEPT ![p] = "off"]
      /\ job' = IF p = Root THEN job ELSE [job EXCEPT ![p] = "paused"]
      /\ p # Root => job[p] = "live"
  BY <1>1, Kinds DEF ReturnPaused, Goto, PlanInv, OneThreadPerOwner
<1>3. Chain(binding)' = Chain(W)
  BY <1>1 DEF Chain
<1>4. PausedRows'
  <2>1. Chain(W) \subseteq Tasks
    BY <1>t, ChainHolds, Kinds
  <2>2. \A c \in Chain(W) : node[c] = "claimed"
    BY <1>1 DEF WaitsHold
  <2> QED BY <1>1, <1>3, <2>1, <2>2, Kinds DEF PausedRows, NothingElseLives, Live
<1>5. /\ failure = "none" /\ ~paused /\ committing = p /\ W \subseteq waits /\ p \in W
  BY <1>1, Kinds DEF PlanInv, OnePauses, ReadersWait
<1>6. ASSUME NEW q \in Owners, pc'[q] # "off" PROVE q # p /\ pc[q] # "off" /\ pc'[q] = pc[q]
  BY <1>2, <1>6, <1>t
<1>7. ASSUME NEW q \in W, pc'[q] # "off"
      PROVE  q # Root /\ (\/ pc[q] \in {"poll", "safe"}
                          \/ pc[q] = "unwind" /\ halt # "no" /\ Unsettled(q) = {})
  <2>1. q \in Owners /\ q # p /\ pc[q] # "off"
    BY <1>6, <1>7, <1>t
  <2>2. pc[q] # "suspend"
    BY <1>5, <2>1 DEF PlanInv, OnePauses
  <2>3. \/ pc[q] \in {"poll", "safe"}
        \/ pc[q] = "unwind" /\ halt # "no" /\ Unsettled(q) = {}
    BY <1>5, <2>1, <2>2 DEF PlanInv, WaitersWait
  <2>4. q # Root
    <3> SUFFICES ASSUME q = Root PROVE FALSE
      OBVIOUS
    <3>1. pc[Root] \notin Busy \/ Unsettled(Root) = {}
      BY <2>3 DEF Busy
    <3>2. \A r \in Planners : pc[r] = "off"
      BY <3>1, NobodyBelow DEF PlanInv
    <3> QED BY <1>1, <2>1, <3>2, Kinds
  <2> QED BY <2>3, <2>4
<1>8. \A q \in Owners : Unsettled(q)' = Unsettled(q)
  BY <1>1, <1>2, <1>t, Kinds DEF Unsettled, Of
<1>9. ASSUME NEW q \in Owners \ W, pc'[q] # "off"
      PROVE  /\ pc[q] \in Busy
             /\ \E d \in Tasks : tree.owner[d] = q /\ job'[d] \in {"live", "paused"}
  <2>1. pc[q] \in Busy /\ \E d \in Tasks : tree.owner[d] = q /\ job[d] = "live"
    BY <1>1, <1>6, <1>9, AboveTheWaits
  <2>2. PICK d \in Tasks : tree.owner[d] = q /\ job[d] = "live"
    BY <2>1
  <2>3. job'[d] \in {"live", "paused"}
    BY <1>2, <1>t, <2>2
  <2> QED BY <2>1, <2>2, <2>3
<1>10. PausedThreads'
  BY <1>1, <1>6, <1>7, <1>8, <1>9, <1>t DEF PausedThreads
<1> QED BY <1>4, <1>10

\* While the root stays paused its rows do not change.
LEMMA PausedRowsStay ==
    ASSUME PlanInv, [Next]_vars, run[Root] = "paused", run'[Root] = "paused"
    PROVE  PausedRows'
<1>t. /\ pc \in [Owners -> Positions]
      /\ job \in [Tasks -> FutureStates]
      /\ run \in [Tasks \union {Root} -> RunStates]
      /\ node \in [Nodes -> PlanNodeStates]
      /\ batch \in [Owners -> SUBSET Tasks]
      /\ tree \in Trees
      /\ binding \subseteq Owners
  BY DEF PlanInv, PlanTypes, SlotTypes, RowTypes, ThreadTypes, BudgetTypes
<1>i. /\ PausedRows /\ PausedThreads /\ OneThreadPerOwner /\ JobsMatchRuns
  BY DEF PlanInv, PauseIsClosed
<1>j. /\ paused /\ failure = "none" /\ committing = Nobody
      /\ \A c \in Tasks : job[c] # "none" => tree.owner[c] \in Owners /\ pc[tree.owner[c]] \in Busy
  BY DEF PlanInv, OnePauses, JobsAreClaimed
<1>k. tree' = tree /\ binding' = binding => Chain(binding)' = Chain(binding)
  BY DEF Chain
<1>l. /\ Chain(binding) \subseteq Planners /\ Chain(binding) \subseteq Tasks
      /\ binding \ {Root} \subseteq Chain(binding)
  BY <1>t, ChainHolds, Kinds
<1>m. \A c \in Tasks : job[c] \notin {"pending"} /\ (job[c] = "live" => run[c] = "paused")
  BY <1>i DEF JobsMatchRuns, PausedRows, Live
<1>n. \A p \in Owners : pc[p] \in {"off", "poll", "safe"} \union Busy
  BY <1>i DEF PausedThreads, Busy
<1>1. ASSUME NEW c \in Tasks, StartChild(c) PROVE PausedRows'
  BY <1>1, <1>i, <1>t, <1>j, <1>k, <1>l, <1>m, <1>n, Kinds DEF StartChild, Halted,
          SlotFree, Goto, durable, threads, rendezvous, PausedRows, Live, Busy, Finished
<1>2. ASSUME NEW c \in Tasks, FinishLeaf(c) PROVE PausedRows'
  BY <1>2, <1>i, <1>t, <1>j, <1>k, <1>l, <1>m, <1>n, Kinds DEF FinishLeaf, Return, Goto,
          durable, threads, rendezvous, PausedRows, Live, Busy, Finished
<1>3. ASSUME NEW p \in Owners, YieldResumed(p) PROVE PausedRows'
  BY <1>3, <1>i, <1>t, <1>j, <1>k, <1>l, <1>m, <1>n, Kinds DEF YieldResumed, Goto,
          durable, threads, rendezvous, PausedRows, Live, Busy, Finished
<1>4. ASSUME NEW p \in Owners, AcceptPlan(p) PROVE PausedRows'
  BY <1>4, <1>i, <1>t, <1>j, <1>k, <1>l, <1>m, <1>n, Kinds DEF AcceptPlan, Halted, Goto,
          durable, threads, rendezvous, PausedRows, Live, Busy, Finished
<1>5. ASSUME NEW p \in Owners, AgentEnds(p) PROVE PausedRows'
  BY <1>5, <1>i, <1>t, <1>j, <1>k, <1>l, <1>m, <1>n, Kinds DEF AgentEnds, Halted,
          RootEnds, Return, In, Of, Goto, durable, threads, rendezvous, PausedRows,
          Live, Busy, Finished
<1>6. ASSUME NEW p \in Owners, NEW c \in Tasks, SettleChild(p, c) PROVE PausedRows'
  BY <1>6, <1>i, <1>t, <1>j, <1>k, <1>l, <1>m, <1>n, Kinds DEF SettleChild, Settle,
          Unsettled, Of, Goto, durable, threads, rendezvous, PausedRows, Live, Busy,
          Finished, JobsMatchRuns
<1>7. ASSUME NEW p \in Owners, NEW c \in Tasks, ObservePause(p, c) PROVE PausedRows'
  BY <1>7, <1>i, <1>t, <1>j, <1>k, <1>l, <1>m, <1>n, Kinds DEF ObservePause, Unsettled,
          Of, Goto, durable, threads, rendezvous, PausedRows, Live, Busy, Finished
<1>8. ASSUME NEW p \in Owners, Joined(p) PROVE PausedRows'
  BY <1>8, <1>i, <1>t, <1>j, <1>k, <1>l, <1>m, <1>n, Kinds DEF Joined, AllDrained,
          Unsettled, Of, ReturnPaused, Goto, durable, threads, rendezvous, PausedRows,
          Live, Busy, Finished
<1>9. ASSUME NEW p \in Owners, NEW c \in Tasks, JoinSibling(p, c) PROVE PausedRows'
  BY <1>9, <1>i, <1>t, <1>j, <1>k, <1>l, <1>m, <1>n, Kinds DEF JoinSibling, Settle,
          Unsettled, Of, Goto, durable, threads, rendezvous, PausedRows, Live, Busy,
          Finished, JobsMatchRuns
<1>10. ASSUME NEW p \in Owners, LoopThrows(p) PROVE PausedRows'
  BY <1>10, <1>i, <1>t, <1>j, <1>k, <1>l, <1>m, <1>n, Kinds DEF LoopThrows, Halted,
          Throw, Unsettled, Of, Goto, durable, threads, rendezvous, PausedRows, Live,
          Busy, Finished
<1>11. ASSUME NEW p \in Owners, Inspect(p) PROVE PausedRows'
  BY <1>11, <1>i, <1>t, <1>j, <1>k, <1>l, <1>m, <1>n, Kinds DEF Inspect, Halted,
          Unsettled, Of, Goto, durable, threads, rendezvous, PausedRows, Live, Busy,
          Finished
<1>12. ASSUME NEW p \in Owners, NEW h \in Humans, Expire(p, h) PROVE PausedRows'
  BY <1>12, <1>i, <1>t, <1>j, <1>k, <1>l, <1>m, <1>n, Kinds DEF Expire, Late, Waiting,
          Throw, Unsettled, In, Of, Goto, durable, threads, rendezvous, PausedRows,
          Live, Busy, Finished
<1>13. ASSUME NEW p \in Owners, ResumeChildren(p) PROVE PausedRows'
  BY <1>13, <1>i, <1>t, <1>j, <1>k, <1>l, <1>m, <1>n, Kinds DEF ResumeChildren, Late,
          TakesUp, Resuming, Claimed, Unsettled, In, Of, Goto, durable, threads,
          rendezvous, PausedRows, Live, Busy, Finished
<1>14. ASSUME NEW p \in Owners, Report(p) PROVE PausedRows'
  BY <1>14, <1>i, <1>t, <1>j, <1>k, <1>l, <1>m, <1>n, Kinds DEF Report, Deciding,
          ReportReady, Throw, Unsettled, In, Of, Claimed, Goto, durable, threads,
          rendezvous, PausedRows, Live, Busy, Finished
<1>15. ASSUME NEW p \in Owners, NEW h \in Humans, Publish(p, h) PROVE PausedRows'
  BY <1>15, <1>i, <1>t, <1>j, <1>k, <1>l, <1>m, <1>n, Kinds DEF Publish, Deciding,
          Ready, Throw, Unsettled, In, Of, Goto, durable, threads, rendezvous,
          PausedRows, Live, Busy, Finished
<1>16. ASSUME NEW p \in Owners, NEW F \in SUBSET Tasks, Stage(p, F) PROVE PausedRows'
  BY <1>16, <1>i, <1>t, <1>j, <1>k, <1>l, <1>m, <1>n, Kinds DEF Stage, Deciding, Ready,
          In, Of, Goto, durable, threads, rendezvous, PausedRows, Live, Busy, Finished
<1>17. ASSUME NEW p \in Owners, Idle(p) PROVE PausedRows'
  BY <1>17, <1>i, <1>t, <1>j, <1>k, <1>l, <1>m, <1>n, Kinds DEF Idle, Deciding, Goto,
          durable, threads, rendezvous, PausedRows, Live, Busy, Finished
<1>18. ASSUME NEW p \in Owners, Admit(p) PROVE PausedRows'
  BY <1>18, <1>i, <1>t, <1>j, <1>k, <1>l, <1>m, <1>n, Kinds DEF Admit, Halted, Throw,
          Unsettled, Of, Goto, durable, threads, rendezvous, PausedRows, Live, Busy,
          Finished
<1>19. ASSUME NEW p \in Owners, AwaitPeople(p) PROVE PausedRows'
  BY <1>19, <1>i, <1>t, <1>j, <1>k, <1>l, <1>m, <1>n, Kinds DEF AwaitPeople, Deciding,
          Unsettled, Of, Goto, durable, threads, rendezvous, PausedRows, Live, Busy,
          Finished
<1>20. ASSUME NEW p \in Owners, Drain(p) PROVE PausedRows'
  BY <1>20, <1>i, <1>t, <1>j, <1>k, <1>l, <1>m, <1>n, Kinds DEF Drain, Halted, Throw,
          Unsettled, Of, Goto, durable, threads, rendezvous, PausedRows, Live, Busy,
          Finished
<1>21. ASSUME NEW p \in Owners, Register(p) PROVE PausedRows'
  BY <1>21, <1>i, <1>t, <1>j, <1>k, <1>l, <1>m, <1>n, Kinds DEF Register, Throw,
          Rethrow, ReturnPaused, Unsettled, Of, Goto, durable, threads, rendezvous,
          PausedRows, Live, Busy, Finished
<1>22. ASSUME NEW p \in Owners, Concluded(p) PROVE PausedRows'
  BY <1>22, <1>i, <1>t, <1>j, <1>k, <1>l, <1>m, <1>n, Kinds DEF Concluded, Rethrow,
          Throw, ReturnPaused, Unsettled, Of, Goto, durable, threads, rendezvous,
          PausedRows, Live, Busy, Finished
<1>23. ASSUME NEW p \in Owners, PollThrows(p) PROVE PausedRows'
  BY <1>23, <1>i, <1>t, <1>j, <1>k, <1>l, <1>m, <1>n, Kinds DEF PollThrows, Waits,
          Throw, Unsettled, Of, Goto, durable, threads, rendezvous, PausedRows, Live,
          Busy, Finished
<1>24. ASSUME NEW p \in Owners, Poll(p) PROVE PausedRows'
  BY <1>24, <1>i, <1>t, <1>j, <1>k, <1>l, <1>m, <1>n, Kinds DEF Poll, Waits, Goto,
          durable, threads, rendezvous, PausedRows, Live, Busy, Finished
<1>25. ASSUME NEW p \in Owners, Commit(p) PROVE PausedRows'
  BY <1>25, <1>i, <1>t, <1>j, <1>k, <1>l, <1>m, <1>n, Kinds DEF Commit, Goto, durable,
          threads, rendezvous, PausedRows, Live, Busy, Finished
<1>26. ASSUME NEW p \in Owners, Suspend(p) PROVE PausedRows'
  BY <1>26, <1>i, <1>t, <1>j, <1>k, <1>l, <1>m, <1>n, Kinds DEF Suspend, PauseFailed,
          ReturnPaused, Throw, Unsettled, Of, Goto, durable, threads, rendezvous,
          PausedRows, Live, Busy, Finished
<1>27. ASSUME NEW p \in Owners, Reacquire(p) PROVE PausedRows'
  BY <1>27, <1>i, <1>t, <1>j, <1>k, <1>l, <1>m, <1>n, Kinds DEF Reacquire, Return,
          Halted, SlotFree, Goto, durable, threads, rendezvous, PausedRows, Live, Busy,
          Finished, OneThreadPerOwner
<1>28. ASSUME NEW p \in Owners, CommitTurn(p) PROVE PausedRows'
  BY <1>28, <1>i, <1>t, <1>j, <1>k, <1>l, <1>m, <1>n, Kinds DEF CommitTurn, Goto,
          durable, threads, rendezvous, PausedRows, Live, Busy, Finished
<1>29. ASSUME NEW p \in Owners, FinishOwner(p) PROVE PausedRows'
  BY <1>29, <1>i, <1>t, <1>j, <1>k, <1>l, <1>m, <1>n, Kinds DEF FinishOwner, RootEnds,
          Return, Halted, In, Of, Goto, durable, threads, rendezvous, PausedRows, Live,
          Busy, Finished
<1>30. ASSUME NEW p \in Owners, NEW c \in Tasks, Drained(p, c) PROVE PausedRows'
  BY <1>30, <1>i, <1>t, <1>j, <1>k, <1>l, <1>m, <1>n, Kinds DEF Drained, Settle,
          Unsettled, Of, Goto, durable, threads, rendezvous, PausedRows, Live, Busy,
          Finished, JobsMatchRuns
<1>31. ASSUME NEW p \in Owners, EndUnwind(p) PROVE PausedRows'
  BY <1>31, <1>i, <1>t, <1>j, <1>k, <1>l, <1>m, <1>n, Kinds DEF EndUnwind, AllDrained,
          Unsettled, Of, RootEnds, Return, Halted, SlotFree, In, Goto, durable, threads,
          rendezvous, PausedRows, Live, Busy, Finished, OneThreadPerOwner
<1>32. ASSUME NEW p \in Owners, Fail(p) PROVE PausedRows'
  BY <1>32, <1>i, <1>t, <1>j, <1>k, <1>l, <1>m, <1>n, Kinds DEF Fail, Return, Goto,
          durable, threads, rendezvous, PausedRows, Live, Busy, Finished,
          OneThreadPerOwner
<1>33. ASSUME NEW p \in Owners, EndFault(p) PROVE PausedRows'
  BY <1>33, <1>i, <1>t, <1>j, <1>k, <1>l, <1>m, <1>n, Kinds DEF EndFault, AllDrained,
          Unsettled, Of, Goto, durable, threads, rendezvous, PausedRows, Live, Busy,
          Finished, OneThreadPerOwner
<1>34. ASSUME NEW h \in Humans, Answer(h) PROVE PausedRows'
  BY <1>34, <1>i, <1>t, <1>j, <1>k, <1>l, <1>m, <1>n, Kinds DEF Answer, Goto, durable,
          threads, rendezvous, PausedRows, Live, Busy, Finished
<1>35. ASSUME ResumeRoot PROVE PausedRows'
  BY <1>35, <1>i, <1>t, <1>j, <1>k, <1>l, <1>m, <1>n, Kinds DEF ResumeRoot, MayResume,
          Goto, durable, threads, rendezvous, PausedRows, Live, Busy, Finished
<1>36. ASSUME ExpireWaiting PROVE PausedRows'
  BY <1>36, <1>i, <1>t, <1>j, <1>k, <1>l, <1>m, <1>n, Kinds DEF ExpireWaiting,
          RetirePaused, Goto, durable, threads, rendezvous, PausedRows, Live, Busy,
          Finished
<1>37. ASSUME CancelPaused PROVE PausedRows'
  BY <1>37, <1>i, <1>t, <1>j, <1>k, <1>l, <1>m, <1>n, Kinds DEF CancelPaused,
          RetirePaused, Goto, durable, threads, rendezvous, PausedRows, Live, Busy,
          Finished
<1>38. ASSUME Cancel PROVE PausedRows'
  BY <1>38, <1>i, <1>t, <1>j, <1>k, <1>l, <1>m, <1>n, Kinds DEF Cancel, Goto, durable,
          threads, rendezvous, PausedRows, Live, Busy, Finished
<1>39. ASSUME Deadline PROVE PausedRows'
  BY <1>39, <1>i, <1>t, <1>j, <1>k, <1>l, <1>m, <1>n, Kinds DEF Deadline, Goto, durable,
          threads, rendezvous, PausedRows, Live, Busy, Finished
<1>40. ASSUME NEW h \in Humans, Expiry(h) PROVE PausedRows'
  BY <1>40, <1>i, <1>t, <1>j, <1>k, <1>l, <1>m, <1>n, Kinds DEF Expiry, Goto, durable,
          threads, rendezvous, PausedRows, Live, Busy, Finished
<1>41. ASSUME NEW c \in Tasks, ReleaseSlot(c) PROVE PausedRows'
  BY <1>41, <1>i, <1>t, <1>j, <1>k, <1>l, <1>m, <1>n, Kinds DEF ReleaseSlot, Goto,
          durable, threads, rendezvous, PausedRows, Live, Busy, Finished
<1>42. ASSUME ResumeRefused PROVE PausedRows'
  BY <1>42, <1>i, <1>t, <1>j, <1>k, <1>l, <1>m, <1>n, Kinds DEF ResumeRefused, Goto,
          durable, threads, rendezvous, PausedRows, Live, Busy, Finished
<1>43. CASE UNCHANGED vars
  BY <1>43, <1>i, <1>t, <1>j, <1>k, <1>l, <1>m, <1>n, Kinds DEF vars, Goto, durable,
          threads, rendezvous, PausedRows, Live, Busy, Finished
<1> QED BY <1>1, <1>2, <1>3, <1>4, <1>5, <1>6, <1>7, <1>8, <1>9, <1>10, <1>11, <1>12, <1>13,
          <1>14, <1>15, <1>16, <1>17, <1>18, <1>19, <1>20, <1>21, <1>22, <1>23, <1>24,
          <1>25, <1>26, <1>27, <1>28, <1>29, <1>30, <1>31, <1>32, <1>33, <1>34, <1>35,
          <1>36, <1>37, <1>38, <1>39, <1>40, <1>41, <1>42, <1>43
          DEF Next, ThreadStep, ChildStep, WorkerStep

\* While the root stays paused its threads only unwind, or tell their parents.
LEMMA PausedThreadsStay ==
    ASSUME PlanInv, [Next]_vars, run[Root] = "paused", run'[Root] = "paused"
    PROVE  PausedThreads'
<1>t. /\ pc \in [Owners -> Positions]
      /\ job \in [Tasks -> FutureStates]
      /\ run \in [Tasks \union {Root} -> RunStates]
      /\ node \in [Nodes -> PlanNodeStates]
      /\ batch \in [Owners -> SUBSET Tasks]
      /\ tree \in Trees
      /\ binding \subseteq Owners
  BY DEF PlanInv, PlanTypes, SlotTypes, RowTypes, ThreadTypes, BudgetTypes
<1>i. /\ PausedRows /\ PausedThreads /\ OneThreadPerOwner /\ JobsMatchRuns
  BY DEF PlanInv, PauseIsClosed
<1>j. /\ paused /\ failure = "none" /\ committing = Nobody
      /\ \A c \in Tasks : job[c] # "none" => tree.owner[c] \in Owners /\ pc[tree.owner[c]] \in Busy
  BY DEF PlanInv, OnePauses, JobsAreClaimed
<1>k. tree' = tree /\ binding' = binding => Chain(binding)' = Chain(binding)
  BY DEF Chain
<1>l. /\ Chain(binding) \subseteq Planners /\ Chain(binding) \subseteq Tasks
      /\ binding \ {Root} \subseteq Chain(binding)
  BY <1>t, ChainHolds, Kinds
<1>m. \A c \in Tasks : job[c] \notin {"pending"} /\ (job[c] = "live" => run[c] = "paused")
  BY <1>i DEF JobsMatchRuns, PausedRows, Live
<1>1. ASSUME NEW c \in Tasks, StartChild(c) PROVE PausedThreads'
  BY <1>1, <1>i, <1>t, <1>j, <1>l, <1>m, Kinds DEF StartChild, Halted, SlotFree, Goto,
          durable, threads, rendezvous, PausedThreads, Live, Busy, Unsettled, Of
<1>2. ASSUME NEW c \in Tasks, FinishLeaf(c) PROVE PausedThreads'
  BY <1>2, <1>i, <1>t, <1>j, <1>l, <1>m, Kinds DEF FinishLeaf, Return, Goto, durable,
          threads, rendezvous, PausedThreads, Live, Busy, Unsettled, Of
<1>3. ASSUME NEW p \in Owners, YieldResumed(p) PROVE PausedThreads'
  BY <1>3, <1>i, <1>t, <1>j, <1>l, <1>m, Kinds DEF YieldResumed, Goto, durable, threads,
          rendezvous, PausedThreads, Live, Busy, Unsettled, Of
<1>4. ASSUME NEW p \in Owners, AcceptPlan(p) PROVE PausedThreads'
  BY <1>4, <1>i, <1>t, <1>j, <1>l, <1>m, Kinds DEF AcceptPlan, Halted, Goto, durable,
          threads, rendezvous, PausedThreads, Live, Busy, Unsettled, Of
<1>5. ASSUME NEW p \in Owners, AgentEnds(p) PROVE PausedThreads'
  BY <1>5, <1>i, <1>t, <1>j, <1>l, <1>m, Kinds DEF AgentEnds, Halted, RootEnds, Return,
          In, Of, Goto, durable, threads, rendezvous, PausedThreads, Live, Busy,
          Unsettled
<1>6. ASSUME NEW p \in Owners, NEW c \in Tasks, SettleChild(p, c) PROVE PausedThreads'
  BY <1>6, <1>i, <1>t, <1>j, <1>l, <1>m, Kinds DEF SettleChild, Settle, Unsettled, Of,
          Goto, durable, threads, rendezvous, PausedThreads, Live, Busy
<1>7. ASSUME NEW p \in Owners, NEW c \in Tasks, ObservePause(p, c) PROVE PausedThreads'
  BY <1>7, <1>i, <1>t, <1>j, <1>l, <1>m, Kinds DEF ObservePause, Unsettled, Of, Goto,
          durable, threads, rendezvous, PausedThreads, Live, Busy
<1>8. ASSUME NEW p \in Owners, Joined(p) PROVE PausedThreads'
  BY <1>8, <1>i, <1>t, <1>j, <1>l, <1>m, Kinds DEF Joined, AllDrained, Unsettled, Of,
          ReturnPaused, Goto, durable, threads, rendezvous, PausedThreads, Live, Busy,
          OneThreadPerOwner
<1>9. ASSUME NEW p \in Owners, NEW c \in Tasks, JoinSibling(p, c) PROVE PausedThreads'
  BY <1>9, <1>i, <1>t, <1>j, <1>l, <1>m, Kinds DEF JoinSibling, Settle, Unsettled, Of,
          Goto, durable, threads, rendezvous, PausedThreads, Live, Busy
<1>10. ASSUME NEW p \in Owners, LoopThrows(p) PROVE PausedThreads'
  BY <1>10, <1>i, <1>t, <1>j, <1>l, <1>m, Kinds DEF LoopThrows, Halted, Throw,
          Unsettled, Of, Goto, durable, threads, rendezvous, PausedThreads, Live, Busy
<1>11. ASSUME NEW p \in Owners, Inspect(p) PROVE PausedThreads'
  BY <1>11, <1>i, <1>t, <1>j, <1>l, <1>m, Kinds DEF Inspect, Halted, Unsettled, Of,
          Goto, durable, threads, rendezvous, PausedThreads, Live, Busy
<1>12. ASSUME NEW p \in Owners, NEW h \in Humans, Expire(p, h) PROVE PausedThreads'
  BY <1>12, <1>i, <1>t, <1>j, <1>l, <1>m, Kinds DEF Expire, Late, Waiting, Throw,
          Unsettled, In, Of, Goto, durable, threads, rendezvous, PausedThreads, Live,
          Busy
<1>13. ASSUME NEW p \in Owners, ResumeChildren(p) PROVE PausedThreads'
  BY <1>13, <1>i, <1>t, <1>j, <1>l, <1>m, Kinds DEF ResumeChildren, Late, TakesUp,
          Resuming, Claimed, Unsettled, In, Of, Goto, durable, threads, rendezvous,
          PausedThreads, Live, Busy
<1>14. ASSUME NEW p \in Owners, Report(p) PROVE PausedThreads'
  BY <1>14, <1>i, <1>t, <1>j, <1>l, <1>m, Kinds DEF Report, Deciding, ReportReady,
          Throw, Unsettled, In, Of, Claimed, Goto, durable, threads, rendezvous,
          PausedThreads, Live, Busy
<1>15. ASSUME NEW p \in Owners, NEW h \in Humans, Publish(p, h) PROVE PausedThreads'
  BY <1>15, <1>i, <1>t, <1>j, <1>l, <1>m, Kinds DEF Publish, Deciding, Ready, Throw,
          Unsettled, In, Of, Goto, durable, threads, rendezvous, PausedThreads, Live,
          Busy
<1>16. ASSUME NEW p \in Owners, NEW F \in SUBSET Tasks, Stage(p, F) PROVE PausedThreads'
  BY <1>16, <1>i, <1>t, <1>j, <1>l, <1>m, Kinds DEF Stage, Deciding, Ready, In, Of,
          Goto, durable, threads, rendezvous, PausedThreads, Live, Busy, Unsettled
<1>17. ASSUME NEW p \in Owners, Idle(p) PROVE PausedThreads'
  BY <1>17, <1>i, <1>t, <1>j, <1>l, <1>m, Kinds DEF Idle, Deciding, Goto, durable,
          threads, rendezvous, PausedThreads, Live, Busy, Unsettled, Of
<1>18. ASSUME NEW p \in Owners, Admit(p) PROVE PausedThreads'
  BY <1>18, <1>i, <1>t, <1>j, <1>l, <1>m, Kinds DEF Admit, Halted, Throw, Unsettled, Of,
          Goto, durable, threads, rendezvous, PausedThreads, Live, Busy
<1>19. ASSUME NEW p \in Owners, AwaitPeople(p) PROVE PausedThreads'
  BY <1>19, <1>i, <1>t, <1>j, <1>l, <1>m, Kinds DEF AwaitPeople, Deciding, Unsettled,
          Of, Goto, durable, threads, rendezvous, PausedThreads, Live, Busy
<1>20. ASSUME NEW p \in Owners, Drain(p) PROVE PausedThreads'
  BY <1>20, <1>i, <1>t, <1>j, <1>l, <1>m, Kinds DEF Drain, Halted, Throw, Unsettled, Of,
          Goto, durable, threads, rendezvous, PausedThreads, Live, Busy
<1>21. ASSUME NEW p \in Owners, Register(p) PROVE PausedThreads'
  BY <1>21, <1>i, <1>t, <1>j, <1>l, <1>m, Kinds DEF Register, Throw, Rethrow,
          ReturnPaused, Unsettled, Of, Goto, durable, threads, rendezvous,
          PausedThreads, Live, Busy
<1>22. ASSUME NEW p \in Owners, Concluded(p) PROVE PausedThreads'
  BY <1>22, <1>i, <1>t, <1>j, <1>l, <1>m, Kinds DEF Concluded, Rethrow, Throw,
          ReturnPaused, Unsettled, Of, Goto, durable, threads, rendezvous,
          PausedThreads, Live, Busy, OneThreadPerOwner
<1>23. ASSUME NEW p \in Owners, PollThrows(p) PROVE PausedThreads'
  BY <1>23, <1>i, <1>t, <1>j, <1>l, <1>m, Kinds DEF PollThrows, Waits, Throw, Unsettled,
          Of, Goto, durable, threads, rendezvous, PausedThreads, Live, Busy
<1>24. ASSUME NEW p \in Owners, Poll(p) PROVE PausedThreads'
  BY <1>24, <1>i, <1>t, <1>j, <1>l, <1>m, Kinds DEF Poll, Waits, Goto, durable, threads,
          rendezvous, PausedThreads, Live, Busy, Unsettled, Of
<1>25. ASSUME NEW p \in Owners, Commit(p) PROVE PausedThreads'
  BY <1>25, <1>i, <1>t, <1>j, <1>l, <1>m, Kinds DEF Commit, Goto, durable, threads,
          rendezvous, PausedThreads, Live, Busy, Unsettled, Of
<1>26. ASSUME NEW p \in Owners, Suspend(p) PROVE PausedThreads'
  BY <1>26, <1>i, <1>t, <1>j, <1>l, <1>m, Kinds DEF Suspend, PauseFailed, ReturnPaused,
          Throw, Unsettled, Of, Goto, durable, threads, rendezvous, PausedThreads, Live,
          Busy
<1>27. ASSUME NEW p \in Owners, Reacquire(p) PROVE PausedThreads'
  BY <1>27, <1>i, <1>t, <1>j, <1>l, <1>m, Kinds DEF Reacquire, Return, Halted, SlotFree,
          Goto, durable, threads, rendezvous, PausedThreads, Live, Busy, Unsettled, Of,
          OneThreadPerOwner
<1>28. ASSUME NEW p \in Owners, CommitTurn(p) PROVE PausedThreads'
  BY <1>28, <1>i, <1>t, <1>j, <1>l, <1>m, Kinds DEF CommitTurn, Goto, durable, threads,
          rendezvous, PausedThreads, Live, Busy, Unsettled, Of
<1>29. ASSUME NEW p \in Owners, FinishOwner(p) PROVE PausedThreads'
  BY <1>29, <1>i, <1>t, <1>j, <1>l, <1>m, Kinds DEF FinishOwner, RootEnds, Return,
          Halted, In, Of, Goto, durable, threads, rendezvous, PausedThreads, Live, Busy,
          Unsettled
<1>30. ASSUME NEW p \in Owners, NEW c \in Tasks, Drained(p, c) PROVE PausedThreads'
  BY <1>30, <1>i, <1>t, <1>j, <1>l, <1>m, Kinds DEF Drained, Settle, Unsettled, Of,
          Goto, durable, threads, rendezvous, PausedThreads, Live, Busy
<1>31. ASSUME NEW p \in Owners, EndUnwind(p) PROVE PausedThreads'
  BY <1>31, <1>i, <1>t, <1>j, <1>l, <1>m, Kinds DEF EndUnwind, AllDrained, Unsettled,
          Of, RootEnds, Return, Halted, SlotFree, In, Goto, durable, threads,
          rendezvous, PausedThreads, Live, Busy, OneThreadPerOwner, PausedRows
<1>32. ASSUME NEW p \in Owners, Fail(p) PROVE PausedThreads'
  BY <1>32, <1>i, <1>t, <1>j, <1>l, <1>m, Kinds DEF Fail, Return, Goto, durable,
          threads, rendezvous, PausedThreads, Live, Busy, Unsettled, Of,
          OneThreadPerOwner
<1>33. ASSUME NEW p \in Owners, EndFault(p) PROVE PausedThreads'
  BY <1>33, <1>i, <1>t, <1>j, <1>l, <1>m, Kinds DEF EndFault, AllDrained, Unsettled, Of,
          Goto, durable, threads, rendezvous, PausedThreads, Live, Busy,
          OneThreadPerOwner
<1>34. ASSUME NEW h \in Humans, Answer(h) PROVE PausedThreads'
  BY <1>34, <1>i, <1>t, <1>j, <1>l, <1>m, Kinds DEF Answer, Goto, durable, threads,
          rendezvous, PausedThreads, Live, Busy, Unsettled, Of
<1>35. ASSUME ResumeRoot PROVE PausedThreads'
  BY <1>35, <1>i, <1>t, <1>j, <1>l, <1>m, Kinds DEF ResumeRoot, MayResume, Goto,
          durable, threads, rendezvous, PausedThreads, Live, Busy, Unsettled, Of
<1>36. ASSUME ExpireWaiting PROVE PausedThreads'
  BY <1>36, <1>i, <1>t, <1>j, <1>l, <1>m, Kinds DEF ExpireWaiting, RetirePaused, Goto,
          durable, threads, rendezvous, PausedThreads, Live, Busy, Unsettled, Of
<1>37. ASSUME CancelPaused PROVE PausedThreads'
  BY <1>37, <1>i, <1>t, <1>j, <1>l, <1>m, Kinds DEF CancelPaused, RetirePaused, Goto,
          durable, threads, rendezvous, PausedThreads, Live, Busy, Unsettled, Of
<1>38. ASSUME Cancel PROVE PausedThreads'
  BY <1>38, <1>i, <1>t, <1>j, <1>l, <1>m, Kinds DEF Cancel, Goto, durable, threads,
          rendezvous, PausedThreads, Live, Busy, Unsettled, Of
<1>39. ASSUME Deadline PROVE PausedThreads'
  BY <1>39, <1>i, <1>t, <1>j, <1>l, <1>m, Kinds DEF Deadline, Goto, durable, threads,
          rendezvous, PausedThreads, Live, Busy, Unsettled, Of
<1>40. ASSUME NEW h \in Humans, Expiry(h) PROVE PausedThreads'
  BY <1>40, <1>i, <1>t, <1>j, <1>l, <1>m, Kinds DEF Expiry, Goto, durable, threads,
          rendezvous, PausedThreads, Live, Busy, Unsettled, Of
<1>41. ASSUME NEW c \in Tasks, ReleaseSlot(c) PROVE PausedThreads'
  BY <1>41, <1>i, <1>t, <1>j, <1>l, <1>m, Kinds DEF ReleaseSlot, Goto, durable, threads,
          rendezvous, PausedThreads, Live, Busy, Unsettled, Of
<1>42. ASSUME ResumeRefused PROVE PausedThreads'
  BY <1>42, <1>i, <1>t, <1>j, <1>l, <1>m, Kinds DEF ResumeRefused, Goto, durable,
          threads, rendezvous, PausedThreads, Live, Busy, Unsettled, Of
<1>43. CASE UNCHANGED vars
  BY <1>43, <1>i, <1>t, <1>j, <1>l, <1>m, Kinds DEF vars, Goto, durable, threads,
          rendezvous, PausedThreads, Live, Busy, Unsettled, Of
<1> QED BY <1>1, <1>2, <1>3, <1>4, <1>5, <1>6, <1>7, <1>8, <1>9, <1>10, <1>11, <1>12, <1>13,
          <1>14, <1>15, <1>16, <1>17, <1>18, <1>19, <1>20, <1>21, <1>22, <1>23, <1>24,
          <1>25, <1>26, <1>27, <1>28, <1>29, <1>30, <1>31, <1>32, <1>33, <1>34, <1>35,
          <1>36, <1>37, <1>38, <1>39, <1>40, <1>41, <1>42, <1>43
          DEF Next, ThreadStep, ChildStep, WorkerStep

LEMMA PauseIsClosedStep == ASSUME PlanInv, [Next]_vars PROVE PauseIsClosed'
<1>1. CASE run'[Root] # "paused"
  BY <1>1 DEF PauseIsClosed
<1>2. CASE run'[Root] = "paused" /\ run[Root] # "paused"
  BY <1>2, OnlySuspendPauses, SuspendClosesThePause DEF PauseIsClosed, PlanInv
<1>3. CASE run'[Root] = "paused" /\ run[Root] = "paused"
  BY <1>3, PausedRowsStay, PausedThreadsStay DEF PauseIsClosed
<1> QED BY <1>1, <1>2, <1>3

--------------------------------------------------------------------------------
(* DynamicPlans: theorems *)

LEMMA PlanInvStep == PlanInv /\ [Next]_vars => PlanInv'
BY PlanTypesStep, JobsAreClaimedStep, PendingIsFreshStep, OneThreadStep, JobsMatchRunsStep,
   SlotsAreHeldStep, RootAgreesStep, OnlyPausesJoinStep, OnePausesStep, WaitersWaitStep,
   ReadersWaitStep, ClaimsAreKeptStep, PauseIsClosedStep DEF PlanInv

\* A root whose planning has not begun, or that ended without any.
LEMMA NothingPlanned ==
    ASSUME RowTypes, BudgetTypes, pc \in [Owners -> {"off", "model"}],
           batch \in [Owners -> SUBSET Tasks], stop \subseteq Tasks,
           \A p \in Planners : pc[p] = "off",
           job = [c \in Tasks |-> "none"], slots = {}, waits = {}, committing = Nobody,
           failure = "none", ~paused,
           \A c \in Tasks : node[c] # "claimed" /\ run[c] = "none",
           \/ run[Root] = "running" /\ pc[Root] = "model" /\ service = "working"
           \/ run[Root] \in Finished /\ pc[Root] = "off" /\ service = "done"
    PROVE  PlanInv
<1>1. PlanTypes
  <2>1. IsFiniteSet(slots) /\ Cardinality(slots) = 0
    BY FS_EmptySet
  <2>2. SlotTypes
    BY <2>1, Kinds DEF SlotTypes
  <2>3. ThreadTypes
    BY DEF ThreadTypes, Positions, FutureStates
  <2> QED BY <2>2, <2>3 DEF PlanTypes
<1>2. JobsAreClaimed /\ SlotsAreHeld /\ WaitersWait /\ ClaimsAreKept /\ JobsMatchRuns
  BY DEF JobsAreClaimed, SlotsAreHeld, WaitersWait, ClaimsAreKept, JobsMatchRuns
<1>3. PendingIsFresh /\ ReadersWait /\ OneThreadPerOwner
  BY Kinds DEF PendingIsFresh, ReadersWait, OneThreadPerOwner
<1>4. run[Root] # "paused"
  BY DEF Finished
<1>5. RootAgrees /\ PauseIsClosed
  BY <1>4, Kinds DEF RootAgrees, PauseIsClosed, Finished, Live
<1>6. OnlyPausesJoin /\ OnePauses
  BY <1>4, Kinds DEF OnlyPausesJoin, OnePauses
<1> QED BY <1>1, <1>2, <1>3, <1>5, <1>6 DEF PlanInv

LEMMA PlanInvInit == Init => PlanInv
<1> SUFFICES ASSUME Init PROVE PlanInv
  OBVIOUS
<1>1. /\ run \in [Tasks \union {Root} -> RunStates]
      /\ \A c \in Tasks : node[c] = "pending" /\ run[c] = "none"
  BY Kinds DEF Init, RunStates, Live
<1>2. rev \in Nat /\ seen \in [Owners -> 0..rev]
  BY DEF Init
<1>3. RowTypes
  BY <1>1, <1>2, Kinds DEF Init, RowTypes, PlanNodeStates
<1>4. BudgetTypes
  BY DEF Init, BudgetTypes
<1>5. /\ pc \in [Owners -> {"off", "model"}] /\ batch \in [Owners -> SUBSET Tasks]
      /\ \A p \in Planners : pc[p] = "off"
      /\ run[Root] = "running" /\ pc[Root] = "model" /\ service = "working"
  BY Kinds DEF Init
<1> QED BY <1>1, <1>3, <1>4, <1>5, NothingPlanned DEF Init

\* What threads, futures, rows and registrations know of each other always holds.
THEOREM PlanInvariant == Spec => []PlanInv
BY PlanInvInit, PlanInvStep, PTL DEF Spec

\* Rows, futures, slots and registrations keep their types, and the slots that are
\* held never exceed what the budget allows.
THEOREM PlanTypeCorrect == Spec => []TypeOK
<1>1. PlanInv => TypeOK
  BY PlanTypesAreTypeOK DEF PlanInv
<1> QED BY <1>1, PlanInvariant, PTL

\* However deep plans nest and whoever registers, a pause is closed over drained work.
THEOREM PausesAreDrained == Spec => []PauseIsDrained
<1>1. PlanInv => PauseIsDrained
  <2> SUFFICES ASSUME PlanInv, run[Root] = "paused"
               PROVE  /\ binding # {}
                      /\ {c \in Tasks : run[c] \in Live} = Chain(binding)
                      /\ \A c \in Chain(binding) : run[c] = "paused" /\ node[c] = "claimed"
                      /\ \A c \in slots : run[c] \in Finished /\ job[c] = "returning"
    BY DEF PauseIsDrained
  <2>1. PausedRows /\ PausedThreads /\ binding # {}
    BY DEF PlanInv, PauseIsClosed, OnePauses
  <2>2. Chain(binding) \subseteq Planners
    BY ChainHolds DEF PlanInv, PlanTypes, RowTypes
  <2>3. ASSUME NEW c \in slots PROVE run[c] \in Finished /\ job[c] = "returning"
    <3>1. c \in Tasks /\ job[c] = "returning"
      BY HoldersRun DEF PlanInv, PlanTypes, SlotTypes, SlotsAreHeld
    <3> QED BY <3>1 DEF PlanInv, JobsMatchRuns
  <2> QED BY <2>1, <2>2, <2>3, Kinds DEF PausedRows
<1> QED BY <1>1, PlanInvariant, PTL

\* No planner inspects its plan while a claimed child is unknown to it.
THEOREM ClaimsStayTracked == Spec => []ClaimsAreTracked
<1>1. PlanInv => ClaimsAreTracked
  <2> SUFFICES ASSUME PlanInv, NEW p \in Owners, pc[p] = "decide", NEW c \in Claimed(p)
               PROVE  c \in Unsettled(p) \union resumable
    BY DEF ClaimsAreTracked
  <2>1. c \in Nodes /\ tree.owner[c] = p /\ node[c] = "claimed"
    BY DEF Claimed, In, Of
  <2>2. c \in Tasks
    BY <2>1 DEF PlanInv, PlanTypes, RowTypes, Nodes
  <2> QED BY <2>1, <2>2 DEF PlanInv, ClaimsAreKept, Unsettled, Of
<1> QED BY <1>1, PlanInvariant, PTL

\* A root ends only when no child of any depth is left, running or queued.
THEOREM ChildrenEndBeforeRoots == Spec => []ChildrenEndFirst
<1>1. PlanInv => ChildrenEndFirst
  <2> SUFFICES ASSUME PlanInv, run[Root] \in Finished
               PROVE  /\ slots = {} /\ \A p \in Owners : pc[p] = "off"
                      /\ \A c \in Tasks : run[c] \in Finished \union {"none"} /\ job[c] = "none"
    BY DEF ChildrenEndFirst
  <2>1. pc[Root] = "off" /\ \A c \in Tasks : run[c] \notin Live
    BY DEF PlanInv, RootAgrees
  <2>2. /\ \A p \in Owners : pc[p] = "off"
        /\ \A c \in Tasks : job[c] = "none"
    BY <2>1, AllOff DEF PlanInv
  <2>3. slots = {}
    BY <2>2 DEF PlanInv, SlotsAreHeld, PlanTypes, SlotTypes
  <2> QED BY <2>1, <2>2, <2>3, Kinds DEF PlanInv, PlanTypes, RowTypes, RunStates
<1> QED BY <1>1, PlanInvariant, PTL

\* No owner of a plan is executed by two threads, and none runs unawaited.
THEOREM OwnersRunOnce == Spec => []OneThreadPerOwner
<1>1. PlanInv => OneThreadPerOwner
  BY DEF PlanInv
<1> QED BY <1>1, PlanInvariant, PTL

--------------------------------------------------------------------------------
(* The two side by side: a root is one or the other *)

LEMMA PlansInvInit == PlansInit => PlanInv /\ GraphInv
<1>1. ASSUME GraphIsOver PROVE GraphInv
  <2>1. wakes \in Seq(Graphs) /\ line \in Seq(Graphs) /\ wakes = <<>>
    BY <1>1, EmptySeq DEF GraphIsOver
  <2>2. RecordTypes /\ PlaceTypes
    BY <1>1 DEF GraphIsOver, RecordTypes, PlaceTypes, GraphStates, NodeStates
  <2>3. GraphRestarts \in 0..GraphRestarts
    BY GraphAssumption
  <2>4. FlagTypes
    BY <1>1, <2>3 DEF GraphIsOver, FlagTypes
  <2>5. GraphTypes
    BY <2>1, <2>2, <2>4 DEF GraphTypes, QueueTypes
  <2> QED BY <1>1, <2>1, <2>5, NoGraphInHand DEF GraphIsOver
<1>2. ASSUME PlanIsOver PROVE PlanInv
  <2>1. tree \in Trees
    BY <1>2, TreesAssumption DEF PlanIsOver
  <2>2. /\ run \in [Tasks \union {Root} -> RunStates] /\ run[Root] = "cancelled"
        /\ \A c \in Tasks : node[c] # "claimed" /\ run[c] = "none"
    BY <1>2, Kinds DEF PlanIsOver, RunStates, Finished
  <2>3. rev \in Nat /\ seen \in [Owners -> 0..rev]
    BY <1>2 DEF PlanIsOver
  <2>4. RowTypes
    BY <1>2, <2>1, <2>2, <2>3, Kinds DEF PlanIsOver, RowTypes, PlanNodeStates
  <2>5. BudgetTypes
    BY <1>2 DEF PlanIsOver, BudgetTypes
  <2>6. /\ pc \in [Owners -> {"off", "model"}] /\ batch \in [Owners -> SUBSET Tasks]
        /\ \A p \in Planners : pc[p] = "off"
        /\ run[Root] \in Finished /\ pc[Root] = "off" /\ service = "done"
    BY <1>2, <2>2, Kinds DEF PlanIsOver, Finished
  <2> QED BY <1>2, <2>2, <2>4, <2>5, <2>6, NothingPlanned DEF PlanIsOver
<1> QED BY <1>1, <1>2, PlanInvInit, GraphInvInit DEF PlansInit

LEMMA PlansStep ==
    [PlansNext]_<<vars, graphVars>> => [Next]_vars /\ [GraphNext]_graphVars
BY DEF PlansNext

\* Each half keeps its invariant while the other half rests.
THEOREM PlansInvariant == PlansSpec => [](PlanInv /\ GraphInv)
BY PlansInvInit, PlansStep, PlanInvStep, GraphInvStep, PTL DEF PlansSpec

\* Both kinds of planned work keep their types.
THEOREM PlansTyped == PlansSpec => []PlansTypeOK
<1>1. PlanInv /\ GraphInv => PlansTypeOK
  BY PlanTypesAreTypeOK, GraphTypesAreTypeOK DEF PlanInv, GraphInv, PlansTypeOK
<1> QED BY <1>1, PlansInvariant, PTL

\* An owner that is taken up again, and, where no nested invocation asks, a graph that
\* is woken again, never runs twice.
THEOREM OneOwnerForEach ==
    ASSUME NestedNodes = {} PROVE PlansSpec => []OneOwnerEach
<1>1. PlanInv /\ GraphInv => OneOwnerEach
  BY WokenOnce DEF PlanInv, OneOwnerEach
<1> QED BY <1>1, PlansInvariant, PTL

================================================================================
