------------------------------ MODULE GraphService ------------------------------
(***************************************************************************)
(* The owner of registered graphs (Native/src/graph_service.cpp) with the  *)
(* runner that walks one (graph_runner.cpp), the coordinator that decides  *)
(* what may run (graph.cpp) and the transactions they use (repository.cpp).*)
(*                                                                         *)
(* A graph is a fixed set of nodes with dependencies: leaves, which are    *)
(* agents or tools run by child runs, and human nodes, which wait for an   *)
(* answer.  A graph with nothing left to do but to wait pauses and gives   *)
(* its worker back; an answer that makes a node ready wakes it.  A graph   *)
(* with a captured context pauses by an explicit transaction of its runner *)
(* and is answered only while paused; another one pauses within the        *)
(* transaction that leaves only human nodes, and may be answered any time. *)
(*                                                                         *)
(* The nodes of nested invocations stand beside the root's own: a tree of  *)
(* graphs pauses, wakes and retires as one (pause_graph_tree).  A step is  *)
(* one critical section of Impl::mutex or one transaction of a runner.     *)
(***************************************************************************)
EXTENDS WorkQueues, FiniteSets

CONSTANTS
    Graphs,         \* root graph runs
    ContextGraphs,  \* those with a captured context
    GraphNodes,     \* of every graph
    HumanNodes,
    NestedNodes,    \* human nodes of a nested invocation
    Needs,          \* Needs[n]: the nodes that n depends on
    Optional,       \* nodes with a condition on an output
    GraphCapacity,  \* the service's limit
    GraphWorkers,   \* threads of the shared executor
    LeafLimit,      \* leaves of one graph at once
    GraphRestarts   \* bound on the number of processes that follow the first

ASSUME GraphAssumption ==
    /\ ContextGraphs \subseteq Graphs
    /\ HumanNodes \subseteq GraphNodes /\ NestedNodes \subseteq HumanNodes
    /\ Optional \subseteq GraphNodes
    /\ Needs \in [GraphNodes -> SUBSET GraphNodes]
    /\ \A N \in SUBSET GraphNodes : N # {} => \E n \in N : Needs[n] \cap N = {}   \* no cycles
    /\ GraphCapacity \in Nat \ {0} /\ GraphWorkers \in Nat \ {0} /\ LeafLimit \in Nat \ {0}
    /\ GraphRestarts \in Nat

VARIABLES
    graph,      \* graph[g]: state of the runs row
    nodeState,  \* nodeState[g][n]: its state in the checkpoint; while it runs, also
                \* what its child run did
    unmet,      \* unmet[g]: optional nodes whose condition the outputs do not meet
    owner,      \* owner[g]: Job::phase, "none" when g is not in Impl::active
    wakes,      \* Impl::pending
    line,       \* the shared executor's queue
    ticketOf,   \* ticketOf[g]: the executor's job for g
    walker,     \* walker[g]: where the worker that executes g is
    userStop,   \* jobs with `cancelled`
    halted,     \* graphs whose job's stop was requested
    failing,    \* graphs whose runner stopped itself: a leaf failed, time is up
    admitting,  \* accepting
    broken,     \* faulted
    declined,   \* history: ready pauses that only resume_graph wakes, because
                \* their context was not available or they were adopted
    ending,     \* how far close() got; "refused": the constructor threw
    lives       \* processes started so far

graphVars == <<graph, nodeState, unmet, owner, wakes, line, ticketOf, walker, userStop, halted,
               failing, admitting, broken, declined, ending, lives>>
record == <<graph, nodeState, unmet>>
jobs == <<owner, wakes, line, ticketOf>>
process == <<admitting, broken, ending, lives>>

GraphStates == {"absent", "queued", "running", "paused", "completed", "failed", "cancelled"}
GraphEnded == {"completed", "failed", "cancelled"}
NodeStates == {"pending", "waiting", "running", "succeeded", "broke",
               "completed", "failed", "skipped", "cancelled"}

GraphTypeOK ==
    /\ graph \in [Graphs -> GraphStates]
    /\ nodeState \in [Graphs -> [GraphNodes -> NodeStates]]
    /\ unmet \in [Graphs -> SUBSET Optional]
    /\ owner \in [Graphs -> {"none", "queued", "working", "waiting", "faulted"}]
    /\ wakes \in Seq(Graphs) /\ line \in Seq(Graphs)
    /\ ticketOf \in [Graphs -> {"none", "staged", "ready", "taken"}]
    /\ walker \in [Graphs -> {"none", "claimed", "walking", "returned", "unavailable", "failing"}]
    /\ userStop \subseteq halted /\ halted \subseteq Graphs /\ failing \subseteq Graphs
    /\ declined \subseteq Graphs
    /\ admitting \in BOOLEAN /\ broken \in BOOLEAN
    /\ ending \in {"open", "joining", "closed", "refused"}
    /\ lives \in 0..GraphRestarts

GraphInit ==
    /\ graph = [g \in Graphs |-> "absent"]
    /\ nodeState = [g \in Graphs |-> [n \in GraphNodes |-> "pending"]]
    /\ unmet \in [Graphs -> SUBSET Optional]
    /\ owner = [g \in Graphs |-> "none"] /\ wakes = <<>> /\ line = <<>>
    /\ ticketOf = [g \in Graphs |-> "none"] /\ walker = [g \in Graphs |-> "none"]
    /\ userStop = {} /\ halted = {} /\ failing = {} /\ declined = {}
    /\ admitting = TRUE /\ broken = FALSE /\ ending = "open" /\ lives = 0

--------------------------------------------------------------------------------
(* GraphCoordinator *)

NodesIn(g, states) == {n \in GraphNodes : nodeState[g][n] \in states}

Eligible(g, n) == nodeState[g][n] = "pending" /\ Needs[n] \subseteq NodesIn(g, {"completed", "skipped"})

Unwanted(g, n) == n \in unmet[g] \/ Needs[n] \cap NodesIn(g, {"skipped"}) # {}

\* GraphDecision
GraphHalted(g) == NodesIn(g, {"failed", "cancelled"}) # {}
ReadyNodes(g) == {n \in GraphNodes : Eligible(g, n) /\ ~Unwanted(g, n) /\ ~GraphHalted(g)}
Skippable(g) == {n \in GraphNodes : Eligible(g, n) /\ Unwanted(g, n) /\ ~GraphHalted(g)}
GraphFinished(g) == NodesIn(g, {"completed", "skipped"}) = GraphNodes
WaitingNodes(g) == NodesIn(g, {"waiting"})
OpenNodes(g) == NodesIn(g, {"running", "succeeded", "broke"})

\* A paused tree that can go on: local_ready of validate_paused_tree.
CanGoOn(g) == GraphFinished(g) \/ ReadyNodes(g) # {} \/ Skippable(g) # {}

\* graph_waiting_only
WaitingOnly(g) == ~GraphHalted(g) /\ WaitingNodes(g) # {} /\ ~CanGoOn(g) /\ OpenNodes(g) = {}

\* graph_human_pause, the end of each transaction that moves a node.
HumanPause(g) ==
    IF g \notin ContextGraphs /\ graph[g] = "running" /\ WaitingOnly(g)'
    THEN [graph EXCEPT ![g] = "paused"] ELSE graph

\* cancel_pending
CancelPending(g) ==
    [nodeState EXCEPT ![g] =
        [n \in GraphNodes |-> IF @[n] \in {"pending", "waiting"} THEN "cancelled" ELSE @[n]]]

\* retire_graph_run and retire_graph_context_owner
RetireGraph(g, state) ==
    /\ graph' = [graph EXCEPT ![g] = state]
    /\ nodeState' = CancelPending(g)
    /\ UNCHANGED unmet

--------------------------------------------------------------------------------
(* The service's table and its place in the shared executor *)

Owned == {g \in Graphs : owner[g] # "none"}

\* A ticket that is destroyed takes back a task no worker has taken.
Withdrawn(G) ==
    /\ ticketOf' = [g \in Graphs |->
            IF g \in G /\ ticketOf[g] \in {"staged", "ready"} THEN "none" ELSE ticketOf[g]]
    /\ line' = Without(line, G)

SetOwner(g, phase) == owner' = [owner EXCEPT ![g] = phase]

\* Mutant of Wake: the entry stays unpublished.
WakeStaged(g) ==
    /\ SetOwner(g, "queued")
    /\ wakes' = Append(wakes, g) /\ line' = Append(line, g)
    /\ ticketOf' = [ticketOf EXCEPT ![g] = "staged"]

\* enqueue, Phase::queued and publish_locked
Wake(g) ==
    /\ SetOwner(g, "queued")
    /\ wakes' = Append(wakes, g) /\ line' = Append(line, g)
    /\ ticketOf' = [ticketOf EXCEPT ![g] = "ready"]

\* fail_locked
Break ==
    /\ broken' = TRUE /\ admitting' = FALSE
    /\ halted' = halted \cup Owned
    /\ Withdrawn(Graphs)
    /\ UNCHANGED <<ending, lives>>

Usable == ending \in {"open", "joining"} /\ admitting /\ ~broken

--------------------------------------------------------------------------------
(* Controllers *)

\* submit_graph, restore_operation
SubmitGraph(g) ==
    /\ Usable /\ graph[g] = "absent"
    /\ Cardinality(Owned) < GraphCapacity
    /\ graph' = [graph EXCEPT ![g] = "queued"]
    /\ Wake(g)
    /\ UNCHANGED <<nodeState, unmet, walker, userStop, halted, failing, declined, process>>

\* The transaction of input_graph_human and input_graph_tree_human.
Provide(g, n) ==
    /\ nodeState[g][n] = "waiting"
    /\ graph[g] \in (IF g \in ContextGraphs THEN {"paused"} ELSE {"paused", "running"})
    /\ nodeState' = [nodeState EXCEPT ![g][n] = "completed"] /\ UNCHANGED unmet
    /\ graph' = IF g \notin ContextGraphs /\ graph[g] = "paused" /\ ~WaitingOnly(g)'
                THEN [graph EXCEPT ![g] = "running"] ELSE graph

MayAnswer(g) == Usable /\ owner[g] # "none" /\ g \notin userStop

\* The graph goes on after the answer.
Answerable(g) == graph'[g] = "running" \/ (g \in ContextGraphs /\ CanGoOn(g)')

\* human_input and tree_human_input: an entry is reserved for a waiting graph,
\* and published or dropped once the answer is committed.
HumanInput(g, n) ==
    /\ MayAnswer(g) /\ Provide(g, n)
    /\ IF owner[g] = "waiting" /\ Answerable(g) THEN Wake(g) ELSE UNCHANGED jobs
    /\ UNCHANGED <<walker, userStop, halted, failing, declined, process>>

\* The answer to a waiting graph with a context is committed, and the tree it
\* changed cannot be read.  human_input faults the job and the service;
\* tree_human_input does the same read outside any handler and leaves the entry
\* as it was reserved.
HumanInputUnread(g, n) ==
    /\ MayAnswer(g) /\ Provide(g, n)
    /\ g \in ContextGraphs /\ owner[g] = "waiting"
    /\ wakes' = Append(wakes, g)
    /\ IF n \in NestedNodes
         THEN /\ line' = Append(Without(line, {g}), g)
              /\ ticketOf' = [ticketOf EXCEPT ![g] = "staged"]
              /\ UNCHANGED <<owner, halted, process>>
         ELSE SetOwner(g, "faulted") /\ Break
    /\ UNCHANGED <<walker, userStop, failing, declined>>

\* resume_graph
ResumeGraph(g) ==
    /\ MayAnswer(g) /\ g \in ContextGraphs /\ graph[g] = "paused" /\ CanGoOn(g)
    /\ owner[g] = "waiting"
    /\ Wake(g)
    /\ UNCHANGED <<record, walker, userStop, halted, failing, declined, process>>

\* A graph that a worker walks is only marked.
CancelWalking(g) ==
    /\ Usable /\ owner[g] = "working" /\ g \notin userStop
    /\ userStop' = userStop \cup {g} /\ halted' = halted \cup {g}
    /\ UNCHANGED <<record, jobs, walker, failing, declined, process>>

CancelParked(g) ==
    /\ Usable /\ owner[g] \in {"queued", "waiting"}
    /\ RetireGraph(g, "cancelled")
    /\ SetOwner(g, "none")
    /\ wakes' = Without(wakes, {g})
    /\ Withdrawn({g})
    /\ UNCHANGED <<walker, userStop, halted, failing, declined, process>>

--------------------------------------------------------------------------------
(* A worker: taking the task and walking the graph *)

Walkers == {g \in Graphs : ticketOf[g] = "taken" \/ walker[g] # "none"}

\* RootWorkExecutor::work: a staged entry at the head holds back the others.
TakeTask ==
    /\ line # <<>> /\ ticketOf[Head(line)] = "ready"
    /\ Cardinality(Walkers) < GraphWorkers
    /\ ticketOf' = [ticketOf EXCEPT ![Head(line)] = "taken"]
    /\ line' = Tail(line)
    /\ UNCHANGED <<record, owner, wakes, walker, userStop, halted, failing, declined, process>>

\* stage_work's action
ClaimGraph(g) ==
    /\ ticketOf[g] = "taken"
    /\ ticketOf' = [ticketOf EXCEPT ![g] = "none"]
    /\ IF admitting /\ owner[g] = "queued"
         THEN /\ wakes' = Without(wakes, {g})
              /\ SetOwner(g, "working")
              /\ walker' = [walker EXCEPT ![g] = "claimed"]
         ELSE UNCHANGED <<wakes, owner, walker>>
    /\ UNCHANGED <<record, line, userStop, halted, failing, declined, process>>

WalkTo(g, place) == walker' = [walker EXCEPT ![g] = place]

\* execute_owned up to its loop: the run is claimed, or its clock opened.
Open(g) ==
    /\ walker[g] = "claimed" /\ (g \in ContextGraphs => g \notin halted)
    /\ graph' = [graph EXCEPT ![g] = "running"]
    /\ WalkTo(g, "walking") /\ declined' = declined \ {g}
    /\ UNCHANGED <<nodeState, unmet, jobs, userStop, halted, failing, process>>

\* Mutant of OpenStopped: a stopped wake retires the pause.
OpenStoppedRetires(g) ==
    /\ walker[g] = "claimed" /\ g \in ContextGraphs \cap halted
    /\ RetireGraph(g, "cancelled")
    /\ WalkTo(g, "returned")
    /\ UNCHANGED <<jobs, userStop, halted, failing, declined, process>>

\* A stopped graph with a context is not opened: its pause is kept.
OpenStopped(g) ==
    /\ walker[g] = "claimed" /\ g \in ContextGraphs \cap halted
    /\ IF graph[g] = "paused" THEN UNCHANGED record ELSE RetireGraph(g, "cancelled")
    /\ WalkTo(g, "returned")
    /\ UNCHANGED <<jobs, userStop, halted, failing, declined, process>>

\* The captured context no longer matches the service.
OpenUnavailable(g) ==
    /\ walker[g] = "claimed" /\ g \in ContextGraphs
    /\ IF graph[g] = "paused"
         THEN UNCHANGED record /\ WalkTo(g, "unavailable")
         ELSE RetireGraph(g, "failed") /\ WalkTo(g, "returned")
    /\ UNCHANGED <<jobs, userStop, halted, failing, declined, process>>

\* A child run ends; a failure may also be the stop it was sent.
LeafEnds(g, n) ==
    /\ nodeState[g][n] = "running"
    /\ \E end \in {"succeeded", "broke"} : nodeState' = [nodeState EXCEPT ![g][n] = end]
    /\ UNCHANGED <<graph, unmet, jobs, walker, userStop, halted, failing, declined, process>>

\* settle_graph_child, also by the handler that drains a runner that threw.
SettleLeaf(g, n) ==
    /\ walker[g] \in {"walking", "failing"} /\ nodeState[g][n] \in {"succeeded", "broke"}
    /\ nodeState' = [nodeState EXCEPT ![g][n] = IF @ = "succeeded" THEN "completed" ELSE "failed"]
    /\ UNCHANGED unmet
    /\ failing' = IF nodeState[g][n] = "broke" THEN failing \cup {g} ELSE failing
    /\ graph' = HumanPause(g)
    /\ UNCHANGED <<jobs, walker, userStop, halted, declined, process>>

\* The time limit, or an argument that cannot be resolved.
StopItself(g) ==
    /\ walker[g] = "walking" /\ g \notin failing
    /\ failing' = failing \cup {g}
    /\ UNCHANGED <<record, jobs, walker, userStop, halted, declined, process>>

Stopped(g) == g \in halted \cup failing

\* A stopped runner waits for its leaves and retires the graph, unless a pause
\* was committed before the stop came.
Conclude(g) ==
    /\ walker[g] = "walking" /\ Stopped(g) /\ OpenNodes(g) = {}
    /\ IF g \in halted /\ graph[g] = "paused" THEN UNCHANGED record
       ELSE RetireGraph(g, IF g \in halted THEN "cancelled" ELSE "failed")
    /\ WalkTo(g, "returned") /\ failing' = failing \ {g}
    /\ UNCHANGED <<jobs, userStop, halted, declined, process>>

Going(g) == walker[g] = "walking" /\ ~Stopped(g)

CompleteGraph(g) ==
    /\ Going(g) /\ GraphFinished(g)
    /\ graph' = [graph EXCEPT ![g] = "completed"] /\ WalkTo(g, "returned")
    /\ UNCHANGED <<nodeState, unmet, jobs, userStop, halted, failing, declined, process>>

\* The loop read a paused root.
ReturnPausedGraph(g) ==
    /\ Going(g) /\ graph[g] = "paused" /\ ~GraphFinished(g)
    /\ WalkTo(g, "returned")
    /\ UNCHANGED <<record, jobs, userStop, halted, failing, declined, process>>

\* Mutant of SuspendGraph: one waiting node is enough.
SuspendBusy(g) ==
    /\ Going(g) /\ g \in ContextGraphs /\ WaitingNodes(g) # {} /\ NodesIn(g, {"running"}) = {}
    /\ graph' = [graph EXCEPT ![g] = "paused"] /\ WalkTo(g, "returned")
    /\ UNCHANGED <<nodeState, unmet, jobs, userStop, halted, failing, declined, process>>

\* suspend_graph_context_owner
SuspendGraph(g) ==
    /\ Going(g) /\ g \in ContextGraphs /\ WaitingOnly(g)
    /\ graph' = [graph EXCEPT ![g] = "paused"] /\ WalkTo(g, "returned")
    /\ UNCHANGED <<nodeState, unmet, jobs, userStop, halted, failing, declined, process>>

\* The transactions that move a node demand a running root; which of several
\* ready nodes comes first does not matter.
MoveNode(g, n, state) ==
    /\ Going(g) /\ graph[g] = "running"
    /\ nodeState' = [nodeState EXCEPT ![g][n] = state] /\ UNCHANGED unmet
    /\ graph' = HumanPause(g)
    /\ UNCHANGED <<jobs, walker, userStop, halted, failing, declined, process>>

SkipNode(g, n) == n \in Skippable(g) /\ MoveNode(g, n, "skipped")

MayStart(g, n) ==
    /\ n \in ReadyNodes(g) /\ Skippable(g) = {}
    /\ Cardinality(OpenNodes(g)) < LeafLimit

StartHuman(g, n) == n \in HumanNodes /\ MayStart(g, n) /\ MoveNode(g, n, "waiting")

StartLeaf(g, n) == n \notin HumanNodes /\ MayStart(g, n) /\ MoveNode(g, n, "running")

\* The runner throws, with its leaves drained.
WalkerFails(g) ==
    /\ walker[g] \in {"claimed", "walking"} /\ NodesIn(g, {"running"}) = {}
    /\ WalkTo(g, "failing")
    /\ UNCHANGED <<record, jobs, userStop, halted, failing, declined, process>>

--------------------------------------------------------------------------------
(* A worker: settling what the runner observed (execute_job) *)

\* Forget a job whose run has ended.
Forget(g) == SetOwner(g, "none") /\ UNCHANGED <<wakes, line, ticketOf>>

Returned(g) == walker[g] = "returned" /\ WalkTo(g, "none")

SettleEnded(g) ==
    /\ Returned(g) /\ graph[g] \in GraphEnded
    /\ Forget(g)
    /\ UNCHANGED <<record, userStop, halted, failing, declined, process>>

\* A person answered after the runner had seen the pause.
SettleAnswered(g) ==
    /\ Returned(g) /\ graph[g] = "running"
    /\ IF ~admitting \/ g \in halted
         THEN RetireGraph(g, "cancelled") /\ Forget(g)
         ELSE UNCHANGED record /\ Wake(g)
    /\ UNCHANGED <<userStop, halted, failing, declined, process>>

\* Mutant of SettlePausedGraph: the plan is not looked at again.
SettleWithoutLook(g) ==
    /\ Returned(g) /\ graph[g] = "paused"
    /\ IF g \in userStop THEN RetireGraph(g, "cancelled") /\ Forget(g)
       ELSE /\ SetOwner(g, "waiting") /\ UNCHANGED <<record, wakes, line, ticketOf>>
    /\ UNCHANGED <<userStop, halted, failing, declined, process>>

SettlePausedGraph(g) ==
    /\ Returned(g) /\ graph[g] = "paused"
    /\ \/ /\ g \in userStop
          /\ RetireGraph(g, "cancelled") /\ Forget(g)
       \/ /\ g \notin userStop /\ admitting /\ g \notin halted
          /\ g \in ContextGraphs /\ CanGoOn(g)
          /\ UNCHANGED record /\ Wake(g)
       \/ /\ g \notin userStop
          /\ ~admitting \/ g \in halted \/ g \notin ContextGraphs \/ ~CanGoOn(g)
          /\ SetOwner(g, "waiting") /\ UNCHANGED <<record, wakes, line, ticketOf>>
    /\ UNCHANGED <<userStop, halted, failing, declined, process>>

\* GraphContextUnavailable
SettleUnavailableGraph(g) ==
    /\ walker[g] = "unavailable" /\ WalkTo(g, "none")
    /\ IF g \in userStop THEN RetireGraph(g, "cancelled") /\ Forget(g)
       ELSE SetOwner(g, "waiting") /\ UNCHANGED <<record, wakes, line, ticketOf>>
    /\ declined' = declined \cup {g}
    /\ UNCHANGED <<userStop, halted, failing, process>>

\* Any other exception: the graph is kept for review and the service stops.
SettleFailed(g) ==
    /\ walker[g] = "failing" /\ WalkTo(g, "none")
    /\ SetOwner(g, "faulted") /\ UNCHANGED wakes
    /\ Break /\ failing' = failing \ {g}
    /\ UNCHANGED <<record, userStop, declined>>

--------------------------------------------------------------------------------
(* close() and the next process *)

Queued == ToSet(wakes)

\* Queued wakes whose run is still a closed pause.
KeptByClose == {g \in Queued : graph[g] = "paused" /\ g \in ContextGraphs}

CloseGraphs ==
    /\ ending = "open" /\ ending' = "joining" /\ admitting' = FALSE
    /\ LET retired == {g \in Queued \ KeptByClose : graph[g] \notin GraphEnded} IN
       /\ graph' = [g \in Graphs |-> IF g \in retired THEN "cancelled" ELSE graph[g]]
       /\ nodeState' = [g \in Graphs |-> IF g \in retired THEN CancelPending(g)[g] ELSE nodeState[g]]
       /\ owner' = [g \in Graphs |-> IF g \in retired THEN "none"
                                     ELSE IF g \in KeptByClose THEN "waiting"
                                     ELSE IF g \in Queued THEN "faulted" ELSE owner[g]]
    /\ halted' = halted \cup {g \in Graphs : owner[g] = "working"}
    /\ wakes' = <<>> /\ Withdrawn(Queued)
    /\ UNCHANGED <<unmet, walker, userStop, failing, declined, broken, lives>>

\* work_results
JoinGraphs ==
    /\ ending = "joining"
    /\ \A g \in Graphs : ticketOf[g] = "none" /\ walker[g] = "none"
    /\ ending' = "closed"
    /\ UNCHANGED <<record, jobs, walker, userStop, halted, failing, declined, admitting, broken, lives>>

\* validate_paused_tree, as the constructor asks it.
Adoptable(g) ==
    /\ ~GraphHalted(g) /\ OpenNodes(g) = {}
    /\ IF g \in ContextGraphs THEN WaitingNodes(g) # {} \/ CanGoOn(g)
       ELSE WaitingNodes(g) # {} /\ ~CanGoOn(g)

\* A process starts after a close or a crash: recovery fails what was queued or
\* running, and the constructor adopts the pauses.
RestartGraphs ==
    /\ lives < GraphRestarts /\ lives' = lives + 1
    /\ LET paused == {g \in Graphs : graph[g] = "paused"}
           adopted == {g \in paused : Adoptable(g)} IN
       /\ graph' = [g \in Graphs |-> IF graph[g] \in {"queued", "running"} THEN "failed" ELSE graph[g]]
       /\ owner' = [g \in Graphs |-> IF g \in adopted THEN "waiting" ELSE "none"]
       /\ ending' = IF adopted = paused /\ Cardinality(paused) <= GraphCapacity
                    THEN "open" ELSE "refused"
    /\ wakes' = <<>> /\ line' = <<>>
    /\ ticketOf' = [g \in Graphs |-> "none"] /\ walker' = [g \in Graphs |-> "none"]
    /\ userStop' = {} /\ halted' = {} /\ failing' = {}
    /\ admitting' = TRUE /\ broken' = FALSE
    /\ declined' = {g \in Graphs : graph[g] = "paused" /\ CanGoOn(g)}
    /\ UNCHANGED <<nodeState, unmet>>

--------------------------------------------------------------------------------

GraphController(g) ==
    \/ SubmitGraph(g) \/ ResumeGraph(g) \/ CancelWalking(g) \/ CancelParked(g)
    \/ \E n \in HumanNodes : HumanInput(g, n) \/ HumanInputUnread(g, n)

\* What the runner does next, if no leaf has to be waited for.
Walk(g) ==
    \/ Open(g) \/ OpenStopped(g) \/ OpenUnavailable(g) \/ WalkerFails(g)
    \/ Conclude(g) \/ CompleteGraph(g) \/ ReturnPausedGraph(g) \/ SuspendGraph(g)
    \/ \E n \in GraphNodes : SettleLeaf(g, n) \/ SkipNode(g, n) \/ StartHuman(g, n) \/ StartLeaf(g, n)

SettleGraph(g) ==
    \/ SettleEnded(g) \/ SettleAnswered(g) \/ SettlePausedGraph(g)
    \/ SettleUnavailableGraph(g) \/ SettleFailed(g)

GraphStep(g) ==
    \/ ClaimGraph(g) \/ Walk(g) \/ SettleGraph(g)
    \/ \E n \in GraphNodes : LeafEnds(g, n)

GraphNext ==
    \/ \E g \in Graphs : GraphController(g) \/ StopItself(g) \/ GraphStep(g)
    \/ TakeTask
    \/ CloseGraphs \/ JoinGraphs
    \/ RestartGraphs

\* Workers run, leaves end (they have a time limit and are stopped), close()
\* goes on.  Nobody has to submit, answer, cancel, close or restart.
GraphFairness ==
    /\ \A g \in Graphs : WF_graphVars(GraphStep(g))
    /\ WF_graphVars(TakeTask)
    /\ WF_graphVars(JoinGraphs)

GraphSpec == GraphInit /\ [][GraphNext]_graphVars /\ GraphFairness

--------------------------------------------------------------------------------
(* Properties *)

\* A graph in the table is where its state says: a queued one has its entry in
\* both queues or is in a worker's hands, no graph has two entries, and a walked
\* graph is nobody else's (stage_work, publish_locked, execute_job).
GraphHasOneOwner ==
    \A g \in Graphs :
        /\ owner[g] = "queued" /\ admitting => g \in Queued /\ ticketOf[g] \in {"ready", "taken"}
        /\ Cardinality({i \in DOMAIN wakes : wakes[i] = g}) <= 1
        /\ walker[g] # "none" => owner[g] = "working" /\ ticketOf[g] = "none"
        /\ ending = "open" /\ graph[g] \in {"queued", "running", "paused"} => owner[g] # "none"

\* A committed pause is one the next process can adopt: no leaf of it is open,
\* and somebody can make it go on (validate_paused_tree: "a paused tree contains
\* no active leaf worker").
PausesCanBeAdopted == \A g \in Graphs : graph[g] = "paused" => Adoptable(g)

\* Only a user's cancellation ends a pause as cancelled: "Already-paused roots
\* are retained for the next backend owner" (graph_service.cpp:189).
OnlyUsersCancelGraphPauses ==
    [][\A g \in Graphs : graph[g] = "paused" /\ graph'[g] = "cancelled"
            => g \in userStop \/ (owner[g] \in {"queued", "waiting"} /\ Usable)]_graphVars

\* Whatever the workers and people do, a graph that was queued or is walked comes
\* to rest, ended or waiting for a person, or the service faults; and close()
\* returns.
GraphsComeToRest ==
    []<>(/\ ending # "joining"
         /\ broken \/ \A g \in Graphs : owner[g] \notin {"queued", "working"})

\* No answer is lost: a waiting graph that can go on has been woken, unless the
\* service stops or the wake was tried in vain ("Check the durable state under the
\* same lock used by input scheduling so that wakeup cannot be lost",
\* graph_service.cpp:142; "Allocation failure cannot leave committed runnable work
\* without its scheduler entry", graph_service.cpp:290).
AnsweredGraphIsWoken ==
    admitting => \A g \in Graphs :
        owner[g] = "waiting" /\ CanGoOn(g) => g \in declined \cup halted

================================================================================
