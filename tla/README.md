# xMind native backend: a TLA+ development

xMind's native backend (`src/Native`) runs model agents for conversations
("sessions"). A run proposes side effects, people or standing permissions
approve them, executors perform them, a journal in SQLite remembers them, and
worker threads shared by several services carry the runs. This directory
specifies the part of that backend that decides *who may touch what, when, and
what is left of it after a crash*. It checks the specification with TLC and
proves the journal's invariants with TLAPS.

All paths below are relative to the repository (`src/Native/src/` unless said
otherwise). `PROJECT.json` maps every definition to the lines it models.

## 1. The system

| Component | State | Operations | Talks to |
|---|---|---|---|
| Operation journal, `repository.cpp` | `runs`, `operations`, `information` (session access), plans, budgets | create, transition, complete, suspend, resume, retire runs; request, decide, claim, cancel, expire, finish, reconcile operations; set access; recover | called only by the persistence worker |
| Persistence service, `persistence_service.cpp` | request queue, one worker thread owning the `Repository` | submit (bounded queue), mutation gate, close | every other component, through futures |
| Backend lease and owner control | lease file, owner record: generation, revision, receipt | open, quiesce, resume, retire, finish an interrupted retirement, activate a replacement | persistence service, client of the upgrade |
| Permission waiter, `permission_waiter.cpp` | the call's local state | `acquire`: propose, poll, expire, claim | journal; its caller is an executor |
| Executors (process, edit, create, patch, MCP) | running children, pipes | perform one claimed effect, record the outcome | waiter, journal |
| Root work executor, `include/agentflow/root_work_executor.hpp` | FIFO queue, running list, worker threads | stage, commit, detach, destroy a ticket; close | agent and graph services |
| Native child executor, `native_child_executor.cpp` | FIFO of staged children, reserved count, leaf slots | stage a batch, commit, yield, assist, close | plan executors, delegation |
| Root execution budget, `root_execution_budget.cpp` | leaf slots of a root, rendezvous of its human frontiers | enter, leave, `suspend_for_human` | plan executors |
| Agent service, `agent_service.cpp` | table `active`, `pending` wakes, flags, expiry thread | submit, cancel, plan_input, continue_a2a_task, resume_plan, close, adoption | root work executor, runner, journal |
| Agent runner, `agent_runner.cpp` | one run's loop | execute: claim, model turns, tools, pause or end | journal, plan executor, executors |
| Dynamic plan executor, `dynamic_plan_executor.cpp` | a planner's loop: batches in flight, pauses of its children | claim, stage, settle, pause, resume, drain | budget, child executor, journal |
| Graph service, runner, coordinator | table of graph runs, nodes, wakes | submit, walk nodes, human nodes, invocations, pause, cancel, close, adoption | root work executor, journal |
| OAuth renewal, `mcp_oauth_renewal.cpp` | one thread per renewal, durable receipts | claim, dispatch, exchange, publish, abandon | persistence service, network |
| Agent workers, `agent_worker_*.cpp` and the lease part of `repository.cpp` | leases, model claims, tool claims, threads that call models and tools | admit, reserve, claim, record, commit, terminate, retire | journal, executors, the worker process |
| Session inbox, `session_inbox.cpp` | rows of prompts; a map of due sessions, one dispatcher thread | enqueue, cancel, scan at start, dispatch, close | journal, agent service; clients |
| Delegation | batches | accept, settle | journal |
| MCP client, A2A, remote commands, checkpoints | pending requests, command receipts, event cursor | request, answer, cancel; submit once, resume after loss | HTTP |
| HTTP server, views, providers, workspace tools | requests, streams, files | I/O and conversion | everything |

What makes each of them correct, and what is hard about it:

* **Journal.** Effects that may change the same thing exclude each other, an
  effect whose outcome nobody knows blocks its resources until somebody
  reconciles it, an approval that was withdrawn is never used, a finished or
  paused run leaves nothing that can still be dispatched. Hard: proposals,
  decisions, claims, expiry, access changes, run ends and restarts interleave
  over several transactions of several threads.
* **Waiter and executors.** A caller that was refused never has its effect
  happen; one that was granted owns its resources while it works; every wait
  ends. Hard: the waiter acts on what an earlier transaction returned.
* **Root work executor.** Committed work starts, a result is final, a destructor
  drains, close returns. Hard: condition variables, staged entries at the head,
  stop callbacks outside the lock, destruction during execution.
* **Agent service.** Every unfinished run has exactly one owner; a pause survives
  shutdown and faults and is ended only by people or deadlines; an answer wakes
  the run once; cancellations win over pauses. Hard: the pause is committed by the
  runner before the service's table knows it, and answers, cancellations, expiry,
  shutdown and faults all arrive in that window.
* **Dynamic plans and the child pool.** A run's common pause is closed over
  drained work, every claimed node is settled once, an owner runs on one thread,
  counters return to zero. Hard: planners of one run stop at questions
  independently; one commits the pause for all of them while children end, a
  person answers, a user cancels, or the deadline passes; planners hold the threads
  their own children need.
* **Graph service.** A graph has one owner in every state, an answered one is woken
  exactly once, a saved pause can be adopted. Hard: the same windows as in the agent
  service, with nodes, nested invocations and leaves of their own.
* **Owner hand-off and OAuth renewal.** The database changes hands only when
  nothing is under way in it; a refresh token is sent once. Hard: mutations that
  were accepted before the quiescence run after it; commits whose answer is lost;
  a process that dies at any point of a protocol of two processes.
* **Agent workers.** A call that may have happened is not made again, a lease that was
  retired has no authority left, and a run that ended has nothing under way. Hard: the
  process may die, be retired or be replaced at any step, its host threads go on
  without it, and their results arrive late.
* **Session inbox.** A prompt that was accepted becomes one run or is cancelled, whether or
  not its client comes back. Hard: rows survive the process and the map of due sessions does
  not; a client stores its row and enters the map in two steps, while the dispatcher reads
  that nothing is queued and erases the session; other clients may start the same prompt.
* **The others** are in section 7.

Out of scope: the VS Code extension, views, `third_party`, demos, provider wire
formats, file and text algorithms. They hold little shared state.

## 2. Modules

| Module | What it is |
|---|---|
| `EffectLedger` | Abstract promise: an effect is granted at most once and never beside a held or quarantined effect that shares a key; quarantine ends only by settlement. |
| `WorkLedger` | Abstract promise of a thread pool: accepted work starts at most once, what never started has failed, an outcome is told once and of work that is over, an owner settles only on work that is over, a drained door leaves nothing under way. |
| `OperationJournal` | `Repository`'s runs, operations and access records. One action per repository transaction. Implements `EffectLedger`. |
| `ApprovalHistory` | `OperationJournal` with one history variable: approvals that were withdrawn by an access change. |
| `PermissionWaiter` | Extends the journal with the threads in `PermissionWaiter::acquire` and the executors behind them; composes both with crashes. |
| `BackendOwner` | The persistence worker, its queue and its mutation gate; the owner record across processes; OAuth renewals and root runs that share the database with it. |
| `RootWorkExecutor` | Tickets, queue, workers, destruction, `close()`. One step per critical section; condition variable explicit. Implements `WorkLedger`. |
| `NativeChildExecutor` | The pool below the planners: batches, reservations, leaf slots, yield, assistance, close. Implements `WorkLedger`. |
| `AgentService` | The service's table, the tasks it keeps in the shared executor, its workers, callers that answer, faults, close and the next process. |
| `DynamicPlans` | The planner loops of one run, the nodes of their plans, the root budget's rendezvous and the repository's pauses and bindings. |
| `GraphService` | The service's table, the walk of a graph's nodes, human nodes, leaves, faults, close and the next process. |
| `SessionInbox` | Rows of prompts, the map of due sessions, the dispatcher, clients, close and the next process. |
| `AgentWorkers` | A root run executed by worker processes: leases, reservations, claims of model and tool calls, the threads behind them, the supervisor, restart. |
| `WorkQueues` | The queue operation that `RootWorkExecutor` and `GraphService` share: withdrawing some work from a queue. |
| `OperationJournal_proofs`, `Approvals_proofs`, `BackendOwner_proofs`, `AgentWorkers_proofs` | Theorems about the journal, its histories and waiting calls, the database owner, the workers of a root. |
| `WorkQueues_proofs`, `Pools_proofs`, `Services_proofs`, `Plans_proofs` | Lemmas about queues; theorems about both thread pools, about the agent service and the inbox, about graphs and dynamic plans. |
| `MC*` | Small instances. Each `.cfg` gives the constants their values. |

Some `MC` modules hold two worlds: `MCPools` has both pools, `MCPlans` plans and graphs,
`MCServices` the agent service and the session inbox,
`MCOperationJournal` the journal (over two sets of sessions), the database owner and the
workers of a root. A behaviour lives in one world; the others stand in a final
state and stay there. The worlds share no variable, so what is checked of one is
what a run of its own would check. `WorldsTypeOK`, `PoolsTypeOK`, `PlansTypeOK`,
`ServicesTypeOK`, `ClosedPoolsAreDrained`, `PoolsImplementLedger` and `OneOwnerEach` are the
conjunction of one property of each world.

Definitions whose comment begins with "Mutant of" are plausible bugs of the
definition they stand before; no specification uses them. Replacing the original
by them must break the property named in `PROJECT.json`.

### State and actions against the code

`OperationJournal`. `run`, `op` are the `state` columns. `autoAt[o]` is the
revision in `decision_actor = full-access:<revision>`. `access[s]` is the
`native-session-access` record. `late` is the set of operations whose
`expires_unix_ms` has passed (time is nondeterministic; `Lapse`). `proven` says
that the receipt stored with an uncertain outcome is of the kind
`reconcile_*` asks for. `Keys` is `effect_resources`: workspace plus resources,
and only resources for persistent services. A call that throws before it commits is not
an action; the two that commit an expiry and then throw (`decide`, `claim`) are.
`RecoverInterrupted` visits exactly the runs that the code's loop visits; whether
a clean-looking pause is preserved depends on plan, budget and context facts
that are not modelled, so any subset of `Preservable` may be kept.

`PermissionWaiter`. `waiter[o]` is the program counter between two transactions
of `acquire`. `Crash` loses every thread and runs recovery. `Environment` is
everybody else: run owners, controllers, time. The executor is only
`Record`, `LoseOutcome` (`ProcessOutcomeUnrecorded`) and `RecordUncertain` (the
background thread's second attempt).

`RootWorkExecutor`. `ticket` follows the `Ticket` object: held (drains), detached,
draining (inside the destructor's wait), gone or released. The lock and the
`notify_all` that follows it are one step in the destructor, and two in
`close()`, where stop callbacks run between them. A result has no contents.

`AgentService`. `phase[r]` is `Job::phase` ("none" when `active` has no entry),
`pending` the reserved wakes, `task[r]` the job in the shared executor
(`RootWorkExecutor` reduced to staged, ready, taken: its order is only used in the
fairness), `runner[r]` the worker's position in `execute_job`, `stopDue` the jobs a
thread is going to stop after it has released the mutex, `caller[c]` a thread in
`plan_input` or `continue_a2a_task`. A run's plan is reduced to two facts: it
asks a person (`asking`), it has a ready node or report (`runnable`). `asked` is a
history variable. `closer`, `sweep` and `stopping` are `close()`'s locals.

What `AgentService` abstracts: leases of the admission pool (their capacity is never below
the service's own limit, except together with graph roots), the idle-context
worker, child health (a fault may come at any moment, `ServiceFails`), the
runner's inside, revisions of plans (a stale answer is a refused one), the
contents of answers, and exceptions of `close()`'s own reads. Halted plans are
excluded by `verify_pause`. A Conflict (agent_service.cpp:280) is one of the ways
`RunnerFails` happens; where one comes from, `DynamicPlans` shows (`ResumeRefused`). A worker
whose own read fails while it settles a pause, or that finds the wake queue full (:211), is not
modelled.

`NativeChildExecutor`. `at[x]` is where a root or child stands, `pending` the pool's
FIFO of batches' children, `reserved` its count, `leaves[r]` the leaf slots a root has
taken, `host[c]` the thread a child runs on. `told` are those whose own stop
source was triggered. A thread that yields (a planner that waits) gives its leaf slot back and, if
children are processes, executes other children meanwhile (`Assisting`); in thread
mode it does not. `Parent` gives the tree; results have no contents.

`DynamicPlans`. `plan[p]`, `node[n]`, `run[c]`, `call[p]` and `binding` are the rows of
`dynamic_plans`, `dynamic_plan_nodes`, `runs`, the planning calls and
`dynamic_owner_pause_waits`; `pc[p]` is where the thread that executes `p`'s plan stands
in `DynamicPlanExecutor`'s loop, `batch[p]` the children it has in flight, `job[c]` a
child's future, `seen[p]` the budget revision it read last. `waits`, `resumable` and
`slots` belong to `RootExecutionBudget`: its rendezvous of human frontiers and its leaf slots. A plan is one of the trees of the instance, chosen in the initial
state: what a model proposes is data. `Chain(P)` is what `wait_owner_path` collects for the
owners `P`, written as a least fixed point instead of a walk towards the root. A child's row ends before
its leaf slot is free: the transaction is part of its action (`Return`,
native_child_executor.cpp:92), the pool takes the slot back and makes the future ready afterwards
(`ReleaseSlot`, :93-100), and a pause may be committed in between. `ReturnPaused` of the root
is the worker's re-read of the pause (agent_service.cpp:256-268), which queues the root by its own plan;
`ResumeRoot` and `ResumeRefused` are the two ends of `resume_dynamic_owner`. Left out: plan revision by the model, tool nodes,
kinds of dependency, budget amounts, and a settlement that fails itself while an owner
unwinds (dynamic_plan_executor.cpp:496-500).

`GraphService`. `graph[g]` and `nodeState[g]` are the saved run and nodes, `owner[g]` the
phase of its job, `ticketOf[g]` and `line` its task in the shared executor, `wakes`
the reserved wakes (`Impl::pending`), `walker[g]` the worker's position. `unmet[g]` are the
optional nodes whose condition turns out false. Nested invocations stand beside the
other nodes of their graph (`NestedNodes`).

`AgentWorkers`. `lease[g]` is the record of generation `g`, `call[a]` the row in
`agent_model_call_reservations` with the generation that paid (0 for the backend),
`claim[a]` the model claim, `tool[a]` the claim of the tool call that the answer asks
for, `effect[a]` the native operation of that tool call (its waiting is one step
here, see `PermissionWaiter`), `turns` the tool turns in the conversation. `alive` are the
processes; `exchange[g]` and `dispatch[g]` the threads in `AgentWorkerModelHost::complete` and
in the read and file hosts' `invoke`, which `invocation_` makes one each; `watch[g]` is the
position of `supervise`. Every request of a process checks `CurrentScope` again, as
`worker_current_scope` does; `RecordAnswer` and `SaveResult` do not, because the code keeps late facts.
A second generation for one root arises through `retire_agent_worker` (`RetireByHand`) or the paused
hand-off, which is not modelled. Left out: planning and delegated owners, process, remote and callable
tools, rejections for a full context, the success flag of a result, the order of
events, the channel itself. An answer asks for at most one tool.

`SessionInbox`. `item[i]` and `rank[i]` are the row of a prompt and its place by
`created_ms` and identity, `entry[s]` and `bumped` the map `queued_sessions` (`bumped`: the
generation has moved since the dispatcher took it; only the dispatcher erases entries, so
a generation cannot come back during a batch), `due`, `serving` and `picked` its
locals, `sender[c]` a thread of `enqueue` between the row and the map. `rooted`
are sessions whose root is active; runs begin and end there at will.
`stale` are attachments whose membership revision has passed. `started` and `missed` are
history variables: runs created for a prompt, and whether one of the two reads failed
whose failure is swallowed (session_inbox.cpp:54, :122). Left out: sizes, the exclusive
maintenance owner (it refuses as an active root does), and a claim that commits although its
caller hears an error (`BackendOwner` has that case).

`BackendOwner`. `owner` is the record in `information`, `serving` the generation of the
process that holds the lease, `queue` and `accepting` are `PersistenceService::Impl`'s.
A thread has one request in the queue at most; `at[t]` is where it goes on. `Serve` is
one turn of the worker: transaction, commit, answer. `ServeUnheard` commits and
answers with an error, which the code has to expect of SQLite; `Refuse` is any
exception before the commit. A receipt is a generation and a revision, which
identify the nonce. `view[k]` is what a client saved of the record. `sent` is a
history variable: the renewals whose refresh token has left. Left out: targets (a
wrong target is a refused call), legacy tickets, the admission lock of HTTP commands
(background work does not take it, so the gate must do without it) and
authorization of a new credential identity.

## 3. Runs

Every run but the violations finishes without error. Deadlock is not
checked: everybody may have finished (all runs ended, operations settled,
service closed), and nobody is obliged to submit more.

| Run | Instance | Properties | Distinct states |
|---|---|---|---|
| `journal` | World 1: 2 sessions, a plain and a dynamic run, edit, service and background job, shared workspace and resources. World 2: 1 session, 2 runs, 2 workspaces, edit and MCP call, revisions to 3. World 3: `BackendOwner` with 1 root, 2 renewals, 1 controller, queue of 2, 2 generations. World 4: `AgentWorkers` with 2 leases and 2 model calls | `WorldsTypeOK`, `EffectExclusion`, `EndedRunIsSettled`, `DynamicPauseIsQuiescent`, `RevokedApprovalNeverDispatches`, `FullAccessLeavesNoPrompt`, `ImplementsEffectLedger`, `OwnersExclude`, `SpentTokenIsFenced`, `NothingIsReplayed`, `EndedRootIsSettled`, `RetiredGainsOnlyFacts` | 905,748 |
| `waiter` | 2 sessions, a background process and an edit on one workspace, one with full access, a crash | `WaiterTypeOK`, `WaiterAgreesWithJournal`, `WaitEnds` | 445,680 |
| `pools` | `RootWorkExecutor`: 3 jobs, 1 worker, queue of 2. `NativeChildExecutor`: a planner with 2 children beside another root, 2 threads, capacity 2, assistance | `PoolsTypeOK`, `CountersAreExact`, `ClosedPoolsAreDrained`, `PoolsImplementLedger`, `CommittedWorkStarts`, `CloseReturns`, `PoolComesToRest` | 227,245 |
| `agent_service` | `AgentService`: a dynamic and a plain run, 1 caller, capacity 2, 1 worker, 1 restart. `SessionInbox`: 1 session, 2 prompts, one with files, 1 client, 1 restart, any number of failing calls, repeated sends and runs started past the inbox | `ServicesTypeOK`, `UnfinishedRunIsOwned`, `AnswerFollowsPause`, `NoInputIsLostOrRepeated`, `OnlyUsersCancelPauses`, `QueuedRunLeavesQueue`, `CancellationEnds`, `InputIsDispatched` | 347,839 |
| `plans` | `DynamicPlans`: 3 plan trees with nested planners, a leaf and 2 questions, 2 in parallel. `GraphService`: a graph with and one without a context, a conditional node, 1 worker, 1 restart | `PlansTypeOK`, `PauseIsDrained`, `ClaimsAreTracked`, `ChildrenEndFirst`, `OneOwnerEach`, `PausesCanBeAdopted`, `AnsweredGraphIsWoken`, `RunComesToRest`, `OnlyUsersCancelGraphPauses`, `GraphsComeToRest` | 231,896 |
| `waiter_orphan` | a service and an edit of one run | `NoOrphanedEffect` (violated) | |
| `pool_nested` | 2 roots with a nested planner each, 2 threads, no assistance | `CancelledChildRetires` (violated) | |
| `agent_adoption` | 2 dynamic runs, capacity 1, 1 worker, 1 restart | `PausesAreAdopted` (violated) | |
| `agent_input` | 1 dynamic run, 1 caller | `InputReturns` (violated) | |
| `agent_close` | 1 dynamic run, 1 caller | `CloseReturns` (violated) | |
| `dynamic_cancel` | the trees of `plans` | `CancelDrains` (violated) | |
| `inbox_window` | 1 session, 2 prompts, a window of 1 row, no failures | `InputIsDispatched` (violated) | |

Why the bounds are enough. *Operations*: exclusion is a statement about pairs; a
third operation adds the case where a claim has two rivals of different kinds
(executing and uncertain). The tools are chosen so that every branch of
`effect_resources`, of "may outlive its run" and of both reconciliations occurs
in some run. *Revisions*: full, default and full again is the shortest history
in which an old approval meets a new grant; that needs 3. *Restarts*: one, because a
second one finds what the first could have found. *Jobs*: with two in
the queue one can be staged in front of a committed one while a third is running
or refused. *Runs of the service*: they interact only through capacity and
workers; two runs and one worker contend for both. The plain run supplies the
states in which a queued or running run has never paused. *Pool*: two threads and a
planner whose two children need them, beside a root that needs one too, is the
smallest case of planners in each other's way. *Plans*: the trees put a question
beside work, in two sibling owners, and two owners deep; a common pause
concerns at most the owners on two branches. *Owner*: two generations are one hand-off,
with an interruption before or after the retirement; a third generation was checked once
(4,696,107 states). Two renewals are needed to send a token twice.
*Workers*: two leases are one replacement, with every late step of the first beside the
second; two calls are an answer whose tool turn has to be committed before the next call is
reserved. A lease is retired by hand only if another may follow (the last one is retired by
its run's end or by a restart). *Inbox*: the dispatcher serves one session after another
and sessions share only its thread, so one session has every race; two prompts are needed
for one to wait behind the other. What disturbs a session is not bounded (calls fail, clients
re-send and other runs start as often as they like); only restarts are. No run uses symmetry.

## 4. Fairness

* `PermissionWaiter`: a thread inside `acquire` keeps taking steps (it polls), and
  each proposal's deadline passes. Nobody has to decide, execute or stay alive.
* `RootWorkExecutor`: worker threads run and actions return (agents have a time
  limit and get a stop token); `close()` goes on; an owner that staged a job
  commits or destroys it, as each service does in the same function. `CloseReturns`
  needs no owner to be fair.
* `AgentService`: threads that hold a job go on (weak fairness); `Take` is strongly
  fair, because the executor's queue is FIFO and other runs keep a worker busy
  for a bounded time; `StopJob` and the steps of `close()` are the next statements of
  running threads. A caller that is asleep is only obliged to run when it has been
  notified. Nothing is assumed of people, deadlines, faults or restarts.
* `NativeChildExecutor`: pool threads run (one weak fairness over all of them: no step
  can be repeated, so none can starve another for ever), planners that hold a result go on.
* `DynamicPlans`: each planner's thread and each child goes on; the service that
  finds a stopped pause retires it; the expiry thread finds due questions, and the root's
  deadline passes. People owe nothing.
* `GraphService`: the worker's steps, the FIFO executor and `close()`. People owe nothing.
* `SessionInbox`: the dispatcher's thread runs, a client's thread that stored a row goes on,
  and retry times pass. Nothing is assumed of runs, clients to come or restarts. What `InputIsDispatched`
  needs of them is its premise, per session: runs end again and again, and from some time on
  none is started past the inbox, no prompt is sent again, no read or admission fails and the
  process is not restarted (`Disturbance`). Each of the first four can keep a prompt waiting for ever,
  one retry (500 ms) or postponement (1 s) at a time: with any of them dropped from
  `Disturbance` TLC finds the property violated. Restarts are in the premise because a process that
  always ends first dispatches nothing; the run has one, so it does not exercise that part.
* `BackendOwner` and `AgentWorkers` state no fairness; their properties are safety.

`QueuedRunLeavesQueue` and `CancellationEnds` except a faulted service: after a fault
`accepting` is false, the task of a queued run returns without claiming it
(agent_service.cpp:194), and the durable row stays queued until `close()` or
recovery ends it.

## 5. What the violations show

1. `waiter_orphan`. `recover_interrupted` quarantines executing operations only of
   the runs that it interrupts (repository.cpp:4436). A service that outlives its
   completed run, or a job that outlives a cancelled one, stays `executing` after
   a restart, holding its resources; it cannot be reconciled, since it never
   became uncertain. `doc/native-process-tools.md:262` and `:287` say it is marked uncertain.
2. `agent_adoption`. Admission counts working runs only against
   capacity + workers (agent_service.cpp:217-219). When they pause there are
   more pauses than `capacity`, and the next process's constructor throws (:124).
   `doc/native-dynamic-plan.md:218` says clean pauses remain admitted and are adopted.
3. `agent_input`. A worker that retires a cancelled run (:261), keeps a stopped one
   (:266) or finds it terminal after a Conflict (:283) notifies nobody, so an answer that
   waits at :557 sleeps on. The comment at :553 says it waits for that very boundary.
4. `agent_close`. An answer that was committed but could not be observed leaves its
   reserved wake staged in the shared executor; `close()` waits for its result (:413).
   The staged entry also stands in front of every later task.

5. `pool_nested`. A planner holds its pool thread while it awaits its children. In
   thread mode it assists nobody, and the pool is shared by all roots: the planners
   of two roots hold both threads, their children stay queued, and cancelling does
   not help, since the unwinding planner waits for the same futures
   (dynamic_plan_executor.cpp:496). `doc/native-dynamic-plan-design.md:592` says cancellation drains ownership.
6. `dynamic_cancel`. A nested owner commits the common pause after the user has
   cancelled and the root has begun to drain; the drain finds a paused child, takes it for a
   journal fault (:497), and the service faults for every run. Same sentence of the design.
7. `inbox_window`. The dispatcher reads the oldest 128 rows that were not cancelled
   (repository.cpp:3049), claimed ones among them, and those never leave. After 128 runs from a
   session's inbox each later prompt is accepted and found by nobody, in this process or a
   later one. `doc/native-session-inbox.md:7` says accepted input is not stranded.

Other things seen while modelling, not runs:

* `tree_human_input` reads the tree after the commit outside any handler
  (graph_service.cpp:306). When that read throws, the answered graph waits with a wake that
  nobody publishes, which the comment at :290 excludes. `plans` has no nested question for that
  reason; with `NestedNodes = {ask}` TLC finds `AnsweredGraphIsWoken` violated.
* A read that fails when a client enters its session (session_inbox.cpp:122), or during the scan at the
  start (:54), is swallowed: the prompt waits for the next one of its session, or for the next process.
  A queued prompt whose files cannot be attached any more holds up all prompts behind it until
  somebody cancels it. A client that re-sends its prompt more often than once a
  second to an idle session postpones it each time (:122), and runs started past the inbox can
  be there at every retry: the prompt then waits as long as this goes on, which is why
  `InputIsDispatched` has a premise.
* Three comments of `AgentService` and a fourth disagree. agent_service.cpp:85-86 ("A working job
  may hold a reserved wake ticket"), :255-256 ("a final answer may have committed between the
  runner pause and worker retirement") and :569-570 ("A working owner keeps its
  preallocated wake until pause re-read") speak of an answer that commits while a
  worker settles the pause. :551-555 says the answer lets the worker finish first, and the
  code does that: `plan_input` and `continue_a2a_task` wait until the job is not working and go on
  only if it is waiting (:556-560, :538), and nothing else answers. `AnswerFollowsPause` states what the code does; the three
  comments describe a protocol that the code no longer has, and the branch at :267 is not
  reached the way :255 says.
* A common pause overlooks ready work of plans that do not wait. The poll before it looks at claimed nodes
  (root_execution_budget.cpp:110), and `suspend_dynamic_owner` (repository.cpp:1557-1592) at the ready
  nodes of the waiting plans only, where `doc/native-dynamic-plan-multibranch.md:24` wants every branch "terminal or
  waiting" and :31 "no other work". So a nested planner can pause the root while the root's own plan has a
  ready task: between the settlement of one task and the admission of the next that needs it, or, with
  `max_parallel` 1, because the planner itself counts as a live child (dynamic_plan_executor.cpp, `live`) and
  the second task never starts. That is the other way to the branch at agent_service.cpp:267, whose `plan`
  is the root's: the worker queues the root, `resume_dynamic_owner` asks the waiting plans and throws "No
  answered dynamic wait has ready work" (repository.cpp:1600), and the service faults (:280-284) though nobody
  answered, cancelled or stopped anything. `resume_plan` (:586) asks the waiting plans before it queues.
  The model has all of it (`Safe`, `NothingElseLives`, `ReturnPaused`, `ResumeRefused`): in the instance of `plans` TLC finds
  `halt = "no" => service # "faulted"` violated after 22 steps, and with `MaxParallel = 1` after 18.
* A service that ends uncertain under a *completed* run cannot be reconciled
  (repository.cpp:4389).
* Graph pauses test for operation states `proposed` and `approved` that no code stores
  and omit `ready` (:631, :651, :2645).
* Granting full access over more than 256 waiting proposals throws (:4252); the access
  revision stops at 2^53-1 (:4205).
* A proposal that full access readied and a later access change invalidated is left
  `ready` until its run ends (permission_waiter.cpp:34); when a trusted decision throws,
  its proposal is left awaiting (:10).
* A graph that was answered while it is being stopped is retired with
  `graph_service_shutdown`; a deadline between a pause's commit and the loop's next read
  fails the pause.
* `terminate_agent_worker` refuses while an operation executes (repository.cpp:4064). A worker that
  dies during an edit makes `supervise` rethrow (agent_worker_read_executor.cpp:300), so the
  job of the run faults; so does a run that completes between the read at :287 and the exit. The
  run is then settled by recovery (`TerminationRefused`, `Restart`).
* A generation that replaces one whose tool turn was never committed can neither reserve nor
  dispatch (`TurnsCommitted`): nothing is repeated, and the run cannot go on.
* Planners that wait for queue capacity of the child pool hold their threads.
* A renewal thread whose look or abandon meets a full queue gives up, and a claim whose
  answer is lost is never abandoned (mcp_oauth_credentials.cpp:63): the unsettled receipt
  then refuses every new root (`refresh_admission`) and every quiescence until the next
  process. A retirement without a target (repository.cpp:3183) closes the database for
  good: nothing can bootstrap from it.

## 6. What is proved

For all constants that satisfy the named assumptions (`RunsAssumption`,
`OpsAssumption`, `RevisionAssumption`: the functions have the obvious domains):

| Theorem | Statement |
|---|---|
| `TypeCorrect` | `Spec => []TypeOK` |
| `EffectsAreExclusive` | `Spec => []EffectExclusion` |
| `DynamicPausesAreQuiescent` | `Spec => []DynamicPauseIsQuiescent` |
| `EndedRunsAreSettled` | `Spec => []EndedRunIsSettled` |
| `FullAccessNeverPrompts` | `Spec => []FullAccessLeavesNoPrompt` |
| `JournalImplementsLedger` | `Spec => ImplementsEffectLedger` |
| `RevocationIsFinal` | `HistorySpec => []RevokedApprovalNeverDispatches` |
| `WaiterTypeCorrect` | `WaiterSpec => []WaiterTypeOK` |
| `CallsAgreeWithJournal` | `WaiterSpec => []WaiterAgreesWithJournal` |
| `WaiterImplementsJournal`, `WaiterImplementsLedger` | `WaiterSpec => Spec`, `WaiterSpec => ImplementsEffectLedger` |
| `OwnerTypeCorrect` | `OwnerSpec => []OwnerTypeOK` |
| `OwnersAreExclusive` | `OwnerSpec => []OwnersExclude` |
| `SpentTokensAreFenced` | `OwnerSpec => []SpentTokenIsFenced` |
| `WorkerTypeCorrect` | `WorkerSpec => []WorkerTypeOK` |
| `NothingIsEverReplayed` | `WorkerSpec => []NothingIsReplayed` |
| `EveryEndedRootIsSettled` | `WorkerSpec => []EndedRootIsSettled` |
| `RetiredLeasesGainOnlyFacts` | `WorkerSpec => RetiredGainsOnlyFacts` |
| `WorldsTyped` | `MCSpec => []WorldsTypeOK`, the worlds of `MCOperationJournal` |
| `ServiceTypeCorrect` | `Spec => []TypeOK` of `AgentService`, the queue's limit included |
| `UnfinishedRunsAreOwned` | `Spec => []UnfinishedRunIsOwned` |
| `AnswersFollowPauses` | `Spec => []AnswerFollowsPause` |
| `PausesOutliveTheService` | `Spec => OnlyUsersCancelPauses` |
| `InboxTypeCorrect` | `InboxSpec => []InboxTypeOK` |
| `NoInputIsEverLostOrRepeated` | `InboxSpec => []NoInputIsLostOrRepeated` |
| `ServicesTyped` | `ServicesSpec => []ServicesTypeOK`, both services of `MCServices` |
| `RootWorkTyped` | `Spec => []TypeOK` of `RootWorkExecutor`, the queue's capacity included |
| `WorkEndsOnce` | `Spec => []WorkIsOverOnce` |
| `CloseIsComplete` | `Spec => []CloseLeavesNothing` |
| `PoolCountsExactly` | `PoolSpec => []CountersAreExact` |
| `PoolClosesDrained` | `PoolSpec => []ClosedPoolIsDrained` |
| `PoolsTyped`, `PoolsCloseDrained` | `PoolsSpec => []PoolsTypeOK`, `PoolsSpec => []ClosedPoolsAreDrained`, both pools of `MCPools` |
| `RootWorkImplementsLedger`, `PoolImplementsLedger` | `Spec => RootLedger!Spec`, `PoolSpec => ChildLedger!Spec` |
| `PoolsKeepPromises` | `PoolsSpec => PoolsImplementLedger` |
| `GraphTypeCorrect` | `GraphSpec => []GraphTypeOK` |
| `PausesAreAdoptable` | `GraphSpec => []PausesCanBeAdopted` |
| `GraphPausesOutliveTheService` | `GraphSpec => OnlyUsersCancelGraphPauses` |
| `GraphsHaveOneOwner` | `GraphSpec => []GraphHasOneOwner`, if `NestedNodes = {}` |
| `AnswersAreNotLost` | `GraphSpec => []AnsweredGraphIsWoken`, if `NestedNodes = {}` |
| `PlanTypeCorrect` | `Spec => []TypeOK` of `DynamicPlans`, the limit on leaf slots included |
| `OwnersRunOnce` | `Spec => []OneThreadPerOwner` |
| `ChildrenEndBeforeRoots` | `Spec => []ChildrenEndFirst` |
| `ClaimsStayTracked` | `Spec => []ClaimsAreTracked` |
| `PausesAreDrained` | `Spec => []PauseIsDrained` |
| `PlansTyped` | `PlansSpec => []PlansTypeOK`, plans and graphs of `MCPlans` |
| `OneOwnerForEach` | `PlansSpec => []OneOwnerEach`, if `NestedNodes = {}` |

The argument. Each of the journal's invariants is inductive together with
`TypeOK`: `EffectExclusion` because a claim demands that no rival is executing *or*
uncertain and no other step turns an operation into a blocking one;
`DynamicPauseIsQuiescent` because proposals and claims require a running owner;
`EndedRunIsSettled` because every way to end a run cancels its waiting proposals or
requires that it has none. The refinement takes the transactions one by one:
recovery is `Interrupt(H, V)` for the executing and waiting operations of the
interrupted runs, ending a run is `Void`, a late claim or decision is `Void` of
one effect, the rest are their namesakes or stuttering.
`RevokedApprovalNeverDispatches` is not inductive: nothing in it says why the claim
of a revoked approval fails. `HistoryInv` adds `RevisionsTellRevocation` (an
approval's revision is never above the session's, and strictly below it once
revoked), which is what `claim_operation`'s comparison relies on.

`BackendOwner`. `OwnersExclude` is inductive beside `OwnerTypeOK`: each of the three
admissions (start of a root, claim of a renewal, closing of the database) reads what the
other two have saved in the transaction that saves its own, so the content of the queue
does not matter. `SpentTokenIsFenced` needs more, `TokenInv`: `RenewalInv` says that at
most one receipt fences the credential, at the stored revision, and that a renewal
whose token has left is past `prepared`; `ThreadInv` says that the queue holds one
request of each waiting thread and no other, and that a thread free to send has
a dispatched receipt, so that no late request can undo a settled one. The assumptions are `LimitAssumption` (the queue holds something),
`BoundAssumption` (bounds are naturals) and `ThreadAssumption` (the kinds of thread are disjoint).

`AgentWorkers`, for any number of leases and model calls (`WorkerAssumption`: both
bounds are naturals). `NothingIsReplayed` needs to know what the threads may still do:
`ThreadsOwnClaims` says that a thread works on a claim of its own generation and has not
sent, or written, before its program counter says so, and `UnclaimedIsUntouched` that
what nobody claimed was never done; a claim is never taken back, so nothing is done
again (`ReplayInv`). The other two rest on `WorkerInv`, which adds `LeasesInOrder` (at most
one lease is active, and a retired one has no claim that is still dispatching),
`CallsArePaid` (a claim has a reservation of its own process or of the backend, and a
call that is closed has its answer) and `CompletedCallsAreClosed`. It is the last two that rule out
the case a test would hardly hit: a provider's answer that asks for a tool and
arrives after the run was completed. `LeasesInOrder` is why a retired process that
goes on finds at most an `uncertain` claim of its own to answer.

`AgentService`, for any runs, callers and capacity (`ServiceAssumption`). What the four
results need is that nobody touches a run that a worker holds: cancellation, expiry,
answers and the sweep of close() look at the job's phase and never at the worker.
`HandsAreWorking` supplies the link: a run in a worker's hands is in phase working, so
each of their guards excludes it. The sweep does not test the phase; there
`ClosingIsFinal` helps: once close() has begun no task is claimed, so no worker has a run
that it collected. `WorkersAlone` says that a run has either a worker, or a
task or place in the queue, and bounds what a fault may stage again.

`SessionInbox`, for any sessions, prompts, clients, limit and window
(`InboxAssumption`; the prompts are finitely many). A claim comes from a row that is queued, hence
from one without a run: `InputRunsOnce` is inductive. That no session is lost
needs `ErasesInVain`: between the read that found nothing and the erasure, what can be
found there was brought by a client that has not announced it yet or has moved the generation.
Two lemmas carry it: a claim keeps its row's place in the window (`ClaimHides`), and a
cancellation moves a waiting row into the window only if the cancelled one was in it
(`CancelReveals`), so neither makes the dispatcher's read obsolete. What the theorem leaves out is what
`inbox_window` shows: a prompt beyond the window is in nobody's reach.

`PermissionWaiter`. The theorems are about `WaiterSpec`; `MCWaiter` runs the same steps from a
state in which the second session has changed its access as often as the bound allows. Neither half of
`WaiterAgreesWithJournal` is inductive: whether a call that is told "denied" may believe it depends
on what the journal could do between its read and its next one. `WaiterInv` says, for
every program counter, what the call still knows (`Known`): until it claims,
its operation is waiting or void, because nobody else claims for it; once it holds, the operation
is executing until it records. Every step of the calls, crash and recovery
included, is a step of `OperationJournal` (`WaiterStepsJournal`). So `WaiterSpec` implements
the journal's `Spec`: every theorem about the journal holds while calls wait, retry and
crash, and through `JournalImplementsLedger` so does the effect ledger.

`RootWorkExecutor`, for any jobs, at least one worker and any capacity
(`CapacityAssumption`, `NoJobAssumption`). `RootWorkInv` ties the four pieces of state
together that the code keeps under one mutex: the queue holds exactly the staged and ready jobs, each
once (`QueueHoldsWaiting`); a running job, and a retired one without a result, is
in exactly one worker's hands (`WorkersHoldJobs`, `StartedJobsAreHeld`); a worker has
returned only when nothing can come any more (`ClosingIsOrdered`). That a close leaves nothing follows:
all workers have returned, so no one holds a job and the queue is empty.

`NativeChildExecutor`, for any finite tree of children (`PoolAssumption`; at least one worker).
`PoolInv` is `CountersAreExact` with `PlacesAreBounded` (queued and reserved
places stay within the bound together), `BatchesAreWhole` (a batch is staged as a whole, so
the reservation given back by a withdrawn batch is the number of its children),
`PromisesAreKept` and `ClosingWaits`. The proof is about cardinalities: each step moves one
child, or one batch, in or out of the set that a counter counts.

Both pools implement `WorkLedger`. What is staged, ready or queued is "accepted"; a child
is "running" from the moment a thread takes it until its action returns, however often it
gives its slot back meanwhile. The owner of a job settles on it when the destructor of an
attached ticket returns (one that detached never does), the owner of a batch when it has
joined it; the door is drained when `close()` returns. A step of a pool is first shown to
move one job or child in one of a few ways (`JobMoves`, `ChildMoves`, `OwnerMoves`), which
are then those of the ledger. For the jobs `RootWorkInv` is enough: it has `WorkIsOverOnce`,
that a result is final and that a destructor which returned leaves a retired job. The
children need `JoinInv`: a future is ready only when the action is over, children leave a
staged batch only together, and an owner past its batch has no child under way
(`JoinedIsOver`). The last must be kept for owners that are children themselves, and that
end and retire after their join.

`GraphService`, for any graphs, nodes, queues and limits (`GraphAssumption`). One of its
assumptions is new: dependencies have no cycle, stated as "every nonempty set of nodes has
a member that needs none of them". The code throws on a cycle before a graph is accepted
(graph.cpp:164). Without it a pause might have nodes that wait for each other, no
next step and nothing to answer, and `PausesCanBeAdopted` would be false. `GraphInv`
has `GraphPlaces`, the part of `GraphHasOneOwner` that holds of every graph,
`PausesCanBeAdopted`, and, if no nested invocation asks a person, `QueuedOnce`
and `AnsweredGraphIsWoken`. That hypothesis cannot go: the answer to a nested node that is
committed and cannot be read (`HumanInputUnread`) leaves the entry it reserved,
and a later answer adds another; this is the case section 5 and the hazard at
graph_service.cpp:306 describe.

`DynamicPlans`, for any trees of plans (`TreesAssumption`). Beside the disjoint kinds of
node it assumes that plans nest in finite depth ("of every nonempty set of planners one is
owned from outside it"): the code stores a nested plan one level deeper than its
parent's (dynamic_plan_executor.cpp:286) and refuses a ninth level. Without it two planners could
wait for each other below no root, and every theorem about the root would miss them.

`PlanInv` has thirteen parts. Downwards, `JobsAreClaimed`: whoever has a future is
claimed by a thread that is at work; since nesting is finite, work anywhere
means that the root itself is at work with a child in flight (`NobodyBelow`). That is
all `ChildrenEndFirst` needs beside `RootAgrees`. `JobsMatchRuns` ties each future to its
row, so that a future may be believed without reading the row again. `SlotsAreHeld` says who has a leaf
slot: a child that works, or one whose row has ended and that gives its slot back. Under a
pause nobody works (`HoldersRun`), which leaves the second kind: `PausesAreDrained` says so, and no more,
because the pool may free a slot after the pause.

The pause is the hard part: one registered owner commits for all of them, in a
transaction that trusts a snapshot of the registrations and never looks at leaf slots. `WaitersWait` says that while no result
and no error is there, every owner in the snapshot still polls, or unwinds without children
because the root is halted, or has ended. From this and from `WaitsHold` and
`NothingElseLives`, which the transaction checks, follows that each owner above the waits has a
thread (`ChainIsAtWork`), and that a thread that does not wait is above one that does
(`AboveTheWaits`): so no thread is left that would go on. `PauseIsClosed` keeps that until the last
thread is gone: the threads above the waits still have a child in flight whose future says
"paused" or throws, so none of them reports, admits or takes a child up. `ClaimsAreKept`
is the other half: a claim without a future outlives only a pause, and the budget of
the resumed root names every owner between the root and a waiting plan
(`MayResume`); the mutant that names only the waiting ones loses the middle of a chain.

Queues. Work is withdrawn from the middle of a queue by `Without`, a recursive function over the
positions. `WorkQueues_proofs` shows what it returns (its members, that it is
no longer, and that no member comes twice) by an induction over sets of naturals
(`NatSetInduction`), since the library's induction theorems take an operator.

Several worlds side by side: a behaviour of `PoolsSpec`, `ServicesSpec` or `PlansSpec` is one of the
two, beside a final state of the other, so the invariants of both parts hold of it. The worlds of
`MCOperationJournal` begin each in a state of its own; `WorldsAssumption` says that the
names these states use are there.

Only model-checked: all liveness, since leads-to under fairness is not
within the prover's reach. The violated claims of section 5 are counterexamples of TLC.

## 7. Plan, and what is not modelled

Next, in this order:

1. The model-call ledger of `AgentRunner` (repository.cpp:2235-2300: reserve, start,
   finish, recovery) under the planners of `DynamicPlans`.
2. The rest of `AgentWorkers`: process and remote tools, delegated and planning owners, the paused
   hand-off, context overflow.
3. Delegation batches; MCP input requests;
   remote commands.
4. An abstract owner of roots that `AgentService` and `GraphService` both implement, as both
   pools implement `WorkLedger`.

Not modelled: those of the list above; permission grants and decision policies; context
compaction; MCP wire protocol, A2A and HTTP clients. Not planned: provider streams, HTTP
routing, views, text and path algorithms. Their difficulty lies in formats and
I/O, which these models would abstract away. The rules by which a plan or a graph is
validated before it is accepted are pure functions of their input and are taken as
given.
