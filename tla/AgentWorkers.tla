------------------------------ MODULE AgentWorkers ------------------------------
(***************************************************************************)
(* A root run that a worker process executes.                              *)
(*                                                                         *)
(* The backend starts a process for the root and records a lease, one      *)
(* generation for each process.  The process plans the run's next step and *)
(* asks the backend to do it: the backend calls the model and the tools in *)
(* threads of its own, keeps a claim of every call and of every result,    *)
(* and checks the lease again at every call.  What is claimed is never     *)
(* claimed again, so a call whose result is lost is not repeated, neither  *)
(* by this process nor by the next.                                        *)
(*                                                                         *)
(* A process may die at any step and its host threads go on without it.    *)
(* The supervisor then shuts the channel, waits for the exit and ends the  *)
(* run, if no effect is still executing.                                   *)
(*                                                                         *)
(* A model answer asks for at most one tool: a read, or an edit of a file. *)
(* Left out: whether a result reports success, why an operation was        *)
(* refused, an answer no message can be made of (its call stays open, like *)
(* one whose answer was lost), and rejections for a full context.          *)
(* A call is named by its number, in the order of the reservations, and a  *)
(* tool call and its native operation by the model call that asked for it. *)
(***************************************************************************)
EXTENDS Naturals, FiniteSets

CONSTANTS
    MaxLeases,      \* bound on the processes ever started for the root
    MaxCalls        \* the root's allowance of model calls

ASSUME WorkerAssumption == MaxLeases \in Nat /\ MaxCalls \in Nat

VARIABLES
    task,       \* state of the run
    lease,      \* lease[g]: state of the lease of generation g
    call,       \* call[a]: the reservation of model call a, who paid for it,
                \*    and how many leases there were
    claim,      \* claim[a]: what the backend did with a, for which generation
    tool,       \* tool[a]: the claim of the tool call that a's answer asks for
    effect,     \* effect[a]: the native operation of that tool call
    bound,      \* tool calls that may have changed a file: the operation is theirs
    turns,      \* answers whose tool turn is in the conversation
    alive,      \* processes that run
    watch,      \* watch[g]: how far the supervisor of g is
    exchange,   \* exchange[g]: the thread that calls the model for g
    dispatch,   \* dispatch[g]: the thread that calls tools for g
    sends,      \* history: how often a was sent to the provider
    writes      \* history: how often the tool call of a wrote its file

workerVars == <<task, lease, call, claim, tool, effect, bound, turns, alive, watch,
                exchange, dispatch, sends, writes>>

Generations == 1..MaxLeases
Calls == 1..MaxCalls
Backend == 0                    \* the payer of a call the backend reserved itself
NoCall == 0

Replies == {"stop", "read", "edit"}
ToolReplies == {"read", "edit"}
Ended == {"completed", "failed", "cancelled"}

NoThread == [of |-> NoCall, pc |-> "idle"]
ExchangeStates == {"idle", "claimed", "sent"}
DispatchStates == {"idle", "claimed", "reading", "started", "asking", "granted", "bound",
                   "written", "saving"}

WorkerTypeOK ==
    /\ task \in {"queued", "running"} \union Ended
    /\ lease \in [Generations -> {"none", "active", "retired"}]
    /\ call \in [Calls -> [state : {"none", "reserved", "started", "finished", "interrupted"},
                           by : {Backend} \union Generations, leases : 0..MaxLeases]]
    /\ claim \in [Calls -> [state : {"none", "dispatching", "responded", "uncertain"},
                            by : {Backend} \union Generations, reply : Replies]]
    /\ tool \in [Calls -> {"none", "awaiting", "executing", "returned", "uncertain"}]
    /\ effect \in [Calls -> {"none", "awaiting", "executing", "succeeded", "failed",
                             "uncertain", "refused"}]
    /\ bound \subseteq Calls /\ turns \subseteq Calls
    /\ alive \subseteq Generations
    /\ watch \in [Generations -> {"none", "serving", "draining", "closed", "done",
                                  "faulted", "lost"}]
    /\ exchange \in [Generations -> [of : {NoCall} \union Calls, pc : ExchangeStates]]
    /\ dispatch \in [Generations -> [of : {NoCall} \union Calls, pc : DispatchStates]]
    /\ sends \in [Calls -> Nat] /\ writes \in [Calls -> Nat]

WorkerInit ==
    /\ task = "queued"
    /\ lease = [g \in Generations |-> "none"]
    /\ call = [a \in Calls |-> [state |-> "none", by |-> Backend, leases |-> 0]]
    /\ claim = [a \in Calls |-> [state |-> "none", by |-> Backend, reply |-> "stop"]]
    /\ tool = [a \in Calls |-> "none"]
    /\ effect = [a \in Calls |-> "none"]
    /\ bound = {} /\ turns = {} /\ alive = {}
    /\ watch = [g \in Generations |-> "none"]
    /\ exchange = [g \in Generations |-> NoThread]
    /\ dispatch = [g \in Generations |-> NoThread]
    /\ sends = [a \in Calls |-> 0] /\ writes = [a \in Calls |-> 0]

--------------------------------------------------------------------------------
(* The checks that every request of a worker runs again *)

Leased == {g \in Generations : lease[g] # "none"}
Newest(g) == g = Cardinality(Leased)

\* Mutant of CurrentScope: the lease is looked up, not whether it was retired.
ScopeOfAnyLease(g) == lease[g] # "none" /\ Newest(g) /\ task = "running"

CurrentScope(g) == lease[g] = "active" /\ Newest(g) /\ task = "running"
QueuedScope(g) == lease[g] = "active" /\ Newest(g) /\ task \in {"queued", "running"}

Responded(a) == claim[a].state = "responded"
RespondedTo(g, a) == Responded(a) /\ claim[a].by = g
AsksForTool(a) == Responded(a) /\ claim[a].reply \in ToolReplies

\* Every answer that asks for a tool, whichever process it was for, is in the
\* conversation with the tool's result.
TurnsCommitted == \A a \in Calls : AsksForTool(a) => a \in turns

Reserved(a) == call[a].state # "none"
Latest(a) == Reserved(a) /\ \A b \in Calls : b > a => ~Reserved(b)

\* A tool is called for the newest answer, and only when its model call is closed.
ToolAuthority(g, a) ==
    /\ CurrentScope(g)
    /\ RespondedTo(g, a) /\ AsksForTool(a)
    /\ call[a].state = "finished" /\ Latest(a)

\* retire_worker: nobody knows what became of the calls under way.
Retired(g) ==
    /\ lease' = [lease EXCEPT ![g] = "retired"]
    /\ claim' = [a \in Calls |-> IF claim[a].by = g /\ claim[a].state = "dispatching"
                                   THEN [claim[a] EXCEPT !.state = "uncertain"] ELSE claim[a]]
    /\ tool' = [a \in Calls |->
                  IF claim[a].by = g /\ tool[a] \in {"awaiting", "executing"}
                    THEN "uncertain" ELSE tool[a]]

--------------------------------------------------------------------------------
(* Requests of the worker process *)

Begin(g) ==
    /\ g \in alive /\ QueuedScope(g) /\ task = "queued"
    /\ task' = "running"
    /\ UNCHANGED <<lease, call, claim, tool, effect, bound, turns, alive, watch, exchange,
                   dispatch, sends, writes>>

\* A worker pays for its call under its lease; the backend may also pay.
Authorized(w) == w = Backend \/ (w \in alive /\ CurrentScope(w) /\ TurnsCommitted)

ReserveCall(w, a) ==
    /\ Authorized(w) /\ task = "running"
    /\ ~Reserved(a) /\ \A b \in Calls : b < a => Reserved(b)
    /\ call' = [call EXCEPT ![a] = [state |-> "reserved", by |-> w,
                                    leases |-> Cardinality(Leased)]]
    /\ UNCHANGED <<task, lease, claim, tool, effect, bound, turns, alive, watch, exchange,
                   dispatch, sends, writes>>

StartCall(w, a) ==
    /\ Authorized(w) /\ task = "running"
    /\ call[a].state = "reserved" /\ call[a].by = w
    /\ call' = [call EXCEPT ![a].state = "started"]
    /\ UNCHANGED <<task, lease, claim, tool, effect, bound, turns, alive, watch, exchange,
                   dispatch, sends, writes>>

\* The receipt of the call is the message that the backend made of the answer.
FinishCall(g, a) ==
    /\ g \in alive /\ CurrentScope(g) /\ RespondedTo(g, a)
    /\ call[a].state = "started"
    /\ call' = [call EXCEPT ![a].state = "finished"]
    /\ UNCHANGED <<task, lease, claim, tool, effect, bound, turns, alive, watch, exchange,
                   dispatch, sends, writes>>

CommitTurn(g, a) ==
    /\ g \in alive /\ ToolAuthority(g, a)
    /\ tool[a] = "returned" /\ a \notin turns
    /\ turns' = turns \union {a}
    /\ UNCHANGED <<task, lease, call, claim, tool, effect, bound, alive, watch, exchange,
                   dispatch, sends, writes>>

\* The answer ends the run: nothing it asked for is open, and every call is closed.
FinalAnswer(g, a) ==
    /\ RespondedTo(g, a) /\ claim[a].reply = "stop"
    /\ TurnsCommitted
    /\ \A b \in Calls : tool[b] \in {"none", "returned"}
    /\ \A b \in Calls : call[b].state \in {"none", "finished"}
    /\ Latest(a) /\ Reserved(a)

CompleteTask(g, a) ==
    /\ g \in alive /\ CurrentScope(g) /\ FinalAnswer(g, a)
    /\ \A b \in Calls : effect[b] \notin {"awaiting", "executing", "uncertain"}
    /\ task' = "completed"
    /\ Retired(g)
    /\ UNCHANGED <<call, effect, bound, turns, alive, watch, exchange, dispatch, sends,
                   writes>>

--------------------------------------------------------------------------------
(* The thread that calls the model: AgentWorkerModelHost::complete *)

\* Paid for under this lease, or by the backend since the lease was there.
OwnFunding(g, a) == call[a].by = g \/ (call[a].by = Backend /\ g <= call[a].leases)

\* Mutant of Unclaimed: a call whose answer was lost may be sent once more.
UnansweredSoFar(a) == claim[a].state # "responded"

Unclaimed(a) == claim[a].state = "none"

ClaimModel(g, a) ==
    /\ g \in alive /\ exchange[g] = NoThread
    /\ CurrentScope(g) /\ TurnsCommitted /\ OwnFunding(g, a)
    /\ call[a].state = "started" /\ Unclaimed(a)
    /\ claim' = [claim EXCEPT ![a] = [state |-> "dispatching", by |-> g, reply |-> "stop"]]
    /\ exchange' = [exchange EXCEPT ![g] = [of |-> a, pc |-> "claimed"]]
    /\ UNCHANGED <<task, lease, call, tool, effect, bound, turns, alive, watch, dispatch,
                   sends, writes>>

SendToProvider(g) ==
    LET a == exchange[g].of IN
    /\ exchange[g].pc = "claimed"
    /\ sends' = [sends EXCEPT ![a] = @ + 1]
    /\ exchange' = [exchange EXCEPT ![g].pc = "sent"]
    /\ UNCHANGED <<task, lease, call, claim, tool, effect, bound, turns, alive, watch,
                   dispatch, writes>>

\* The answer is a fact whatever became of the lease.
RecordAnswer(g, reply) ==
    LET a == exchange[g].of IN
    /\ exchange[g].pc = "sent"
    /\ claim[a].state \in {"dispatching", "uncertain"}
    /\ claim' = [claim EXCEPT ![a].state = "responded", ![a].reply = reply]
    /\ exchange' = [exchange EXCEPT ![g] = NoThread]
    /\ UNCHANGED <<task, lease, call, tool, effect, bound, turns, alive, watch, dispatch,
                   sends, writes>>

\* Cancelled, out of time or failed: the provider may have seen the call or not.
InterruptModel(g) ==
    LET a == exchange[g].of IN
    /\ exchange[g].pc \in {"claimed", "sent"}
    /\ claim[a].state \in {"dispatching", "uncertain"}
    /\ claim' = [claim EXCEPT ![a].state = "uncertain"]
    /\ exchange' = [exchange EXCEPT ![g] = NoThread]
    /\ UNCHANGED <<task, lease, call, tool, effect, bound, turns, alive, watch, dispatch,
                   sends, writes>>

\* Neither could be recorded.
LoseAnswer(g) ==
    /\ exchange[g].pc \in {"claimed", "sent"}
    /\ exchange' = [exchange EXCEPT ![g] = NoThread]
    /\ UNCHANGED <<task, lease, call, claim, tool, effect, bound, turns, alive, watch,
                   dispatch, sends, writes>>

--------------------------------------------------------------------------------
(* The thread that calls a tool: AgentWorkerReadHost and AgentWorkerFileHost *)

\* The thread of g stands at one of pcs, for call a.
At(g, a, pcs) == dispatch[g].of = a /\ dispatch[g].pc \in pcs
GoesTo(g, pc) == dispatch' = [dispatch EXCEPT ![g].pc = pc]
Leaves(g) == dispatch' = [dispatch EXCEPT ![g] = NoThread]

ClaimTool(g, a) ==
    /\ g \in alive /\ dispatch[g] = NoThread
    /\ ToolAuthority(g, a) /\ tool[a] = "none"
    /\ tool' = [tool EXCEPT ![a] = "awaiting"]
    /\ dispatch' = [dispatch EXCEPT ![g] = [of |-> a, pc |-> "claimed"]]
    /\ UNCHANGED <<task, lease, call, claim, effect, bound, turns, alive, watch, exchange,
                   sends, writes>>

StartTool(g, a) ==
    /\ At(g, a, {"claimed"})
    /\ ToolAuthority(g, a) /\ tool[a] = "awaiting"
    /\ tool' = [tool EXCEPT ![a] = "executing"]
    /\ GoesTo(g, IF claim[a].reply = "read" THEN "reading" ELSE "started")
    /\ UNCHANGED <<task, lease, call, claim, effect, bound, turns, alive, watch, exchange,
                   sends, writes>>

\* A read that may not start returns a failure.  An edit leaves its claim behind.
RefuseStart(g, a) ==
    /\ At(g, a, {"claimed"})
    /\ IF claim[a].reply = "read" THEN GoesTo(g, "saving") ELSE Leaves(g)
    /\ UNCHANGED <<task, lease, call, claim, tool, effect, bound, turns, alive, watch,
                   exchange, sends, writes>>

FinishRead(g, a) ==
    /\ At(g, a, {"reading"})
    /\ GoesTo(g, "saving")
    /\ UNCHANGED <<task, lease, call, claim, tool, effect, bound, turns, alive, watch,
                   exchange, sends, writes>>

\* The edit proposes an operation and waits for its answer.
AskForEdit(g, a) ==
    /\ At(g, a, {"started"}) /\ task = "running"
    /\ effect' = [effect EXCEPT ![a] = "awaiting"]
    /\ GoesTo(g, "asking")
    /\ UNCHANGED <<task, lease, call, claim, tool, bound, turns, alive, watch, exchange,
                   sends, writes>>

\* Bad arguments, a changed file, a denied path, an ended run: nothing is proposed.
RejectEdit(g, a) ==
    /\ At(g, a, {"started"})
    /\ GoesTo(g, "saving")
    /\ UNCHANGED <<task, lease, call, claim, tool, effect, bound, turns, alive, watch,
                   exchange, sends, writes>>

\* Approved and claimed, in one step: how that happens is in PermissionWaiter.
GrantEdit(g, a) ==
    /\ At(g, a, {"asking"})
    /\ effect[a] = "awaiting" /\ task = "running"
    /\ effect' = [effect EXCEPT ![a] = "executing"]
    /\ GoesTo(g, "granted")
    /\ UNCHANGED <<task, lease, call, claim, tool, bound, turns, alive, watch, exchange,
                   sends, writes>>

\* Refused, out of time, stopped, or withdrawn with the run.
RefuseEdit(g, a) ==
    /\ At(g, a, {"asking"})
    /\ effect[a] \in {"awaiting", "refused"}
    /\ effect' = [effect EXCEPT ![a] = "refused"]
    /\ GoesTo(g, "saving")
    /\ UNCHANGED <<task, lease, call, claim, tool, bound, turns, alive, watch, exchange,
                   sends, writes>>

\* The last check before the file changes.
BindEffect(g, a) ==
    /\ At(g, a, {"granted"})
    /\ ToolAuthority(g, a) /\ tool[a] = "executing" /\ effect[a] = "executing"
    /\ bound' = bound \union {a}
    /\ GoesTo(g, "bound")
    /\ UNCHANGED <<task, lease, call, claim, tool, effect, turns, alive, watch, exchange,
                   sends, writes>>

WriteFile(g, a) ==
    /\ At(g, a, {"bound"})
    /\ writes' = [writes EXCEPT ![a] = @ + 1]
    /\ GoesTo(g, "written")
    /\ UNCHANGED <<task, lease, call, claim, tool, effect, bound, turns, alive, watch,
                   exchange, sends>>

\* The operation ends: as failed before the file changed, as succeeded after.
FinishEdit(g, a) ==
    /\ At(g, a, {"granted", "bound", "written"}) /\ effect[a] = "executing"
    /\ effect' = [effect EXCEPT ![a] = IF At(g, a, {"written"}) THEN "succeeded" ELSE "failed"]
    /\ GoesTo(g, "saving")
    /\ UNCHANGED <<task, lease, call, claim, tool, bound, turns, alive, watch, exchange,
                   sends, writes>>

\* The file may or may not have changed, or the journal takes no outcome: the
\* thread gives up and the claim stays open.
GiveUpEdit(g, a, outcome) ==
    /\ At(g, a, {"bound", "written"}) /\ effect[a] = "executing"
    /\ effect' = [effect EXCEPT ![a] = outcome]
    /\ Leaves(g)
    /\ UNCHANGED <<task, lease, call, claim, tool, bound, turns, alive, watch, exchange,
                   sends, writes>>

\* The result is a fact whatever became of the lease.
SaveResult(g, a) ==
    /\ At(g, a, {"saving"}) /\ tool[a] \in {"awaiting", "executing", "uncertain"}
    /\ a \in bound => effect[a] \in {"succeeded", "failed"}
    /\ tool' = [tool EXCEPT ![a] = "returned"]
    /\ Leaves(g)
    /\ UNCHANGED <<task, lease, call, claim, effect, bound, turns, alive, watch, exchange,
                   sends, writes>>

LoseResult(g, a) ==
    /\ At(g, a, {"saving"})
    /\ Leaves(g)
    /\ UNCHANGED <<task, lease, call, claim, tool, effect, bound, turns, alive, watch,
                   exchange, sends, writes>>

--------------------------------------------------------------------------------
(* The supervisor of a process *)

Launch(g) ==
    /\ watch[g] = "none" /\ g = Cardinality(Leased) + 1
    /\ \A h \in Generations : lease[h] # "active"
    /\ task \in {"queued", "running"}
    /\ lease' = [lease EXCEPT ![g] = "active"]
    /\ alive' = alive \union {g}
    /\ watch' = [watch EXCEPT ![g] = "serving"]
    /\ UNCHANGED <<task, call, claim, tool, effect, bound, turns, exchange, dispatch,
                   sends, writes>>

Exit(g) ==
    /\ g \in alive
    /\ alive' = alive \ {g}
    /\ UNCHANGED <<task, lease, call, claim, tool, effect, bound, turns, watch, exchange,
                   dispatch, sends, writes>>

\* execute() came back.  A completed run needs nothing but the exit; a lease that
\* no longer holds is an error of the supervisor, which then only waits for it.
Drain(g) ==
    /\ watch[g] = "serving"
    /\ \/ task = "completed" /\ watch' = [watch EXCEPT ![g] = "done"]
       \/ task # "completed" /\ QueuedScope(g) /\ watch' = [watch EXCEPT ![g] = "draining"]
       \/ task # "completed" /\ ~QueuedScope(g) /\ watch' = [watch EXCEPT ![g] = "faulted"]
    /\ alive' = IF watch'[g] = "draining" THEN alive ELSE alive \ {g}
    /\ UNCHANGED <<task, lease, call, claim, tool, effect, bound, turns, exchange,
                   dispatch, sends, writes>>

\* The channel is shut and the exit of the process was seen.
SeeExit(g) ==
    /\ watch[g] = "draining"
    /\ watch' = [watch EXCEPT ![g] = "closed"]
    /\ alive' = alive \ {g}
    /\ UNCHANGED <<task, lease, call, claim, tool, effect, bound, turns, exchange,
                   dispatch, sends, writes>>

NothingExecutes == \A a \in Calls : effect[a] # "executing"

\* Mutant of CallsInterrupted: a call that was started is taken for finished.
ReservedInterrupted ==
    [a \in Calls |-> IF call[a].state = "reserved"
                       THEN [call[a] EXCEPT !.state = "interrupted"] ELSE call[a]]

CallsInterrupted ==
    [a \in Calls |-> IF call[a].state \in {"reserved", "started"}
                       THEN [call[a] EXCEPT !.state = "interrupted"] ELSE call[a]]
ProposalsWithdrawn == [a \in Calls |-> IF effect[a] = "awaiting" THEN "refused" ELSE effect[a]]

Terminate(g, outcome) ==
    /\ watch[g] = "closed" /\ QueuedScope(g) /\ NothingExecutes
    /\ task' = outcome
    /\ effect' = ProposalsWithdrawn
    /\ call' = CallsInterrupted
    /\ Retired(g)
    /\ watch' = [watch EXCEPT ![g] = "done"]
    /\ UNCHANGED <<bound, turns, alive, exchange, dispatch, sends, writes>>

\* An operation is still executing, or the run completed or lost this lease
\* before its process was gone.
TerminationRefused(g) ==
    /\ watch[g] = "closed" /\ ~(QueuedScope(g) /\ NothingExecutes)
    /\ watch' = [watch EXCEPT ![g] = "faulted"]
    /\ UNCHANGED <<task, lease, call, claim, tool, effect, bound, turns, alive, exchange,
                   dispatch, sends, writes>>

\* Any holder of the journal may retire a lease, with its process alive or not.
RetireByHand(g) ==
    /\ lease[g] = "active" /\ g < MaxLeases         \* bound: another lease may follow
    /\ Retired(g)
    /\ UNCHANGED <<task, call, effect, bound, turns, alive, watch, exchange, dispatch,
                   sends, writes>>

\* The backend dies with its threads; the next one recovers before it serves.
Restart ==
    /\ alive' = {}
    /\ exchange' = [g \in Generations |-> NoThread]
    /\ dispatch' = [g \in Generations |-> NoThread]
    /\ watch' = [g \in Generations |-> IF watch[g] \in {"serving", "draining", "closed"}
                                         THEN "lost" ELSE watch[g]]
    /\ IF task \in Ended THEN UNCHANGED <<task, effect>>
       ELSE /\ task' = "failed"
            /\ effect' = [a \in Calls |-> IF effect[a] = "executing" THEN "uncertain"
                                            ELSE ProposalsWithdrawn[a]]
    /\ call' = CallsInterrupted
    /\ IF \E g \in Generations : lease[g] = "active"
         THEN \E g \in Generations : lease[g] = "active" /\ Retired(g)
         ELSE UNCHANGED <<lease, claim, tool>>
    /\ UNCHANGED <<bound, turns, sends, writes>>

--------------------------------------------------------------------------------
(* The system *)

ProcessStep(g) ==
    \/ Begin(g)
    \/ \E a \in Calls : \/ ReserveCall(g, a) \/ StartCall(g, a) \/ FinishCall(g, a)
                         \/ CommitTurn(g, a) \/ CompleteTask(g, a)
                         \/ ClaimModel(g, a) \/ ClaimTool(g, a)

BackendPays == \E a \in Calls : ReserveCall(Backend, a) \/ StartCall(Backend, a)

ModelThread(g) ==
    \/ SendToProvider(g) \/ InterruptModel(g) \/ LoseAnswer(g)
    \/ \E reply \in Replies : RecordAnswer(g, reply)

ToolThread(g) ==
    \E a \in Calls :
        \/ StartTool(g, a) \/ RefuseStart(g, a)
        \/ FinishRead(g, a) \/ AskForEdit(g, a) \/ RejectEdit(g, a)
        \/ GrantEdit(g, a) \/ RefuseEdit(g, a)
        \/ BindEffect(g, a) \/ WriteFile(g, a) \/ FinishEdit(g, a)
        \/ \E outcome \in {"uncertain", "executing"} : GiveUpEdit(g, a, outcome)
        \/ SaveResult(g, a) \/ LoseResult(g, a)

Supervisor(g) ==
    \/ Launch(g) \/ Drain(g) \/ SeeExit(g) \/ TerminationRefused(g)
    \/ \E outcome \in {"failed", "cancelled"} : Terminate(g, outcome)

WorkerNext ==
    \/ \E g \in Generations : \/ ProcessStep(g) \/ ModelThread(g) \/ ToolThread(g)
                               \/ Supervisor(g) \/ Exit(g) \/ RetireByHand(g)
    \/ BackendPays
    \/ Restart

WorkerSpec == WorkerInit /\ [][WorkerNext]_workerVars

--------------------------------------------------------------------------------
(* Properties *)

\* A model call reaches the provider at most once and a tool call writes its file
\* at most once, whichever processes and backends come and go.
\* repository.cpp, claim_agent_worker_model: "no retry is authorized".
NothingIsReplayed == \A a \in Calls : sends[a] <= 1 /\ writes[a] <= 1

\* What was done under g may become better known, and nothing else changes for it.
OnlyFactsOf(g) ==
    /\ lease'[g] = "retired"
    /\ \A a \in Calls :
        /\ claim'[a].by = g => claim'[a] = claim[a]
                               \/ (claim[a].by = g /\ claim[a].state = "uncertain"
                                    /\ claim'[a].state = "responded")
        /\ claim[a].by = g => tool'[a] = tool[a] \/ (tool[a] = "uncertain"
                                                       /\ tool'[a] = "returned")
        /\ call'[a].by = g => call'[a] = call[a] \/ call'[a].state = "interrupted"
        /\ a \in bound' \ bound => claim[a].by # g
        /\ a \in turns' \ turns => claim[a].by # g

\* A retired lease pays for nothing, starts nothing, changes no file and commits no
\* turn, although its process and its threads may go on: only an answer or a
\* result that was under way is still recorded.
RetiredGainsOnlyFacts ==
    [][\A g \in Generations : lease[g] = "retired" => OnlyFactsOf(g)]_workerVars

\* A run that ended owns no lease, no open model call and no operation that can
\* still change the workspace.  If it completed, every tool it asked for answered,
\* and its conversation holds every answer.
EndedRootIsSettled ==
    task \in Ended =>
        /\ \A g \in Generations : lease[g] # "active"
        /\ \A a \in Calls : /\ call[a].state \notin {"reserved", "started"}
                             /\ effect[a] \notin {"awaiting", "executing"}
        /\ task = "completed" =>
            \A a \in Calls : /\ tool[a] \in {"none", "returned"}
                             /\ effect[a] # "uncertain"
                             /\ AsksForTool(a) => a \in turns

================================================================================
