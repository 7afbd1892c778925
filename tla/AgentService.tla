------------------------------ MODULE AgentService ------------------------------
(***************************************************************************)
(* The owner of root agent runs (Native/src/agent_service.cpp), with the   *)
(* shared workers of ExecutionPlatform.                                    *)
(*                                                                         *)
(* A controller submits a run; the service enters it in its table and      *)
(* commits a task for it; a worker claims the task and runs the agent,     *)
(* which ends or, in a dynamic run, pauses on a question to a person; the  *)
(* worker then settles what it observed.  An answer wakes the run.  Users  *)
(* cancel, questions expire, faults stop everything, the service closes,   *)
(* and a new process adopts the pauses its predecessor left.               *)
(*                                                                         *)
(* A step is one critical section of Impl::mutex, with the repository      *)
(* transactions made under it, or one step of a thread that does not hold  *)
(* it.  RootWorkExecutor says how a committed task finds its worker.       *)
(***************************************************************************)
EXTENDS Naturals, FiniteSets

CONSTANTS
    Runs,
    DynamicRuns,    \* runs whose agent may ask a person and pause
    Callers,        \* threads that deliver answers
    Continuations,  \* those that deliver them as A2A messages
    AnswerTo,       \* AnswerTo[c]: the run that caller c answers
    Capacity,       \* the service's limit
    Workers,        \* its worker count; the shared executor has as many threads
    MaxRestarts     \* bound on the number of processes that follow the first

ASSUME ServiceAssumption ==
    /\ DynamicRuns \subseteq Runs
    /\ Continuations \subseteq Callers
    /\ AnswerTo \in [Callers -> Runs]
    /\ Capacity \in Nat \ {0} /\ Workers \in Nat \ {0}
    /\ MaxRestarts \in Nat

VARIABLES
    run,        \* run[r]: state of the runs row
    asking,     \* runs whose plan has an unanswered question
    runnable,   \* runs one of whose waiting plans has a ready node or report
    phase,      \* phase[r]: Job::phase, "none" when r is not in Impl::active
    pending,    \* Impl::pending
    task,       \* task[r]: the executor's job for r
    runner,     \* runner[r]: where the worker that executes r is
    cancelling, \* jobs with user_cancel
    stop,       \* jobs whose stop token was triggered
    stopDue,    \* jobs that a thread will stop as soon as it has left the mutex
    caller,     \* caller[c]: where the call of plan_input is
    accepting,
    faulted,
    closer,     \* how far close() got; "refused": the constructor threw
    sweep,      \* the jobs close() saw queued
    stopping,   \* the jobs close() will stop
    asked,      \* history: runs whose cancellation this process accepted
    restarts

durable == <<run, asking, runnable>>
table == <<phase, pending, task>>
tokens == <<cancelling, stop, asked>>
service == <<accepting, faulted, closer, sweep, stopping, restarts>>
vars == <<durable, table, runner, tokens, stopDue, caller, service>>

RunStates == {"absent", "queued", "running", "paused", "completed", "failed", "cancelled"}
Terminal == {"completed", "failed", "cancelled"}

TypeOK ==
    /\ run \in [Runs -> RunStates]
    /\ asking \subseteq DynamicRuns /\ runnable \subseteq DynamicRuns
    /\ phase \in [Runs -> {"none", "queued", "working", "waiting", "faulted"}]
    /\ pending \subseteq Runs /\ Cardinality(pending) <= Capacity
    /\ task \in [Runs -> {"none", "staged", "ready", "taken"}]
    /\ runner \in [Runs -> {"none", "claimed", "executing", "returned", "unavailable",
                            "failing", "marked"}]
    /\ cancelling \subseteq asked /\ asked \subseteq Runs
    /\ stop \subseteq Runs /\ stopDue \subseteq Runs
    /\ sweep \subseteq Runs /\ stopping \subseteq Runs
    /\ caller \in [Callers -> {"idle", "asleep", "notified"}]
    /\ accepting \in BOOLEAN /\ faulted \in BOOLEAN
    /\ closer \in {"open", "sweeping", "notifying", "joining", "closed", "refused"}
    /\ restarts \in 0..MaxRestarts

Init ==
    /\ run = [r \in Runs |-> "absent"]
    /\ asking = {} /\ runnable = {}
    /\ phase = [r \in Runs |-> "none"]
    /\ pending = {}
    /\ task = [r \in Runs |-> "none"]
    /\ runner = [r \in Runs |-> "none"]
    /\ cancelling = {} /\ stop = {} /\ asked = {} /\ stopDue = {}
    /\ caller = [c \in Callers |-> "idle"]
    /\ accepting = TRUE /\ faulted = FALSE
    /\ closer = "open" /\ sweep = {} /\ stopping = {} /\ restarts = 0

--------------------------------------------------------------------------------
(* The table *)

Active == {r \in Runs : phase[r] # "none"}
InPhase(p) == {r \in Runs : phase[r] = p}

\* The result of changed.notify_all(): only callers wait on it.
Notified == [c \in Callers |-> IF caller[c] = "asleep" THEN "notified" ELSE caller[c]]

\* Destroying a detached or staged ticket withdraws a task that no worker took.
Dropped(J) ==
    [r \in Runs |-> IF r \in J /\ task[r] \in {"staged", "ready"} THEN "none" ELSE task[r]]

\* remove_ticket, with the phase the job is left in.
Park(J, p) ==
    /\ phase' = [r \in Runs |-> IF r \in J THEN p ELSE phase[r]]
    /\ pending' = pending \ J
    /\ task' = Dropped(J)

\* remove_ticket and active.erase
Erase(J) == Park(J, "none")

\* Mutant of Enqueue: the wake is reserved and never published.
EnqueueStaged(r) ==
    /\ r \in pending \/ Cardinality(pending) < Capacity
    /\ phase' = [phase EXCEPT ![r] = "queued"]
    /\ pending' = pending \cup {r}
    /\ task' = IF r \in pending THEN task ELSE [task EXCEPT ![r] = "staged"]

\* reserve_wake, queued and publish_locked: the task is staged and committed
\* before the mutex is released.
Enqueue(r) ==
    /\ r \in pending \/ Cardinality(pending) < Capacity
    /\ phase' = [phase EXCEPT ![r] = "queued"]
    /\ pending' = pending \cup {r}
    /\ task' = IF r \in pending THEN task ELSE [task EXCEPT ![r] = "ready"]

\* fault_locked.  A queued wake keeps its closed pause; a job in reserved has a
\* wake that was staged and not published.
FaultLocked(reserved) ==
    LET kept == {r \in InPhase("queued") \ cancelling : run[r] = "paused"} IN
    /\ faulted' = TRUE /\ accepting' = FALSE
    /\ phase' = [r \in Runs |-> IF r \in kept THEN "waiting" ELSE phase[r]]
    /\ pending' = (pending \ kept) \cup reserved
    /\ task' = [r \in Runs |-> IF r \in reserved THEN "staged" ELSE Dropped(kept)[r]]
    /\ stopDue' = stopDue \cup Active
    /\ caller' = Notified
    /\ UNCHANGED <<closer, sweep, stopping, restarts>>

Running == closer \notin {"closed", "refused"}
Available == Running /\ accepting /\ ~faulted

--------------------------------------------------------------------------------
(* Controllers *)

Submit(r) ==
    /\ run[r] = "absent" /\ Available
    /\ Cardinality(Active) < Capacity + Workers
    /\ Cardinality(pending) + Cardinality(InPhase("waiting")) < Capacity
    /\ run' = [run EXCEPT ![r] = "queued"]
    /\ Enqueue(r)
    /\ UNCHANGED <<asking, runnable, runner, tokens, stopDue, caller, service>>

\* A job that a worker executes is only marked: the worker settles it.
Cancel(r) ==
    /\ Running /\ ~faulted
    /\ phase[r] # "none" /\ r \notin asked
    /\ \/ /\ phase[r] = "working"
          /\ cancelling' = cancelling \cup {r}
          /\ UNCHANGED <<durable, table>>
       \/ /\ phase[r] # "working" /\ run[r] \in {"queued", "paused"}
          /\ run' = [run EXCEPT ![r] = "cancelled"]
          /\ Erase({r})
          /\ UNCHANGED <<asking, runnable, cancelling>>
    /\ asked' = asked \cup {r}
    /\ stopDue' = stopDue \cup {r}
    /\ UNCHANGED <<runner, stop, caller, service>>

\* request_stop and notify_all come after the mutex is released.
StopJob(r) ==
    /\ r \in stopDue
    /\ stop' = stop \cup {r}
    /\ stopDue' = stopDue \ {r}
    /\ caller' = Notified
    /\ UNCHANGED <<durable, table, runner, cancelling, asked, service>>

\* resume_plan
Resume(r) ==
    /\ Available
    /\ phase[r] = "waiting" /\ r \notin stop
    /\ run[r] = "paused" /\ r \in runnable
    /\ Enqueue(r)
    /\ UNCHANGED <<durable, runner, tokens, stopDue, caller, service>>

--------------------------------------------------------------------------------
(* plan_input and continue_a2a_task *)

\* An accepted answer leaves another question, a ready node, or both; a repeated
\* one changes nothing.
Answered(r) ==
    \/ /\ r \in asking
       /\ \E more, ready \in BOOLEAN :
            /\ more \/ ready
            /\ asking' = IF more THEN asking ELSE asking \ {r}
            /\ runnable' = IF ready THEN runnable \cup {r} ELSE runnable
    \/ /\ r \in runnable \ asking
       /\ UNCHANGED <<asking, runnable>>

\* What the caller does once no worker owns the run: it reserves a wake, commits
\* the answer, and publishes the wake if the plan can go on.
Answer(c, r) ==
    /\ c \in Continuations => phase[r] = "waiting"
    /\ run[r] = "paused"
    /\ r \in pending \/ Cardinality(pending) < Capacity
    /\ Answered(r)
    /\ IF phase[r] = "waiting"
         THEN IF r \in runnable' THEN Enqueue(r) ELSE Park({r}, "waiting")
         ELSE UNCHANGED table
    /\ caller' = [Notified EXCEPT ![c] = "idle"]
    /\ UNCHANGED <<run, runner, tokens, stopDue, service>>

\* The answer is committed and the service cannot read the plan it changed: it
\* faults, and a wake that this call reserved stays reserved.
AnswerUnobserved(c, r) ==
    /\ c \in Continuations => phase[r] = "waiting"
    /\ run[r] = "paused"
    /\ r \in pending \/ Cardinality(pending) < Capacity
    /\ Answered(r)
    /\ FaultLocked({r} \ pending)
    /\ UNCHANGED <<run, runner, tokens>>

\* Mutant of MustWait: the answer does not wait for the worker that paused.
NeedNotWait(r) == FALSE

\* The pause is committed before the worker has returned: the answer must wait.
MustWait(r) == phase[r] = "working"

\* A call that finds its run owned, not being cancelled and in a worker's hands
\* sleeps until that changes.
InputWaits(c) ==
    LET r == AnswerTo[c] IN
    /\ caller[c] = "idle" /\ Available
    /\ phase[r] \notin {"none", "faulted"} /\ r \notin cancelling \cup stop
    /\ MustWait(r)
    /\ caller' = [caller EXCEPT ![c] = "asleep"]
    /\ UNCHANGED <<durable, table, runner, tokens, stopDue, service>>

InputNow(c) ==
    LET r == AnswerTo[c] IN
    /\ caller[c] = "idle" /\ Available
    /\ phase[r] \notin {"none", "faulted"} /\ r \notin cancelling \cup stop
    /\ ~MustWait(r)
    /\ Answer(c, r) \/ AnswerUnobserved(c, r)

\* The condition of the wait in plan_input.
MayGoOn(r) == phase[r] # "working" \/ ~accepting \/ faulted

InputSleepsOn(c) ==
    /\ caller[c] = "notified" /\ Running
    /\ ~MayGoOn(AnswerTo[c])
    /\ caller' = [caller EXCEPT ![c] = "asleep"]
    /\ UNCHANGED <<durable, table, runner, tokens, stopDue, service>>

InputGoesOn(c) ==
    LET r == AnswerTo[c] IN
    /\ caller[c] = "notified" /\ Available
    /\ phase[r] = "waiting"
    /\ Answer(c, r) \/ AnswerUnobserved(c, r)

\* The owner stopped or did not settle into a pause, or the answer is rejected:
\* it is late, names an old revision, or finds the wake queue full.
InputFails(c) ==
    LET r == AnswerTo[c] IN
    /\ caller[c] = "notified" /\ MayGoOn(r)
    /\ caller' = [caller EXCEPT ![c] = "idle"]
    /\ UNCHANGED <<durable, table, runner, tokens, stopDue, service>>

--------------------------------------------------------------------------------
(* Workers *)

Busy == {r \in Runs : task[r] = "taken" \/ runner[r] # "none"}

\* A worker of the shared executor takes a committed task.
Take(r) ==
    /\ task[r] = "ready"
    /\ Cardinality(Busy) < Workers
    /\ task' = [task EXCEPT ![r] = "taken"]
    /\ UNCHANGED <<durable, phase, pending, runner, tokens, stopDue, caller, service>>

\* The task's first critical section: it looks again before it becomes the owner.
Claim(r) ==
    /\ task[r] = "taken"
    /\ task' = [task EXCEPT ![r] = "none"]
    /\ IF accepting /\ phase[r] = "queued"
         THEN /\ pending' = pending \ {r}
              /\ phase' = [phase EXCEPT ![r] = "working"]
              /\ runner' = [runner EXCEPT ![r] = "claimed"]
         ELSE UNCHANGED <<pending, phase, runner>>
    /\ UNCHANGED <<durable, tokens, stopDue, caller, service>>

\* Mutant of BeginStopped: a stopped wake retires the pause.
BeginStoppedRetires(r) ==
    /\ runner[r] = "claimed" /\ r \in stop
    /\ run' = [run EXCEPT ![r] = "cancelled"]
    /\ runner' = [runner EXCEPT ![r] = "returned"]
    /\ UNCHANGED <<asking, runnable, table, tokens, stopDue, caller, service>>

\* AgentRunner::execute on a stopped token: a fresh run is cancelled, a pause is
\* returned as it is.
BeginStopped(r) ==
    /\ runner[r] = "claimed" /\ r \in stop
    /\ run' = [run EXCEPT ![r] = IF run[r] = "queued" THEN "cancelled" ELSE run[r]]
    /\ runner' = [runner EXCEPT ![r] = "returned"]
    /\ UNCHANGED <<asking, runnable, table, tokens, stopDue, caller, service>>

\* A pause is resumed only if one of its waiting plans can go on.
Begin(r) ==
    /\ runner[r] = "claimed" /\ r \notin stop
    /\ run[r] = "paused" => r \in runnable
    /\ run' = [run EXCEPT ![r] = "running"]
    /\ runner' = [runner EXCEPT ![r] = "executing"]
    /\ UNCHANGED <<asking, runnable, table, tokens, stopDue, caller, service>>

\* The paused plan no longer matches the service's configuration.
BeginUnavailable(r) ==
    /\ runner[r] = "claimed" /\ r \notin stop /\ run[r] = "paused"
    /\ runner' = [runner EXCEPT ![r] = "unavailable"]
    /\ UNCHANGED <<durable, table, tokens, stopDue, caller, service>>

End(r, state) ==
    /\ runner[r] = "executing"
    /\ state = "cancelled" => r \in stop
    /\ run' = [run EXCEPT ![r] = state]
    /\ runner' = [runner EXCEPT ![r] = "returned"]
    /\ UNCHANGED <<asking, runnable, table, tokens, stopDue, caller, service>>

\* Mutant of Pause: any run may ask a person.
PausePlain(r) ==
    /\ runner[r] = "executing"
    /\ run' = [run EXCEPT ![r] = "paused"]
    /\ asking' = asking \cup {r}
    /\ runnable' = runnable \ {r}
    /\ runner' = [runner EXCEPT ![r] = "returned"]
    /\ UNCHANGED <<table, tokens, stopDue, caller, service>>

\* suspend_dynamic_owner: only questions are left in the plan.
Pause(r) ==
    /\ runner[r] = "executing" /\ r \in DynamicRuns
    /\ run' = [run EXCEPT ![r] = "paused"]
    /\ asking' = asking \cup {r}
    /\ runnable' = runnable \ {r}
    /\ runner' = [runner EXCEPT ![r] = "returned"]
    /\ UNCHANGED <<table, tokens, stopDue, caller, service>>

\* The runner throws, the Conflict of resume_dynamic_owner among the rest: what it did
\* is left to the journal.
RunnerFails(r) ==
    /\ runner[r] \in {"claimed", "executing"}
    /\ runner' = [runner EXCEPT ![r] = "failing"]
    /\ UNCHANGED <<durable, table, tokens, stopDue, caller, service>>

SettleTerminal(r) ==
    /\ runner[r] = "returned" /\ run[r] \in Terminal
    /\ Erase({r})
    /\ runner' = [runner EXCEPT ![r] = "none"]
    /\ caller' = Notified
    /\ UNCHANGED <<durable, tokens, stopDue, service>>

\* retire_waiting; nobody is notified.
SettleCancelled(r) ==
    /\ runner[r] \in {"returned", "unavailable"} /\ run[r] = "paused"
    /\ r \in cancelling
    /\ run' = [run EXCEPT ![r] = "cancelled"]
    /\ Erase({r})
    /\ runner' = [runner EXCEPT ![r] = "none"]
    /\ UNCHANGED <<asking, runnable, tokens, stopDue, caller, service>>

\* Mutant of SettleStopped: the stop is looked at before the user's wish.
SettleStoppedFirst(r) ==
    /\ runner[r] = "returned" /\ run[r] = "paused"
    /\ ~accepting \/ r \in stop
    /\ Park({r}, "waiting")
    /\ runner' = [runner EXCEPT ![r] = "none"]
    /\ UNCHANGED <<durable, tokens, stopDue, caller, service>>

\* A shutdown or a fault came after the pause was committed: the pause is kept.
SettleStopped(r) ==
    /\ runner[r] = "returned" /\ run[r] = "paused"
    /\ r \notin cancelling /\ (~accepting \/ r \in stop)
    /\ Park({r}, "waiting")
    /\ runner' = [runner EXCEPT ![r] = "none"]
    /\ UNCHANGED <<durable, tokens, stopDue, caller, service>>

\* The service looks at the root's own plan.  After a nested pause that is not one of the
\* waiting plans, and a ready node of it queues the run that nobody has answered.
SettlePaused(r) ==
    /\ runner[r] = "returned" /\ run[r] = "paused"
    /\ r \notin cancelling /\ accepting /\ r \notin stop
    /\ Enqueue(r) \/ (r \notin runnable /\ Park({r}, "waiting"))
    /\ runner' = [runner EXCEPT ![r] = "none"]
    /\ caller' = Notified
    /\ UNCHANGED <<durable, tokens, stopDue, service>>

\* The wake of a plan that is not available: the pause stays with its owner.
SettleUnavailable(r) ==
    /\ runner[r] = "unavailable" /\ r \notin cancelling
    /\ Park({r}, "waiting")
    /\ runner' = [runner EXCEPT ![r] = "none"]
    /\ caller' = Notified
    /\ UNCHANGED <<durable, tokens, stopDue, service>>

\* A failed execution is quarantined in one critical section, and fails the
\* service in the next.
MarkFaulted(r) ==
    /\ runner[r] = "failing"
    /\ Park({r}, "faulted")
    /\ runner' = [runner EXCEPT ![r] = "marked"]
    /\ UNCHANGED <<durable, tokens, stopDue, caller, service>>

FailService(r) ==
    /\ runner[r] = "marked"
    /\ runner' = [runner EXCEPT ![r] = "none"]
    /\ FaultLocked({})
    /\ UNCHANGED <<durable, tokens>>

\* The child executor is unhealthy, or the expiry thread could not read a plan.
ServiceFails ==
    /\ Available
    /\ FaultLocked({})
    /\ UNCHANGED <<durable, runner, tokens>>

\* Mutant of ExpireWaiting: it looks at the journal, not at the owner.
ExpirePaused(r) ==
    /\ accepting /\ Running
    /\ phase[r] # "none" /\ run[r] = "paused" /\ r \in asking
    /\ run' = [run EXCEPT ![r] = "failed"]
    /\ Erase({r})
    /\ UNCHANGED <<asking, runnable, runner, tokens, stopDue, caller, service>>

\* The expiry thread: a question of a waiting run has passed its deadline.
ExpireWaiting(r) ==
    /\ accepting /\ Running
    /\ phase[r] = "waiting" /\ run[r] = "paused" /\ r \in asking
    /\ run' = [run EXCEPT ![r] = "failed"]
    /\ Erase({r})
    /\ UNCHANGED <<asking, runnable, runner, tokens, stopDue, caller, service>>

--------------------------------------------------------------------------------
(* close() and the next process *)

CloseAdmission ==
    /\ closer = "open"
    /\ closer' = "sweeping" /\ accepting' = FALSE
    /\ sweep' = InPhase("queued")
    /\ Park({r \in InPhase("queued") : run[r] = "paused"}, "waiting")
    /\ stopping' = {r \in InPhase("queued") \cup InPhase("working") : run[r] # "paused"}
    /\ UNCHANGED <<durable, runner, tokens, stopDue, caller, faulted, restarts>>

\* What was accepted and never dispatched is cancelled.
CloseSweep ==
    /\ closer = "sweeping"
    /\ closer' = "notifying"
    /\ run' = [r \in Runs |->
                IF r \in sweep \cap Active /\ run[r] = "queued" THEN "cancelled" ELSE run[r]]
    /\ Erase(sweep \cap Active)
    /\ stopDue' = stopDue \cup stopping
    /\ UNCHANGED <<asking, runnable, runner, tokens, caller, accepting, faulted,
                   sweep, stopping, restarts>>

CloseNotify ==
    /\ closer = "notifying" /\ stopDue \cap stopping = {}
    /\ closer' = "joining"
    /\ caller' = Notified
    /\ UNCHANGED <<durable, table, runner, tokens, stopDue, accepting, faulted, sweep,
                   stopping, restarts>>

\* close() waits for the result of every task it ever staged.
CloseJoin ==
    /\ closer = "joining"
    /\ \A r \in Runs : task[r] = "none" /\ runner[r] = "none"
    /\ closer' = "closed"
    /\ UNCHANGED <<durable, table, runner, tokens, stopDue, caller, accepting, faulted,
                   sweep, stopping, restarts>>

\* A process starts after a close or a crash.  recover_interrupted fails what
\* was queued or running and keeps clean pauses; the constructor adopts these.
Restart ==
    /\ restarts < MaxRestarts
    /\ restarts' = restarts + 1
    /\ \E kept \in SUBSET {r \in Runs : run[r] = "paused"} :
        LET adopted == IF Cardinality(kept) <= Capacity THEN kept ELSE {} IN
        /\ run' = [r \in Runs |->
                    IF run[r] \in {"queued", "running"} \/ (run[r] = "paused" /\ r \notin kept)
                    THEN "failed" ELSE run[r]]
        /\ asking' = asking \cap kept /\ runnable' = runnable \cap kept
        /\ phase' = [r \in Runs |-> IF r \in adopted THEN "waiting" ELSE "none"]
        /\ closer' = IF adopted = kept THEN "open" ELSE "refused"
    /\ pending' = {}
    /\ task' = [r \in Runs |-> "none"]
    /\ runner' = [r \in Runs |-> "none"]
    /\ cancelling' = {} /\ stop' = {} /\ asked' = {} /\ stopDue' = {}
    /\ sweep' = {} /\ stopping' = {}
    /\ caller' = [c \in Callers |-> "idle"]
    /\ accepting' = TRUE /\ faulted' = FALSE

--------------------------------------------------------------------------------

Controller(r) == Submit(r) \/ Cancel(r) \/ Resume(r)

Input(c) == InputSleepsOn(c) \/ InputGoesOn(c) \/ InputFails(c)

Execute(r) ==
    \/ BeginStopped(r) \/ Begin(r) \/ BeginUnavailable(r)
    \/ \E state \in Terminal : End(r, state)
    \/ Pause(r) \/ RunnerFails(r)

Settle(r) ==
    \/ SettleTerminal(r) \/ SettleCancelled(r) \/ SettleStopped(r)
    \/ SettlePaused(r) \/ SettleUnavailable(r)
    \/ MarkFaulted(r) \/ FailService(r)

Close == CloseSweep \/ CloseNotify \/ CloseJoin

Next ==
    \/ \E r \in Runs :
        \/ Controller(r) \/ StopJob(r) \/ ExpireWaiting(r)
        \/ Take(r) \/ Claim(r) \/ Execute(r) \/ Settle(r)
    \/ \E c \in Callers : InputWaits(c) \/ InputNow(c) \/ Input(c)
    \/ ServiceFails
    \/ CloseAdmission \/ Close
    \/ Restart

\* Threads run once started, the executor takes tasks in order, and a run's time
\* limit ends it.  Nobody has to submit, answer, cancel, close or restart.
Fairness ==
    /\ \A r \in Runs :
        /\ SF_vars(Take(r))
        /\ WF_vars(Claim(r) \/ Execute(r) \/ Settle(r))
        /\ WF_vars(StopJob(r))
    /\ \A c \in Callers : WF_vars(Input(c))
    /\ WF_vars(Close)

Spec == Init /\ [][Next]_vars /\ Fairness

--------------------------------------------------------------------------------
(* Properties *)

\* While the service is open every unfinished run is in its table, and a run
\* that an agent executes is nobody else's: no answer, cancellation, expiry,
\* fault or shutdown ends it or gives it to a second worker.
UnfinishedRunIsOwned ==
    \A r \in Runs :
        /\ closer = "open" /\ run[r] \in {"queued", "running", "paused"} => phase[r] # "none"
        /\ runner[r] = "executing" => run[r] = "running" /\ phase[r] = "working"
        /\ runner[r] # "none" => task[r] = "none" /\ r \notin pending

\* No answer overtakes the worker that paused: when it settles, no waiting plan can
\* go on.  The comment at agent_service.cpp:551-554 says why; those at :85, :255 and
\* :569 speak of an answer that commits in between, which :555-556 keeps out.
AnswerFollowsPause ==
    \A r \in Runs : runner[r] = "returned" /\ run[r] = "paused" /\ r \notin stop
        => r \notin runnable

\* Only a user's cancellation ends a pause as cancelled: shutdowns, faults and
\* the stops they send keep it for the next process
\* (doc/native-a2a-streaming.md:15 tells of the failure).
OnlyUsersCancelPauses ==
    [][\A r \in Runs : run[r] = "paused" /\ run'[r] = "cancelled" => r \in asked']_vars

\* A queued run does not stay queued, whoever else keeps the workers busy, unless
\* the service faults.
QueuedRunLeavesQueue == \A r \in Runs : []<>(phase[r] # "queued" \/ faulted)

\* A cancellation that was accepted ends the run, unless the service faults or
\* the process dies first.
CancellationEnds == []<>(faulted \/ \A r \in asked : run[r] \in Terminal)

\* A call that waits for the owner to settle returns when it has
\* (agent_service.cpp:553: "Let that physical owner finish its pause boundary").
InputReturns == \A c \in Callers : caller[c] = "asleep" ~> caller[c] = "idle"

\* Closing the service joins its workers (doc/native-graph-service.md:53).
CloseReturns == closer = "sweeping" ~> closer = "closed"

\* The pauses that a service admitted can be adopted by the next one
\* (doc/native-dynamic-plan.md:218).
PausesAreAdopted == closer # "refused"

================================================================================
