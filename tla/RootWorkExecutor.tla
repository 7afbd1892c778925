---------------------------- MODULE RootWorkExecutor ----------------------------
(***************************************************************************)
(* The worker threads that all services share                              *)
(* (Native/include/agentflow/root_work_executor.hpp).                      *)
(*                                                                         *)
(* A service stages a job before its admission transaction, commits it     *)
(* after the transaction and, usually, detaches the ticket.  Workers take  *)
(* jobs in the order they were staged, so a staged job at the head holds   *)
(* back the committed ones behind it.  Destroying a ticket withdraws a job *)
(* that has not started or waits for one that has; closing the executor    *)
(* withdraws the staged jobs, stops the others and joins the workers.      *)
(*                                                                         *)
(* A step is one critical section of State::mutex.  Condition variables    *)
(* are modelled: a worker that found nothing to do sleeps until notified.  *)
(***************************************************************************)
EXTENDS WorkQueues

CONSTANTS
    Jobs,
    Workers,
    Capacity,   \* of the queue
    NoJob       \* what a worker without a job holds

ASSUME CapacityAssumption == Capacity \in Nat \ {0} /\ Workers # {}

ASSUME NoJobAssumption == NoJob \notin Jobs

VARIABLES
    phase,      \* phase[j]: Job::phase, "new" before stage
    queue,      \* State::queue
    result,     \* result[j]: what the job's promise holds
    stopped,    \* jobs whose stop token was triggered
    ticket,     \* ticket[j]: the Ticket of job j
    worker,     \* worker[w]: what thread w is doing
    job,        \* job[w]: the job it does it with
    accepting,
    closer      \* how far close() got

vars == <<phase, queue, result, stopped, ticket, worker, job, accepting, closer>>

\* held: drain_ is true.  draining: ~Ticket waits for the result.  released: a
\* detached ticket was destroyed; gone: any other was.
TicketStates == {"none", "held", "detached", "draining", "released", "gone"}

TypeOK ==
    /\ phase \in [Jobs -> {"new", "staged", "ready", "running", "retired"}]
    /\ queue \in Seq(Jobs) /\ Len(queue) <= Capacity
    /\ result \in [Jobs -> {"pending", "withdrawn", "done"}]
    /\ stopped \subseteq Jobs
    /\ ticket \in [Jobs -> TicketStates]
    /\ worker \in [Workers -> {"awake", "asleep", "acting", "publishing", "exited"}]
    /\ job \in [Workers -> Jobs \cup {NoJob}]
    /\ accepting \in BOOLEAN
    /\ closer \in {"open", "stopping", "joining", "closed"}

Init ==
    /\ phase = [j \in Jobs |-> "new"]
    /\ queue = <<>>
    /\ result = [j \in Jobs |-> "pending"]
    /\ stopped = {}
    /\ ticket = [j \in Jobs |-> "none"]
    /\ worker = [w \in Workers |-> "awake"]
    /\ job = [w \in Workers |-> NoJob]
    /\ accepting = TRUE
    /\ closer = "open"

\* The result of changed.notify_all() on State::changed.
Notified == [w \in Workers |-> IF worker[w] = "asleep" THEN "awake" ELSE worker[w]]

Withdraw(J) ==
    /\ phase' = [j \in Jobs |-> IF j \in J THEN "retired" ELSE phase[j]]
    /\ result' = [j \in Jobs |-> IF j \in J THEN "withdrawn" ELSE result[j]]
    /\ queue' = Without(queue, J)

--------------------------------------------------------------------------------
(* Service threads *)

\* Mutant of Stage: the limit is off by one.
StageOneMore(j) ==
    /\ phase[j] = "new"
    /\ accepting /\ Len(queue) <= Capacity
    /\ phase' = [phase EXCEPT ![j] = "staged"]
    /\ queue' = Append(queue, j)
    /\ ticket' = [ticket EXCEPT ![j] = "held"]
    /\ UNCHANGED <<result, stopped, worker, job, accepting, closer>>

Stage(j) ==
    /\ phase[j] = "new"
    /\ accepting /\ Len(queue) < Capacity
    /\ phase' = [phase EXCEPT ![j] = "staged"]
    /\ queue' = Append(queue, j)
    /\ ticket' = [ticket EXCEPT ![j] = "held"]
    /\ UNCHANGED <<result, stopped, worker, job, accepting, closer>>

\* stage() throws after it made the ticket, whose destructor retires the job.
StageRefused(j) ==
    /\ phase[j] = "new"
    /\ ~accepting \/ Len(queue) >= Capacity
    /\ Withdraw({j})
    /\ ticket' = [ticket EXCEPT ![j] = "gone"]
    /\ stopped' = stopped \cup {j}
    /\ worker' = Notified
    /\ UNCHANGED <<job, accepting, closer>>

\* Mutant of Commit: nobody is told that the job is ready.
CommitQuietly(j) ==
    /\ ticket[j] = "held"
    /\ accepting /\ phase[j] = "staged"
    /\ phase' = [phase EXCEPT ![j] = "ready"]
    /\ UNCHANGED <<queue, result, stopped, ticket, worker, job, accepting, closer>>

Commit(j) ==
    /\ ticket[j] = "held"
    /\ accepting /\ phase[j] = "staged"
    /\ phase' = [phase EXCEPT ![j] = "ready"]
    /\ worker' = Notified
    /\ UNCHANGED <<queue, result, stopped, ticket, job, accepting, closer>>

Detach(j) ==
    /\ ticket[j] = "held" /\ phase[j] # "staged"
    /\ ticket' = [ticket EXCEPT ![j] = "detached"]
    /\ UNCHANGED <<phase, queue, result, stopped, worker, job, accepting, closer>>

RequestStop(j) ==
    /\ ticket[j] \in {"held", "detached"} /\ j \notin stopped
    /\ stopped' = stopped \cup {j}
    /\ UNCHANGED <<phase, queue, result, ticket, worker, job, accepting, closer>>

Withdrawable(j) == phase[j] = "staged" \/ (ticket[j] = "detached" /\ phase[j] = "ready")

\* Mutant of DestroyTicket: the destructor does not wait for a running job.
DestroyWithoutDrain(j) ==
    /\ ticket[j] \in {"held", "detached"}
    /\ stopped' = IF ticket[j] = "held" THEN stopped \cup {j} ELSE stopped
    /\ IF Withdrawable(j) THEN Withdraw({j}) ELSE UNCHANGED <<phase, queue, result>>
    /\ ticket' = [ticket EXCEPT ![j] = IF ticket[j] = "detached" THEN "released" ELSE "gone"]
    /\ worker' = Notified
    /\ UNCHANGED <<job, accepting, closer>>

\* ~Ticket: notify_all comes after the lock, and before the wait.
DestroyTicket(j) ==
    /\ ticket[j] \in {"held", "detached"}
    /\ stopped' = IF ticket[j] = "held" THEN stopped \cup {j} ELSE stopped
    /\ IF Withdrawable(j) THEN Withdraw({j}) ELSE UNCHANGED <<phase, queue, result>>
    /\ ticket' = [ticket EXCEPT ![j] =
                    CASE ticket[j] = "detached" -> "released"
                      [] phase[j] \in {"ready", "running"} -> "draining"
                      [] OTHER -> "gone"]
    /\ worker' = Notified
    /\ UNCHANGED <<job, accepting, closer>>

Drained(j) ==
    /\ ticket[j] = "draining" /\ result[j] # "pending"
    /\ ticket' = [ticket EXCEPT ![j] = "gone"]
    /\ UNCHANGED <<phase, queue, result, stopped, worker, job, accepting, closer>>

--------------------------------------------------------------------------------
(* Worker threads *)

HeadReady == queue # <<>> /\ phase[Head(queue)] = "ready"
NothingLeft == ~accepting /\ queue = <<>>

Sleep(w) ==
    /\ worker[w] = "awake"
    /\ ~HeadReady /\ ~NothingLeft
    /\ worker' = [worker EXCEPT ![w] = "asleep"]
    /\ UNCHANGED <<phase, queue, result, stopped, ticket, job, accepting, closer>>

Take(w) ==
    /\ worker[w] = "awake" /\ HeadReady
    /\ phase' = [phase EXCEPT ![Head(queue)] = "running"]
    /\ queue' = Tail(queue)
    /\ worker' = [worker EXCEPT ![w] = "acting"]
    /\ job' = [job EXCEPT ![w] = Head(queue)]
    /\ UNCHANGED <<result, stopped, ticket, accepting, closer>>

\* The action returned or threw.
Retire(w) ==
    /\ worker[w] = "acting"
    /\ phase' = [phase EXCEPT ![job[w]] = "retired"]
    /\ worker' = [worker EXCEPT ![w] = "publishing"]
    /\ UNCHANGED <<queue, result, stopped, ticket, job, accepting, closer>>

Publish(w) ==
    /\ worker[w] = "publishing"
    /\ result' = [result EXCEPT ![job[w]] = "done"]
    /\ worker' = [Notified EXCEPT ![w] = "awake"]
    /\ job' = [job EXCEPT ![w] = NoJob]
    /\ UNCHANGED <<phase, queue, stopped, ticket, accepting, closer>>

Exit(w) ==
    /\ worker[w] = "awake" /\ NothingLeft
    /\ worker' = [worker EXCEPT ![w] = "exited"]
    /\ UNCHANGED <<phase, queue, result, stopped, ticket, job, accepting, closer>>

--------------------------------------------------------------------------------
(* close() *)

\* Staged jobs are withdrawn under the lock; nobody is notified yet.
CloseAdmission ==
    /\ closer = "open"
    /\ accepting' = FALSE
    /\ Withdraw({j \in Jobs : phase[j] = "staged"})
    /\ closer' = "stopping"
    /\ UNCHANGED <<stopped, ticket, worker, job>>

\* Mutants of CloseStop: queued jobs are not stopped, or the workers not notified.
CloseStopRunning ==
    /\ closer = "stopping"
    /\ stopped' = stopped \cup {j \in Jobs : phase[j] = "running"}
    /\ worker' = Notified
    /\ closer' = "joining"
    /\ UNCHANGED <<phase, queue, result, ticket, job, accepting>>

CloseStopQuietly ==
    /\ closer = "stopping"
    /\ stopped' = stopped \cup {j \in Jobs : phase[j] \in {"ready", "running"}}
    /\ closer' = "joining"
    /\ UNCHANGED <<phase, queue, result, ticket, worker, job, accepting>>

\* The jobs that were queued or running when the lock was held; those that
\* have retired since are stopped to no effect.
CloseStop ==
    /\ closer = "stopping"
    /\ stopped' = stopped \cup {j \in Jobs : phase[j] \in {"ready", "running"}}
    /\ worker' = Notified
    /\ closer' = "joining"
    /\ UNCHANGED <<phase, queue, result, ticket, job, accepting>>

CloseJoin ==
    /\ closer = "joining"
    /\ \A w \in Workers : worker[w] = "exited"
    /\ closer' = "closed"
    /\ UNCHANGED <<phase, queue, result, stopped, ticket, worker, job, accepting>>

--------------------------------------------------------------------------------

WorkerStep(w) == Take(w) \/ Retire(w) \/ Publish(w) \/ Exit(w) \/ Sleep(w)

Next ==
    \/ \E j \in Jobs :
        \/ Stage(j)
        \/ StageRefused(j)
        \/ Commit(j)
        \/ Detach(j)
        \/ RequestStop(j)
        \/ DestroyTicket(j)
        \/ Drained(j)
    \/ \E w \in Workers : WorkerStep(w)
    \/ CloseAdmission
    \/ CloseStop
    \/ CloseJoin

\* Threads run, and actions return.
ThreadFairness ==
    /\ \A w \in Workers : WF_vars(WorkerStep(w))
    /\ WF_vars(CloseStop) /\ WF_vars(CloseJoin)

\* A service that staged a job gets its admission transaction's answer and then
\* commits the job or destroys its ticket.  Nothing is asked of it once the
\* executor is closing.
OwnerFairness ==
    /\ \A j \in Jobs :
        WF_vars(Commit(j) \/ (accepting /\ phase[j] = "staged" /\ DestroyTicket(j)))
    /\ \A j \in Jobs : WF_vars(Drained(j))

Spec == Init /\ [][Next]_vars /\ ThreadFairness /\ OwnerFairness

--------------------------------------------------------------------------------
(* Properties *)

\* An owner that destroys an attached ticket cannot abandon a committed action:
\* once the destructor has returned, the action has ended or never will start.
DestructionDrains == \A j \in Jobs : ticket[j] = "gone" => phase[j] = "retired"

\* The promise of a job holds a result only when its action is over, and a
\* withdrawn job is in nobody's hands.
ResultIsFinal ==
    \A j \in Jobs : result[j] # "pending" =>
        phase[j] = "retired" /\ \A w \in Workers : job[w] # j

\* Whoever ends a job first, its worker, its owner's destructor or close(), ends it
\* once and for everybody.
WorkIsOverOnce == DestructionDrains /\ ResultIsFinal

\* When close() returns every job it ever accepted is over and its owner knows;
\* while it joins, whatever still runs or will run has been asked to stop.
CloseLeavesNothing ==
    /\ closer = "closed" =>
        \A j \in Jobs : phase[j] # "new" => phase[j] = "retired" /\ result[j] # "pending"
    /\ closer \in {"joining", "closed"} =>
        \A j \in Jobs : phase[j] \in {"ready", "running"} => j \in stopped

\* The jobs as the abstract ledger sees them.
Progress == [new |-> "new", staged |-> "accepted", ready |-> "accepted",
             running |-> "running", retired |-> "over"]

RootLedger == INSTANCE WorkLedger WITH
    Work <- Jobs,
    stage <- [j \in Jobs |-> Progress[phase[j]]],
    outcome <- [j \in Jobs |->
                 CASE result[j] = "pending" -> "none"
                   [] result[j] = "withdrawn" -> "failed"
                   [] OTHER -> "value"],
    settled <- {j \in Jobs : ticket[j] = "gone"},
    door <- IF closer = "closed" THEN "drained" ELSE IF accepting THEN "open" ELSE "shut"

\* Committed work starts or is withdrawn, whatever is staged before it: again
\* and again no job waits.
CommittedWorkStarts == []<>(\A j \in Jobs : phase[j] # "ready")

\* close() returns, even if services hold staged tickets for ever.
CloseReturns == closer # "open" ~> closer = "closed"

================================================================================
