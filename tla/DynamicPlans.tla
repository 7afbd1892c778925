------------------------------ MODULE DynamicPlans ------------------------------
(***************************************************************************)
(* Dynamic plans of one root run: the planner loops, the leaf slots of the *)
(* shared root budget, and the pause for people.                           *)
(*                                                                         *)
(* The model of the root run, and of every child agent that plans, splits  *)
(* its work into a plan of tasks and questions.  Each owner of a plan runs *)
(* DynamicPlanExecutor::execute on a thread of its own: it publishes       *)
(* questions, admits ready tasks as children, settles what they did and    *)
(* reports.  A child holds one of the budget's leaf slots while it works;  *)
(* a child that plans yields its slot.  An owner whose plan waits only for *)
(* people registers in RootExecutionBudget::suspend_for_human, and one of  *)
(* the registered owners pauses the root and every owner between it and    *)
(* the waiting plans in one transaction.  An answer resumes them all.      *)
(*                                                                         *)
(* A step is one repository transaction, one critical section of the       *)
(* rendezvous, or one pass of a polling loop that has something to do.     *)
(***************************************************************************)
EXTENDS Naturals, FiniteSets

CONSTANTS
    Root,           \* the root run, also the owner of the root plan
    Leaves,         \* children that only work
    Planners,       \* children that make a planning call of their own
    Humans,         \* questions
    Nobody,
    Trees,          \* the plans the models may choose
    MaxParallel     \* the budget's spec.max_parallel

Tasks == Leaves \union Planners
Nodes == Tasks \union Humans
Owners == Planners \union {Root}

ASSUME TreesAssumption ==
    /\ MaxParallel \in 1..2
    /\ Trees # {}
    /\ Trees \subseteq [owner : [Nodes -> Owners \union {Nobody}],
                        needs : [Nodes -> SUBSET Nodes]]
    /\ Leaves \intersect Planners = {} /\ Humans \intersect Tasks = {}
    /\ Root \notin Nodes /\ Nobody \notin Owners
    \* a nested plan is one level deeper than its parent's
    /\ \A t \in Trees : \A P \in SUBSET Planners :
           P # {} => \E p \in P : t.owner[p] \notin P

VARIABLES
    tree,       \* the plan the models choose
    node,       \* node[n]: state of the plan's node
    run,        \* run[r]: state of the runs row
    plan,       \* plan[p]: state of the plan that p owns
    call,       \* call[p]: state of p's planning call
    rev,        \* revision of the root budget
    binding,    \* owners of the plans of dynamic_owner_pause_waits
    late,       \* questions whose expiry time has passed
    pc,         \* pc[p]: where the thread that executes p's plan is
    batch,      \* batch[p]: the frontier p staged
    seen,       \* seen[p]: the budget revision p last read
    job,        \* job[c]: the child's future
    slots,      \* children that hold a leaf slot
    stop,       \* children whose stop token was triggered
    resumable,  \* the budget's resumable_owners
    waits,      \* human_waits_, as owners of the waiting plans
    entries,    \* entries[p]: the waits p read before it looked for other work
    committing, \* human_pause_committing_
    failure,    \* human_pause_error_
    paused,     \* human_pause_result_ is set
    halt,       \* the root was cancelled, or its deadline passed
    service     \* the service's phase of the root's job

durable == <<tree, node, run, plan, call, rev, binding, late>>
threads == <<pc, batch, seen, job, slots, stop>>
rendezvous == <<waits, entries, committing, failure, paused>>
vars == <<durable, threads, rendezvous, resumable, halt, service>>

Finished == {"completed", "failed", "cancelled"}
Live == {"queued", "running", "paused"}

TypeOK ==
    /\ tree \in Trees
    /\ node \in [Nodes -> {"pending", "claimed", "waiting", "completed", "failed",
                           "answered", "expired", "cancelled"}]
    /\ run \in [Tasks \union {Root} -> {"none"} \union Live \union Finished]
    /\ plan \in [Owners -> {"none", "active", "waiting_human"} \union Finished]
    /\ call \in [Owners -> {"none", "accepted", "report_ready", "turn_committed"}]
    /\ rev \in Nat /\ seen \in [Owners -> 0..rev]
    /\ binding \subseteq Owners /\ late \subseteq Humans
    /\ pc \in [Owners -> {"off", "model", "resumed", "loop", "decide", "admit", "drain",
                          "register", "poll", "safe", "suspend", "joining", "report",
                          "turn", "final", "unwind", "fault", "failing"}]
    /\ batch \in [Owners -> SUBSET Tasks]
    /\ job \in [Tasks -> {"none", "pending", "live", "returning", "throwing", "ended",
                        "paused", "threw"}]
    /\ slots \subseteq Tasks /\ Cardinality(slots) <= MaxParallel
    /\ stop \subseteq Tasks /\ resumable \subseteq Planners
    /\ waits \subseteq Owners /\ entries \in [Owners -> SUBSET Owners]
    /\ committing \in Owners \union {Nobody}
    /\ failure \in {"none", "changed", "conflict"} /\ paused \in BOOLEAN
    /\ halt \in {"no", "cancelled", "deadline"}
    /\ service \in {"working", "waiting", "queued", "retiring", "done", "faulted"}

\* The root run executes; its model is about to make the planning call.
Init ==
    /\ tree \in Trees
    /\ node = [n \in Nodes |-> "pending"]
    /\ run = [r \in Tasks \union {Root} |-> IF r = Root THEN "running" ELSE "none"]
    /\ plan = [p \in Owners |-> "none"] /\ call = [p \in Owners |-> "none"]
    /\ rev = 0 /\ binding = {} /\ late = {}
    /\ pc = [p \in Owners |-> IF p = Root THEN "model" ELSE "off"]
    /\ batch = [p \in Owners |-> {}] /\ seen = [p \in Owners |-> 0]
    /\ job = [c \in Tasks |-> "none"]
    /\ slots = {} /\ stop = {} /\ resumable = {}
    /\ waits = {} /\ entries = [p \in Owners |-> {}]
    /\ committing = Nobody /\ failure = "none" /\ paused = FALSE
    /\ halt = "no" /\ service = "working"

--------------------------------------------------------------------------------
(* Plans: inspect_dynamic_plan *)

Of(p) == {n \in Nodes : tree.owner[n] = p}
In(p, s) == {n \in Of(p) : node[n] = s}
Claimed(p) == In(p, "claimed")
Waiting(p) == In(p, "waiting")

\* Every dependency is of the "success" kind.
Ready(p) == {n \in In(p, "pending") :
                \A d \in tree.needs[n] : node[d] \in {"completed", "answered"}}

ReportReady(p) == Claimed(p) \union Waiting(p) \union Ready(p) = {}
HumanOnly(p) == Claimed(p) \union Ready(p) = {} /\ Waiting(p) # {}
Runnable(p) == ReportReady(p) \/ Ready(p) # {}
PlanFinished(p) == Claimed(p) \union Waiting(p) \union In(p, "pending") = {}

\* The planners among P and the planners above them: wait_owner_path of each, as the
\* least set that holds the first and, with a planner, the owner of its node.
Chain(P) ==
    {q \in Planners : \A S \in SUBSET Planners :
        P \ {Root} \subseteq S /\ (\A s \in S : tree.owner[s] \in S \union {Root, Nobody})
            => q \in S}

Unsettled(p) == {c \in Of(p) \intersect Tasks : job[c] # "none"}

\* RootExecutionBudget::check with the job's own stop token.
Halted(p) == halt # "no" \/ p \in stop

\* try_acquire_leaf
SlotFree == Cardinality(slots) < MaxParallel

\* Mutant of AllDrained: a child that has returned is not settled any more.
AllReturned(p) == \A c \in Unsettled(p) : job[c] \in {"ended", "paused", "threw"}

\* Every child was awaited, and its outcome settled.
AllDrained(p) == Unsettled(p) = {}

Goto(p, l) == pc' = [pc EXCEPT ![p] = l]

--------------------------------------------------------------------------------
(* Children: NativeChildExecutor runs each job on a thread of its own *)

\* A job whose token was triggered, or whose deadline passed, runs without a
\* slot and its agent retires the run; a resumed owner yields at once.
StartChild(c) ==
    /\ job[c] = "pending"
    /\ \/ /\ Halted(c)
          /\ \E s \in {"cancelled", "failed"} : run' = [run EXCEPT ![c] = s]
          /\ job' = [job EXCEPT ![c] = "returning"]
          /\ UNCHANGED <<slots, pc>>
       \/ /\ ~Halted(c) /\ SlotFree
          /\ slots' = slots \union {c}
          /\ job' = [job EXCEPT ![c] = "live"]
          /\ run' = [run EXCEPT ![c] = "running"]
          /\ IF c \in Leaves THEN UNCHANGED pc
             ELSE Goto(c, IF run[c] = "running" THEN "resumed" ELSE "model")
    /\ UNCHANGED <<tree, node, plan, call, rev, binding, late, batch, seen, stop,
                   rendezvous, resumable, halt, service>>

\* The job's action ends with the row of child c, which still has its slot.  A run
\* that someone paused cannot be retired: the action throws.
Return(c, s) ==
    /\ IF run[c] = "running"
       THEN run' = [run EXCEPT ![c] = s] /\ job' = [job EXCEPT ![c] = "returning"]
       ELSE job' = [job EXCEPT ![c] = "throwing"] /\ UNCHANGED run
    /\ UNCHANGED slots

\* The pool takes the slot back, and the future is ready.  After an exception it
\* also stops every job it has.
ReleaseSlot(c) ==
    /\ slots' = slots \ {c}
    /\ \/ /\ job[c] = "returning" /\ job' = [job EXCEPT ![c] = "ended"]
          /\ UNCHANGED stop
       \/ /\ job[c] = "throwing" /\ job' = [job EXCEPT ![c] = "threw"]
          /\ stop' = Tasks
    /\ UNCHANGED <<durable, pc, batch, seen, rendezvous, resumable, halt, service>>

FinishLeaf(c) ==
    /\ c \in Leaves /\ job[c] = "live"
    /\ \E s \in {"completed", "failed"} : Return(c, s)
    /\ UNCHANGED <<tree, node, plan, call, rev, binding, late, pc, batch, seen, stop,
                   rendezvous, resumable, halt, service>>

YieldResumed(p) ==
    /\ pc[p] = "resumed"
    /\ slots' = slots \ {p} /\ Goto(p, "loop")
    /\ UNCHANGED <<durable, batch, seen, job, stop, rendezvous, resumable, halt, service>>

--------------------------------------------------------------------------------
(* The end of the root run *)

\* retire_dynamic_owner and complete_dynamic_owner.  Over a child that has not
\* finished both throw, and the service faults.
RootEnds(s) ==
    IF \E c \in Tasks : run[c] \in Live
    THEN service' = "faulted" /\ UNCHANGED <<run, node, plan>>
    ELSE /\ run' = [run EXCEPT ![Root] = s]
         /\ service' = "done"
         /\ node' = [n \in Nodes |-> IF n \in In(Root, "waiting") \union In(Root, "pending")
                                     THEN "cancelled" ELSE node[n]]
         /\ plan' = [q \in Owners |->
                        IF plan[q] = "active" /\ (q = Root \/ s = "completed")
                        THEN s ELSE plan[q]]

--------------------------------------------------------------------------------
(* The planning call of owner p *)

\* The leaf slot is yielded, then accept_dynamic_plan_change stores the plan.
AcceptPlan(p) ==
    /\ pc[p] = "model" /\ ~Halted(p)
    /\ run[Root] = "running" /\ run[p] = "running" /\ call[p] = "none"
    /\ p # Root => plan[tree.owner[p]] = "active" /\ node[p] = "claimed"
    /\ plan' = [plan EXCEPT ![p] = "active"]
    /\ call' = [call EXCEPT ![p] = "accepted"]
    /\ rev' = rev + 1
    /\ slots' = slots \ {p} /\ Goto(p, "loop")
    /\ UNCHANGED <<tree, node, run, binding, late, batch, seen, job, stop, rendezvous,
                   resumable, halt, service>>

\* The agent fails before it plans, or is stopped.
AgentEnds(p) ==
    /\ pc[p] = "model"
    /\ LET s == IF Halted(p) THEN "cancelled" ELSE "failed" IN
       IF p = Root THEN RootEnds(s) /\ UNCHANGED <<slots, job>>
       ELSE Return(p, s) /\ UNCHANGED <<node, plan, service>>
    /\ Goto(p, "off")
    /\ UNCHANGED <<tree, call, rev, binding, late, batch, seen, stop, rendezvous, resumable,
                   halt>>

--------------------------------------------------------------------------------
(* DynamicPlanExecutor::execute: one pass of p's loop *)

\* Mutant of Settle: a child that did not complete is not settled.
SettleCompleted(p, c) ==
    /\ c \in Unsettled(p) /\ job[c] = "ended" /\ run[c] = "completed"
    /\ node' = [node EXCEPT ![c] = "completed"]
    /\ job' = [job EXCEPT ![c] = "none"]

\* settle_dynamic_child, when the child's future is ready.
Settle(p, c) ==
    /\ c \in Unsettled(p) /\ job[c] = "ended"
    /\ node' = [node EXCEPT ![c] = IF run[c] = "completed" THEN "completed" ELSE "failed"]
    /\ job' = [job EXCEPT ![c] = "none"]

SettleChild(p, c) ==
    /\ pc[p] = "loop" /\ Settle(p, c)
    /\ UNCHANGED <<tree, run, plan, call, rev, binding, late, pc, batch, seen, slots, stop,
                   rendezvous, resumable, halt, service>>

\* A child returned the paused root: p waits for its other children and returns too.
ObservePause(p, c) ==
    /\ pc[p] = "loop" /\ c \in Unsettled(p) /\ job[c] = "paused"
    /\ run[Root] = "paused"
    /\ job' = [job EXCEPT ![c] = "none"] /\ Goto(p, "joining")
    /\ UNCHANGED <<durable, batch, seen, slots, stop, rendezvous, resumable, halt, service>>

\* The thread of p returns the paused root; the service re-reads it under its
\* mutex.  It retires a root whose cancellation came meanwhile, and queues one whose
\* own plan has something to do, whatever the waiting plans have.
ReturnPaused(p) ==
    /\ Goto(p, "off")
    /\ IF p = Root
       THEN /\ service' = IF halt = "cancelled" THEN "retiring"
                          ELSE IF Runnable(Root) THEN "queued" ELSE "waiting"
            /\ UNCHANGED job
       ELSE job' = [job EXCEPT ![p] = "paused"] /\ UNCHANGED service

JoinSibling(p, c) ==
    /\ pc[p] = "joining"
    /\ \/ Settle(p, c)
       \/ /\ c \in Unsettled(p) /\ job[c] = "paused"
          /\ job' = [job EXCEPT ![c] = "none"] /\ UNCHANGED node
    /\ UNCHANGED <<tree, run, plan, call, rev, binding, late, pc, batch, seen, slots, stop,
                   rendezvous, resumable, halt, service>>

Joined(p) ==
    /\ pc[p] = "joining" /\ AllDrained(p)
    /\ ReturnPaused(p)
    /\ UNCHANGED <<durable, batch, seen, slots, stop, rendezvous, resumable, halt>>

\* An exception: every child is asked to stop.
Throw(p) ==
    /\ Goto(p, "unwind")
    /\ stop' = stop \union Unsettled(p)
    /\ batch' = [batch EXCEPT ![p] = {}]

\* A future that throws ends the loop; so do the stop token and the deadline.
LoopThrows(p) ==
    /\ \/ pc[p] = "loop" /\ Halted(p)
       \/ pc[p] \in {"loop", "joining"} /\ \E c \in Unsettled(p) : job[c] = "threw"
    /\ Throw(p)
    /\ UNCHANGED <<durable, seen, job, slots, rendezvous, resumable, halt, service>>

\* Nothing to settle: the plan is read.
Inspect(p) ==
    /\ pc[p] = "loop" /\ ~Halted(p)
    /\ \A c \in Unsettled(p) : job[c] \in {"pending", "live", "returning", "throwing"}
    /\ Goto(p, "decide")
    /\ UNCHANGED <<durable, batch, seen, job, slots, stop, rendezvous, resumable, halt, service>>

Late(p) == Waiting(p) \intersect late
Resuming(p) == Claimed(p) \intersect resumable

Expire(p, h) ==
    /\ pc[p] = "decide" /\ h \in Late(p)
    /\ node' = [node EXCEPT ![h] = "expired"]
    /\ Throw(p)
    /\ UNCHANGED <<tree, run, plan, call, rev, binding, late, seen, job, slots, rendezvous,
                   resumable, halt, service>>

\* Mutant of TakesUp: also while children of p are live.
TakesUpAlways(p) == Resuming(p) # {}

\* The claimed children that a resumed budget lets p take up again.
TakesUp(p) == Resuming(p) # {} /\ Unsettled(p) = {}

ResumeChildren(p) ==
    /\ pc[p] = "decide" /\ Late(p) = {} /\ TakesUp(p)
    /\ job' = [c \in Tasks |-> IF c \in Resuming(p) THEN "pending" ELSE job[c]]
    /\ stop' = stop \ Resuming(p)
    /\ Goto(p, "loop")
    /\ UNCHANGED <<durable, batch, seen, slots, rendezvous, resumable, halt, service>>

Deciding(p) == pc[p] = "decide" /\ Late(p) = {} /\ ~TakesUp(p)

\* settle_dynamic_plan_step
Report(p) ==
    /\ Deciding(p) /\ ReportReady(p)
    /\ IF run[Root] = "running"
       THEN /\ call' = [call EXCEPT ![p] = "report_ready"]
            /\ Goto(p, "report") /\ UNCHANGED <<stop, batch>>
       ELSE Throw(p) /\ UNCHANGED call
    /\ UNCHANGED <<tree, node, run, plan, rev, binding, late, seen, job, slots, rendezvous,
                   resumable, halt, service>>

\* publish_dynamic_human
Publish(p, h) ==
    /\ Deciding(p) /\ h \in Ready(p) \intersect Humans
    /\ IF run[Root] = "running"
       THEN /\ node' = [node EXCEPT ![h] = "waiting"]
            /\ Goto(p, "loop") /\ UNCHANGED <<stop, batch>>
       ELSE Throw(p) /\ UNCHANGED node
    /\ UNCHANGED <<tree, run, plan, call, rev, binding, late, seen, job, slots, rendezvous,
                   resumable, halt, service>>

\* A frontier is staged with the budget revision it was computed from.
Stage(p, F) ==
    /\ Deciding(p) /\ ~ReportReady(p) /\ Ready(p) \intersect Humans = {}
    /\ F # {} /\ F \subseteq Ready(p)
    /\ \/ Cardinality(F) + Cardinality(Unsettled(p)) = MaxParallel
       \/ F = Ready(p) /\ Cardinality(F) + Cardinality(Unsettled(p)) < MaxParallel
    /\ batch' = [batch EXCEPT ![p] = F]
    /\ seen' = [seen EXCEPT ![p] = rev]
    /\ Goto(p, "admit")
    /\ UNCHANGED <<durable, job, slots, stop, rendezvous, resumable, halt, service>>

\* Nothing to do until a child returns.
Idle(p) ==
    /\ Deciding(p) /\ Unsettled(p) # {} /\ Ready(p) \intersect Humans = {}
    /\ Ready(p) = {} \/ Cardinality(Unsettled(p)) >= MaxParallel
    /\ Goto(p, "loop")
    /\ UNCHANGED <<durable, batch, seen, job, slots, stop, rendezvous, resumable, halt, service>>

\* The children that count against max_parallel: an owner with an outstanding
\* call does not.
Physical == {c \in Tasks : run[c] \in Live /\
                ~(c \in Planners /\ call[c] \in {"accepted", "report_ready"})}

\* admit_dynamic_frontier, and the dispatch of the staged batch.  A changed
\* budget drops the batch; anything else that is in the way is an exception.
Admit(p) ==
    /\ pc[p] = "admit"
    /\ IF \/ Halted(p) \/ run[Root] # "running"
          \/ seen[p] = rev /\ Cardinality(Physical) + Cardinality(batch[p]) > MaxParallel
       THEN Throw(p) /\ UNCHANGED <<node, run, job, rev>>
       ELSE /\ IF seen[p] = rev
               THEN /\ node' = [n \in Nodes |-> IF n \in batch[p] THEN "claimed" ELSE node[n]]
                    /\ run' = [r \in Tasks \union {Root} |->
                                  IF r \in batch[p] THEN "queued" ELSE run[r]]
                    /\ job' = [c \in Tasks |-> IF c \in batch[p] THEN "pending" ELSE job[c]]
                    /\ rev' = rev + 1
               ELSE UNCHANGED <<node, run, job, rev>>
            /\ batch' = [batch EXCEPT ![p] = {}]
            /\ Goto(p, "loop") /\ UNCHANGED stop
    /\ UNCHANGED <<tree, plan, call, binding, late, seen, slots, rendezvous, resumable,
                   halt, service>>

AwaitPeople(p) ==
    /\ Deciding(p) /\ Unsettled(p) = {} /\ HumanOnly(p)
    /\ Goto(p, "drain")
    /\ UNCHANGED <<durable, batch, seen, job, slots, stop, rendezvous, resumable, halt, service>>

--------------------------------------------------------------------------------
(* RootExecutionBudget::suspend_for_human *)

\* wait_for_leaves_drained
Drain(p) ==
    /\ pc[p] = "drain"
    /\ IF Halted(p) THEN Throw(p)
       ELSE slots = {} /\ Goto(p, "register") /\ UNCHANGED <<stop, batch>>
    /\ UNCHANGED <<durable, seen, job, slots, rendezvous, resumable, halt, service>>

\* DynamicPlanChanged takes the planner back to its loop; any other ends it.
Rethrow(p) ==
    IF failure = "changed" THEN Goto(p, "loop") /\ UNCHANGED <<stop, batch>> ELSE Throw(p)

\* The first lines: the owner must find no leaf active, and enters its wait.
Register(p) ==
    /\ pc[p] = "register"
    /\ \/ /\ halt # "no" \/ slots # {}
          /\ Throw(p) /\ UNCHANGED <<waits, job, service>>
       \/ /\ halt = "no" /\ slots = {} /\ failure # "none"
          /\ Rethrow(p) /\ UNCHANGED <<waits, job, service>>
       \/ /\ halt = "no" /\ slots = {} /\ failure = "none"
          /\ IF paused
             THEN ReturnPaused(p) /\ UNCHANGED waits
             ELSE /\ waits' = waits \union {p} /\ Goto(p, "poll")
                  /\ UNCHANGED <<job, service>>
          /\ UNCHANGED <<stop, batch>>
    /\ UNCHANGED <<durable, seen, slots, entries, committing, failure, paused, resumable,
                   halt>>

\* No leaf is active; the unfinished children are owners above a wait, and so
\* is the child of every claimed node.
Safe(W) ==
    /\ slots = {}
    /\ \A c \in Tasks : run[c] \in Live => c \in Chain(W) /\ run[c] = "running"
    /\ \A c \in Tasks : node[c] = "claimed" => c \in Chain(W) /\ run[c] = "running"

\* Another owner's error or result ends the wait of p.
Concluded(p) ==
    /\ pc[p] \in {"poll", "safe"} /\ (failure # "none" \/ paused)
    /\ IF failure # "none"
       THEN Rethrow(p) /\ UNCHANGED <<job, service>>
       ELSE ReturnPaused(p) /\ UNCHANGED <<stop, batch>>
    /\ UNCHANGED <<durable, seen, slots, rendezvous, resumable, halt>>

Waits(p) == failure = "none" /\ ~paused /\ committing = Nobody

\* The wait checks the root's token and deadline, not the job's own token.
PollThrows(p) ==
    /\ pc[p] = "poll" /\ Waits(p) /\ halt # "no"
    /\ Throw(p)
    /\ UNCHANGED <<durable, seen, job, slots, rendezvous, resumable, halt, service>>

Poll(p) ==
    /\ pc[p] = "poll" /\ Waits(p) /\ halt = "no"
    /\ Safe(waits)
    /\ entries' = [entries EXCEPT ![p] = waits]
    /\ Goto(p, "safe")
    /\ UNCHANGED <<durable, batch, seen, job, slots, stop, waits, committing, failure,
                   paused, resumable, halt, service>>

\* p becomes the owner that commits, unless another one is.
Commit(p) ==
    /\ pc[p] = "safe" /\ failure = "none" /\ ~paused
    /\ IF committing = Nobody
       THEN /\ committing' = p
            /\ seen' = [seen EXCEPT ![p] = rev]
            /\ Goto(p, "suspend")
       ELSE Goto(p, "poll") /\ UNCHANGED <<committing, seen>>
    /\ UNCHANGED <<durable, batch, job, slots, stop, waits, entries, failure, paused,
                   resumable, halt, service>>

\* suspend_dynamic_owner checks every wait again in its transaction.
WaitsHold(W) ==
    /\ run[Root] = "running" /\ call[Root] = "accepted"
    /\ plan[Root] \in {"active", "waiting_human"}
    /\ \A p \in W : plan[p] = "active" /\ call[p] = "accepted" /\ HumanOnly(p)
    /\ \A q \in Chain(W) : /\ run[q] = "running" /\ call[q] = "accepted"
                           /\ node[q] = "claimed" /\ plan[tree.owner[q]] = "active"

\* Mutant of NothingElseLives: the transaction trusts the poll.
Trusted(W) == TRUE

NothingElseLives(W) ==
    \A c \in Tasks : run[c] \in Live => c \in Chain(W) /\ run[c] = "running"

\* The error of the owner that commits is every registered owner's error.
PauseFailed(e) == committing' = Nobody /\ failure' = e

Suspend(p) ==
    /\ pc[p] = "suspend"
    /\ LET W == entries[p]
           e == IF WaitsHold(W) /\ rev # seen[p] THEN "changed" ELSE "conflict"
       IN
       IF WaitsHold(W) /\ rev = seen[p] /\ NothingElseLives(W) /\ halt # "deadline"
       THEN /\ run' = [r \in Tasks \union {Root} |->
                          IF r \in Chain(W) \union {Root} THEN "paused" ELSE run[r]]
            /\ plan' = [q \in Owners |-> IF q \in W THEN "waiting_human" ELSE plan[q]]
            /\ binding' = W /\ rev' = rev + 1
            /\ committing' = Nobody /\ paused' = TRUE /\ UNCHANGED failure
            /\ ReturnPaused(p) /\ UNCHANGED <<stop, batch>>
       ELSE /\ PauseFailed(e)
            /\ IF e = "changed" THEN Goto(p, "loop") /\ UNCHANGED <<stop, batch>>
               ELSE Throw(p)
            /\ UNCHANGED <<run, plan, binding, rev, paused, job, service>>
    /\ UNCHANGED <<tree, node, call, late, seen, slots, waits, entries, resumable, halt>>

--------------------------------------------------------------------------------
(* The end of a planning call *)

\* The report is ready: the leaf slot is taken back.
Reacquire(p) ==
    /\ pc[p] = "report"
    /\ IF p # Root /\ Halted(p)
       THEN Return(p, "cancelled") /\ Goto(p, "off")
       ELSE /\ p # Root => SlotFree
            /\ slots' = slots \union ({p} \ {Root}) /\ Goto(p, "turn")
            /\ UNCHANGED <<run, job>>
    /\ UNCHANGED <<tree, node, plan, call, rev, binding, late, batch, seen, stop,
                   rendezvous, resumable, halt, service>>

\* commit_dynamic_tool_turn, then the model is asked to go on.
CommitTurn(p) ==
    /\ pc[p] = "turn" /\ run[Root] = "running" /\ run[p] = "running"
    /\ call' = [call EXCEPT ![p] = "turn_committed"]
    /\ Goto(p, "final")
    /\ UNCHANGED <<tree, node, run, plan, rev, binding, late, batch, seen, job, slots, stop,
                   rendezvous, resumable, halt, service>>

\* The root completes over no unresolved node of any plan: root_boundary.
NoneUnresolved == \A q \in Owners : plan[q] # "none" => PlanFinished(q)

\* The agent answers for good.  It cannot complete over an unfinished plan.
FinishOwner(p) ==
    /\ pc[p] = "final"
    /\ Goto(p, "off")
    /\ LET s == IF Halted(p) THEN "cancelled"
                ELSE IF PlanFinished(p) /\ (p = Root => NoneUnresolved) THEN "completed"
                ELSE "failed"
       IN IF p = Root THEN RootEnds(s) /\ UNCHANGED <<slots, job>>
          ELSE /\ Return(p, s)
               /\ plan' = [plan EXCEPT ![p] = IF s = "completed" THEN s ELSE @]
               /\ UNCHANGED <<node, service>>
    /\ UNCHANGED <<tree, call, rev, binding, late, batch, seen, stop, rendezvous, resumable,
                   halt>>

--------------------------------------------------------------------------------
(* The catch clause of execute: every child is drained *)

\* A child that returns anything but its own retirement is a fault, and stops
\* every job of the pool.
Drained(p, c) ==
    /\ pc[p] \in {"unwind", "fault"} /\ c \in Unsettled(p)
    /\ \/ Settle(p, c) /\ UNCHANGED <<pc, stop>>
       \/ /\ job[c] \in {"paused", "threw"}
          /\ job' = [job EXCEPT ![c] = "none"]
          /\ Goto(p, "fault") /\ stop' = Tasks /\ UNCHANGED node
    /\ UNCHANGED <<tree, run, plan, call, rev, binding, late, batch, seen, slots,
                   rendezvous, resumable, halt, service>>

\* The exception leaves invoke: a child first takes its slot back, and its
\* agent retires the run.
EndUnwind(p) ==
    /\ pc[p] = "unwind" /\ AllDrained(p)
    /\ IF p = Root
       THEN /\ RootEnds(IF halt = "cancelled" THEN "cancelled" ELSE "failed")
            /\ Goto(p, "off") /\ UNCHANGED <<slots, job>>
       ELSE /\ IF Halted(p) THEN Return(p, "cancelled") /\ Goto(p, "off")
               ELSE /\ SlotFree
                    /\ slots' = slots \union {p} /\ Goto(p, "failing")
                    /\ UNCHANGED <<run, job>>
            /\ UNCHANGED <<node, plan, service>>
    /\ UNCHANGED <<tree, call, rev, binding, late, batch, seen, stop, rendezvous, resumable,
                   halt>>

Fail(p) ==
    /\ pc[p] = "failing"
    /\ Return(p, "failed") /\ Goto(p, "off")
    /\ UNCHANGED <<tree, node, plan, call, rev, binding, late, batch, seen, stop,
                   rendezvous, resumable, halt, service>>

\* DynamicOutcomeUnrecorded passes through every owner up to the service.
EndFault(p) ==
    /\ pc[p] = "fault" /\ AllDrained(p)
    /\ Goto(p, "off")
    /\ IF p = Root THEN service' = "faulted" /\ UNCHANGED job
       ELSE job' = [job EXCEPT ![p] = "threw"] /\ UNCHANGED service
    /\ UNCHANGED <<durable, batch, seen, slots, stop, rendezvous, resumable, halt>>

--------------------------------------------------------------------------------
(* AgentService: the controller, the clock and the worker that resumes *)

\* plan_input waits until the service has seen the pause.
Answer(h) ==
    /\ service \in {"waiting", "queued"} /\ run[Root] = "paused"
    /\ tree.owner[h] \in binding /\ node[h] = "waiting" /\ h \notin late
    /\ node' = [node EXCEPT ![h] = "answered"]
    /\ UNCHANGED <<tree, run, plan, call, rev, binding, late, threads, rendezvous,
                   resumable, halt>>
    /\ service' = IF Runnable(tree.owner[h])' THEN "queued" ELSE service

\* Mutant of MayResume: only the owners of the waiting plans.
MayResumeWaiting(W) == W \ {Root}

\* Mutant of MayResume: the root too, where it waits itself.
MayResumeAll(W) == Chain(W) \union W

\* waiting_owner_runs: every owner between the root and a waiting plan.
MayResume(W) == Chain(W)

\* any_runnable: one of the waiting plans can go on.
MayWake == \E p \in binding : Runnable(p)

\* A worker takes the root: resume_dynamic_owner, with a new budget segment.
ResumeRoot ==
    /\ service = "queued" /\ run[Root] = "paused" /\ MayWake
    /\ run' = [r \in Tasks \union {Root} |->
                  IF r \in Chain(binding) \union {Root} THEN "running" ELSE run[r]]
    /\ plan' = [q \in Owners |-> IF q \in binding THEN "active" ELSE plan[q]]
    /\ resumable' = MayResume(binding) /\ binding' = {}
    /\ rev' = rev + 1
    /\ waits' = {} /\ entries' = [p \in Owners |-> {}]
    /\ committing' = Nobody /\ failure' = "none" /\ paused' = FALSE
    /\ Goto(Root, "loop") /\ service' = "working"
    /\ UNCHANGED <<tree, node, call, late, batch, seen, job, slots, stop, halt>>

\* The root was queued for its own plan only: resume_dynamic_owner throws a Conflict,
\* and the service faults.
ResumeRefused ==
    /\ service = "queued" /\ run[Root] = "paused" /\ ~MayWake
    /\ service' = "faulted"
    /\ UNCHANGED <<durable, threads, rendezvous, resumable, halt>>

\* retire_dynamic_owner of a closed pause, with its drained owner chain.
RetirePaused(s) ==
    /\ run' = [r \in Tasks \union {Root} |->
                  IF r = Root THEN s ELSE IF r \in Chain(binding) THEN "cancelled" ELSE run[r]]
    /\ LET Q == {q \in Owners : plan[q] \in {"active", "waiting_human"}} IN
       /\ plan' = [q \in Owners |-> IF q \in Q THEN s ELSE plan[q]]
       /\ node' = [n \in Nodes |->
                      IF n \in Chain(binding) THEN "failed"
                      ELSE IF tree.owner[n] \in Q /\ node[n] \in {"waiting", "pending"}
                      THEN "cancelled" ELSE node[n]]
    /\ binding' = {} /\ service' = "done"
    /\ UNCHANGED <<tree, call, rev, late, threads, rendezvous, resumable, halt>>

\* The expiry thread: expire_waiting reads the root's plan only.
ExpireWaiting ==
    /\ service = "waiting" /\ Late(Root) # {}
    /\ RetirePaused("failed")

CancelPaused ==
    /\ service \in {"waiting", "queued", "retiring"} /\ run[Root] = "paused"
    /\ RetirePaused("cancelled")

Cancel ==
    /\ service = "working" /\ halt = "no" /\ halt' = "cancelled"
    /\ UNCHANGED <<durable, threads, rendezvous, resumable, service>>

Deadline ==
    /\ service = "working" /\ halt = "no" /\ halt' = "deadline"
    /\ UNCHANGED <<durable, threads, rendezvous, resumable, service>>

Expiry(h) ==
    /\ node[h] = "waiting" /\ h \notin late
    /\ late' = late \union {h}
    /\ UNCHANGED <<tree, node, run, plan, call, rev, binding, threads, rendezvous,
                   resumable, halt, service>>

--------------------------------------------------------------------------------
(* The thread that executes p's plan *)
ThreadStep(p) ==
    \/ YieldResumed(p) \/ AcceptPlan(p) \/ AgentEnds(p)
    \/ \E c \in Tasks : SettleChild(p, c) \/ ObservePause(p, c) \/ JoinSibling(p, c)
                        \/ Drained(p, c)
    \/ Joined(p) \/ LoopThrows(p) \/ Inspect(p) \/ ResumeChildren(p)
    \/ \E h \in Humans : Expire(p, h) \/ Publish(p, h)
    \/ Report(p) \/ Idle(p) \/ Admit(p) \/ AwaitPeople(p)
    \/ \E F \in SUBSET Tasks : Stage(p, F)
    \/ Drain(p) \/ Register(p) \/ Concluded(p) \/ PollThrows(p) \/ Poll(p) \/ Commit(p)
    \/ Suspend(p) \/ Reacquire(p) \/ CommitTurn(p) \/ FinishOwner(p)
    \/ EndUnwind(p) \/ Fail(p) \/ EndFault(p)

ChildStep(c) == StartChild(c) \/ FinishLeaf(c) \/ ReleaseSlot(c)

WorkerStep == ResumeRoot \/ ResumeRefused

Next ==
    \/ \E p \in Owners : ThreadStep(p)
    \/ \E c \in Tasks : ChildStep(c)
    \/ \E h \in Humans : Answer(h) \/ Expiry(h)
    \/ WorkerStep \/ ExpireWaiting \/ CancelPaused \/ Cancel \/ Deadline

\* Every thread runs on, every leaf returns, the service's workers take what is
\* queued, and the root's clock advances.  People owe nothing.
Fairness ==
    /\ \A p \in Owners : WF_vars(ThreadStep(p))
    /\ \A c \in Tasks : WF_vars(ChildStep(c))
    /\ WF_vars(WorkerStep) /\ WF_vars(ExpireWaiting) /\ WF_vars(Deadline)
    /\ WF_vars(service = "retiring" /\ CancelPaused)

Spec == Init /\ [][Next]_vars /\ Fairness

--------------------------------------------------------------------------------
(* Properties *)

\* The pause is closed over drained work: the unfinished children of a paused root
\* are exactly the owners above the waiting plans, each paused under its claim.
\* suspend_dynamic_owner reads rows and never active_leaves, so a child may still
\* hold a slot; but its row has ended, and it only gives the slot back.
PauseIsDrained ==
    run[Root] = "paused" =>
        /\ binding # {}
        /\ {c \in Tasks : run[c] \in Live} = Chain(binding)
        /\ \A c \in Chain(binding) : run[c] = "paused" /\ node[c] = "claimed"
        /\ \A c \in slots : run[c] \in Finished /\ job[c] = "returning"

\* Whoever inspects a plan knows every claimed child: it still awaits it, or
\* the budget lets it take the child up again.  (execute, "untracked claim")
ClaimsAreTracked ==
    \A p \in Owners : pc[p] = "decide" => Claimed(p) \subseteq Unsettled(p) \union resumable

\* A root ends only after all its work: no unfinished run, no thread, no slot.
ChildrenEndFirst ==
    run[Root] \in Finished =>
        /\ slots = {} /\ \A p \in Owners : pc[p] = "off"
        /\ \A c \in Tasks : run[c] \in Finished \union {"none"} /\ job[c] = "none"

\* A resumed owner never runs twice: its future is awaited exactly while a
\* thread works for it.
OneThreadPerOwner ==
    \A p \in Planners : pc[p] # "off" <=> job[p] = "live"

\* A root that executes stops executing: it pauses, ends or faults, whatever
\* its planners and its children do, and a cancelled one does not stay paused.
RunComesToRest == []<>(service \notin {"working", "retiring"})

\* A cancelled root drains and retires; it does not fault its service.
\* (doc/native-dynamic-plan-design.md:592)  The code breaks it.
CancelDrains == halt = "cancelled" => service # "faulted"

================================================================================
