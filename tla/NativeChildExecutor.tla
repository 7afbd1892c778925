-------------------------- MODULE NativeChildExecutor --------------------------
(***************************************************************************)
(* The thread pool that every dynamic plan and delegation of a backend     *)
(* shares: NativeChildExecutor.                                            *)
(*                                                                         *)
(* An owner - the thread of a root run, or a child that plans - stages a   *)
(* batch of children, which reserves their places in the bounded queue,    *)
(* admits them in the journal, dispatches the batch and waits for every    *)
(* future.  A worker takes the first queued child that can have one of its *)
(* root's leaf slots; a child that was told to stop needs none.  A child   *)
(* that plans gives its slot back while it waits, and, when it runs in a   *)
(* process of its own, its thread may meanwhile run other children of the  *)
(* same root (assist).  An exception in a child closes the whole pool.     *)
(*                                                                         *)
(* A step is one critical section of the pool's mutex or of a slot's, or   *)
(* what a thread does between two of them.                                 *)
(***************************************************************************)
EXTENDS Integers, FiniteSets, SequencesExt

CONSTANTS
    Children,       \* the jobs
    Roots,          \* the threads of root runs
    Parent,         \* Parent[c]: the owner whose plan holds c
    PoolWorkers,
    PoolCapacity,   \* the bound of the queue
    Parallel,       \* leaf slots of one root
    Assisting,      \* whether children run in processes and lend their threads
    NoHost

ASSUME PoolAssumption ==
    /\ Parent \in [Children -> Children \union Roots]
    /\ IsFiniteSet(Children) /\ Children \cap Roots = {} /\ PoolWorkers # {}
    /\ PoolCapacity \in Nat \ {0} /\ Parallel \in Nat \ {0} /\ Assisting \in BOOLEAN

VARIABLES
    at,         \* at[x]: what the job, or the thread of the root, is doing
    batch,      \* batch[p]: the batch of owner p
    pending,    \* the queue
    reserved,   \* places that staged batches hold
    leaves,     \* leaves[r]: active_leaves_ of root r's budget
    host,       \* host[c]: the worker, or the assisting child, that runs c
    promise,    \* promise[c]: what c's future holds
    told,       \* whose own stop source was triggered
    open,       \* accepting
    exited,     \* workers that returned
    closing     \* how far close() got

poolVars == <<at, batch, pending, reserved, leaves, host, promise, told, open, exited, closing>>

PoolOwners == {Parent[c] : c \in Children} \union Roots
Kids(p) == {c \in Children : Parent[c] = p}
Plans(c) == Kids(c) # {}

RootOf[x \in Children \union Roots] == IF x \in Roots THEN x ELSE RootOf[Parent[x]]

\* A stop request reaches every job below: each job's token is linked to its owner's.
Told[x \in Children \union Roots] ==
    x \in told \/ (x \notin Roots /\ Told[Parent[x]])

Dispatched == {c \in Children : at[c] \in {"running", "slotless", "planning", "waiting",
                                          "back", "ended"}}
Holders == {c \in Children : at[c] = "running"}

PoolTypeOK ==
    /\ at \in [Children \union Roots -> {"new", "staged", "pending", "running", "slotless",
                  "planning", "waiting", "back", "ended", "retired", "done"}]
    /\ batch \in [PoolOwners -> {"none", "staged", "dispatched", "dropped"}]
    /\ Range(pending) = {c \in Children : at[c] = "pending"} /\ Len(pending) <= PoolCapacity
    /\ reserved \in 0..PoolCapacity /\ leaves \in [Roots -> 0..Parallel]
    /\ host \in [Children -> PoolWorkers \union Children \union {NoHost}]
    /\ promise \in [Children -> {"none", "value", "exception"}]
    /\ told \subseteq Children \union Roots /\ open \in BOOLEAN
    /\ exited \subseteq PoolWorkers /\ closing \in {"no", "joining", "closed"}

PoolInit ==
    /\ at = [x \in Children \union Roots |-> IF x \in Roots THEN "planning" ELSE "new"]
    /\ batch = [p \in PoolOwners |-> "none"]
    /\ pending = <<>> /\ reserved = 0 /\ leaves = [r \in Roots |-> 0]
    /\ host = [c \in Children |-> NoHost] /\ promise = [c \in Children |-> "none"]
    /\ told = {} /\ open = TRUE /\ exited = {} /\ closing = "no"

--------------------------------------------------------------------------------
(* Threads *)

\* Nothing runs on top of x on its thread.
OnTop(x) == \A c \in Children : host[c] # x
IdleWorker(w) == w \notin exited /\ \A c \in Children : host[c] # w

MoveAll(C, s) == [x \in Children \union Roots |-> IF x \in C THEN s ELSE at[x]]

\* stop_locked and stop_observed: the pool closes, what was staged is retired
\* with an exception and every other job is told to stop.
StopPool(a, pr) ==
    LET staged == {c \in Children : a[c] = "staged"} IN
    /\ open' = FALSE /\ reserved' = 0
    /\ at' = [x \in DOMAIN a |-> IF x \in staged THEN "retired" ELSE a[x]]
    /\ promise' = [c \in Children |-> IF c \in staged THEN "exception" ELSE pr[c]]
    /\ told' = told \union {c \in Children : a[c] \notin {"new", "retired"}}

--------------------------------------------------------------------------------
(* Batches *)

Full(n) ==
    \/ Len(pending) + reserved + n > PoolCapacity
    \/ Len(pending) + reserved + Cardinality(Dispatched) + n
          > PoolCapacity + Cardinality(PoolWorkers)

\* NativeChildExecutor::stage.  A full pool is tried again; a closed one throws.
StageBatch(p) ==
    /\ at[p] = "planning" /\ OnTop(p) /\ batch[p] = "none" /\ ~Told[p]
    /\ open /\ ~Full(Cardinality(Kids(p)))
    /\ at' = MoveAll(Kids(p), "staged")
    /\ reserved' = reserved + Cardinality(Kids(p))
    /\ batch' = [batch EXCEPT ![p] = "staged"]
    /\ UNCHANGED <<pending, leaves, host, promise, told, open, exited, closing>>

\* Mutant of DropBatch: it gives back the places of jobs that a fault retired.
DropWholeBatch(p) ==
    /\ at[p] = "planning" /\ OnTop(p) /\ batch[p] = "staged"
    /\ LET staged == {c \in Kids(p) : at[c] = "staged"} IN
       /\ at' = [MoveAll(staged, "retired") EXCEPT ![p] = "waiting"]
       /\ promise' = [c \in Children |-> IF c \in staged THEN "exception" ELSE promise[c]]
    /\ reserved' = reserved - Cardinality(Kids(p))
    /\ told' = told \union Kids(p)
    /\ batch' = [batch EXCEPT ![p] = "dropped"]
    /\ UNCHANGED <<pending, leaves, host, open, exited, closing>>

\* The journal refuses the frontier, or an exception passes: ~Batch gives the
\* places back of what is still staged.
DropBatch(p) ==
    /\ at[p] = "planning" /\ OnTop(p) /\ batch[p] = "staged"
    /\ LET staged == {c \in Kids(p) : at[c] = "staged"} IN
       /\ at' = [MoveAll(staged, "retired") EXCEPT ![p] = "waiting"]
       /\ reserved' = reserved - Cardinality(staged)
       /\ promise' = [c \in Children |-> IF c \in staged THEN "exception" ELSE promise[c]]
    /\ told' = told \union Kids(p)
    /\ batch' = [batch EXCEPT ![p] = "dropped"]
    /\ UNCHANGED <<pending, leaves, host, open, exited, closing>>

\* Batch::dispatch throws when the pool has closed since; DropBatch follows.
Dispatch(p) ==
    /\ at[p] = "planning" /\ OnTop(p) /\ batch[p] = "staged" /\ open
    /\ pending' = pending \o SetToSeq(Kids(p))
    /\ reserved' = reserved - Cardinality(Kids(p))
    /\ at' = [MoveAll(Kids(p), "pending") EXCEPT ![p] = "waiting"]
    /\ batch' = [batch EXCEPT ![p] = "dispatched"]
    /\ UNCHANGED <<leaves, host, promise, told, open, exited, closing>>

\* An owner told to stop, or that finds the pool closed, stages nothing.
GiveUp(p) ==
    /\ at[p] = "planning" /\ OnTop(p) /\ batch[p] = "none" /\ (Told[p] \/ ~open)
    /\ at' = [at EXCEPT ![p] = "waiting"]
    /\ UNCHANGED <<batch, pending, reserved, leaves, host, promise, told, open, exited, closing>>

\* The owner's loop ends with an exception: every child is asked to stop.
StopKids(p) ==
    /\ at[p] = "waiting" /\ OnTop(p) /\ batch[p] = "dispatched"
    /\ Told[p] \/ ~open \/ \E c \in Kids(p) : promise[c] = "exception"
    /\ ~(Kids(p) \subseteq told)
    /\ told' = told \union Kids(p)
    /\ UNCHANGED <<at, batch, pending, reserved, leaves, host, promise, open, exited, closing>>

\* Every future of the batch is ready.
Joins(p) ==
    /\ at[p] = "waiting" /\ OnTop(p)
    /\ batch[p] = "dispatched" => \A c \in Kids(p) : promise[c] # "none"
    /\ at' = [at EXCEPT ![p] = IF p \in Roots THEN "done" ELSE "back"]
    /\ UNCHANGED <<batch, pending, reserved, leaves, host, promise, told, open, exited, closing>>

--------------------------------------------------------------------------------
(* Jobs *)

\* take_locked: a job that was told to stop runs without a slot.
SlotFor(c) == leaves[RootOf[c]] < Parallel
Takeable(c) == Told[c] \/ SlotFor(c)

TakeFirst(h, C) ==
    \E i \in 1..Len(pending) :
        LET c == pending[i] IN
        /\ c \in C /\ Takeable(c)
        /\ \A k \in 1..(i - 1) : ~(pending[k] \in C /\ Takeable(pending[k]))
        /\ pending' = RemoveAt(pending, i)
        /\ host' = [host EXCEPT ![c] = h]
        /\ IF Told[c] THEN at' = [at EXCEPT ![c] = "slotless"] /\ UNCHANGED leaves
           ELSE /\ at' = [at EXCEPT ![c] = "running"]
                /\ leaves' = [leaves EXCEPT ![RootOf[c]] = @ + 1]
        /\ UNCHANGED <<batch, reserved, promise, told, open, exited, closing>>

TakeChild(w) == IdleWorker(w) /\ TakeFirst(w, Children)

\* A yielded child assists its own budget only.
OwnRoot(p) == {c \in Children : RootOf[c] = RootOf[p]}

\* An owner that found the pool full lends its thread too before it tries again.
Lends(p) ==
    \/ at[p] = "waiting"
    \/ at[p] = "planning" /\ batch[p] = "none" /\ Full(Cardinality(Kids(p)))

Assist(p) ==
    /\ Assisting /\ p \in Children /\ Lends(p) /\ OnTop(p)
    /\ TakeFirst(p, OwnRoot(p))

\* Mutant of Yield: the planner keeps its leaf slot while it waits.
YieldKeepingSlot(c) ==
    /\ at[c] = "running" /\ Plans(c) /\ batch[c] = "none"
    /\ at' = [at EXCEPT ![c] = "planning"]
    /\ UNCHANGED <<batch, pending, reserved, leaves, host, promise, told, open, exited, closing>>

\* A child that plans yields its leaf slot.
Yield(c) ==
    /\ at[c] = "running" /\ Plans(c) /\ batch[c] = "none"
    /\ at' = [at EXCEPT ![c] = "planning"]
    /\ leaves' = [leaves EXCEPT ![RootOf[c]] = @ - 1]
    /\ UNCHANGED <<batch, pending, reserved, host, promise, told, open, exited, closing>>

\* The plan is reported: the slot is taken back, unless the child was told to stop.
Reacquire(c) ==
    /\ c \in Children /\ at[c] = "back" /\ OnTop(c)
    /\ IF Told[c] THEN at' = [at EXCEPT ![c] = "slotless"] /\ UNCHANGED leaves
       ELSE /\ SlotFor(c)
            /\ at' = [at EXCEPT ![c] = "running"]
            /\ leaves' = [leaves EXCEPT ![RootOf[c]] = @ + 1]
    /\ UNCHANGED <<batch, pending, reserved, host, promise, told, open, exited, closing>>

\* retire: a slot that is held is released.
Released(c) == IF at[c] = "running" THEN [leaves EXCEPT ![RootOf[c]] = @ - 1] ELSE leaves

\* The action returns a run that has ended.
Finish(c) ==
    /\ at[c] \in {"running", "slotless"} /\ OnTop(c)
    /\ leaves' = Released(c)
    /\ at' = [at EXCEPT ![c] = "ended"]
    /\ promise' = [promise EXCEPT ![c] = "value"]
    /\ UNCHANGED <<batch, pending, reserved, host, told, open, exited, closing>>

\* The action throws: the pool is failed before the future is ready.
Throws(c) ==
    /\ at[c] \in {"running", "slotless"} /\ OnTop(c)
    /\ leaves' = Released(c)
    /\ StopPool([at EXCEPT ![c] = "ended"], [promise EXCEPT ![c] = "exception"])
    /\ UNCHANGED <<batch, pending, host, exited, closing>>

\* The job leaves the list of dispatched jobs, and its thread is free.
Leave(c) ==
    /\ at[c] = "ended"
    /\ at' = [at EXCEPT ![c] = "retired"]
    /\ host' = [host EXCEPT ![c] = NoHost]
    /\ UNCHANGED <<batch, pending, reserved, leaves, promise, told, open, exited, closing>>

--------------------------------------------------------------------------------
(* The pool *)

\* Mutant of NothingOwed: the queue may still hold jobs.
Closed == ~open

NothingOwed == ~open /\ pending = <<>> /\ reserved = 0

WorkerExits(w) ==
    /\ IdleWorker(w) /\ NothingOwed
    /\ exited' = exited \union {w}
    /\ UNCHANGED <<at, batch, pending, reserved, leaves, host, promise, told, open, closing>>

CancelRoot(r) ==
    /\ r \in Roots /\ r \notin told /\ at[r] # "done"
    /\ told' = told \union {r}
    /\ UNCHANGED <<at, batch, pending, reserved, leaves, host, promise, open, exited, closing>>

ClosePool ==
    /\ closing = "no" /\ closing' = "joining"
    /\ StopPool(at, promise)
    /\ UNCHANGED <<batch, pending, leaves, host, exited>>

\* The workers are joined, then assisted jobs are awaited.
PoolCloses ==
    /\ closing = "joining" /\ exited = PoolWorkers /\ Dispatched = {}
    /\ closing' = "closed"
    /\ UNCHANGED <<at, batch, pending, reserved, leaves, host, promise, told, open, exited>>

OwnerStep(p) ==
    \/ StageBatch(p) \/ DropBatch(p) \/ Dispatch(p) \/ GiveUp(p) \/ StopKids(p) \/ Joins(p)

JobStep(c) == Yield(c) \/ Reacquire(c) \/ Finish(c) \/ Throws(c) \/ Leave(c)

PoolThreads ==
    \/ \E p \in PoolOwners : OwnerStep(p) \/ Assist(p)
    \/ \E c \in Children : JobStep(c)
    \/ \E w \in PoolWorkers : TakeChild(w) \/ WorkerExits(w)
    \/ PoolCloses

PoolNext == PoolThreads \/ (\E r \in Roots : CancelRoot(r)) \/ ClosePool

\* Threads run on, children return and owners poll.  No step of a behaviour can
\* be taken twice, so if some thread that can go on does, every one does.
PoolFairness == WF_poolVars(PoolThreads)

PoolSpec == PoolInit /\ [][PoolNext]_poolVars /\ PoolFairness

--------------------------------------------------------------------------------
(* Properties *)

\* The two counters are exact whoever gives back, retires or loses: the leaf
\* counter of a root counts the children that hold a slot (NativeChildSlot), and
\* the reserved places are those of the staged jobs.  A count that went below
\* would wrap, and the workers would never return.
CountersAreExact ==
    /\ \A r \in Roots : leaves[r] = Cardinality({c \in Holders : RootOf[c] = r})
    /\ reserved = Cardinality({c \in Children : at[c] = "staged"})

\* close() returns over a drained pool: no job runs or waits, and every future
\* of a job that was ever staged is ready.
ClosedPoolIsDrained ==
    closing = "closed" =>
        \A c \in Children : at[c] = "new" \/ (at[c] = "retired" /\ promise[c] # "none")

\* The children as the abstract ledger sees them.  An owner settles on its children
\* when it has joined its batch.
ChildStage(c) ==
    CASE at[c] = "new" -> "new"
      [] at[c] \in {"staged", "pending"} -> "accepted"
      [] at[c] \in {"ended", "retired"} -> "over"
      [] OTHER -> "running"

Joined(p) == batch[p] # "none" /\ at[p] \notin {"planning", "waiting"}

ChildLedger == INSTANCE WorkLedger WITH
    Work <- Children,
    stage <- [c \in Children |-> ChildStage(c)],
    outcome <- [c \in Children |-> IF promise[c] = "exception" THEN "failed" ELSE promise[c]],
    settled <- {c \in Children : Joined(Parent[c])},
    door <- IF closing = "closed" THEN "drained" ELSE IF open THEN "open" ELSE "shut"

\* A child that is told to stop while it is queued retires: the drain of a
\* cancelled run waits for its future.  (DynamicPlanExecutor::execute's catch)
CancelledChildRetires ==
    \A c \in Children : (at[c] = "pending" /\ Told[c]) ~> at[c] = "retired"

\* However deep the plans are nested, the pool comes to rest again and again:
\* every child that was dispatched retires, and close() returns.
PoolComesToRest == []<>(pending = <<>> /\ Dispatched = {} /\ closing # "joining")

================================================================================
