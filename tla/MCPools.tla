-------------------------------- MODULE MCPools --------------------------------
(***************************************************************************)
(* The two thread pools of a process, RootWorkExecutor and                 *)
(* NativeChildExecutor.  They share nothing, so a behaviour runs one of    *)
(* them; the other stays in a state it reaches after close().              *)
(***************************************************************************)
EXTENDS RootWorkExecutor, NativeChildExecutor, TLC

CONSTANTS j1, j2, j3, wa, ca, cb, ra, rb, p1, c1, c2, p2

\* A nested planner with two children beside the child of another root.
Mixed == p1 :> ra @@ c1 :> p1 @@ c2 :> p1 @@ p2 :> rb

RootWorkIsOver ==
    /\ phase = [j \in Jobs |-> "retired"] /\ result = [j \in Jobs |-> "withdrawn"]
    /\ ticket = [j \in Jobs |-> "gone"] /\ stopped = Jobs /\ queue = <<>>
    /\ worker = [w \in Workers |-> "exited"] /\ job = [w \in Workers |-> NoJob]
    /\ accepting = FALSE /\ closer = "closed"

PoolIsOver ==
    /\ at = [x \in Children \union Roots |-> IF x \in Roots THEN "done" ELSE "new"]
    /\ batch = [p \in PoolOwners |-> "none"]
    /\ pending = <<>> /\ reserved = 0 /\ leaves = [r \in Roots |-> 0]
    /\ host = [c \in Children |-> NoHost] /\ promise = [c \in Children |-> "none"]
    /\ told = {} /\ open = FALSE /\ exited = PoolWorkers /\ closing = "closed"

PoolsInit == (Init /\ PoolIsOver) \/ (RootWorkIsOver /\ PoolInit)

PoolsNext == (Next /\ UNCHANGED poolVars) \/ (PoolNext /\ UNCHANGED vars)

PoolsSpec ==
    /\ PoolsInit /\ [][PoolsNext]_<<vars, poolVars>>
    /\ ThreadFairness /\ OwnerFairness /\ PoolFairness

\* Both pools are well typed.
PoolsTypeOK == TypeOK /\ PoolTypeOK

\* When close() of either pool returns, every job it accepted is over and its
\* owner knows; while the first joins, all that may still run was asked to stop.
ClosedPoolsAreDrained == CloseLeavesNothing /\ ClosedPoolIsDrained

\* Each pool keeps the promise of WorkLedger.  Work starts once and only if it was
\* accepted, and nobody - a worker, a destructor, an owner that joins its batch, close() -
\* goes on as if work were over that still runs or waits.
PoolsImplementLedger == RootLedger!Spec /\ ChildLedger!Spec

================================================================================
