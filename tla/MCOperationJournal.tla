--------------------------- MODULE MCOperationJournal ---------------------------
(***************************************************************************)
(* Small worlds of the journal: two for OperationJournal and its approval  *)
(* history, one for BackendOwner, one for AgentWorkers.  A behaviour lives *)
(* in one; the runs of the others ended before they did anything, their    *)
(* sessions have no revision left, and the database of the owner world has *)
(* no generation left.                                                     *)
(***************************************************************************)
EXTENDS ApprovalHistory, BackendOwner, AgentWorkers, TLC

CONSTANTS s1, s2, s3, r1, d1, q1, q2, w1, w2, profile, server, service,
          edit, job, web, tune, mcp, b1, f1, f2, k1

ASSUME WorldsAssumption == w1 \in Workspaces /\ w2 \in Workspaces /\ MaxOwnerRev >= 2

\* Rivals: two sessions over one workspace, a plain run that edits and a dynamic
\* one that starts a background job and a service.  Access: one session that
\* runs twice, over two workspaces.
TheSessionOf == r1 :> s1 @@ d1 :> s2 @@ q1 :> s3 @@ q2 :> s3
TheRunOf == edit :> r1 @@ web :> d1 @@ job :> d1 @@ tune :> q1 @@ mcp :> q2
TheWorkspaceOf == edit :> w1 @@ web :> w1 @@ job :> w1 @@ tune :> w1 @@ mcp :> w2
TheToolOf == edit :> "edit" @@ web :> "service" @@ job :> "job" @@ tune :> "edit" @@ mcp :> "mcp"
TheResourcesOf ==
    edit :> {} @@ web :> {service} @@ job :> {profile} @@ tune :> {} @@ mcp :> {server}

Lives(s, w) ==
    [mode |-> "default", workspace |-> w, revision |-> IF s = s3 THEN 0 ELSE MaxRevision]
Spent == [mode |-> "default", workspace |-> w1, revision |-> MaxRevision]

World(sessions, w) ==
    /\ run = [r \in Runs |-> IF SessionOf[r] \in sessions THEN "absent" ELSE "cancelled"]
    /\ op = [o \in Ops |-> "absent"] /\ autoAt = [o \in Ops |-> 0]
    /\ access = [s \in Sessions |-> IF s \in sessions THEN Lives(s, w) ELSE Spent]
    /\ late = {} /\ proven = {} /\ revoked = {}

\* The owner's world in three states: over, a root and a renewal under owner
\* commands, and two renewals with two revisions left for processes.
OwnerWorld(record, born, roots, renewals) ==
    /\ owner = record /\ births = born /\ cred = 1 /\ sent = {}
    /\ serving = 0 /\ accepting = FALSE /\ queue = <<>>
    /\ at = [t \in Threads |-> "idle"] /\ view = [k \in Controllers |-> Vacant]
    /\ root = [j \in Jobs |-> IF j \in roots THEN "none" ELSE "ended"]
    /\ refresh = [r \in Refreshes |->
                    [state |-> IF r \in renewals THEN "none" ELSE "cancelled", gen |-> 0, rev |-> 0]]

OwnerIsOver == OwnerWorld(Vacant, MaxGenerations, {}, {})
OwnerBegins ==
    \/ OwnerWorld(Vacant, 0, {b1}, {f1})
    \/ OwnerWorld([Vacant EXCEPT !.rev = MaxOwnerRev - 2], 0, {}, {f1, f2})

\* The workers' world: its root ended before a process was started for it.
WorkersAreOver ==
    /\ task = "failed"
    /\ lease = [g \in Generations |-> "none"]
    /\ call = [a \in Calls |-> [state |-> "none", by |-> Backend, leases |-> 0]]
    /\ claim = [a \in Calls |-> [state |-> "none", by |-> Backend, reply |-> "stop"]]
    /\ tool = [a \in Calls |-> "none"] /\ effect = [a \in Calls |-> "none"]
    /\ bound = {} /\ turns = {} /\ alive = {} /\ watch = [g \in Generations |-> "none"]
    /\ exchange = [g \in Generations |-> NoThread] /\ dispatch = [g \in Generations |-> NoThread]
    /\ sends = [a \in Calls |-> 0] /\ writes = [a \in Calls |-> 0]

MCInit ==
    \/ World({s1, s2}, w1) /\ OwnerIsOver /\ WorkersAreOver
    \/ World({s3}, w1) /\ OwnerIsOver /\ WorkersAreOver
    \/ World({s3}, w2) /\ OwnerIsOver /\ WorkersAreOver
    \/ World({}, w1) /\ OwnerBegins /\ WorkersAreOver
    \/ World({}, w1) /\ OwnerIsOver /\ WorkerInit

MCNext ==
    \/ WorkersAreOver /\ HistoryNext /\ UNCHANGED <<ownerVars, workerVars>>
    \/ WorkersAreOver /\ OwnerNext /\ UNCHANGED <<journal, revoked, workerVars>>
    \/ WorkerNext /\ UNCHANGED <<journal, revoked, ownerVars>>

MCSpec == MCInit /\ [][MCNext]_<<journal, revoked, ownerVars, workerVars>>

\* Every part is well typed.
WorldsTypeOK == TypeOK /\ OwnerTypeOK /\ WorkerTypeOK

================================================================================
