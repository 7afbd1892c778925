--------------------------- MODULE MCPermissionWaiter ---------------------------
(* Small instances of PermissionWaiter. *)
EXTENDS PermissionWaiter, TLC

CONSTANTS s1, s2, r1, r2, w1, profile, service, server, edit, job, mcp, web

\* A background process and an edit of two sessions contend for one workspace.
\* The access of the second session has used up its revisions.
RivalSessionOf == (r1 :> s1 @@ r2 :> s2)
RivalRunOf == (job :> r1 @@ edit :> r2)
RivalWorkspaceOf == (edit :> w1 @@ job :> w1)
RivalToolOf == (edit :> "edit" @@ job :> "job")
RivalResourcesOf == (edit :> {} @@ job :> {profile})

RivalInit ==
    /\ run = [r \in Runs |-> "absent"]
    /\ op = [o \in Ops |-> "absent"] /\ autoAt = [o \in Ops |-> 0]
    /\ access = [s \in Sessions |-> [mode |-> "default", workspace |-> w1,
                                      revision |-> IF s = s1 THEN 0 ELSE MaxRevision]]
    /\ late = {} /\ proven = {} /\ stop = {} /\ waiter = [o \in Ops |-> "idle"]

RivalSpec == RivalInit /\ [][WaiterNext]_vars /\ WaiterFairness

\* A run starts a service and edits its workspace.
ServiceSessionOf == (r1 :> s1)
ServiceRunOf == (edit :> r1 @@ web :> r1)
ServiceWorkspaceOf == (edit :> w1 @@ web :> w1)
ServiceToolOf == (edit :> "edit" @@ web :> "service")
ServiceResourcesOf == (edit :> {} @@ web :> {service})

================================================================================
