---------------------------- MODULE OperationJournal ----------------------------
(***************************************************************************)
(* The durable journal of side effects kept by Repository                  *)
(* (Native/src/repository.cpp) and served, one transaction at a time, by   *)
(* PersistenceService's worker thread.                                     *)
(*                                                                         *)
(* A run proposes an operation; a person, a trusted profile or the         *)
(* session's full-access mode approves it; the executor claims it and      *)
(* records what happened.  A claim is refused while another operation that *)
(* shares a key is executing, or is uncertain.  When the backend starts    *)
(* again it interrupts the runs the last process left behind.              *)
(*                                                                         *)
(* Every action is one repository transaction.  A call that throws before  *)
(* it commits changes nothing and is no action here; the two calls that    *)
(* commit an expiry and then throw are.                                    *)
(***************************************************************************)
EXTENDS Naturals, FiniteSets

CONSTANTS
    Sessions,       \* conversations
    Runs,           \* root runs that may be created
    DynamicRuns,    \* those admitted with dynamic planning capabilities
    SessionOf,      \* SessionOf[r]: the session of run r
    Ops,            \* operation identities; each is proposed at most once
    RunOf,          \* RunOf[o], WorkspaceOf[o], ToolOf[o], ResourcesOf[o]:
    WorkspaceOf,    \*    the immutable OperationSpec proposed under o
    ToolOf,
    ResourcesOf,
    Workspaces,
    Resources,      \* process profiles, services, remote servers
    MaxRevision     \* bound on the revision of a session's access mode

\* "job" and "service" are run_process with background=true, the latter with
\* persistent=true as well; "process" is run_process in the foreground.
Tools == {"edit", "mcp", "process", "job", "service"}
ProcessTools == {"process", "job", "service"}
BackgroundTools == {"job", "service"}

ASSUME RunsAssumption ==
    /\ DynamicRuns \subseteq Runs
    /\ SessionOf \in [Runs -> Sessions]

ASSUME OpsAssumption ==
    /\ RunOf \in [Ops -> Runs]
    /\ WorkspaceOf \in [Ops -> Workspaces]
    /\ ToolOf \in [Ops -> Tools]
    /\ ResourcesOf \in [Ops -> SUBSET Resources]

ASSUME RevisionAssumption == MaxRevision \in Nat

VARIABLES
    run,        \* run[r]: state of the runs row
    op,         \* op[o]: state of the operations row
    autoAt,     \* autoAt[o]: revision of the full-access mode that approved o,
                \*    0 when it was decided otherwise or not at all
    access,     \* access[s]: the saved native-session-access record
    late,       \* operations whose approval deadline has passed
    proven      \* operations whose receipt proves what an interrupted effect did

journal == <<run, op, autoAt, access, late, proven>>

RunStates == {"queued", "running", "paused", "completed", "failed", "cancelled"}
Active == {"queued", "running", "paused"}
Terminal == {"completed", "failed", "cancelled"}

Waiting == {"awaiting_approval", "ready"}
Blocking == {"executing", "uncertain"}
OpStates == Waiting \cup Blocking \cup
            {"denied", "expired", "cancelled", "succeeded", "failed"}

AccessRecords == [mode : {"default", "full"}, workspace : Workspaces,
                  revision : 0..MaxRevision]

TypeOK ==
    /\ run \in [Runs -> RunStates \cup {"absent"}]
    /\ op \in [Ops -> OpStates \cup {"absent"}]
    /\ autoAt \in [Ops -> 0..MaxRevision]
    /\ access \in [Sessions -> AccessRecords]
    /\ late \subseteq Ops
    /\ proven \subseteq Ops

--------------------------------------------------------------------------------
(* Reading the journal *)

OpsOf(r) == {o \in Ops : RunOf[o] = r}

\* The keys an operation owns alone while it may be changing them.  Only a
\* persistent service leaves its workspace to others.
Keys == [o \in Ops |->
            IF ToolOf[o] = "service" THEN ResourcesOf[o]
            ELSE ResourcesOf[o] \cup {WorkspaceOf[o]}]

Overlap(o, p) == Keys[o] \cap Keys[p] # {}

HasUnresolvedEffects(r) ==
    \E o \in OpsOf(r) :
        /\ op[o] \in Waiting \cup Blocking
        /\ ~(op[o] = "executing" /\ ToolOf[o] = "service")

\* A paused dynamic root, and whatever would resume it, owns no operation at all.
HasPhysicalWork(r) == \E o \in OpsOf(r) : op[o] \in Waiting \cup Blocking

FullAccess(s, w) == access[s].mode = "full" /\ access[s].workspace = w

\* Mutant of ApprovalStands: any full access counts, not the one that approved o.
ApprovalStandsByMode(o) ==
    autoAt[o] = 0 \/ FullAccess(SessionOf[RunOf[o]], WorkspaceOf[o])

\* The approval that o carries is still in force.
ApprovalStands(o) ==
    LET s == SessionOf[RunOf[o]] IN
    autoAt[o] = 0 \/ (FullAccess(s, WorkspaceOf[o]) /\ access[s].revision = autoAt[o])

Allowed(from, to) ==
    \/ from = "queued" /\ to \in {"running", "cancelled", "failed"}
    \/ from = "running" /\ to \in Terminal \cup {"paused"}
    \/ from = "paused" /\ to \in {"running", "failed", "cancelled"}

\* Mutant of CancelWaiting: an approved operation survives its run.
CancelUnapproved(R) ==
    [o \in Ops |-> IF RunOf[o] \in R /\ op[o] = "awaiting_approval" THEN "cancelled" ELSE op[o]]

CancelWaiting(R) ==
    [o \in Ops |-> IF RunOf[o] \in R /\ op[o] \in Waiting THEN "cancelled" ELSE op[o]]

--------------------------------------------------------------------------------
(* Runs *)

Init ==
    /\ run = [r \in Runs |-> "absent"]
    /\ op = [o \in Ops |-> "absent"]
    /\ autoAt = [o \in Ops |-> 0]
    /\ access \in [Sessions -> {a \in AccessRecords : a.mode = "default" /\ a.revision = 0}]
    /\ late = {}
    /\ proven = {}

CreateRun(r) ==
    /\ run[r] = "absent"
    /\ \A q \in Runs : SessionOf[q] = SessionOf[r] => run[q] \notin Active
    /\ run' = [run EXCEPT ![r] = "queued"]
    /\ UNCHANGED <<op, autoAt, access, late, proven>>

\* Only a background process may outlive its run, and only a service may
\* outlive an answer.
MayOutlive(o, next) ==
    \/ ToolOf[o] \in BackgroundTools /\ next \in {"failed", "cancelled"}
    \/ ToolOf[o] = "service" /\ next = "completed"

Transition(r, next) ==
    /\ run[r] # "absent" /\ Allowed(run[r], next)
    /\ ~(r \in DynamicRuns /\ next = "paused")
    /\ \A o \in OpsOf(r) : op[o] = "executing" => MayOutlive(o, next)
    /\ next = "completed" => ~HasUnresolvedEffects(r)
    /\ run' = [run EXCEPT ![r] = next]
    /\ op' = IF next \in Terminal THEN CancelWaiting({r}) ELSE op
    /\ UNCHANGED <<autoAt, access, late, proven>>

CompleteRun(r) ==
    /\ run[r] = "running"
    /\ ~HasUnresolvedEffects(r)
    /\ run' = [run EXCEPT ![r] = "completed"]
    /\ UNCHANGED <<op, autoAt, access, late, proven>>

\* Mutant of SuspendDynamicOwner: it tolerates a service, as completion does.
SuspendWithService(r) ==
    /\ r \in DynamicRuns /\ run[r] = "running"
    /\ ~HasUnresolvedEffects(r)
    /\ run' = [run EXCEPT ![r] = "paused"]
    /\ UNCHANGED <<op, autoAt, access, late, proven>>

SuspendDynamicOwner(r) ==
    /\ r \in DynamicRuns /\ run[r] = "running"
    /\ ~HasPhysicalWork(r)
    /\ run' = [run EXCEPT ![r] = "paused"]
    /\ UNCHANGED <<op, autoAt, access, late, proven>>

ResumeDynamicOwner(r) ==
    /\ r \in DynamicRuns /\ run[r] = "paused"
    /\ ~HasPhysicalWork(r)
    /\ run' = [run EXCEPT ![r] = "running"]
    /\ UNCHANGED <<op, autoAt, access, late, proven>>

RetireDynamicOwner(r, next) ==
    /\ r \in DynamicRuns /\ run[r] \in Active
    /\ \A o \in OpsOf(r) : op[o] # "executing"
    /\ run[r] = "paused" => ~HasUnresolvedEffects(r)
    /\ run' = [run EXCEPT ![r] = next]
    /\ op' = CancelWaiting({r})
    /\ UNCHANGED <<autoAt, access, late, proven>>

--------------------------------------------------------------------------------
(* Operations *)

\* Entering full access also approves what is already awaiting approval in the
\* session's workspace.  The caller names the revision it read; a stale one is
\* refused, so the revision only ever goes up by one.
SetSessionAccess(s, w, mode) ==
    LET next == access[s].revision + 1 IN
    LET approved == {o \in Ops \ late :
                        /\ mode = "full" /\ op[o] = "awaiting_approval"
                        /\ SessionOf[RunOf[o]] = s /\ WorkspaceOf[o] = w} IN
    /\ access[s].revision < MaxRevision
    /\ access' = [access EXCEPT ![s] =
                    [mode |-> mode, workspace |-> w, revision |-> next]]
    /\ op' = [o \in Ops |-> IF o \in approved THEN "ready" ELSE op[o]]
    /\ autoAt' = [o \in Ops |-> IF o \in approved THEN next ELSE autoAt[o]]
    /\ UNCHANGED <<run, late, proven>>

\* Mutant of RequestOperation: the access mode only counts when it is set.
RequestPrompt(o) ==
    /\ op[o] = "absent"
    /\ run[RunOf[o]] = "running"
    /\ op' = [op EXCEPT ![o] = "awaiting_approval"]
    /\ UNCHANGED <<run, autoAt, access, late, proven>>

RequestOperation(o) ==
    LET s == SessionOf[RunOf[o]] IN
    /\ op[o] = "absent"
    /\ run[RunOf[o]] = "running"
    /\ IF FullAccess(s, WorkspaceOf[o])
         THEN /\ op' = [op EXCEPT ![o] = "ready"]
              /\ autoAt' = [autoAt EXCEPT ![o] = access[s].revision]
         ELSE /\ op' = [op EXCEPT ![o] = "awaiting_approval"]
              /\ UNCHANGED autoAt
    /\ UNCHANGED <<run, access, late, proven>>

\* Mutant of DecideOperation: it stores a state that no other code knows.
DecideApproved(o, decision) ==
    /\ op[o] = "awaiting_approval"
    /\ run[RunOf[o]] \in {"running", "paused"}
    /\ op' = [op EXCEPT ![o] = IF decision = "ready" THEN "approved" ELSE decision]
    /\ UNCHANGED <<run, autoAt, access, late, proven>>

\* A decision that comes after the deadline commits the expiry, then throws.
DecideOperation(o, decision) ==
    /\ op[o] = "awaiting_approval"
    /\ run[RunOf[o]] \in {"running", "paused"}
    /\ op' = [op EXCEPT ![o] = IF o \in late THEN "expired" ELSE decision]
    /\ UNCHANGED <<run, autoAt, access, late, proven>>

Claimable(o) ==
    /\ op[o] = "ready"
    /\ run[RunOf[o]] = "running"
    /\ ApprovalStands(o)

\* Mutant of Rivals: an uncertain effect no longer blocks its keys.
RunningRivals(o) == {p \in Ops \ {o} : op[p] = "executing" /\ Overlap(o, p)}

\* The operations that keep o from being claimed now.
Rivals(o) == {p \in Ops \ {o} : op[p] \in Blocking /\ Overlap(o, p)}

ClaimOperation(o) ==
    /\ Claimable(o)
    /\ o \in late \/ Rivals(o) = {}
    /\ op' = [op EXCEPT ![o] = IF o \in late THEN "expired" ELSE "executing"]
    /\ UNCHANGED <<run, autoAt, access, late, proven>>

CancelOperation(o) ==
    /\ op[o] \in Waiting
    /\ op' = [op EXCEPT ![o] = "cancelled"]
    /\ UNCHANGED <<run, autoAt, access, late, proven>>

ExpireOperation(o) ==
    /\ op[o] \in Waiting
    /\ o \in late
    /\ op' = [op EXCEPT ![o] = "expired"]
    /\ UNCHANGED <<run, autoAt, access, late, proven>>

\* proof: the receipt stored with the outcome shows a retired process tree and
\* its complete output, or the remote server's own error reply.
FinishOperation(o, outcome, proof) ==
    /\ op[o] = "executing"
    /\ proof => outcome = "uncertain" /\ ToolOf[o] \in ProcessTools \cup {"mcp"}
    /\ op' = [op EXCEPT ![o] = outcome]
    /\ proven' = IF proof THEN proven \cup {o} ELSE proven
    /\ UNCHANGED <<run, autoAt, access, late>>

\* Mutant of ReconcileInterruptedProcess: the operation may be dispatched again.
RetryInterruptedProcess(o) ==
    /\ op[o] = "uncertain" /\ ToolOf[o] \in ProcessTools
    /\ run[RunOf[o]] \in {"failed", "cancelled"}
    /\ o \in proven
    /\ op' = [op EXCEPT ![o] = "ready"]
    /\ UNCHANGED <<run, autoAt, access, late, proven>>

ReconcileInterruptedProcess(o) ==
    /\ op[o] = "uncertain" /\ ToolOf[o] \in ProcessTools
    /\ run[RunOf[o]] \in {"failed", "cancelled"}
    /\ o \in proven
    /\ op' = [op EXCEPT ![o] = "failed"]
    /\ UNCHANGED <<run, autoAt, access, late, proven>>

ReconcileAcknowledgedMcpError(o) ==
    /\ op[o] = "uncertain" /\ ToolOf[o] = "mcp"
    /\ run[RunOf[o]] \in {"failed", "cancelled"}
    /\ o \in proven
    /\ op' = [op EXCEPT ![o] = "failed"]
    /\ UNCHANGED <<run, autoAt, access, late, proven>>

--------------------------------------------------------------------------------
(* Restart and time *)

\* The paused dynamic roots that may be kept: the proof also covers plans,
\* budgets and context pins, so any of them may still be interrupted.
Preservable == {r \in DynamicRuns : run[r] = "paused" /\ ~HasPhysicalWork(r)}

\* A backend process starts over the journal its predecessor left.  It fails
\* the interrupted runs, cancels what they were waiting for and quarantines
\* what they were executing.  It looks at no other run.
RecoverInterrupted ==
    \E kept \in SUBSET Preservable :
        LET roots == {r \in Runs : run[r] \in {"queued", "running"}}
                     \cup {r \in DynamicRuns \ kept : run[r] = "paused"} IN
        /\ run' = [r \in Runs |-> IF r \in roots THEN "failed" ELSE run[r]]
        /\ op' = [o \in Ops |->
                    IF RunOf[o] \in roots /\ op[o] = "executing" THEN "uncertain"
                    ELSE CancelWaiting(roots)[o]]
        /\ UNCHANGED <<autoAt, access, late, proven>>

\* The approval deadline of a proposed operation passes.
Lapse(o) ==
    /\ op[o] # "absent" /\ o \notin late
    /\ late' = late \cup {o}
    /\ UNCHANGED <<run, op, autoAt, access, proven>>

--------------------------------------------------------------------------------

RunStep ==
    \E r \in Runs :
        \/ CreateRun(r)
        \/ \E next \in RunStates : Transition(r, next)
        \/ CompleteRun(r)
        \/ SuspendDynamicOwner(r)
        \/ ResumeDynamicOwner(r)
        \/ \E next \in {"failed", "cancelled"} : RetireDynamicOwner(r, next)

AccessStep ==
    \E s \in Sessions, w \in Workspaces, mode \in {"default", "full"} :
        SetSessionAccess(s, w, mode)

Outcomes == {"succeeded", "failed", "uncertain"}

OperationStep ==
    \E o \in Ops :
        \/ RequestOperation(o)
        \/ \E decision \in {"ready", "denied"} : DecideOperation(o, decision)
        \/ ClaimOperation(o)
        \/ CancelOperation(o)
        \/ ExpireOperation(o)
        \/ \E outcome \in Outcomes, proof \in BOOLEAN : FinishOperation(o, outcome, proof)
        \/ ReconcileInterruptedProcess(o)
        \/ ReconcileAcknowledgedMcpError(o)
        \/ Lapse(o)

Next == RunStep \/ AccessStep \/ OperationStep \/ RecoverInterrupted

Spec == Init /\ [][Next]_journal

--------------------------------------------------------------------------------
(* Safety *)

\* No two operations that may be changing the same thing: while one executes,
\* or once nobody knows what it did, none that shares a key with it is
\* dispatched (claim_operation, finish_operation and recover_interrupted).
EffectExclusion ==
    \A o, p \in Ops :
        o # p /\ op[o] \in Blocking /\ op[p] \in Blocking => ~Overlap(o, p)

\* What a finished run leaves behind: nothing that waits for an approval or may
\* still be dispatched, no foreground effect still executing, and under an
\* answer nothing but the services it started.
EndedRunIsSettled ==
    \A o \in Ops :
        /\ run[RunOf[o]] \in Terminal =>
               /\ op[o] \notin Waiting
               /\ op[o] = "executing" => ToolOf[o] \in BackgroundTools
        /\ run[RunOf[o]] = "completed" /\ op[o] \in Blocking => ToolOf[o] = "service"

\* A dynamic root pauses for a person only when it owns no effect, and nothing
\* gives it one while it is paused: recovery may then keep the pause.
DynamicPauseIsQuiescent ==
    \A r \in DynamicRuns : run[r] = "paused" => ~HasPhysicalWork(r)

\* While a session has full access to a workspace nobody is asked about an
\* operation there that could still be approved (request_operation and
\* set_session_access between them).
FullAccessLeavesNoPrompt ==
    \A o \in Ops :
        op[o] = "awaiting_approval" /\ FullAccess(SessionOf[RunOf[o]], WorkspaceOf[o])
            => o \in late

--------------------------------------------------------------------------------
(* The journal keeps the promise of EffectLedger *)

Standing(state) ==
    CASE state \in Waiting \cup {"absent"} -> "free"
      [] state \in {"denied", "expired", "cancelled"} -> "void"
      [] state = "executing" -> "held"
      [] state = "uncertain" -> "quarantined"
      [] state \in {"succeeded", "failed"} -> "settled"

effectStanding == [o \in Ops |-> Standing(op[o])]

Ledger == INSTANCE EffectLedger
            WITH Effects <- Ops, Keys <- Keys, effect <- effectStanding

\* Every step of the journal grants, concludes, reconciles, voids or interrupts
\* effects the way EffectLedger allows, or leaves them alone.
ImplementsEffectLedger == Ledger!Spec

================================================================================
