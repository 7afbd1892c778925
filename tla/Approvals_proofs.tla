----------------------------- MODULE Approvals_proofs -----------------------------
(***************************************************************************)
(* What becomes of an approval, for any runs, sessions, operations and     *)
(* access revisions: one that is withdrawn never dispatches                *)
(* (ApprovalHistory), and the call that waits for one agrees with the      *)
(* journal about its operation until its effect is recorded                *)
(* (PermissionWaiter).                                                     *)
(***************************************************************************)
EXTENDS ApprovalHistory, PermissionWaiter, OperationJournal_proofs

HistoryInv == TypeOK /\ RevisionsTellRevocation /\ RevokedApprovalNeverDispatches

\* Only entering full access raises the revision an approval carries, or a
\* proposal made under it; both take an operation that is not ready yet.
LEMMA AutoAtSteps ==
    ASSUME TypeOK, [Next]_journal, NEW o \in Ops
    PROVE  \/ autoAt'[o] = autoAt[o]
           \/ op[o] \in {"absent", "awaiting_approval"}
              /\ autoAt'[o] = access'[SessionOf[RunOf[o]]].revision
  <1> USE DEF TypeOK
  <1> SessionOf[RunOf[o]] \in Sessions
    BY RunsAssumption, OpsAssumption
  <1>1. CASE AccessStep
    <2>1. PICK s \in Sessions, w \in Workspaces, mode \in {"default", "full"} :
                SetSessionAccess(s, w, mode)
      BY <1>1 DEF AccessStep
    <2> QED
      BY <2>1 DEF SetSessionAccess
  <1>2. CASE \E q \in Ops : RequestOperation(q)
    <2>1. PICK q \in Ops : RequestOperation(q)
      BY <1>2
    <2> QED
      BY <2>1 DEF RequestOperation
  <1>3. CASE UNCHANGED autoAt
    BY <1>3
  <1> QED
    BY <1>1, <1>2, <1>3
       DEF Next, RunStep, OperationStep, CreateRun, Transition, CompleteRun, SuspendDynamicOwner,
           ResumeDynamicOwner, RetireDynamicOwner, DecideOperation, ClaimOperation,
           CancelOperation, ExpireOperation, FinishOperation, ReconcileInterruptedProcess,
           ReconcileAcknowledgedMcpError, Lapse, RecoverInterrupted, journal

\* A session's revision only goes up, and goes up whenever its access changes.
LEMMA RevisionSteps ==
    ASSUME TypeOK, [Next]_journal, NEW s \in Sessions
    PROVE  \/ access'[s] = access[s]
           \/ access'[s].revision = access[s].revision + 1
  <1>1. CASE AccessStep
    BY <1>1 DEF AccessStep, SetSessionAccess, TypeOK
  <1> QED
    BY <1>1, AccessSteps

\* An operation whose approval was withdrawn stays ready until it expires or is
\* cancelled.
LEMMA RevokedSteps ==
    ASSUME TypeOK, [Next]_journal, NEW o \in Ops, op[o] \in {"ready", "expired", "cancelled"},
           autoAt[o] > 0, autoAt[o] < access[SessionOf[RunOf[o]]].revision
    PROVE  op'[o] \in {"ready", "expired", "cancelled"}
  <1> USE DEF TypeOK
  <1> SessionOf[RunOf[o]] \in Sessions
    BY RunsAssumption, OpsAssumption
  <1>1. ~ApprovalStands(o)
    BY DEF ApprovalStands, AccessRecords
  <1>2. CASE \E q \in Ops : ClaimOperation(q)
    <2>1. PICK q \in Ops : ClaimOperation(q)
      BY <1>2
    <2>2. q # o
      BY <1>1, <2>1 DEF ClaimOperation, Claimable
    <2> QED
      BY <2>1, <2>2 DEF ClaimOperation
  <1>3. CASE RunStep
    <2>1. PICK r \in Runs : \/ CreateRun(r) \/ CompleteRun(r) \/ SuspendDynamicOwner(r)
                            \/ ResumeDynamicOwner(r)
                            \/ \E next \in RunStates : Transition(r, next)
                            \/ \E next \in {"failed", "cancelled"} : RetireDynamicOwner(r, next)
      BY <1>3 DEF RunStep
    <2>2. op' = op \/ op' = CancelWaiting({r})
      BY <2>1 DEF CreateRun, CompleteRun, SuspendDynamicOwner, ResumeDynamicOwner,
                  Transition, RetireDynamicOwner
    <2> QED
      BY <2>2, CancelWaitingAt
  <1>4. CASE AccessStep
    BY <1>4 DEF AccessStep, SetSessionAccess
  <1>5. CASE RecoverInterrupted
    BY <1>5, CancelWaitingAt DEF RecoverInterrupted
  <1>6. CASE OperationStep /\ ~\E q \in Ops : ClaimOperation(q)
    BY <1>6 DEF OperationStep, RequestOperation, DecideOperation, CancelOperation,
                ExpireOperation, FinishOperation, ReconcileInterruptedProcess,
                ReconcileAcknowledgedMcpError, Lapse
  <1>7. CASE UNCHANGED journal
    BY <1>7 DEF journal
  <1> QED
    BY <1>2, <1>3, <1>4, <1>5, <1>6, <1>7 DEF Next

LEMMA NextHistoryInv ==
    HistoryInv /\ [HistoryNext]_<<journal, revoked>> => HistoryInv'
  <1> SUFFICES ASSUME HistoryInv, [HistoryNext]_<<journal, revoked>> PROVE HistoryInv'
    OBVIOUS
  <1> DEFINE session(o) == SessionOf[RunOf[o]]
  <1> USE DEF HistoryInv
  <1>1. [Next]_journal
    BY DEF HistoryNext
  <1>2. TypeOK'
    BY <1>1, NextTypeOK
  <1>3. \A o \in Ops : session(o) \in Sessions
    BY RunsAssumption, OpsAssumption
  <1>4. \A s \in Sessions : /\ access[s].revision \in Nat /\ access'[s].revision \in Nat
                            /\ access[s].revision <= access'[s].revision
    BY <1>1, <1>2, RevisionSteps, RevisionAssumption DEF TypeOK, AccessRecords
  <1>5. \A o \in Ops : autoAt[o] \in Nat /\ autoAt'[o] \in Nat
    BY <1>2, RevisionAssumption DEF TypeOK
  <1>6. \A o \in Ops : autoAt'[o] <= access'[session(o)].revision
    <2> SUFFICES ASSUME NEW o \in Ops PROVE autoAt'[o] <= access'[session(o)].revision
      OBVIOUS
    <2>1. autoAt[o] <= access[session(o)].revision
      BY DEF RevisionsTellRevocation
    <2> QED
      BY <1>1, <1>3, <1>4, <1>5, <2>1, AutoAtSteps
  <1>7. ASSUME NEW o \in revoked'
        PROVE  /\ o \in Ops /\ autoAt'[o] > 0 /\ autoAt'[o] < access'[session(o)].revision
               /\ op'[o] \in {"ready", "expired", "cancelled"}
    <2>1. CASE o \in revoked
      <3>1. /\ o \in Ops /\ autoAt[o] > 0 /\ autoAt[o] < access[session(o)].revision
            /\ op[o] \in {"ready", "expired", "cancelled"}
        BY <2>1 DEF RevisionsTellRevocation, RevokedApprovalNeverDispatches
      <3>2. autoAt'[o] = autoAt[o]
        BY <1>1, <3>1, AutoAtSteps
      <3>3. op'[o] \in {"ready", "expired", "cancelled"}
        BY <1>1, <3>1, RevokedSteps
      <3> QED
        BY <1>3, <1>4, <1>5, <3>1, <3>2, <3>3
    <2>2. CASE o \notin revoked
      <3>1. HistoryNext /\ o \in Withdrawn
        BY <1>7, <2>2 DEF HistoryNext
      <3>2. o \in Ops /\ op[o] = "ready" /\ autoAt[o] > 0 /\ access'[session(o)] # access[session(o)]
        BY <3>1 DEF Withdrawn
      <3>3. access'[session(o)].revision = access[session(o)].revision + 1
        BY <1>1, <1>3, <3>2, RevisionSteps
      <3>4. autoAt'[o] = autoAt[o] /\ autoAt[o] <= access[session(o)].revision
        BY <1>1, <3>2, AutoAtSteps DEF RevisionsTellRevocation
      <3>5. AccessStep
        BY <1>1, <1>3, <3>2, AccessSteps
      <3>6. op'[o] = "ready"
        BY <3>2, <3>5 DEF AccessStep, SetSessionAccess, TypeOK
      <3> QED
        BY <1>3, <1>4, <1>5, <3>2, <3>3, <3>4, <3>6
    <2> QED
      BY <2>1, <2>2
  <1> QED
    BY <1>2, <1>6, <1>7 DEF RevisionsTellRevocation, RevokedApprovalNeverDispatches

\* Changing a session's access withdraws for good the approvals it gave: no
\* later full access brings them back, however the calls interleave.
THEOREM RevocationIsFinal == HistorySpec => []RevokedApprovalNeverDispatches
  <1>1. HistoryInit => HistoryInv
    <2> SUFFICES ASSUME HistoryInit PROVE HistoryInv
      OBVIOUS
    <2>1. TypeOK
      BY InitTypeOK DEF HistoryInit
    <2>2. \A o \in Ops : SessionOf[RunOf[o]] \in Sessions
      BY RunsAssumption, OpsAssumption
    <2>3. \A o \in Ops : autoAt[o] <= access[SessionOf[RunOf[o]]].revision
      BY <2>2, RevisionAssumption DEF HistoryInit, Init, AccessRecords
    <2> QED
      BY <2>1, <2>3 DEF HistoryInit, HistoryInv, RevisionsTellRevocation,
                        RevokedApprovalNeverDispatches
  <1>2. HistoryInv /\ [HistoryNext]_<<journal, revoked>> => HistoryInv'
    BY NextHistoryInv
  <1>3. HistoryInv => RevokedApprovalNeverDispatches
    BY DEF HistoryInv
  <1> QED
    BY <1>1, <1>2, <1>3, PTL DEF HistorySpec

--------------------------------------------------------------------------------
(* The calls that wait for an approval *)

\* What a call that is waiter[o] knows of its operation, in words of the journal.
\* A call that was refused because of a conflict may leave a proposal behind.
Known(o, pc, state) ==
    /\ pc = "idle" => state = "absent"
    /\ pc \in Pending \cup {"conflict"} => state \in Waiting \cup Void
    /\ pc \in Refused \ {"conflict"} => state \in Void \cup {"absent"}
    /\ pc = "holding" => state = "executing"

\* The inductive invariant: a call that is past its proposal and short of its
\* effect has an operation that waits or is void, so that what it is told next
\* is true whatever happened since it read.
WaiterInv ==
    /\ WaiterTypeOK
    /\ EffectExclusion
    /\ \A o \in Ops : Known(o, waiter[o], op[o])

\* Every step of the calls, the executors and their surroundings is a step of
\* the journal, or leaves it alone.
LEMMA WaiterStepsJournal ==
    ASSUME [WaiterNext]_vars
    PROVE  [Next]_journal
  <1>1. CASE UNCHANGED vars
    BY <1>1 DEF vars
  <1>2. CASE Environment
    BY <1>2 DEF Environment, Next, OperationStep
  <1>3. CASE Crash
    BY <1>3 DEF Crash, Next
  <1>4. CASE \E o \in Ops : CancelledBeforeProposal(o) \/ RequestStop(o)
    BY <1>4 DEF CancelledBeforeProposal, RequestStop
  <1>5. CASE \E o \in Ops : Propose(o)
    BY <1>5 DEF Propose, Next, OperationStep
  <1>6. CASE \E o \in Ops : Wait(o)
    BY <1>6 DEF Wait, TrustedDecision, Abandon, Read, Expire, Claim, ClaimRefused, Recheck,
                Withdraw, Next, OperationStep
  <1>7. CASE \E o \in Ops : Execute(o)
    <2>1. PICK o \in Ops : Execute(o)
      BY <1>7
    <2>2. "uncertain" \in Outcomes
      BY DEF Outcomes
    <2> QED
      BY <2>1, <2>2 DEF Execute, Record, LoseOutcome, RecordUncertain, Next, OperationStep
  <1> QED
    BY <1>1, <1>2, <1>3, <1>4, <1>5, <1>6, <1>7 DEF WaiterNext

\* What a step of somebody else can do to an operation: nobody but its own call
\* proposes it, dispatches it or ends its effect.
LEMMA SurroundingsKeep ==
    ASSUME TypeOK, Environment, NEW o \in Ops
    PROVE  /\ op[o] = "absent" => op'[o] = "absent"
           /\ op[o] \in Waiting \cup Void => op'[o] \in Waiting \cup Void
           /\ op[o] \in Void => op'[o] \in Void
           /\ op[o] = "executing" => op'[o] = "executing"
  <1> DEFINE P == /\ op[o] = "absent" => op'[o] = "absent"
                  /\ op[o] \in Waiting \cup Void => op'[o] \in Waiting \cup Void
                  /\ op[o] \in Void => op'[o] \in Void
                  /\ op[o] = "executing" => op'[o] = "executing"
  <1> USE DEF TypeOK, Waiting, Void
  <1>1. CASE RunStep
    <2>1. PICK r \in Runs : \/ CreateRun(r) \/ CompleteRun(r) \/ SuspendDynamicOwner(r)
                            \/ ResumeDynamicOwner(r)
                            \/ \E next \in RunStates : Transition(r, next)
                            \/ \E next \in {"failed", "cancelled"} : RetireDynamicOwner(r, next)
      BY <1>1 DEF RunStep
    <2>2. op' = op \/ op' = CancelWaiting({r})
      BY <2>1 DEF CreateRun, CompleteRun, SuspendDynamicOwner, ResumeDynamicOwner,
                  Transition, RetireDynamicOwner
    <2>3. op'[o] = op[o] \/ (op[o] \in Waiting /\ op'[o] = "cancelled")
      BY <2>2 DEF CancelWaiting
    <2> QED
      BY <2>3
  <1>2. CASE AccessStep
    BY <1>2 DEF AccessStep, SetSessionAccess
  <1>3. CASE \E q \in Ops, decision \in {"ready", "denied"} : DecideOperation(q, decision)
    BY <1>3 DEF DecideOperation
  <1>4. CASE \E q \in Ops : ReconcileInterruptedProcess(q) \/ ReconcileAcknowledgedMcpError(q)
    BY <1>4 DEF ReconcileInterruptedProcess, ReconcileAcknowledgedMcpError
  <1>5. CASE \E q \in Ops : Lapse(q)
    BY <1>5 DEF Lapse
  <1> QED
    BY <1>1, <1>2, <1>3, <1>4, <1>5 DEF Environment

\* A call changes its own operation and no other.
LEMMA CallsKeep ==
    ASSUME WaiterTypeOK, NEW o \in Ops, NEW p \in Ops \ {o},
           \/ CancelledBeforeProposal(p) \/ Propose(p) \/ Wait(p) \/ Execute(p)
           \/ RequestStop(p)
    PROVE  op'[o] = op[o] /\ waiter'[o] = waiter[o]
  <1> USE DEF WaiterTypeOK, TypeOK
  <1>1. CASE CancelledBeforeProposal(p) \/ RequestStop(p)
    BY <1>1 DEF CancelledBeforeProposal, RequestStop, Goto, journal
  <1>2. CASE Propose(p)
    BY <1>2 DEF Propose, RequestOperation, Goto
  <1>3. CASE Wait(p)
    BY <1>3 DEF Wait, TrustedDecision, DecideOperation, Abandon, CancelOperation, Read, Expire,
                ExpireOperation, Claim, ClaimRefused, ClaimOperation, Recheck, Withdraw, Goto,
                journal
  <1>4. CASE Execute(p)
    BY <1>4 DEF Execute, Record, LoseOutcome, RecordUncertain, FinishOperation, Goto, journal
  <1> QED
    BY <1>1, <1>2, <1>3, <1>4

LEMMA WaiterTypesStep ==
    ASSUME WaiterTypeOK, [WaiterNext]_vars
    PROVE  WaiterTypeOK'
  <1> DEFINE Typed == waiter' \in [Ops -> WaiterStates] /\ stop' \subseteq Ops
  <1> USE DEF WaiterTypeOK
  <1>1. TypeOK'
    BY WaiterStepsJournal, NextTypeOK
  <1>2. ASSUME NEW o \in Ops, NEW pc \in WaiterStates, Goto(o, pc), UNCHANGED stop PROVE Typed
    BY <1>2 DEF Goto
  <1>3. ASSUME UNCHANGED vars PROVE Typed
    BY <1>3 DEF vars
  <1>4. ASSUME Environment PROVE Typed
    BY <1>4 DEF Environment
  <1>5. ASSUME Crash PROVE Typed
    BY <1>5 DEF Crash, WaiterStates
  <1>6. ASSUME \E o \in Ops : RequestStop(o) PROVE Typed
    BY <1>6 DEF RequestStop
  <1>7. ASSUME \E o \in Ops : CancelledBeforeProposal(o) \/ Propose(o) \/ Execute(o) PROVE Typed
    <2>1. PICK o \in Ops : CancelledBeforeProposal(o) \/ Propose(o) \/ Execute(o)
      BY <1>7
    <2>2. UNCHANGED stop /\ \E pc \in WaiterStates : Goto(o, pc)
      BY <2>1 DEF CancelledBeforeProposal, Propose, Execute, Record, LoseOutcome,
                  RecordUncertain, WaiterStates, Pending, Refused
    <2> QED
      BY <1>2, <2>2
  <1>8. ASSUME \E o \in Ops : Wait(o) PROVE Typed
    <2>1. PICK o \in Ops : Wait(o)
      BY <1>8
    <2>2. AfterRead(o) \in WaiterStates
      BY DEF AfterRead, WaiterStates, Pending, Refused, Waiting
    <2>3. UNCHANGED stop /\ \E pc \in WaiterStates : Goto(o, pc)
      BY <2>1, <2>2 DEF Wait, TrustedDecision, Abandon, Read, Expire, Claim, ClaimRefused,
                        Recheck, Withdraw, WaiterStates, Pending, Refused
    <2> QED
      BY <1>2, <2>3
  <1>9. Typed
    BY <1>3, <1>4, <1>5, <1>6, <1>7, <1>8 DEF WaiterNext
  <1> QED
    BY <1>1, <1>9

\* The call for an operation and the operation, after a step of the call.
LEMMA OwnCallStep ==
    ASSUME WaiterInv, NEW o \in Ops,
           \/ CancelledBeforeProposal(o) \/ Propose(o) \/ Wait(o) \/ Execute(o)
           \/ RequestStop(o)
    PROVE  Known(o, waiter'[o], op'[o])
  <1> USE DEF WaiterInv, WaiterTypeOK, TypeOK, Known, Waiting, Void, Pending, Refused, Goto, journal
  <1>1. CASE CancelledBeforeProposal(o) \/ RequestStop(o)
    BY <1>1 DEF CancelledBeforeProposal, RequestStop
  <1>2. CASE Propose(o)
    <2>1. op'[o] \in Waiting /\ waiter'[o] \in {"deciding", "polling"}
      BY <1>2 DEF Propose, RequestOperation
    <2> QED
      BY <2>1
  <1>3. CASE TrustedDecision(o)
    <2>1. op'[o] \in Waiting \cup Void /\ waiter'[o] \in {"polling", "conflict"}
      BY <1>3 DEF TrustedDecision, DecideOperation
    <2> QED
      BY <2>1
  <1>4. CASE Abandon(o)
    BY <1>4 DEF Abandon, CancelOperation
  <1>5. CASE Read(o)
    <2>1. op' = op /\ waiter'[o] = AfterRead(o)
      BY <1>5 DEF Read
    <2>2. op[o] \in Waiting \cup Void
      BY <1>5 DEF Read
    <2>3. \/ AfterRead(o) \in {"expiring", "claiming", "polling", "conflict"}
          \/ AfterRead(o) = op[o] /\ op[o] \in Void
      BY <2>2 DEF AfterRead
    <2> QED
      BY <2>1, <2>2, <2>3
  <1>6. CASE Expire(o)
    BY <1>6 DEF Expire, ExpireOperation
  <1>7. CASE Claim(o)
    BY <1>7 DEF Claim, ClaimOperation
  <1>8. CASE ClaimRefused(o)
    <2>1. waiter'[o] \in {"rechecking", "withdrawing", "polling"} /\ op'[o] \in Waiting \cup Void
      BY <1>8 DEF ClaimRefused, ClaimOperation
    <2> QED
      BY <2>1
  <1>9. CASE Recheck(o)
    BY <1>9 DEF Recheck
  <1>10. CASE Withdraw(o)
    BY <1>10 DEF Withdraw, CancelOperation
  <1>11. CASE Execute(o)
    <2>1. waiter'[o] \in {"recorded", "unrecorded"}
      BY <1>11 DEF Execute, Record, LoseOutcome, RecordUncertain
    <2> QED
      BY <2>1
  <1> QED
    BY <1>1, <1>2, <1>3, <1>4, <1>5, <1>6, <1>7, <1>8, <1>9, <1>10, <1>11 DEF Wait

LEMMA WaiterInvStep == WaiterInv /\ [WaiterNext]_vars => WaiterInv'
  <1> SUFFICES ASSUME WaiterInv, [WaiterNext]_vars PROVE WaiterInv'
    OBVIOUS
  <1>1. WaiterTypeOK /\ TypeOK
    BY DEF WaiterInv, WaiterTypeOK
  <1>2. WaiterTypeOK'
    BY <1>1, WaiterTypesStep
  <1>3. EffectExclusion'
    BY <1>1, WaiterStepsJournal, NextEffectExclusion DEF WaiterInv
  <1>4. ASSUME NEW o \in Ops PROVE Known(o, waiter'[o], op'[o])
    <2>1. Known(o, waiter[o], op[o])
      BY DEF WaiterInv
    <2>2. ASSUME UNCHANGED waiter, UNCHANGED op PROVE Known(o, waiter'[o], op'[o])
      BY <2>1, <2>2
    <2>3. CASE UNCHANGED vars
      BY <2>2, <2>3 DEF vars, journal
    <2>4. CASE Environment
      <3>1. waiter'[o] = waiter[o]
        BY <2>4 DEF Environment
      <3> QED
        BY <1>1, <2>1, <2>4, <3>1, SurroundingsKeep DEF Known, Void
    <2>5. CASE Crash
      <3>1. waiter'[o] \notin Pending \cup {"holding"}
        BY <1>1, <2>5 DEF Crash, WaiterTypeOK, Pending
      <3>2. waiter'[o] = "idle" \/ waiter'[o] \in Refused => waiter'[o] = waiter[o]
        BY <1>1, <2>5 DEF Crash, WaiterTypeOK, Refused
      <3>3. /\ op'[o] \in {op[o], "cancelled", "uncertain"}
            /\ op[o] \notin Waiting \cup {"executing"} => op'[o] = op[o]
            /\ op[o] \in Waiting => op'[o] # "uncertain"
        BY <1>1, <2>5 DEF Crash, RecoverInterrupted, CancelWaiting, Waiting, TypeOK
      <3> QED
        BY <2>1, <3>1, <3>2, <3>3 DEF Known, Waiting, Void, Refused
    <2>6. ASSUME NEW p \in Ops,
                 \/ CancelledBeforeProposal(p) \/ Propose(p) \/ Wait(p) \/ Execute(p)
                 \/ RequestStop(p)
          PROVE  Known(o, waiter'[o], op'[o])
      <3>1. CASE p = o
        BY <2>6, <3>1, OwnCallStep
      <3>2. CASE p # o
        <4>1. op'[o] = op[o] /\ waiter'[o] = waiter[o]
          BY <1>1, <2>6, <3>2, CallsKeep
        <4> QED
          BY <2>1, <4>1
      <3> QED
        BY <3>1, <3>2
    <2> QED
      BY <2>3, <2>4, <2>5, <2>6 DEF WaiterNext
  <1> QED
    BY <1>2, <1>3, <1>4 DEF WaiterInv

LEMMA WaiterInvInit == WaiterInit => WaiterInv
  <1> SUFFICES ASSUME WaiterInit PROVE WaiterInv
    OBVIOUS
  <1>1. TypeOK
    BY InitTypeOK DEF WaiterInit
  <1>2. WaiterTypeOK
    BY <1>1 DEF WaiterInit, WaiterTypeOK, WaiterStates
  <1>3. EffectExclusion
    BY DEF WaiterInit, Init, EffectExclusion, Blocking
  <1>4. \A o \in Ops : Known(o, waiter[o], op[o])
    BY DEF WaiterInit, Init, Known, Pending, Refused
  <1> QED
    BY <1>2, <1>3, <1>4 DEF WaiterInv

LEMMA KnownAgrees == WaiterInv => WaiterAgreesWithJournal
  <1> SUFFICES ASSUME WaiterInv PROVE WaiterAgreesWithJournal
    OBVIOUS
  <1>1. HolderOwnsItsKeys
    BY DEF WaiterInv, Known, HolderOwnsItsKeys, EffectExclusion, Blocking
  <1>2. RefusedNeverDispatches
    BY DEF WaiterInv, Known, RefusedNeverDispatches, Waiting, Void, Blocking, Refused
  <1> QED
    BY <1>1, <1>2 DEF WaiterAgreesWithJournal

THEOREM WaiterInvariant == WaiterSpec => []WaiterInv
  BY WaiterInvInit, WaiterInvStep, PTL DEF WaiterSpec

\* The calls, their stop tokens and the journal keep their types.
THEOREM WaiterTypeCorrect == WaiterSpec => []WaiterTypeOK
  <1>1. WaiterInv => WaiterTypeOK
    BY DEF WaiterInv
  <1> QED
    BY <1>1, WaiterInvariant, PTL

\* While an executor holds an effect the journal says so and keeps every rival
\* out; an effect whose call threw never happens.  Whatever is decided, expires,
\* ends or crashes between a read of PermissionWaiter::acquire and the
\* transaction that acts on it.
THEOREM CallsAgreeWithJournal == WaiterSpec => []WaiterAgreesWithJournal
  BY WaiterInvariant, KnownAgrees, PTL

\* Calls that wait, read, retry and are abandoned, threads that are told to stop, and
\* crashes use the journal as OperationJournal says it is used: what is proved of the journal
\* holds while they run.
THEOREM WaiterImplementsJournal == WaiterSpec => Spec
  <1>1. WaiterInit => Init
    BY DEF WaiterInit
  <1>2. [WaiterNext]_vars => [Next]_journal
    BY WaiterStepsJournal
  <1> QED
    BY <1>1, <1>2, PTL DEF WaiterSpec, Spec

\* So a behaviour of the calls is one of EffectLedger too: whatever a call was told, its
\* effect is granted at most once and alone on its keys.
THEOREM WaiterImplementsLedger == WaiterSpec => ImplementsEffectLedger
  BY WaiterImplementsJournal, JournalImplementsLedger

================================================================================
