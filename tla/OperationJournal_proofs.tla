------------------------- MODULE OperationJournal_proofs -------------------------
(***************************************************************************)
(* Theorems about OperationJournal, for any runs, sessions, operations,    *)
(* keys and access revisions.                                              *)
(*                                                                         *)
(* The safety invariants need no strengthening but the type invariant:     *)
(* each is kept by every step.                                             *)
(***************************************************************************)
EXTENDS OperationJournal, TLAPS

\* The actions of Next, one by one: a property of steps is proved by these cases.
LEMMA NextCases ==
    ASSUME Next
    PROVE  \/ \E r \in Runs : CreateRun(r)
           \/ \E r \in Runs, next \in RunStates : Transition(r, next)
           \/ \E r \in Runs : CompleteRun(r)
           \/ \E r \in Runs : SuspendDynamicOwner(r)
           \/ \E r \in Runs : ResumeDynamicOwner(r)
           \/ \E r \in Runs, next \in {"failed", "cancelled"} : RetireDynamicOwner(r, next)
           \/ \E s \in Sessions, w \in Workspaces, mode \in {"default", "full"} :
                SetSessionAccess(s, w, mode)
           \/ \E o \in Ops : RequestOperation(o)
           \/ \E o \in Ops, decision \in {"ready", "denied"} : DecideOperation(o, decision)
           \/ \E o \in Ops : ClaimOperation(o)
           \/ \E o \in Ops : CancelOperation(o)
           \/ \E o \in Ops : ExpireOperation(o)
           \/ \E o \in Ops, outcome \in Outcomes, proof \in BOOLEAN :
                FinishOperation(o, outcome, proof)
           \/ \E o \in Ops : ReconcileInterruptedProcess(o)
           \/ \E o \in Ops : ReconcileAcknowledgedMcpError(o)
           \/ \E o \in Ops : Lapse(o)
           \/ RecoverInterrupted
  BY DEF Next, RunStep, AccessStep, OperationStep

--------------------------------------------------------------------------------
(* Type correctness *)

LEMMA InitTypeOK == Init => TypeOK
  <1> SUFFICES ASSUME Init PROVE TypeOK
    OBVIOUS
  <1>1. 0 \in 0..MaxRevision
    BY RevisionAssumption
  <1> QED
    BY <1>1 DEF Init, TypeOK, RunStates, OpStates

LEMMA CancelWaitingType ==
    ASSUME TypeOK, NEW R
    PROVE  CancelWaiting(R) \in [Ops -> OpStates \cup {"absent"}]
  BY DEF TypeOK, CancelWaiting, OpStates

LEMMA NextTypeOK == TypeOK /\ [Next]_journal => TypeOK'
  <1> SUFFICES ASSUME TypeOK, [Next]_journal PROVE TypeOK'
    OBVIOUS
  <1> USE DEF TypeOK
  <1>1. CASE \E r \in Runs : CreateRun(r)
    BY <1>1 DEF CreateRun, RunStates
  <1>2. CASE \E r \in Runs, next \in RunStates : Transition(r, next)
    <2>1. PICK r \in Runs, next \in RunStates : Transition(r, next)
      BY <1>2
    <2>2. op' \in [Ops -> OpStates \cup {"absent"}]
      BY <2>1, CancelWaitingType DEF Transition
    <2> QED
      BY <2>1, <2>2 DEF Transition
  <1>3. CASE \E r \in Runs : CompleteRun(r)
    BY <1>3 DEF CompleteRun, RunStates
  <1>4. CASE \E r \in Runs : SuspendDynamicOwner(r)
    BY <1>4 DEF SuspendDynamicOwner, RunStates
  <1>5. CASE \E r \in Runs : ResumeDynamicOwner(r)
    BY <1>5 DEF ResumeDynamicOwner, RunStates
  <1>6. CASE \E r \in Runs, next \in {"failed", "cancelled"} : RetireDynamicOwner(r, next)
    <2>1. PICK r \in Runs, next \in {"failed", "cancelled"} : RetireDynamicOwner(r, next)
      BY <1>6
    <2>2. op' \in [Ops -> OpStates \cup {"absent"}]
      BY <2>1, CancelWaitingType DEF RetireDynamicOwner
    <2> QED
      BY <2>1, <2>2 DEF RetireDynamicOwner, RunStates
  <1>7. CASE \E s \in Sessions, w \in Workspaces, mode \in {"default", "full"} :
                SetSessionAccess(s, w, mode)
    <2>1. PICK s \in Sessions, w \in Workspaces, mode \in {"default", "full"} :
                SetSessionAccess(s, w, mode)
      BY <1>7
    <2> DEFINE next == access[s].revision + 1
    <2>2. next \in 0..MaxRevision
      BY <2>1, RevisionAssumption DEF SetSessionAccess, AccessRecords
    <2>3. access' \in [Sessions -> AccessRecords]
      BY <2>1, <2>2 DEF SetSessionAccess, AccessRecords
    <2>4. op' \in [Ops -> OpStates \cup {"absent"}]
      BY <2>1 DEF SetSessionAccess, OpStates, Waiting
    <2>5. autoAt' \in [Ops -> 0..MaxRevision]
      BY <2>1, <2>2 DEF SetSessionAccess
    <2> QED
      BY <2>1, <2>3, <2>4, <2>5 DEF SetSessionAccess
  <1>8. CASE \E o \in Ops : RequestOperation(o)
    <2>1. PICK o \in Ops : RequestOperation(o)
      BY <1>8
    <2>2. SessionOf[RunOf[o]] \in Sessions
      BY RunsAssumption, OpsAssumption
    <2>3. op' \in [Ops -> OpStates \cup {"absent"}]
      BY <2>1 DEF RequestOperation, OpStates, Waiting
    <2>4. autoAt' \in [Ops -> 0..MaxRevision]
      BY <2>1, <2>2 DEF RequestOperation, AccessRecords
    <2> QED
      BY <2>1, <2>3, <2>4 DEF RequestOperation
  <1>9. CASE \E o \in Ops, decision \in {"ready", "denied"} : DecideOperation(o, decision)
    BY <1>9 DEF DecideOperation, OpStates, Waiting
  <1>10. CASE \E o \in Ops : ClaimOperation(o)
    BY <1>10 DEF ClaimOperation, OpStates, Blocking
  <1>11. CASE \E o \in Ops : CancelOperation(o)
    BY <1>11 DEF CancelOperation, OpStates
  <1>12. CASE \E o \in Ops : ExpireOperation(o)
    BY <1>12 DEF ExpireOperation, OpStates
  <1>13. CASE \E o \in Ops, outcome \in Outcomes, proof \in BOOLEAN :
                FinishOperation(o, outcome, proof)
    BY <1>13 DEF FinishOperation, Outcomes, OpStates, Blocking
  <1>14. CASE \E o \in Ops : ReconcileInterruptedProcess(o)
    BY <1>14 DEF ReconcileInterruptedProcess, OpStates
  <1>15. CASE \E o \in Ops : ReconcileAcknowledgedMcpError(o)
    BY <1>15 DEF ReconcileAcknowledgedMcpError, OpStates
  <1>16. CASE \E o \in Ops : Lapse(o)
    BY <1>16 DEF Lapse
  <1>17. CASE RecoverInterrupted
    <2>1. \A R : CancelWaiting(R) \in [Ops -> OpStates \cup {"absent"}]
      BY CancelWaitingType
    <2> QED
      BY <1>17, <2>1 DEF RecoverInterrupted, RunStates, OpStates, Blocking
  <1>18. CASE UNCHANGED journal
    BY <1>18 DEF journal
  <1> QED
    BY <1>1, <1>2, <1>3, <1>4, <1>5, <1>6, <1>7, <1>8, <1>9, <1>10, <1>11, <1>12,
       <1>13, <1>14, <1>15, <1>16, <1>17, <1>18, NextCases

\* The journal's variables keep their types whatever is called in whatever order.
THEOREM TypeCorrect == Spec => []TypeOK
  <1>1. TypeOK /\ [Next]_journal => TypeOK'
    BY NextTypeOK
  <1> QED
    BY InitTypeOK, <1>1, PTL DEF Spec

--------------------------------------------------------------------------------
(* Mutual exclusion of effects *)

LEMMA OverlapSymmetric == \A o, p \in Ops : Overlap(o, p) => Overlap(p, o)
  BY DEF Overlap

\* The only step after which an operation blocks its keys that did not block
\* them before is a claim, and the claim finds no rival.
LEMMA OnlyClaimBlocks ==
    ASSUME TypeOK, [Next]_journal
    PROVE  \/ \A o \in Ops : op'[o] \in Blocking => op[o] \in Blocking
           \/ \E o \in Ops : Rivals(o) = {} /\ op' = [op EXCEPT ![o] = "executing"]
  <1> DEFINE Unblocks == \A o \in Ops : op'[o] \in Blocking => op[o] \in Blocking
  <1> USE DEF TypeOK, Blocking
  <1>1. ASSUME UNCHANGED op PROVE Unblocks
    BY <1>1
  <1>2. CASE \E r \in Runs, next \in RunStates : Transition(r, next)
    BY <1>2 DEF Transition, CancelWaiting
  <1>3. CASE \E r \in Runs, next \in {"failed", "cancelled"} : RetireDynamicOwner(r, next)
    BY <1>3 DEF RetireDynamicOwner, CancelWaiting
  <1>4. CASE \E s \in Sessions, w \in Workspaces, mode \in {"default", "full"} :
                SetSessionAccess(s, w, mode)
    BY <1>4 DEF SetSessionAccess
  <1>5. CASE \E o \in Ops : RequestOperation(o)
    BY <1>5 DEF RequestOperation
  <1>6. CASE \E o \in Ops, decision \in {"ready", "denied"} : DecideOperation(o, decision)
    BY <1>6 DEF DecideOperation
  <1>7. CASE \E o \in Ops : ClaimOperation(o)
    <2>1. PICK o \in Ops : ClaimOperation(o)
      BY <1>7
    <2>2. CASE o \in late
      BY <2>1, <2>2 DEF ClaimOperation
    <2>3. CASE o \notin late
      BY <2>1, <2>3 DEF ClaimOperation
    <2> QED
      BY <2>2, <2>3
  <1>8. CASE \/ \E o \in Ops : CancelOperation(o)
             \/ \E o \in Ops : ExpireOperation(o)
    BY <1>8 DEF CancelOperation, ExpireOperation
  <1>9. CASE \E o \in Ops, outcome \in Outcomes, proof \in BOOLEAN :
                FinishOperation(o, outcome, proof)
    BY <1>9 DEF FinishOperation
  <1>10. CASE \/ \E o \in Ops : ReconcileInterruptedProcess(o)
              \/ \E o \in Ops : ReconcileAcknowledgedMcpError(o)
    BY <1>10 DEF ReconcileInterruptedProcess, ReconcileAcknowledgedMcpError
  <1>11. CASE RecoverInterrupted
    BY <1>11 DEF RecoverInterrupted, CancelWaiting
  <1>12. CASE \/ \E r \in Runs : CreateRun(r) \/ CompleteRun(r) \/ SuspendDynamicOwner(r)
                                 \/ ResumeDynamicOwner(r)
              \/ \E o \in Ops : Lapse(o)
              \/ UNCHANGED journal
    BY <1>12, <1>1 DEF CreateRun, CompleteRun, SuspendDynamicOwner, ResumeDynamicOwner,
                       Lapse, journal
  <1> QED
    BY <1>2, <1>3, <1>4, <1>5, <1>6, <1>7, <1>8, <1>9, <1>10, <1>11, <1>12, NextCases

LEMMA NextEffectExclusion ==
    TypeOK /\ EffectExclusion /\ [Next]_journal => EffectExclusion'
  <1> SUFFICES ASSUME TypeOK, EffectExclusion, [Next]_journal,
                      NEW o \in Ops, NEW p \in Ops,
                      o # p, op'[o] \in Blocking, op'[p] \in Blocking
               PROVE  ~Overlap(o, p)
    BY DEF EffectExclusion, Overlap
  <1>1. CASE \A q \in Ops : op'[q] \in Blocking => op[q] \in Blocking
    BY <1>1 DEF EffectExclusion
  <1>2. CASE \E q \in Ops : Rivals(q) = {} /\ op' = [op EXCEPT ![q] = "executing"]
    <2>1. PICK q \in Ops : Rivals(q) = {} /\ op' = [op EXCEPT ![q] = "executing"]
      BY <1>2
    <2>2. \A x \in Ops \ {q} : op[x] \in Blocking => ~Overlap(q, x)
      BY <2>1 DEF Rivals
    <2>3. \A x \in Ops \ {q} : op'[x] = op[x]
      BY <2>1 DEF TypeOK
    <2>4. CASE q = o
      BY <2>2, <2>3, <2>4
    <2>5. CASE q = p
      BY <2>2, <2>3, <2>5, OverlapSymmetric
    <2>6. CASE q # o /\ q # p
      BY <2>3, <2>6 DEF EffectExclusion
    <2> QED
      BY <2>4, <2>5, <2>6
  <1> QED
    BY <1>1, <1>2, OnlyClaimBlocks

\* Two operations that share a workspace or a resource are never executing or
\* uncertain at the same time: claim_operation is the only way in, and a crash,
\* a finished run or a changed access mode opens no other.
THEOREM EffectsAreExclusive == Spec => []EffectExclusion
  <1>1. Init => EffectExclusion
    BY DEF Init, EffectExclusion, Blocking
  <1>2. TypeOK /\ EffectExclusion /\ [Next]_journal => EffectExclusion'
    BY NextEffectExclusion
  <1> QED
    BY <1>1, <1>2, TypeCorrect, PTL DEF Spec

--------------------------------------------------------------------------------
(* Runs and their effects *)

LEMMA CancelWaitingAt ==
    ASSUME NEW R, NEW o \in Ops
    PROVE  /\ CancelWaiting(R)[o] \in {op[o], "cancelled"}
           /\ CancelWaiting(R)[o] \in Waiting => RunOf[o] \notin R
  BY DEF CancelWaiting, Waiting

\* Where an operation can come to wait or to block: only its proposal needs a
\* running run, everything later moves it among the states it is already in.
LEMMA OpSteps ==
    ASSUME TypeOK, [Next]_journal, NEW o \in Ops
    PROVE  /\ op'[o] \in Waiting \cup Blocking /\ op[o] \notin Waiting \cup Blocking =>
                 run[RunOf[o]] = "running" /\ run' = run
           /\ op'[o] \in Waiting => op[o] \in Waiting \/ (run[RunOf[o]] = "running" /\ run' = run)
           /\ op'[o] = "executing" => op[o] = "executing" \/ (run[RunOf[o]] = "running" /\ run' = run)
  <1> DEFINE Live == run[RunOf[o]] = "running" /\ run' = run
             P == /\ op'[o] \in Waiting \cup Blocking /\ op[o] \notin Waiting \cup Blocking => Live
                  /\ op'[o] \in Waiting => op[o] \in Waiting \/ Live
                  /\ op'[o] = "executing" => op[o] = "executing" \/ Live
  <1> USE DEF TypeOK, Blocking, Waiting
  <1>1. ASSUME UNCHANGED op PROVE P
    BY <1>1
  <1>2. CASE \E r \in Runs, next \in RunStates : Transition(r, next)
    <2>1. op'[o] \in {op[o], "cancelled"}
      BY <1>2, CancelWaitingAt DEF Transition
    <2> QED
      BY <2>1
  <1>3. CASE \E r \in Runs, next \in {"failed", "cancelled"} : RetireDynamicOwner(r, next)
    <2>1. op'[o] \in {op[o], "cancelled"}
      BY <1>3, CancelWaitingAt DEF RetireDynamicOwner
    <2> QED
      BY <2>1
  <1>4. CASE \E s \in Sessions, w \in Workspaces, mode \in {"default", "full"} :
                SetSessionAccess(s, w, mode)
    BY <1>4 DEF SetSessionAccess
  <1>5. CASE \E q \in Ops : RequestOperation(q)
    BY <1>5 DEF RequestOperation
  <1>6. CASE \E q \in Ops, decision \in {"ready", "denied"} : DecideOperation(q, decision)
    BY <1>6 DEF DecideOperation
  <1>7. CASE \E q \in Ops : ClaimOperation(q)
    BY <1>7 DEF ClaimOperation, Claimable
  <1>8. CASE \/ \E q \in Ops : CancelOperation(q)
             \/ \E q \in Ops : ExpireOperation(q)
    BY <1>8 DEF CancelOperation, ExpireOperation
  <1>9. CASE \E q \in Ops, outcome \in Outcomes, proof \in BOOLEAN :
                FinishOperation(q, outcome, proof)
    BY <1>9 DEF FinishOperation, Outcomes
  <1>10. CASE \/ \E q \in Ops : ReconcileInterruptedProcess(q)
              \/ \E q \in Ops : ReconcileAcknowledgedMcpError(q)
    BY <1>10 DEF ReconcileInterruptedProcess, ReconcileAcknowledgedMcpError
  <1>11. CASE RecoverInterrupted
    <2>1. op'[o] \in {op[o], "cancelled"} \/ (op[o] = "executing" /\ op'[o] = "uncertain")
      BY <1>11, CancelWaitingAt DEF RecoverInterrupted
    <2> QED
      BY <2>1
  <1>12. CASE \/ \E r \in Runs : CreateRun(r) \/ CompleteRun(r) \/ SuspendDynamicOwner(r)
                                 \/ ResumeDynamicOwner(r)
              \/ \E q \in Ops : Lapse(q)
              \/ UNCHANGED journal
    <2>1. UNCHANGED op
      BY <1>12 DEF CreateRun, CompleteRun, SuspendDynamicOwner, ResumeDynamicOwner,
                   Lapse, journal
    <2> QED
      BY <2>1, <1>1
  <1> QED
    BY <1>2, <1>3, <1>4, <1>5, <1>6, <1>7, <1>8, <1>9, <1>10, <1>11, <1>12, NextCases

\* Who changes the state of a run.
LEMMA RunSteps ==
    ASSUME TypeOK, [Next]_journal, NEW r \in Runs, run'[r] # run[r]
    PROVE  \/ CreateRun(r)
           \/ \E next \in RunStates : Transition(r, next)
           \/ CompleteRun(r)
           \/ SuspendDynamicOwner(r)
           \/ ResumeDynamicOwner(r)
           \/ \E next \in {"failed", "cancelled"} : RetireDynamicOwner(r, next)
           \/ RecoverInterrupted
  <1> USE DEF TypeOK
  <1>1. CASE \E q \in Runs : CreateRun(q)
    BY <1>1 DEF CreateRun
  <1>2. CASE \E q \in Runs, next \in RunStates : Transition(q, next)
    BY <1>2 DEF Transition
  <1>3. CASE \E q \in Runs : CompleteRun(q)
    BY <1>3 DEF CompleteRun
  <1>4. CASE \E q \in Runs : SuspendDynamicOwner(q)
    BY <1>4 DEF SuspendDynamicOwner
  <1>5. CASE \E q \in Runs : ResumeDynamicOwner(q)
    BY <1>5 DEF ResumeDynamicOwner
  <1>6. CASE \E q \in Runs, next \in {"failed", "cancelled"} : RetireDynamicOwner(q, next)
    BY <1>6 DEF RetireDynamicOwner
  <1>7. CASE \/ AccessStep \/ OperationStep \/ UNCHANGED journal
    BY <1>7 DEF AccessStep, OperationStep, SetSessionAccess, RequestOperation, DecideOperation,
                ClaimOperation, CancelOperation, ExpireOperation, FinishOperation,
                ReconcileInterruptedProcess, ReconcileAcknowledgedMcpError, Lapse, journal
  <1> QED
    BY <1>1, <1>2, <1>3, <1>4, <1>5, <1>6, <1>7 DEF Next, RunStep

LEMMA NextDynamicPauseIsQuiescent ==
    TypeOK /\ DynamicPauseIsQuiescent /\ [Next]_journal => DynamicPauseIsQuiescent'
  <1> SUFFICES ASSUME TypeOK, DynamicPauseIsQuiescent, [Next]_journal,
                      NEW r \in DynamicRuns, run'[r] = "paused",
                      NEW o \in Ops, RunOf[o] = r, op'[o] \in Waiting \cup Blocking
               PROVE  FALSE
    BY DEF DynamicPauseIsQuiescent, HasPhysicalWork, OpsOf
  <1> r \in Runs
    BY RunsAssumption
  <1>1. op[o] \in Waiting \cup Blocking
    BY OpSteps
  <1>2. run[r] # "paused"
    BY <1>1 DEF DynamicPauseIsQuiescent, HasPhysicalWork, OpsOf
  <1>3. SuspendDynamicOwner(r)
    BY <1>2, RunSteps DEF CreateRun, Transition, CompleteRun, ResumeDynamicOwner,
                          RetireDynamicOwner, RecoverInterrupted, TypeOK
  <1> QED
    BY <1>1, <1>3 DEF SuspendDynamicOwner, HasPhysicalWork, OpsOf

\* A dynamic root that is paused for a person owns no operation, whichever way it
\* paused and whatever is called while it waits.
THEOREM DynamicPausesAreQuiescent == Spec => []DynamicPauseIsQuiescent
  <1>1. Init => DynamicPauseIsQuiescent
    BY RunsAssumption DEF Init, DynamicPauseIsQuiescent
  <1>2. TypeOK /\ DynamicPauseIsQuiescent /\ [Next]_journal => DynamicPauseIsQuiescent'
    BY NextDynamicPauseIsQuiescent
  <1> QED
    BY <1>1, <1>2, TypeCorrect, PTL DEF Spec

\* An effect that blocks its keys under an answer was executing or uncertain before.
LEMMA BlockingSteps ==
    ASSUME TypeOK, [Next]_journal, NEW o \in Ops,
           op'[o] \in Blocking, op[o] \notin Blocking
    PROVE  run[RunOf[o]] = "running" /\ run' = run
  <1> USE DEF TypeOK, Blocking
  <1>1. op'[o] \in {"executing", "uncertain"}
    OBVIOUS
  <1>2. CASE op'[o] = "executing"
    BY <1>2, OpSteps
  <1>3. CASE op'[o] = "uncertain"
    <2>1. \A q \in Ops : op'[q] \in Blocking => op[q] \in Blocking
      BY <1>3, OnlyClaimBlocks
    <2> QED
      BY <2>1
  <1> QED
    BY <1>1, <1>2, <1>3

LEMMA NextEndedRunIsSettled ==
    TypeOK /\ EndedRunIsSettled /\ [Next]_journal => EndedRunIsSettled'
  <1> SUFFICES ASSUME TypeOK, EndedRunIsSettled, [Next]_journal, NEW o \in Ops
               PROVE  /\ run'[RunOf[o]] \in Terminal =>
                             /\ op'[o] \notin Waiting
                             /\ op'[o] = "executing" => ToolOf[o] \in BackgroundTools
                      /\ run'[RunOf[o]] = "completed" /\ op'[o] \in Blocking =>
                             ToolOf[o] = "service"
    BY DEF EndedRunIsSettled
  <1> DEFINE r == RunOf[o]
  <1> r \in Runs
    BY OpsAssumption
  <1> USE DEF TypeOK
  <1>1. CASE run'[r] = run[r]
    <2>1. run[r] \in Terminal => op'[o] \notin Waiting
      BY OpSteps DEF EndedRunIsSettled, Terminal
    <2>2. run[r] \in Terminal /\ op'[o] = "executing" => op[o] = "executing"
      BY OpSteps DEF Terminal
    <2>3. run[r] = "completed" /\ op'[o] \in Blocking => op[o] \in Blocking
      BY BlockingSteps
    <2> QED
      BY <1>1, <2>1, <2>2, <2>3 DEF EndedRunIsSettled
  <1>2. CASE run'[r] # run[r]
    <2>1. CASE \/ CreateRun(r) \/ SuspendDynamicOwner(r) \/ ResumeDynamicOwner(r)
      BY <2>1 DEF CreateRun, SuspendDynamicOwner, ResumeDynamicOwner, Terminal
    <2>2. CASE \E next \in RunStates : Transition(r, next)
      <3>1. PICK next \in RunStates : Transition(r, next)
        BY <2>2
      <3>2. run'[r] = next
        BY <3>1 DEF Transition
      <3>3. CASE next \notin Terminal
        BY <3>2, <3>3 DEF Terminal
      <3>4. CASE next \in Terminal
        <4>1. op'[o] \notin Waiting /\ op'[o] \in {op[o], "cancelled"}
          BY <3>1, <3>4, CancelWaitingAt DEF Transition
        <4>2. op[o] = "executing" => MayOutlive(o, next)
          BY <3>1 DEF Transition, OpsOf
        <4>3. next = "completed" /\ op[o] \in Blocking => op[o] = "executing" /\ ToolOf[o] = "service"
          BY <3>1 DEF Transition, HasUnresolvedEffects, OpsOf
        <4> QED
          BY <3>2, <4>1, <4>2, <4>3 DEF MayOutlive, BackgroundTools, Blocking
      <3> QED
        BY <3>3, <3>4
    <2>3. CASE CompleteRun(r)
      <3>1. op'[o] = op[o]
        BY <2>3 DEF CompleteRun
      <3>2. op[o] \in Waiting \cup Blocking => op[o] = "executing" /\ ToolOf[o] = "service"
        BY <2>3 DEF CompleteRun, HasUnresolvedEffects, OpsOf
      <3> QED
        BY <3>1, <3>2 DEF Waiting, Blocking, BackgroundTools
    <2>4. CASE \E next \in {"failed", "cancelled"} : RetireDynamicOwner(r, next)
      <3>1. op[o] # "executing" /\ run'[r] \in {"failed", "cancelled"}
        BY <2>4 DEF RetireDynamicOwner, OpsOf
      <3>2. op'[o] \notin Waiting /\ op'[o] \in {op[o], "cancelled"}
        BY <2>4, CancelWaitingAt DEF RetireDynamicOwner
      <3> QED
        BY <3>1, <3>2
    <2>5. CASE RecoverInterrupted
      <3>1. PICK roots : /\ run' = [q \in Runs |-> IF q \in roots THEN "failed" ELSE run[q]]
                         /\ op' = [q \in Ops |->
                                    IF RunOf[q] \in roots /\ op[q] = "executing" THEN "uncertain"
                                    ELSE CancelWaiting(roots)[q]]
        BY <2>5 DEF RecoverInterrupted
      <3>2. r \in roots /\ run'[r] = "failed"
        BY <1>2, <3>1
      <3>3. op'[o] \notin Waiting /\ op'[o] # "executing"
        BY <3>1, <3>2, CancelWaitingAt DEF Waiting
      <3> QED
        BY <3>2, <3>3
    <2> QED
      BY <1>2, <2>1, <2>2, <2>3, <2>4, <2>5, RunSteps
  <1> QED
    BY <1>1, <1>2

\* A finished run leaves nothing that waits or may still be dispatched, executes
\* nothing but background processes, and behind an answer nothing but services.
THEOREM EndedRunsAreSettled == Spec => []EndedRunIsSettled
  <1>1. Init => EndedRunIsSettled
    BY OpsAssumption DEF Init, EndedRunIsSettled, Terminal
  <1>2. TypeOK /\ EndedRunIsSettled /\ [Next]_journal => EndedRunIsSettled'
    BY NextEndedRunIsSettled
  <1> QED
    BY <1>1, <1>2, TypeCorrect, PTL DEF Spec

--------------------------------------------------------------------------------
(* Full access *)

\* An operation starts to wait for an approval only when it is proposed, under
\* an access mode that does not approve it.
LEMMA PromptSteps ==
    ASSUME TypeOK, [Next]_journal, NEW o \in Ops, op'[o] = "awaiting_approval"
    PROVE  \/ op[o] = "awaiting_approval"
           \/ RequestOperation(o) /\ ~FullAccess(SessionOf[RunOf[o]], WorkspaceOf[o])
  <1> USE DEF TypeOK, Waiting
  <1>1. CASE \E q \in Ops : RequestOperation(q)
    BY <1>1 DEF RequestOperation
  <1>2. CASE ~\E q \in Ops : RequestOperation(q)
    <2>1. CASE RunStep
      <3>1. PICK r \in Runs : \/ CreateRun(r) \/ CompleteRun(r) \/ SuspendDynamicOwner(r)
                              \/ ResumeDynamicOwner(r)
                              \/ \E next \in RunStates : Transition(r, next)
                              \/ \E next \in {"failed", "cancelled"} : RetireDynamicOwner(r, next)
        BY <2>1 DEF RunStep
      <3>2. op' = op \/ op' = CancelWaiting({r})
        BY <3>1 DEF CreateRun, CompleteRun, SuspendDynamicOwner, ResumeDynamicOwner,
                    Transition, RetireDynamicOwner
      <3> QED
        BY <3>2, CancelWaitingAt
    <2>2. CASE AccessStep
      BY <2>2 DEF AccessStep, SetSessionAccess
    <2>3. CASE RecoverInterrupted
      BY <2>3, CancelWaitingAt DEF RecoverInterrupted
    <2>4. CASE OperationStep
      BY <2>4, <1>2 DEF OperationStep, DecideOperation, ClaimOperation, CancelOperation,
                        ExpireOperation, FinishOperation, Outcomes,
                        ReconcileInterruptedProcess, ReconcileAcknowledgedMcpError, Lapse
    <2>5. CASE UNCHANGED journal
      BY <2>5 DEF journal
    <2> QED
      BY <2>1, <2>2, <2>3, <2>4, <2>5 DEF Next
  <1> QED
    BY <1>1, <1>2

LEMMA AccessSteps ==
    ASSUME [Next]_journal
    PROVE  \/ UNCHANGED access /\ late \subseteq late'
           \/ AccessStep
  BY DEF Next, RunStep, OperationStep, CreateRun, Transition, CompleteRun, SuspendDynamicOwner,
         ResumeDynamicOwner, RetireDynamicOwner, RequestOperation, DecideOperation,
         ClaimOperation, CancelOperation, ExpireOperation, FinishOperation,
         ReconcileInterruptedProcess, ReconcileAcknowledgedMcpError, Lapse,
         RecoverInterrupted, journal

LEMMA NextFullAccessLeavesNoPrompt ==
    TypeOK /\ FullAccessLeavesNoPrompt /\ [Next]_journal => FullAccessLeavesNoPrompt'
  <1> DEFINE session(o) == SessionOf[RunOf[o]]
  <1> SUFFICES ASSUME TypeOK, FullAccessLeavesNoPrompt, [Next]_journal,
                      NEW o \in Ops, op'[o] = "awaiting_approval",
                      FullAccess(session(o), WorkspaceOf[o])'
               PROVE  o \in late'
    BY DEF FullAccessLeavesNoPrompt, FullAccess
  <1> session(o) \in Sessions
    BY RunsAssumption, OpsAssumption
  <1>1. CASE UNCHANGED access /\ late \subseteq late'
    <2>1. FullAccess(session(o), WorkspaceOf[o])
      BY <1>1 DEF FullAccess
    <2>2. op[o] = "awaiting_approval"
      BY <2>1, PromptSteps
    <2> QED
      BY <1>1, <2>1, <2>2 DEF FullAccessLeavesNoPrompt
  <1>2. CASE AccessStep
    <2>1. PICK s \in Sessions, w \in Workspaces, mode \in {"default", "full"} :
                SetSessionAccess(s, w, mode)
      BY <1>2 DEF AccessStep
    <2>2. op[o] = "awaiting_approval" /\ late' = late
      BY <2>1 DEF SetSessionAccess, TypeOK
    <2>3. CASE session(o) = s
      <3>1. mode = "full" /\ WorkspaceOf[o] = w
        BY <2>1, <2>3 DEF SetSessionAccess, FullAccess, TypeOK
      <3> QED
        BY <2>1, <2>2, <2>3, <3>1 DEF SetSessionAccess
    <2>4. CASE session(o) # s
      <3>1. FullAccess(session(o), WorkspaceOf[o])
        BY <2>1, <2>4 DEF SetSessionAccess, FullAccess, TypeOK
      <3> QED
        BY <2>2, <3>1 DEF FullAccessLeavesNoPrompt
    <2> QED
      BY <2>3, <2>4
  <1> QED
    BY <1>1, <1>2, AccessSteps

\* Full access never leaves a person to be asked about an operation it covers,
\* whether the operation or the access came first.
THEOREM FullAccessNeverPrompts == Spec => []FullAccessLeavesNoPrompt
  <1>1. Init => FullAccessLeavesNoPrompt
    BY DEF Init, FullAccessLeavesNoPrompt
  <1>2. TypeOK /\ FullAccessLeavesNoPrompt /\ [Next]_journal => FullAccessLeavesNoPrompt'
    BY NextFullAccessLeavesNoPrompt
  <1> QED
    BY <1>1, <1>2, TypeCorrect, PTL DEF Spec

--------------------------------------------------------------------------------
(* The journal implements EffectLedger *)

Void == {"denied", "expired", "cancelled"}

LEMMA StandingOf ==
    ASSUME NEW state \in OpStates \cup {"absent"}
    PROVE  /\ state \in Waiting \cup {"absent"} => Standing(state) = "free"
           /\ state \in Void => Standing(state) = "void"
           /\ state = "executing" => Standing(state) = "held"
           /\ state = "uncertain" => Standing(state) = "quarantined"
           /\ state \in {"succeeded", "failed"} => Standing(state) = "settled"
  BY DEF OpStates, Waiting, Blocking, Void, Standing

LEMMA BlockingStanding ==
    ASSUME NEW state \in OpStates \cup {"absent"}, Standing(state) \in Ledger!Blocking
    PROVE  state \in Blocking
  <1>1. state \in Waiting \cup {"absent"} \/ state \in Void \/ state \in Blocking
        \/ state \in {"succeeded", "failed"}
    BY DEF OpStates, Void
  <1> QED
    BY <1>1, StandingOf DEF Ledger!Blocking

\* Proposals that end without being granted.
LEMMA VoidStep ==
    ASSUME TypeOK, TypeOK', NEW S \in SUBSET Ops,
           \A o \in S : op[o] \in Waiting /\ op'[o] \in Void,
           \A o \in Ops \ S : op'[o] = op[o]
    PROVE  Ledger!Next
  <1>1. \A o \in S : effectStanding[o] = "free"
    BY StandingOf DEF effectStanding, TypeOK
  <1>2. effectStanding' = [o \in Ops |-> IF o \in S THEN "void" ELSE effectStanding[o]]
    BY StandingOf DEF effectStanding, TypeOK
  <1>3. Ledger!Void(S)
    BY <1>2 DEF Ledger!Void
  <1>4. S \in SUBSET Ledger!Those("free")
    BY <1>1 DEF Ledger!Those
  <1> QED
    BY <1>3, <1>4 DEF Ledger!Next

LEMMA VoidOneStep ==
    ASSUME TypeOK, TypeOK', NEW o \in Ops, op[o] \in Waiting,
           NEW state \in Void, op' = [op EXCEPT ![o] = state]
    PROVE  Ledger!Next
  <1> DEFINE S == {o}
  <1>1. \A p \in S : op[p] \in Waiting /\ op'[p] \in Void
    BY DEF TypeOK
  <1>2. \A p \in Ops \ S : op'[p] = op[p]
    BY DEF TypeOK
  <1>3. S \in SUBSET Ops
    OBVIOUS
  <1> HIDE DEF S
  <1> QED
    BY <1>1, <1>2, <1>3, VoidStep

LEMMA CancelWaitingStep ==
    ASSUME TypeOK, TypeOK', NEW R, op' = CancelWaiting(R)
    PROVE  Ledger!Next
  <1> DEFINE S == {o \in Ops : RunOf[o] \in R /\ op[o] \in Waiting}
  <1>1. \A o \in S : op[o] \in Waiting /\ op'[o] \in Void
    BY DEF CancelWaiting, Void
  <1>2. \A o \in Ops \ S : op'[o] = op[o]
    BY DEF CancelWaiting
  <1>3. S \in SUBSET Ops
    OBVIOUS
  <1> HIDE DEF S
  <1> QED
    BY <1>1, <1>2, <1>3, VoidStep

LEMMA StandingUnchanged ==
    ASSUME UNCHANGED op
    PROVE  UNCHANGED effectStanding
  BY DEF effectStanding

LEMMA JournalRefinesInit == Init => Ledger!Init
  <1> SUFFICES ASSUME Init PROVE Ledger!Init
    OBVIOUS
  <1>1. Standing("absent") = "free"
    BY StandingOf
  <1> QED
    BY <1>1 DEF Init, Ledger!Init, effectStanding

LEMMA JournalRefinesNext ==
    ASSUME TypeOK, TypeOK', [Next]_journal
    PROVE  [Ledger!Next]_effectStanding
  <1> USE DEF Ledger!Next
  <1>1. CASE UNCHANGED op
    BY <1>1, StandingUnchanged
  <1>2. CASE \E r \in Runs, next \in RunStates : Transition(r, next)
    BY <1>2, <1>1, CancelWaitingStep DEF Transition
  <1>3. CASE \E r \in Runs, next \in {"failed", "cancelled"} : RetireDynamicOwner(r, next)
    BY <1>3, CancelWaitingStep DEF RetireDynamicOwner
  <1>4. CASE \E s \in Sessions, w \in Workspaces, mode \in {"default", "full"} :
                SetSessionAccess(s, w, mode)
    <2>1. \A o \in Ops : Standing(op'[o]) = Standing(op[o])
      <3> SUFFICES ASSUME NEW o \in Ops PROVE Standing(op'[o]) = Standing(op[o])
        OBVIOUS
      <3>1. op'[o] = op[o] \/ (op[o] \in Waiting /\ op'[o] \in Waiting)
        BY <1>4 DEF SetSessionAccess, Waiting
      <3> QED
        BY <3>1, StandingOf DEF TypeOK
    <2> QED
      BY <2>1 DEF effectStanding
  <1>5. CASE \E o \in Ops : RequestOperation(o)
    <2>1. \A p \in Ops : Standing(op'[p]) = Standing(op[p])
      <3> SUFFICES ASSUME NEW p \in Ops PROVE Standing(op'[p]) = Standing(op[p])
        OBVIOUS
      <3>1. op'[p] = op[p] \/ (op[p] = "absent" /\ op'[p] \in Waiting)
        BY <1>5 DEF RequestOperation, Waiting, TypeOK
      <3> QED
        BY <3>1, StandingOf DEF TypeOK
    <2> QED
      BY <2>1 DEF effectStanding
  <1>6. CASE \E o \in Ops, decision \in {"ready", "denied"} : DecideOperation(o, decision)
    <2>1. PICK o \in Ops, decision \in {"ready", "denied"} : DecideOperation(o, decision)
      BY <1>6
    <2>2. CASE o \in late
      <3>1. op[o] \in Waiting /\ op' = [op EXCEPT ![o] = "expired"]
        BY <2>1, <2>2 DEF DecideOperation, Waiting
      <3> QED
        BY <3>1, VoidOneStep DEF Void
    <2>3. CASE o \notin late /\ decision = "denied"
      <3>1. op[o] \in Waiting /\ op' = [op EXCEPT ![o] = "denied"]
        BY <2>1, <2>3 DEF DecideOperation, Waiting
      <3> QED
        BY <3>1, VoidOneStep DEF Void
    <2>4. CASE o \notin late /\ decision = "ready"
      <3>1. \A p \in Ops : Standing(op'[p]) = Standing(op[p])
        <4> SUFFICES ASSUME NEW p \in Ops PROVE Standing(op'[p]) = Standing(op[p])
          OBVIOUS
        <4>1. op'[p] = op[p] \/ (op[p] \in Waiting /\ op'[p] \in Waiting)
          BY <2>1, <2>4 DEF DecideOperation, Waiting, TypeOK
        <4> QED
          BY <4>1, StandingOf DEF TypeOK
      <3> QED
        BY <3>1 DEF effectStanding
    <2> QED
      BY <2>2, <2>3, <2>4
  <1>7. CASE \E o \in Ops : ClaimOperation(o)
    <2>1. PICK o \in Ops : ClaimOperation(o)
      BY <1>7
    <2>2. op[o] = "ready"
      BY <2>1 DEF ClaimOperation, Claimable
    <2>3. CASE o \in late
      <3>1. op[o] \in Waiting /\ op' = [op EXCEPT ![o] = "expired"]
        BY <2>1, <2>2, <2>3 DEF ClaimOperation, Waiting
      <3> QED
        BY <3>1, VoidOneStep DEF Void
    <2>4. CASE o \notin late
      <3>1. Rivals(o) = {} /\ op' = [op EXCEPT ![o] = "executing"]
        BY <2>1, <2>4 DEF ClaimOperation
      <3>2. effectStanding[o] = "free"
        BY <2>2, StandingOf DEF effectStanding, TypeOK, Waiting
      <3>3. \A p \in Ops \ {o} : effectStanding[p] \in Ledger!Blocking => ~Ledger!Overlap(o, p)
        <4> SUFFICES ASSUME NEW p \in Ops \ {o}, effectStanding[p] \in Ledger!Blocking
                     PROVE  ~Ledger!Overlap(o, p)
          OBVIOUS
        <4>1. op[p] \in Blocking
          BY BlockingStanding DEF effectStanding, TypeOK
        <4>2. ~Overlap(o, p)
          BY <3>1, <4>1 DEF Rivals
        <4> QED
          BY <4>2 DEF Overlap, Ledger!Overlap
      <3>4. effectStanding' = [effectStanding EXCEPT ![o] = "held"]
        BY <3>1, StandingOf DEF effectStanding, TypeOK, OpStates, Blocking
      <3>5. Ledger!Grant(o)
        BY <3>2, <3>3, <3>4 DEF Ledger!Grant
      <3> QED
        BY <3>5
    <2> QED
      BY <2>3, <2>4
  <1>8. CASE \/ \E o \in Ops : CancelOperation(o)
             \/ \E o \in Ops : ExpireOperation(o)
    BY <1>8, VoidOneStep DEF CancelOperation, ExpireOperation, Void
  <1>9. CASE \E o \in Ops, outcome \in Outcomes, proof \in BOOLEAN :
                FinishOperation(o, outcome, proof)
    <2>1. PICK o \in Ops, outcome \in Outcomes, proof \in BOOLEAN :
                FinishOperation(o, outcome, proof)
      BY <1>9
    <2>2. effectStanding[o] = "held"
      BY <2>1, StandingOf DEF FinishOperation, effectStanding, TypeOK
    <2>3. Standing(outcome) \in {"settled", "quarantined"}
      BY StandingOf DEF Outcomes, OpStates, Blocking
    <2>4. effectStanding' = [effectStanding EXCEPT ![o] = Standing(outcome)]
      BY <2>1 DEF FinishOperation, effectStanding, TypeOK
    <2>5. Ledger!Conclude(o, Standing(outcome))
      BY <2>2, <2>4 DEF Ledger!Conclude
    <2> QED
      BY <2>3, <2>5
  <1>10. CASE \/ \E o \in Ops : ReconcileInterruptedProcess(o)
              \/ \E o \in Ops : ReconcileAcknowledgedMcpError(o)
    <2>1. PICK o \in Ops : op[o] = "uncertain" /\ op' = [op EXCEPT ![o] = "failed"]
      BY <1>10 DEF ReconcileInterruptedProcess, ReconcileAcknowledgedMcpError
    <2>2. effectStanding[o] = "quarantined"
      BY <2>1, StandingOf DEF effectStanding, TypeOK
    <2>3. effectStanding' = [effectStanding EXCEPT ![o] = "settled"]
      BY <2>1, StandingOf DEF effectStanding, TypeOK, OpStates
    <2>4. Ledger!Reconcile(o)
      BY <2>2, <2>3 DEF Ledger!Reconcile
    <2> QED
      BY <2>4
  <1>11. CASE RecoverInterrupted
    <2>1. PICK roots :
             op' = [o \in Ops |-> IF RunOf[o] \in roots /\ op[o] = "executing" THEN "uncertain"
                                  ELSE CancelWaiting(roots)[o]]
      BY <1>11 DEF RecoverInterrupted
    <2> DEFINE H == {o \in Ops : RunOf[o] \in roots /\ op[o] = "executing"}
               V == {o \in Ops : RunOf[o] \in roots /\ op[o] \in Waiting}
    <2>2. \A o \in H : effectStanding[o] = "held"
      BY StandingOf DEF effectStanding, TypeOK
    <2>3. \A o \in V : effectStanding[o] = "free"
      BY StandingOf DEF effectStanding, TypeOK
    <2>4. \A o \in Ops : effectStanding'[o] =
                CASE o \in H -> "quarantined" [] o \in V -> "void" [] OTHER -> effectStanding[o]
      <3> SUFFICES ASSUME NEW o \in Ops
                   PROVE  effectStanding'[o] =
                            CASE o \in H -> "quarantined" [] o \in V -> "void"
                              [] OTHER -> effectStanding[o]
        OBVIOUS
      <3>1. CASE o \in H
        BY <2>1, <3>1, StandingOf DEF effectStanding, TypeOK
      <3>2. CASE o \in V
        <4>1. o \notin H
          BY <3>2 DEF Waiting
        <4>2. op'[o] = "cancelled"
          BY <2>1, <3>2 DEF CancelWaiting, Waiting
        <4> QED
          BY <3>2, <4>1, <4>2, StandingOf DEF effectStanding, TypeOK, Void
      <3>3. CASE o \notin H /\ o \notin V
        <4>1. op'[o] = op[o]
          BY <2>1, <3>3 DEF CancelWaiting
        <4> QED
          BY <3>3, <4>1 DEF effectStanding
      <3> QED
        BY <3>1, <3>2, <3>3
    <2>5. H \in SUBSET Ops /\ V \in SUBSET Ops
      OBVIOUS
    <2> HIDE DEF H, V
    <2>6. effectStanding' = [o \in Ops |-> CASE o \in H -> "quarantined" [] o \in V -> "void"
                                             [] OTHER -> effectStanding[o]]
      BY <2>4 DEF effectStanding
    <2>7. Ledger!Interrupt(H, V)
      BY <2>6 DEF Ledger!Interrupt
    <2>8. H \in SUBSET Ledger!Those("held") /\ V \in SUBSET Ledger!Those("free")
      BY <2>2, <2>3, <2>5 DEF Ledger!Those
    <2> QED
      BY <2>7, <2>8
  <1>12. CASE \/ \E r \in Runs : CreateRun(r) \/ CompleteRun(r) \/ SuspendDynamicOwner(r)
                                 \/ ResumeDynamicOwner(r)
              \/ \E o \in Ops : Lapse(o)
              \/ UNCHANGED journal
    <2>1. UNCHANGED op
      BY <1>12 DEF CreateRun, CompleteRun, SuspendDynamicOwner, ResumeDynamicOwner,
                   Lapse, journal
    <2> QED
      BY <2>1, <1>1
  <1> QED
    BY <1>2, <1>3, <1>4, <1>5, <1>6, <1>7, <1>8, <1>9, <1>10, <1>11, <1>12, NextCases

\* Every behaviour of the journal is one of EffectLedger: an effect is granted at
\* most once, alone on its keys, and one whose outcome is unknown keeps its keys
\* until somebody proves what it did.
THEOREM JournalImplementsLedger == Spec => ImplementsEffectLedger
  <1>1. TypeOK /\ TypeOK' /\ [Next]_journal => [Ledger!Next]_effectStanding
    BY JournalRefinesNext
  <1> QED
    BY <1>1, JournalRefinesInit, TypeCorrect, PTL DEF Spec, Ledger!Spec, ImplementsEffectLedger

================================================================================
