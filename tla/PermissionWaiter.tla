---------------------------- MODULE PermissionWaiter ----------------------------
(***************************************************************************)
(* The in-memory side of an effect: PermissionWaiter::acquire              *)
(* (Native/src/permission_waiter.cpp) polls the journal until its          *)
(* operation may be dispatched, and the executor that called it performs   *)
(* the effect and records its outcome (process_executor.cpp).              *)
(*                                                                         *)
(* The waiter reads the operation in one transaction and acts on what it   *)
(* read in another; decisions, expiry, access changes, the owner's end and *)
(* other claims come between the two.  A crash takes every waiter and      *)
(* executor away and leaves the journal to recover_interrupted.            *)
(***************************************************************************)
EXTENDS OperationJournal

CONSTANT Trusted    \* operations that a trusted process profile approves

ASSUME TrustedAssumption == Trusted \subseteq Ops

VARIABLES
    waiter,     \* waiter[o]: where the call for operation o is
    stop        \* operations whose cancellation token was triggered

vars == <<journal, waiter, stop>>

\* polling: about to look at the stop token and to read the operation.
\* expiring, claiming, rechecking, withdrawing: the read is done, and the next
\* transaction acts on what it returned.
Pending == {"deciding", "polling", "expiring", "claiming", "rechecking", "withdrawing"}

\* What acquire threw.
Refused == {"denied", "expired", "cancelled", "quarantined", "conflict"}

\* holding: acquire returned and the executor has the effect.  unrecorded: it
\* could not store the outcome.  lost: the process that held it is gone.
WaiterStates == Pending \cup Refused \cup
                {"idle", "holding", "recorded", "unrecorded", "lost"}

WaiterTypeOK ==
    /\ TypeOK
    /\ waiter \in [Ops -> WaiterStates]
    /\ stop \subseteq Ops

Goto(o, pc) == waiter' = [waiter EXCEPT ![o] = pc]

WaiterInit == Init /\ waiter = [o \in Ops |-> "idle"] /\ stop = {}

--------------------------------------------------------------------------------
(* PermissionWaiter::acquire *)

\* The call ends before it proposes anything.
CancelledBeforeProposal(o) ==
    /\ waiter[o] = "idle" /\ o \in stop
    /\ Goto(o, "cancelled")
    /\ UNCHANGED <<journal, stop>>

Propose(o) ==
    /\ waiter[o] = "idle" /\ o \notin stop
    /\ RequestOperation(o)
    /\ Goto(o, IF o \in Trusted /\ op'[o] = "awaiting_approval" THEN "deciding" ELSE "polling")
    /\ UNCHANGED stop

\* The trusted profile's decision is a second call: by now somebody else may
\* have decided, and then decide_operation throws.  So does a late decision,
\* after it has committed the expiry.
TrustedDecision(o) ==
    /\ waiter[o] = "deciding"
    /\ IF op[o] = "awaiting_approval" /\ run[RunOf[o]] \in {"running", "paused"}
         THEN DecideOperation(o, "ready")
         ELSE UNCHANGED journal
    /\ Goto(o, IF op[o] = "awaiting_approval" /\ op'[o] = "ready" THEN "polling" ELSE "conflict")
    /\ UNCHANGED stop

\* The token is looked at before every read; the cancellation it asks for is
\* void when the operation is no longer waiting.
Abandon(o) ==
    /\ waiter[o] = "polling" /\ o \in stop
    /\ IF op[o] \in Waiting THEN CancelOperation(o) ELSE UNCHANGED journal
    /\ Goto(o, "cancelled")
    /\ UNCHANGED stop

\* Mutant of AfterRead: only an approved operation can expire.
AfterReadNoExpiry(o) ==
    CASE op[o] = "ready" /\ o \in late -> "expiring"
      [] op[o] = "ready" /\ o \notin late -> "claiming"
      [] op[o] = "awaiting_approval" -> "polling"
      [] op[o] \in {"denied", "expired", "cancelled"} -> op[o]
      [] OTHER -> "conflict"

\* What the loop does with the state it reads.  While the operation awaits
\* approval in time, it sleeps and reads again.
AfterRead(o) ==
    CASE op[o] \in Waiting /\ o \in late -> "expiring"
      [] op[o] = "ready" /\ o \notin late -> "claiming"
      [] op[o] = "awaiting_approval" /\ o \notin late -> "polling"
      [] op[o] \in {"denied", "expired", "cancelled"} -> op[o]
      [] OTHER -> "conflict"

Read(o) ==
    /\ waiter[o] = "polling" /\ o \notin stop
    /\ AfterRead(o) # "polling"
    /\ Goto(o, AfterRead(o))
    /\ UNCHANGED <<journal, stop>>

Expire(o) ==
    /\ waiter[o] = "expiring"
    /\ IF op[o] \in Waiting THEN ExpireOperation(o) ELSE UNCHANGED journal
    /\ Goto(o, "polling")
    /\ UNCHANGED stop

Quarantined(o) == \E p \in Rivals(o) : op[p] = "uncertain"

\* Mutant of Claim: the token is looked at once more after the claim.
ClaimThenStop(o) ==
    /\ waiter[o] = "claiming" /\ o \notin late
    /\ ClaimOperation(o)
    /\ Goto(o, IF o \in stop THEN "cancelled" ELSE "holding")
    /\ UNCHANGED stop

\* claim_operation succeeds.
Claim(o) ==
    /\ waiter[o] = "claiming" /\ o \notin late
    /\ ClaimOperation(o)
    /\ Goto(o, "holding")
    /\ UNCHANGED stop

\* claim_operation throws: the operation is no longer claimable, it expires at
\* the claim, or a rival holds one of its keys.
ClaimRefused(o) ==
    /\ waiter[o] = "claiming"
    /\ \/ /\ ~Claimable(o)
          /\ Goto(o, "rechecking")
          /\ UNCHANGED journal
       \/ /\ o \in late
          /\ ClaimOperation(o)
          /\ Goto(o, "rechecking")
       \/ /\ Claimable(o) /\ o \notin late /\ Rivals(o) # {}
          /\ Goto(o, IF Quarantined(o) THEN "withdrawing" ELSE "polling")
          /\ UNCHANGED journal
    /\ UNCHANGED stop

\* A conflict that left the operation ready cannot go away by itself.
Recheck(o) ==
    /\ waiter[o] = "rechecking"
    /\ Goto(o, IF op[o] = "ready" THEN "conflict" ELSE "polling")
    /\ UNCHANGED <<journal, stop>>

Withdraw(o) ==
    /\ waiter[o] = "withdrawing"
    /\ IF op[o] \in Waiting THEN CancelOperation(o) ELSE UNCHANGED journal
    /\ Goto(o, "quarantined")
    /\ UNCHANGED stop

--------------------------------------------------------------------------------
(* The executor *)

Record(o, outcome, proof) ==
    /\ waiter[o] = "holding"
    /\ FinishOperation(o, outcome, proof)
    /\ Goto(o, "recorded")
    /\ UNCHANGED stop

\* finish_operation failed: the executor reports an unrecorded outcome, and the
\* journal still says executing.
LoseOutcome(o) ==
    /\ waiter[o] = "holding"
    /\ Goto(o, "unrecorded")
    /\ UNCHANGED <<journal, stop>>

\* The thread of a background process tries once more, with an uncertain outcome.
RecordUncertain(o) ==
    /\ waiter[o] = "unrecorded" /\ ToolOf[o] \in BackgroundTools
    /\ FinishOperation(o, "uncertain", FALSE)
    /\ Goto(o, "recorded")
    /\ UNCHANGED stop

--------------------------------------------------------------------------------
(* Everybody else *)

\* Once acquire has returned nobody looks at the token.
RequestStop(o) ==
    /\ waiter[o] \in Pending \union {"idle"} /\ o \notin stop
    /\ stop' = stop \cup {o}
    /\ UNCHANGED <<journal, waiter>>

Crash ==
    /\ RecoverInterrupted
    /\ waiter' = [o \in Ops |->
                    IF waiter[o] \in Pending \cup {"holding", "unrecorded"}
                    THEN "lost" ELSE waiter[o]]
    /\ stop' = {}

\* Controllers, run owners and time act on the journal alone.
Environment ==
    /\ \/ RunStep
       \/ AccessStep
       \/ \E o \in Ops :
            \/ \E decision \in {"ready", "denied"} : DecideOperation(o, decision)
            \/ ReconcileInterruptedProcess(o)
            \/ ReconcileAcknowledgedMcpError(o)
            \/ Lapse(o)
    /\ UNCHANGED <<waiter, stop>>

\* The steps of the thread inside acquire once its proposal is stored.
Wait(o) ==
    \/ TrustedDecision(o)
    \/ Abandon(o)
    \/ Read(o)
    \/ Expire(o)
    \/ Claim(o)
    \/ ClaimRefused(o)
    \/ Recheck(o)
    \/ Withdraw(o)

Execute(o) ==
    \/ \E outcome \in Outcomes, proof \in BOOLEAN : Record(o, outcome, proof)
    \/ LoseOutcome(o)
    \/ RecordUncertain(o)

WaiterNext ==
    \/ Environment
    \/ Crash
    \/ \E o \in Ops :
        \/ CancelledBeforeProposal(o)
        \/ Propose(o)
        \/ Wait(o)
        \/ Execute(o)
        \/ RequestStop(o)

\* A thread inside acquire keeps running, and every approval deadline passes.
\* Nothing is assumed of the people who decide, of the executors or of crashes.
WaiterFairness == \A o \in Ops : WF_vars(Wait(o)) /\ WF_vars(Lapse(o) /\ UNCHANGED <<waiter, stop>>)

WaiterSpec == WaiterInit /\ [][WaiterNext]_vars /\ WaiterFairness

--------------------------------------------------------------------------------
(* Properties *)

\* A call that threw never has its effect happen behind its back: the model was
\* told that the operation was denied, expired, cancelled or quarantined, and the
\* journal can no longer be made to dispatch it.  After a conflict the proposal
\* may be left ready, but nobody claims it any more.
RefusedNeverDispatches ==
    \A o \in Ops :
        /\ waiter[o] \in Refused => op[o] \notin Blocking \cup {"succeeded", "failed"}
        /\ waiter[o] \in Refused \ {"conflict"} => op[o] \notin Waiting

\* While an executor performs an effect the journal says so, and keeps every
\* rival out, whatever the run, the session or the controllers do meanwhile.
HolderOwnsItsKeys ==
    \A o \in Ops : waiter[o] = "holding" =>
        /\ op[o] = "executing"
        /\ \A p \in Ops \ {o} : op[p] \in Blocking => ~Overlap(o, p)

\* What a thread believes of its operation is what the journal says, in both directions.
WaiterAgreesWithJournal == HolderOwnsItsKeys /\ RefusedNeverDispatches

\* No effect is said to be executing by a process that no longer exists.
NoOrphanedEffect == \A o \in Ops : op[o] = "executing" => waiter[o] # "lost"

\* Every wait ends, with an approval or without: nobody has to answer.
WaitEnds == \A o \in Ops : waiter[o] \in Pending ~> waiter[o] \notin Pending

================================================================================
