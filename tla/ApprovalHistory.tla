----------------------------- MODULE ApprovalHistory -----------------------------
(***************************************************************************)
(* OperationJournal with a history variable that remembers which           *)
(* automatic approvals were withdrawn: the session's access was set again  *)
(* while the operation was ready.  It is told by the access records alone, *)
(* without the revision that claim_operation compares.                     *)
(***************************************************************************)
EXTENDS OperationJournal

VARIABLE revoked

Withdrawn ==
    {o \in Ops : /\ op[o] = "ready" /\ autoAt[o] > 0
                 /\ access'[SessionOf[RunOf[o]]] # access[SessionOf[RunOf[o]]]}

HistoryInit == Init /\ revoked = {}

HistoryNext == Next /\ revoked' = revoked \cup Withdrawn

HistorySpec == HistoryInit /\ [][HistoryNext]_<<journal, revoked>>

\* An operation that full access approved is not dispatched once that access has
\* been changed, even if full access is granted again before it is claimed
\* (set_session_access, claim_operation; tests/permission_grants_contract.cpp:63).
RevokedApprovalNeverDispatches ==
    \A o \in revoked : op[o] \in {"ready", "expired", "cancelled"}

\* Why: the approval carries the revision it was given at, which is never above
\* the session's and stays below it for good once the access is set again.
RevisionsTellRevocation ==
    /\ revoked \subseteq Ops
    /\ \A o \in Ops : autoAt[o] <= access[SessionOf[RunOf[o]]].revision
    /\ \A o \in revoked : /\ autoAt[o] > 0
                          /\ autoAt[o] < access[SessionOf[RunOf[o]]].revision

================================================================================
