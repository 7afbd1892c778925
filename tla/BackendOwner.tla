----------------------------- MODULE BackendOwner -----------------------------
(***************************************************************************)
(* Who owns the database, and what may happen while it changes hands.      *)
(*                                                                         *)
(* PersistenceService runs one worker thread that owns the Repository and  *)
(* serves a bounded queue.  A durable record names the owning generation   *)
(* and closes admission during a hand-off to another process.  Two kinds   *)
(* of work stand beside it in the same database: root runs, and renewals   *)
(* of an OAuth grant, whose refresh token is good for one exchange.        *)
(*                                                                         *)
(* A thread has at most one request in the queue and waits for its future. *)
(* Every commit may succeed without the thread learning of it.             *)
(***************************************************************************)
EXTENDS Integers, Sequences, FiniteSets

CONSTANTS
    Jobs,           \* root runs; a job's submitter is a thread
    Refreshes,      \* renewal requests of one stored credential
    Controllers,    \* clients of the owner commands
    QueueLimit,     \* PersistenceService's max_pending
    MaxGenerations, \* bound on the processes that ever open the database
    MaxOwnerRev,    \* bound on the revisions of the owner record
    MaxCred         \* bound on the revisions of the credential

ASSUME LimitAssumption == QueueLimit \in Nat \ {0}
ASSUME BoundAssumption ==
    MaxGenerations \in Nat /\ MaxOwnerRev \in Nat /\ MaxCred \in Nat
ASSUME ThreadAssumption ==
    /\ Jobs \intersect Refreshes = {} /\ Jobs \intersect Controllers = {}
    /\ Refreshes \intersect Controllers = {}

VARIABLES
    owner,      \* the saved owner record
    serving,    \* generation of the process that holds the lease, 0 if none
    accepting,  \* PersistenceService::Impl::accepting
    queue,      \* PersistenceService::Impl::pending
    at,         \* position of each thread
    view,       \* the record each controller saw last
    root,       \* the saved state of each root run
    refresh,    \* the saved receipt of each renewal
    cred,       \* the revision of the stored credential
    sent,       \* history: renewals that sent their refresh token
    births      \* history: generations that exist so far

ownerVars == <<owner, serving, accepting, queue, at, view, root, refresh, cred, sent, births>>

Threads == Jobs \union Refreshes \union Controllers

NoReceipt == <<0, 0>>
Receipts == (0..MaxGenerations) \X Nat

Phases == {"active", "quiesced", "retiring", "prepared"}
Records == [gen : 0..MaxGenerations, rev : Nat, phase : Phases, source : Receipts]

\* What a record's receipt is: its own identity while it is merely quiesced,
\* afterwards the one the hand-off was started with.
ReceiptOf(v) == IF v.phase = "quiesced" THEN <<v.gen, v.rev>> ELSE v.source

Commands == {"quiesce", "resume", "retire", "retire_to", "activate"}
Requests ==
    [by : Jobs, act : {"start"}, seen : Receipts]
    \union [by : Refreshes, act : {"claim", "dispatch", "publish", "look", "abandon"},
            seen : Receipts]
    \union [by : Controllers, act : Commands \union {"put"}, seen : Receipts]

RefreshStates == {"none", "prepared", "dispatched", "committed", "cancelled", "uncertain"}
Positions == {"idle", "waiting", "claimed", "dispatched", "exchanged", "catch", "abandon", "over"}

OwnerTypeOK ==
    /\ owner \in Records /\ serving \in 0..MaxGenerations /\ births \in 0..MaxGenerations
    /\ accepting \in BOOLEAN /\ queue \in Seq(Requests)
    /\ at \in [Threads -> Positions] /\ view \in [Controllers -> Records]
    /\ root \in [Jobs -> {"none", "live", "ended"}]
    /\ refresh \in [Refreshes -> [state : RefreshStates, gen : 0..MaxGenerations, rev : Nat]]
    /\ cred \in Nat /\ sent \in SUBSET Refreshes

Vacant == [gen |-> 0, rev |-> 0, phase |-> "active", source |-> NoReceipt]

OwnerInit ==
    /\ owner = Vacant /\ serving = 0 /\ births = 0 /\ accepting = FALSE /\ queue = <<>>
    /\ at = [t \in Threads |-> "idle"] /\ view = [k \in Controllers |-> Vacant]
    /\ root = [j \in Jobs |-> "none"]
    /\ refresh = [r \in Refreshes |-> [state |-> "none", gen |-> 0, rev |-> 0]]
    /\ cred = 1 /\ sent = {}

-----------------------------------------------------------------------------
(* The predicates of the transactions.                                     *)

\* Renewals that have not settled (refresh_admission).
Working == {r \in Refreshes : refresh[r].state \in {"prepared", "dispatched"}}

\* Renewals that fence the credential (refresh_blocks): an uncertain one does so
\* for good, for nobody knows which refresh token is valid.
Fencing == Working \union {r \in Refreshes : refresh[r].state = "uncertain"}

NoRoots == \A j \in Jobs : root[j] # "live"

\* require_database_idle
DatabaseIdle == Working = {} /\ NoRoots

\* Mutant of Admitted: the submitter looked when it queued the mutation.
AdmittedBefore == owner.gen = serving

\* The gate before each mutation, evaluated on the worker.
Admitted == owner.gen = serving /\ owner.phase = "active"

\* The record that follows, one revision later.
Revise(phase, source) ==
    /\ owner.rev < MaxOwnerRev
    /\ owner' = [owner EXCEPT !.rev = @ + 1, !.phase = phase, !.source = source]

\* The caller's receipt is the one of the record.
Exact(seen) == seen = <<owner.gen, owner.rev>> /\ owner.gen = serving

\* refresh_recover: another generation's renewals are settled without replay.
Recovered(g) ==
    [r \in Refreshes |->
        CASE refresh[r].gen # g /\ refresh[r].state = "prepared" -> [refresh[r] EXCEPT !.state = "cancelled"]
          [] refresh[r].gen # g /\ refresh[r].state = "dispatched" -> [refresh[r] EXCEPT !.state = "uncertain"]
          [] OTHER -> refresh[r]]

-----------------------------------------------------------------------------
(* The transactions, as the worker runs them.                              *)

StartRun(j) ==
    /\ Admitted /\ root[j] = "none" /\ Working = {}
    /\ root' = [root EXCEPT ![j] = "live"]
    /\ UNCHANGED <<owner, refresh, cred>>

Settled(r, from, to) ==
    /\ Admitted /\ refresh[r].state = from /\ refresh[r].gen = serving
    /\ refresh' = [refresh EXCEPT ![r].state = to]
    /\ UNCHANGED <<owner, root>>

ClaimRefresh(r) ==
    /\ Admitted /\ refresh[r].state = "none" /\ Fencing = {} /\ NoRoots
    /\ refresh' = [refresh EXCEPT ![r] = [state |-> "prepared", gen |-> serving, rev |-> cred]]
    /\ UNCHANGED <<owner, root, cred>>

DispatchRefresh(r) ==
    /\ refresh[r].rev = cred /\ Settled(r, "prepared", "dispatched") /\ UNCHANGED cred

PublishRefresh(r) ==
    /\ refresh[r].rev = cred /\ cred < MaxCred
    /\ Settled(r, "dispatched", "committed") /\ cred' = cred + 1

\* Mutant of AbandonRefresh: giving up cancels an exchange that may have happened.
AbandonAsCancelled(r) ==
    /\ \/ Settled(r, "prepared", "cancelled")
       \/ Settled(r, "dispatched", "cancelled")
    /\ UNCHANGED cred

AbandonRefresh(r) ==
    /\ \/ Settled(r, "prepared", "cancelled")
       \/ Settled(r, "dispatched", "uncertain")
    /\ UNCHANGED cred

\* A person stores another grant under the same identity.
PutCredential ==
    /\ Admitted /\ Fencing = {} /\ cred < MaxCred
    /\ cred' = cred + 1
    /\ UNCHANGED <<owner, root, refresh>>

\* The owner commands are not gated; each demands the exact receipt.
Command(act, seen) ==
    /\ Exact(seen) /\ DatabaseIdle
    /\ \/ act = "quiesce" /\ owner.phase = "active" /\ Revise("quiesced", NoReceipt)
       \/ act = "resume" /\ owner.phase = "quiesced" /\ Revise("active", NoReceipt)
       \/ act = "retire" /\ owner.phase = "quiesced" /\ Revise("retiring", NoReceipt)
       \/ act = "retire_to" /\ owner.phase = "quiesced" /\ Revise("retiring", seen)
       \/ act = "activate" /\ owner.phase = "prepared" /\ Revise("active", NoReceipt)
    /\ UNCHANGED <<root, refresh, cred>>

Commits(q) ==
    \/ q.act = "start" /\ StartRun(q.by)
    \/ q.act = "claim" /\ ClaimRefresh(q.by)
    \/ q.act = "dispatch" /\ DispatchRefresh(q.by)
    \/ q.act = "publish" /\ PublishRefresh(q.by)
    \/ q.act = "abandon" /\ AbandonRefresh(q.by)
    \/ q.act = "put" /\ PutCredential
    \/ Command(q.act, q.seen)

\* Where a thread goes on when its future is answered and when it throws.
Answered(act) ==
    CASE act = "claim" -> "claimed" [] act = "dispatch" -> "dispatched"
      [] act \in {"publish", "abandon"} -> "over" [] OTHER -> "idle"
Thrown(act) ==
    CASE act = "claim" -> "idle" [] act \in {"dispatch", "publish"} -> "catch"
      [] act \in {"abandon", "look"} -> "over" [] OTHER -> "idle"

-----------------------------------------------------------------------------
(* The worker thread.                                                      *)

TakeHead == serving # 0 /\ queue # <<>> /\ queue' = Tail(queue)

\* The transaction commits and its thread learns of it.
Serve ==
    /\ TakeHead
    /\ LET q == Head(queue) IN
       /\ Commits(q)
       /\ at' = [at EXCEPT ![q.by] = Answered(q.act)]
       /\ view' = IF q.act \in Commands THEN [view EXCEPT ![q.by] = owner'] ELSE view
    /\ UNCHANGED <<serving, accepting, sent, births>>

\* It commits, and the answer is an error all the same.
ServeUnheard ==
    /\ TakeHead
    /\ LET q == Head(queue) IN Commits(q) /\ at' = [at EXCEPT ![q.by] = Thrown(q.act)]
    /\ UNCHANGED <<serving, accepting, view, sent, births>>

\* It throws before it commits: a precondition fails, or the database does.
Refuse ==
    /\ TakeHead
    /\ LET q == Head(queue) IN at' = [at EXCEPT ![q.by] = Thrown(q.act)]
    /\ UNCHANGED <<owner, serving, accepting, view, root, refresh, cred, sent, births>>

\* A renewal that failed reads its receipt: a settled one is the result, an
\* unsettled one is abandoned.
LookAt ==
    /\ TakeHead
    /\ LET q == Head(queue) IN
       /\ q.act = "look"
       /\ at' = [at EXCEPT ![q.by] = IF q.by \in Working THEN "abandon" ELSE "over"]
    /\ UNCHANGED <<owner, serving, accepting, view, root, refresh, cred, sent, births>>

-----------------------------------------------------------------------------
(* The threads.                                                            *)

\* submit(): refused when the service is closed or the queue is full.
Submit(t, act, seen) ==
    /\ serving # 0
    /\ IF accepting /\ Len(queue) < QueueLimit
       THEN /\ queue' = Append(queue, [by |-> t, act |-> act, seen |-> seen])
            /\ at' = [at EXCEPT ![t] = "waiting"]
       ELSE at' = [at EXCEPT ![t] = Thrown(act)] /\ UNCHANGED queue
    /\ UNCHANGED <<owner, serving, accepting, view, root, refresh, cred, sent, births>>

SubmitStart(j) == at[j] = "idle" /\ root[j] = "none" /\ Submit(j, "start", NoReceipt)

\* A renewal asks for the claim; from there on each request follows the last.
SubmitRefresh(r) ==
    \/ at[r] = "idle" /\ refresh[r].state = "none" /\ Submit(r, "claim", NoReceipt)
    \/ at[r] = "claimed" /\ Submit(r, "dispatch", NoReceipt)
    \/ at[r] = "exchanged" /\ Submit(r, "publish", NoReceipt)
    \/ at[r] = "catch" /\ Submit(r, "look", NoReceipt)
    \/ at[r] = "abandon" /\ Submit(r, "abandon", NoReceipt)

\* The refresh token goes out.
Exchange(r) ==
    /\ at[r] = "dispatched" /\ sent' = sent \union {r}
    /\ at' = [at EXCEPT ![r] = "exchanged"]
    /\ UNCHANGED <<owner, serving, accepting, queue, view, root, refresh, cred, births>>

\* Cancelled, too late, or the network failed, before or after the exchange.
Fail(r) ==
    /\ at[r] \in {"claimed", "dispatched", "exchanged"}
    /\ at' = [at EXCEPT ![r] = "catch"]
    /\ UNCHANGED <<owner, serving, accepting, queue, view, root, refresh, cred, sent, births>>

\* A client sends an owner command with the record it knows.
SubmitCommand(k) ==
    /\ at[k] = "idle"
    /\ \/ \E act \in Commands : Submit(k, act, <<view[k].gen, view[k].rev>>)
       \/ Submit(k, "put", NoReceipt)

\* status(): a client reads the record.
Observe(k) ==
    /\ serving # 0 /\ at[k] = "idle" /\ view' = [view EXCEPT ![k] = owner]
    /\ UNCHANGED <<owner, serving, accepting, queue, at, root, refresh, cred, sent, births>>

\* A root ends in a mutation of its own.
EndRoot(j) ==
    /\ serving # 0 /\ Admitted /\ root[j] = "live" /\ root' = [root EXCEPT ![j] = "ended"]
    /\ UNCHANGED <<owner, serving, accepting, queue, at, view, refresh, cred, sent, births>>

-----------------------------------------------------------------------------
(* Processes.                                                              *)

\* close(): what was accepted is still served.
CloseStore ==
    /\ serving # 0 /\ accepting /\ accepting' = FALSE
    /\ UNCHANGED <<owner, serving, queue, at, view, root, refresh, cred, sent, births>>

\* The process is gone, and its lease with it: after close() or at any moment.
ProcessEnds ==
    /\ serving # 0 /\ serving' = 0 /\ accepting' = FALSE /\ queue' = <<>>
    /\ at' = [t \in Threads |-> "idle"]
    /\ UNCHANGED <<owner, view, root, refresh, cred, sent, births>>

\* A process takes the lease and publishes a fresh generation.
NewOwner(phase, source) ==
    /\ serving = 0 /\ births < MaxGenerations /\ owner.rev < MaxOwnerRev
    /\ births' = births + 1 /\ serving' = births + 1 /\ accepting' = TRUE
    /\ owner' = [gen |-> births + 1, rev |-> owner.rev + 1, phase |-> phase, source |-> source]
    /\ refresh' = Recovered(births + 1)
    /\ UNCHANGED <<queue, at, view, cred, sent>>

\* An ordinary start.  Recovery ends the roots, save those cleanly paused.
Open ==
    /\ owner.phase = "active" /\ NewOwner("active", NoReceipt)
    /\ \E paused \in SUBSET {j \in Jobs : root[j] = "live"} :
         root' = [j \in Jobs |-> IF root[j] = "live" /\ j \notin paused THEN "ended" ELSE root[j]]

\* The target of a hand-off starts with the receipt; it may have to do so again.
Bootstrap(k) ==
    /\ owner.phase \in {"retiring", "prepared"} /\ owner.source # NoReceipt
    /\ ReceiptOf(view[k]) = owner.source /\ DatabaseIdle
    /\ NewOwner("prepared", owner.source)
    /\ UNCHANGED root

\* The source died between its receipt and the retirement: the target retires it.
FinishRetirement(k) ==
    /\ serving = 0 /\ owner.phase = "quiesced" /\ DatabaseIdle
    /\ ReceiptOf(view[k]) = <<owner.gen, owner.rev>>
    /\ Revise("retiring", ReceiptOf(view[k]))
    /\ UNCHANGED <<serving, accepting, queue, at, view, root, refresh, cred, sent, births>>

OwnerNext ==
    \/ Serve \/ ServeUnheard \/ Refuse \/ LookAt
    \/ \E j \in Jobs : SubmitStart(j) \/ EndRoot(j)
    \/ \E r \in Refreshes : SubmitRefresh(r) \/ Exchange(r) \/ Fail(r)
    \/ \E k \in Controllers : SubmitCommand(k) \/ Observe(k) \/ Bootstrap(k) \/ FinishRetirement(k)
    \/ CloseStore \/ ProcessEnds \/ Open

OwnerSpec == OwnerInit /\ [][OwnerNext]_ownerVars

-----------------------------------------------------------------------------
(* Properties.                                                             *)

\* A closed database, a renewal and a root never meet: quiesce, claim and start
\* each read in their own transaction what the other two saved, whatever was
\* queued before (require_database_idle, refresh_admission, the mutation gate).
OwnersExclude ==
    /\ owner.phase # "active" => DatabaseIdle
    /\ Working # {} => NoRoots

\* A refresh token that has left is never sent again: no two renewals sent the
\* same revision, and while its revision is still the stored one the renewal
\* fences it, through lost answers, failures, restarts and hand-offs
\* (mcp_oauth_renewal.cpp:23-36, refresh_recover, refresh_fence).
SpentTokenIsFenced ==
    /\ \A r \in sent : refresh[r].rev = cred => r \in Fencing
    /\ \A r, s \in sent : refresh[r].rev = refresh[s].rev => r = s

================================================================================
