-------------------------- MODULE BackendOwner_proofs --------------------------
(***************************************************************************)
(* What BackendOwner guarantees for any number of roots, renewals, clients *)
(* and generations, and any length of the queue.                           *)
(***************************************************************************)
EXTENDS BackendOwner, SequenceTheorems, TLAPS

\* The head of the queue is a request and so is what follows it.
LEMMA HeadIsRequest ==
    ASSUME queue \in Seq(Requests), queue # <<>>
    PROVE  Head(queue) \in Requests /\ Tail(queue) \in Seq(Requests)
  BY HeadTailProperties

\* Who may ask for what.
LEMMA RequestShape ==
    ASSUME NEW q \in Requests
    PROVE  /\ q.by \in Threads /\ q.seen \in Receipts
           /\ q.act = "start" => q.by \in Jobs
           /\ q.act \in {"claim", "dispatch", "publish", "look", "abandon"} => q.by \in Refreshes
           /\ q.act \in Commands => q.by \in Controllers
  BY SMT DEF Requests, Threads, Commands

\* The record keeps its type when it is revised.
LEMMA ReviseType ==
    ASSUME OwnerTypeOK, NEW phase \in Phases, NEW source \in Receipts, Revise(phase, source)
    PROVE  owner' \in Records
<1>1. owner \in Records /\ owner.rev + 1 \in Nat
  BY DEF OwnerTypeOK, Records
<1>2. owner' = [gen |-> owner.gen, rev |-> owner.rev + 1, phase |-> phase, source |-> source]
  BY <1>1 DEF Revise, Records
<1> QED BY <1>1, <1>2 DEF Records

\* A settled receipt is a receipt.
LEMMA SettledType ==
    ASSUME OwnerTypeOK, NEW r \in Refreshes, NEW from, NEW to \in RefreshStates, Settled(r, from, to)
    PROVE  refresh' \in [Refreshes -> [state : RefreshStates, gen : 0..MaxGenerations, rev : Nat]]
<1> DEFINE next == [refresh[r] EXCEPT !.state = to]
<1>1. refresh[r] \in [state : RefreshStates, gen : 0..MaxGenerations, rev : Nat]
  BY DEF OwnerTypeOK
<1>2. next \in [state : RefreshStates, gen : 0..MaxGenerations, rev : Nat]
  BY <1>1
<1>3. refresh' = [refresh EXCEPT ![r] = next]
  BY DEF Settled
<1> HIDE DEF next
<1> QED BY <1>2, <1>3 DEF OwnerTypeOK

\* A committed transaction leaves what it wrote well typed.
LEMMA CommitsType ==
    ASSUME OwnerTypeOK, NEW q \in Requests, Commits(q)
    PROVE  /\ owner' \in Records /\ cred' \in Nat
           /\ root' \in [Jobs -> {"none", "live", "ended"}]
           /\ refresh' \in [Refreshes -> [state : RefreshStates, gen : 0..MaxGenerations, rev : Nat]]
<1> USE RequestShape DEF OwnerTypeOK
<1>1. CASE q.act = "start" /\ StartRun(q.by)
  BY <1>1 DEF StartRun
<1>2. CASE q.act = "claim" /\ ClaimRefresh(q.by)
  BY <1>2 DEF ClaimRefresh, RefreshStates
<1>3. CASE q.act = "dispatch" /\ DispatchRefresh(q.by)
  BY <1>3, SettledType DEF DispatchRefresh, Settled, RefreshStates
<1>4. CASE q.act = "publish" /\ PublishRefresh(q.by)
  <2>1. refresh' \in [Refreshes -> [state : RefreshStates, gen : 0..MaxGenerations, rev : Nat]]
    BY <1>4, SettledType DEF PublishRefresh, RefreshStates
  <2> QED BY <1>4, <2>1 DEF PublishRefresh, Settled
<1>5. CASE q.act = "abandon" /\ AbandonRefresh(q.by)
  BY <1>5, SettledType DEF AbandonRefresh, Settled, RefreshStates
<1>6. CASE q.act = "put" /\ PutCredential
  BY <1>6 DEF PutCredential
<1>7. CASE Command(q.act, q.seen)
  <2>1. NoReceipt \in Receipts
    BY BoundAssumption DEF NoReceipt, Receipts
  <2>2. owner' \in Records
    BY <1>7, <2>1, ReviseType DEF Command, Phases
  <2> QED BY <1>7, <2>2 DEF Command
<1> QED BY <1>1, <1>2, <1>3, <1>4, <1>5, <1>6, <1>7 DEF Commits

\* Where threads go on is a position.
LEMMA PositionsType ==
    ASSUME NEW act PROVE Answered(act) \in Positions /\ Thrown(act) \in Positions
  BY DEF Answered, Thrown, Positions

\* submit() keeps the queue a sequence of requests.
LEMMA SubmitType ==
    ASSUME OwnerTypeOK, NEW t \in Threads, NEW act, NEW seen,
           [by |-> t, act |-> act, seen |-> seen] \in Requests, Submit(t, act, seen)
    PROVE  OwnerTypeOK'
<1>1. Append(queue, [by |-> t, act |-> act, seen |-> seen]) \in Seq(Requests)
  BY AppendProperties DEF OwnerTypeOK
<1> QED BY <1>1, PositionsType DEF Submit, OwnerTypeOK, Positions

\* Recovery keeps receipts receipts.
LEMMA RecoveredType ==
    ASSUME OwnerTypeOK, NEW g
    PROVE  Recovered(g) \in [Refreshes -> [state : RefreshStates, gen : 0..MaxGenerations, rev : Nat]]
<1>1. ASSUME NEW r \in Refreshes
      PROVE  Recovered(g)[r] \in [state : RefreshStates, gen : 0..MaxGenerations, rev : Nat]
  BY <1>1 DEF Recovered, OwnerTypeOK, RefreshStates
<1> QED BY <1>1 DEF Recovered

\* Every step keeps the state well typed.
LEMMA TypeStep == OwnerTypeOK /\ [OwnerNext]_ownerVars => OwnerTypeOK'
<1> SUFFICES ASSUME OwnerTypeOK, [OwnerNext]_ownerVars PROVE OwnerTypeOK'
  OBVIOUS
<1>1. CASE Serve
  <2> DEFINE q == Head(queue)
  <2>1. q \in Requests /\ queue' \in Seq(Requests)
    BY <1>1, HeadIsRequest DEF Serve, TakeHead, OwnerTypeOK
  <2>2. Commits(q)
    BY <1>1 DEF Serve
  <2> HIDE DEF q
  <2>3. at' \in [Threads -> Positions]
    BY <1>1, <2>1, RequestShape, PositionsType DEF Serve, OwnerTypeOK, q
  <2>4. view' \in [Controllers -> Records]
    BY <1>1, <2>1, <2>2, CommitsType, RequestShape DEF Serve, OwnerTypeOK, q
  <2> QED BY <1>1, <2>1, <2>2, <2>3, <2>4, CommitsType DEF Serve, OwnerTypeOK
<1>2. CASE ServeUnheard
  <2> DEFINE q == Head(queue)
  <2>1. q \in Requests /\ queue' \in Seq(Requests)
    BY <1>2, HeadIsRequest DEF ServeUnheard, TakeHead, OwnerTypeOK
  <2>2. Commits(q)
    BY <1>2 DEF ServeUnheard
  <2> HIDE DEF q
  <2>3. at' \in [Threads -> Positions]
    BY <1>2, <2>1, RequestShape, PositionsType DEF ServeUnheard, OwnerTypeOK, q
  <2> QED BY <1>2, <2>1, <2>2, <2>3, CommitsType DEF ServeUnheard, OwnerTypeOK
<1>3. CASE Refuse \/ LookAt
  <2>1. Head(queue) \in Requests /\ queue' \in Seq(Requests)
    BY <1>3, HeadIsRequest DEF Refuse, LookAt, TakeHead, OwnerTypeOK
  <2>2. at' \in [Threads -> Positions]
    BY <1>3, <2>1, RequestShape, PositionsType DEF Refuse, LookAt, OwnerTypeOK, Positions
  <2> QED BY <1>3, <2>1, <2>2 DEF Refuse, LookAt, OwnerTypeOK
<1>4. ASSUME NEW j \in Jobs, SubmitStart(j) PROVE OwnerTypeOK'
  <2>1. [by |-> j, act |-> "start", seen |-> NoReceipt] \in Requests
    BY BoundAssumption DEF Requests, NoReceipt, Receipts
  <2> QED BY <1>4, <2>1, SubmitType DEF SubmitStart, Threads
<1>5. ASSUME NEW j \in Jobs, EndRoot(j) PROVE OwnerTypeOK'
  BY <1>5 DEF EndRoot, OwnerTypeOK
<1>6. ASSUME NEW r \in Refreshes, SubmitRefresh(r) PROVE OwnerTypeOK'
  <2>1. \A act \in {"claim", "dispatch", "publish", "look", "abandon"} :
          [by |-> r, act |-> act, seen |-> NoReceipt] \in Requests
    BY BoundAssumption DEF Requests, NoReceipt, Receipts
  <2> QED BY <1>6, <2>1, SubmitType DEF SubmitRefresh, Threads
<1>7. ASSUME NEW r \in Refreshes, Exchange(r) \/ Fail(r) PROVE OwnerTypeOK'
  BY <1>7 DEF Exchange, Fail, OwnerTypeOK, Positions, Threads
<1>8. ASSUME NEW k \in Controllers, SubmitCommand(k) PROVE OwnerTypeOK'
  <2>1. <<view[k].gen, view[k].rev>> \in Receipts
    BY DEF OwnerTypeOK, Records, Receipts
  <2>2. \A act \in Commands :
          [by |-> k, act |-> act, seen |-> <<view[k].gen, view[k].rev>>] \in Requests
    BY <2>1 DEF Requests
  <2>3. [by |-> k, act |-> "put", seen |-> NoReceipt] \in Requests
    BY BoundAssumption DEF Requests, NoReceipt, Receipts
  <2> QED BY <1>8, <2>2, <2>3, SubmitType DEF SubmitCommand, Threads
<1>9. ASSUME NEW k \in Controllers, Observe(k) PROVE OwnerTypeOK'
  BY <1>9 DEF Observe, OwnerTypeOK
<1>10. ASSUME NEW phase \in Phases, NEW source \in Receipts, NewOwner(phase, source),
              root' \in [Jobs -> {"none", "live", "ended"}]
       PROVE  OwnerTypeOK'
  <2>1. births + 1 \in 0..MaxGenerations
    BY <1>10, BoundAssumption DEF NewOwner, OwnerTypeOK
  <2>2. owner' \in Records
    BY <1>10, <2>1 DEF NewOwner, OwnerTypeOK, Records
  <2> QED BY <1>10, <2>1, <2>2, RecoveredType DEF NewOwner, OwnerTypeOK
<1>11. ASSUME NEW k \in Controllers, Bootstrap(k) PROVE OwnerTypeOK'
  BY <1>10, <1>11 DEF Bootstrap, OwnerTypeOK, Records, Phases
<1>12. ASSUME NEW k \in Controllers, FinishRetirement(k) PROVE OwnerTypeOK'
  <2>1. ReceiptOf(view[k]) \in Receipts
    BY DEF ReceiptOf, OwnerTypeOK, Records, Receipts
  <2>2. owner' \in Records
    BY <1>12, <2>1, ReviseType DEF FinishRetirement, Phases
  <2> QED BY <1>12, <2>2 DEF FinishRetirement, OwnerTypeOK
<1>13. CASE CloseStore \/ ProcessEnds
  <2>1. <<>> \in Seq(Requests) /\ 0 \in 0..MaxGenerations
    BY BoundAssumption, EmptySeq
  <2> QED BY <1>13, <2>1 DEF CloseStore, ProcessEnds, OwnerTypeOK, Positions
<1>14. CASE Open
  <2>1. NoReceipt \in Receipts /\ "active" \in Phases
    BY BoundAssumption DEF NoReceipt, Receipts, Phases
  <2>2. root' \in [Jobs -> {"none", "live", "ended"}]
    BY <1>14 DEF Open, OwnerTypeOK
  <2> QED BY <1>10, <1>14, <2>1, <2>2 DEF Open
<1>15. CASE UNCHANGED ownerVars
  BY <1>15 DEF ownerVars, OwnerTypeOK
<1> QED
  BY <1>1, <1>2, <1>3, <1>4, <1>5, <1>6, <1>7, <1>8, <1>9, <1>11, <1>12, <1>13, <1>14, <1>15
  DEF OwnerNext

\* The first state is well typed.
LEMMA TypeInit == OwnerInit => OwnerTypeOK
<1>1. <<>> \in Seq(Requests) /\ 0 \in 0..MaxGenerations /\ Vacant \in Records
  BY BoundAssumption, EmptySeq DEF Vacant, Records, Phases, Receipts, NoReceipt
<1>2. [state |-> "none", gen |-> 0, rev |-> 0]
        \in [state : RefreshStates, gen : 0..MaxGenerations, rev : Nat]
  BY <1>1 DEF RefreshStates
<1>3. "idle" \in Positions
  BY DEF Positions
<1> SUFFICES ASSUME OwnerInit PROVE OwnerTypeOK
  OBVIOUS
<1>4. accepting \in BOOLEAN /\ sent \in SUBSET Refreshes /\ cred \in Nat
  BY DEF OwnerInit
<1>5. /\ root \in [Jobs -> {"none", "live", "ended"}]
      /\ at \in [Threads -> Positions] /\ view \in [Controllers -> Records]
  BY <1>1, <1>3 DEF OwnerInit
<1>6. refresh \in [Refreshes -> [state : RefreshStates, gen : 0..MaxGenerations, rev : Nat]]
  BY <1>2 DEF OwnerInit
<1> QED BY <1>1, <1>4, <1>5, <1>6 DEF OwnerInit, OwnerTypeOK

\* The state is well typed in every behaviour (the persistence queue, the owner
\* record and the renewal receipts).
THEOREM OwnerTypeCorrect == OwnerSpec => []OwnerTypeOK
  BY TypeInit, TypeStep, PTL DEF OwnerSpec

-----------------------------------------------------------------------------
(* A closed database, a renewal and a root exclude each other.             *)

\* No transaction lets two of the three in.
LEMMA CommitsExclude ==
    ASSUME OwnerTypeOK, OwnersExclude, NEW q \in Requests, Commits(q)
    PROVE  OwnersExclude'
<1> USE DEF OwnersExclude, DatabaseIdle, NoRoots, Working, OwnerTypeOK
<1>1. CASE q.act = "start" /\ StartRun(q.by)
  BY <1>1, RequestShape DEF StartRun, Admitted
<1>2. CASE q.act = "claim" /\ ClaimRefresh(q.by)
  BY <1>2, RequestShape DEF ClaimRefresh, Admitted
<1>3. ASSUME NEW to \in RefreshStates, NEW from \in {"prepared", "dispatched"},
             Settled(q.by, from, to), q.by \in Refreshes
      PROVE  OwnersExclude'
  <2>1. NoRoots /\ owner.phase = "active" /\ UNCHANGED <<owner, root>>
    BY <1>3 DEF Settled, Admitted
  <2>2. NoRoots' /\ owner'.phase = "active"
    BY <2>1
  <2> HIDE DEF NoRoots
  <2> QED BY <2>2
<1>4. CASE \/ q.act = "dispatch" /\ DispatchRefresh(q.by)
           \/ q.act = "publish" /\ PublishRefresh(q.by)
           \/ q.act = "abandon" /\ AbandonRefresh(q.by)
  BY <1>3, <1>4, RequestShape DEF DispatchRefresh, PublishRefresh, AbandonRefresh, RefreshStates
<1>5. CASE q.act = "put" /\ PutCredential
  BY <1>5 DEF PutCredential
<1>6. CASE Command(q.act, q.seen)
  BY <1>6 DEF Command
<1> HIDE DEF OwnersExclude, DatabaseIdle, NoRoots, Working, OwnerTypeOK
<1> QED BY <1>1, <1>2, <1>4, <1>5, <1>6 DEF Commits

\* Recovery settles renewals and touches nothing else of them.
LEMMA RecoveredWorks ==
    ASSUME OwnerTypeOK, NEW g, refresh' = Recovered(g)
    PROVE  /\ Working' \subseteq Working
           /\ \A r \in Refreshes :
                /\ refresh'[r].rev = refresh[r].rev
                /\ \/ refresh'[r].state = refresh[r].state
                   \/ refresh[r].state = "prepared" /\ refresh'[r].state = "cancelled"
                   \/ refresh[r].state = "dispatched" /\ refresh'[r].state = "uncertain"
<1>1. ASSUME NEW r \in Refreshes
      PROVE  /\ refresh'[r].rev = refresh[r].rev
             /\ \/ refresh'[r].state = refresh[r].state
                \/ refresh[r].state = "prepared" /\ refresh'[r].state = "cancelled"
                \/ refresh[r].state = "dispatched" /\ refresh'[r].state = "uncertain"
  BY <1>1 DEF Recovered, OwnerTypeOK
<1>2. ASSUME NEW r \in Working' PROVE r \in Working
  <2>1. r \in Refreshes /\ refresh'[r].state \in {"prepared", "dispatched"}
    BY <1>2 DEF Working
  <2>2. refresh[r].state \in {"prepared", "dispatched"}
    BY <1>1, <2>1
  <2> QED BY <2>1, <2>2 DEF Working
<1>3. Working' \subseteq Working
  BY <1>2
<1> QED BY <1>1, <1>3

\* The database never changes hands, is never renewed in and never runs a root
\* two at a time, for every interleaving of queued requests, crashes and
\* processes (quiesce_backend_owner, claim_mcp_oauth_refresh, start_prompt_run).
THEOREM OwnersAreExclusive == OwnerSpec => []OwnersExclude
<1>1. OwnerInit => OwnersExclude
  BY DEF OwnerInit, Vacant, OwnersExclude, DatabaseIdle, NoRoots, Working
<1>2. OwnerTypeOK /\ OwnersExclude /\ [OwnerNext]_ownerVars => OwnersExclude'
  <2> SUFFICES ASSUME OwnerTypeOK, OwnersExclude, [OwnerNext]_ownerVars PROVE OwnersExclude'
    OBVIOUS
  <2>1. CASE Serve \/ ServeUnheard
    <3>1. Head(queue) \in Requests /\ Commits(Head(queue))
      BY <2>1, HeadIsRequest DEF Serve, ServeUnheard, TakeHead, OwnerTypeOK
    <3> HIDE DEF OwnersExclude
    <3> QED BY <3>1, CommitsExclude
  <2>2. CASE UNCHANGED <<owner, root, refresh>>
    BY <2>2 DEF OwnersExclude, DatabaseIdle, NoRoots, Working
  <2>3. ASSUME NEW j \in Jobs, EndRoot(j) PROVE OwnersExclude'
    BY <2>3 DEF EndRoot, Admitted, OwnersExclude, DatabaseIdle, NoRoots, Working, OwnerTypeOK
  <2>4. ASSUME NEW k \in Controllers, Bootstrap(k) PROVE OwnersExclude'
    <3>1. Working' = {} /\ UNCHANGED root
      BY <2>4, RecoveredWorks DEF Bootstrap, NewOwner, DatabaseIdle
    <3> QED BY <2>4, <3>1 DEF Bootstrap, OwnersExclude, DatabaseIdle, NoRoots
  <2>5. ASSUME NEW k \in Controllers, FinishRetirement(k) PROVE OwnersExclude'
    BY <2>5 DEF FinishRetirement, OwnersExclude, DatabaseIdle, NoRoots, Working
  <2>6. CASE Open
    <3>1. Working' \subseteq Working /\ owner'.phase = "active"
      BY <2>6, RecoveredWorks DEF Open, NewOwner
    <3>2. NoRoots => NoRoots'
      BY <2>6 DEF Open, NoRoots, OwnerTypeOK
    <3> QED BY <3>1, <3>2 DEF OwnersExclude
  <2> QED
    BY <2>1, <2>2, <2>3, <2>4, <2>5, <2>6
    DEF OwnerNext, ownerVars, Refuse, LookAt, SubmitStart, SubmitRefresh, Submit, Exchange, Fail,
        SubmitCommand, Observe, CloseStore, ProcessEnds
<1> QED BY <1>1, <1>2, OwnerTypeCorrect, PTL DEF OwnerSpec

-----------------------------------------------------------------------------
(* A spent refresh token is fenced.  The property does not say why nobody  *)
(* sends the token of a revision again; these two invariants do.           *)

\* One renewal fences the credential, at the stored revision, and one that sent
\* its token has left the states from which it could be cancelled.
RenewalInv ==
    /\ \A r \in Fencing : refresh[r].rev = cred
    /\ \A r, s \in Fencing : r = s
    /\ \A r \in sent :
         /\ refresh[r].state \notin {"none", "prepared"}
         /\ r \in Fencing \/ refresh[r].rev < cred
    /\ \A r, s \in sent : refresh[r].rev = refresh[s].rev => r = s

\* A thread has one request in the queue, for whose answer it waits; one that is
\* free to send its token has a dispatched receipt.
ThreadInv ==
    /\ \A r \in Refreshes : at[r] = "dispatched" => refresh[r].state = "dispatched"
    /\ serving = 0 => \A t \in Threads : at[t] = "idle"
    /\ \A i \in 1..Len(queue) : at[queue[i].by] = "waiting"
    /\ \A i, j \in 1..Len(queue) : queue[i].by = queue[j].by => i = j

TokenInv == OwnerTypeOK /\ RenewalInv /\ ThreadInv

\* A claim, a settlement and a new credential, each seen as what it does to the
\* renewals that fence and those that sent.
LEMMA ClaimKeeps ==
    ASSUME OwnerTypeOK, RenewalInv, NEW q \in Refreshes, ClaimRefresh(q), UNCHANGED sent
    PROVE  RenewalInv'
<1>1. Fencing = {} /\ q \notin sent
  BY DEF ClaimRefresh, RenewalInv
<1>2. /\ refresh'[q].rev = cred /\ cred' = cred
      /\ \A r \in Refreshes : r # q => refresh'[r] = refresh[r]
  BY DEF ClaimRefresh, OwnerTypeOK
<1>3. Fencing' \subseteq {q}
  BY <1>1, <1>2 DEF Fencing, Working
<1>4. \A r \in sent : refresh'[r] = refresh[r] /\ refresh[r].rev < cred'
  BY <1>1, <1>2 DEF RenewalInv, OwnerTypeOK
<1> QED BY <1>1, <1>2, <1>3, <1>4 DEF RenewalInv

\* What a settlement changes.
LEMMA SettledFacts ==
    ASSUME OwnerTypeOK, NEW q \in Refreshes, NEW from, NEW to, Settled(q, from, to)
    PROVE  /\ refresh[q].state = from /\ refresh'[q].state = to
           /\ \A r \in Refreshes : refresh'[r].rev = refresh[r].rev
           /\ \A r \in Refreshes : r # q => refresh'[r] = refresh[r]
<1>1. /\ refresh' = [refresh EXCEPT ![q] = [refresh[q] EXCEPT !.state = to]]
      /\ refresh[q].state = from
  BY DEF Settled
<1>2. \A r \in Refreshes :
        refresh[r] \in [state : RefreshStates, gen : 0..MaxGenerations, rev : Nat]
  BY DEF OwnerTypeOK
<1>3. /\ refresh'[q] = [refresh[q] EXCEPT !.state = to]
      /\ \A r \in Refreshes : r # q => refresh'[r] = refresh[r]
  BY <1>1 DEF OwnerTypeOK
<1> QED BY <1>1, <1>2, <1>3

\* A renewal that moves on inside the fence, or leaves it unspent.
LEMMA SettleKeeps ==
    ASSUME OwnerTypeOK, RenewalInv, NEW q \in Refreshes, UNCHANGED <<sent, cred>>,
           \/ Settled(q, "prepared", "dispatched")
           \/ Settled(q, "prepared", "cancelled")
           \/ Settled(q, "dispatched", "uncertain")
    PROVE  RenewalInv'
<1>1. /\ \A r \in Refreshes : refresh'[r].rev = refresh[r].rev
      /\ \A r \in Refreshes : r # q => refresh'[r] = refresh[r]
  BY SettledFacts
<1>2. /\ refresh'[q].state \notin {"none", "prepared"} /\ q \in Fencing
      /\ refresh'[q].state = "cancelled" => q \notin sent
      /\ refresh'[q].state \in {"dispatched", "uncertain", "cancelled"}
  BY SettledFacts DEF RenewalInv, Fencing, Working
<1>3. Fencing' \subseteq Fencing /\ \A r \in sent : r \in Fencing => r \in Fencing'
  BY <1>1, <1>2 DEF Fencing, Working, OwnerTypeOK
<1>4. \A r \in Fencing' : refresh'[r].rev = cred'
  BY <1>1, <1>3 DEF RenewalInv, Fencing, Working
<1>5. ASSUME NEW r \in sent
      PROVE  /\ refresh'[r].state \notin {"none", "prepared"}
             /\ r \in Fencing' \/ refresh'[r].rev < cred'
  BY <1>1, <1>2, <1>3 DEF RenewalInv, OwnerTypeOK
<1>6. \A r, s \in sent : refresh'[r].rev = refresh'[s].rev => r = s
  BY <1>1 DEF RenewalInv, OwnerTypeOK
<1>7. \A r, s \in Fencing' : r = s
  BY <1>3 DEF RenewalInv
<1> QED BY <1>4, <1>5, <1>6, <1>7 DEF RenewalInv

\* A publication makes every spent revision an old one.
LEMMA PublishKeeps ==
    ASSUME OwnerTypeOK, RenewalInv, NEW q \in Refreshes, PublishRefresh(q), UNCHANGED sent
    PROVE  RenewalInv'
<1>1. /\ \A r \in Refreshes : refresh'[r].rev = refresh[r].rev
      /\ \A r \in Refreshes : r # q => refresh'[r] = refresh[r]
      /\ refresh'[q].state = "committed"
  BY DEF PublishRefresh, Settled, OwnerTypeOK
<1>5. cred' = cred + 1 /\ q \in Fencing
  BY DEF PublishRefresh, Settled, Fencing, Working
<1>2. Fencing' = {}
  BY <1>1, <1>5 DEF RenewalInv, Fencing, Working
<1>3. ASSUME NEW r \in sent
      PROVE  refresh[r].rev < cred' /\ refresh'[r].state \notin {"none", "prepared"}
  <2>1. refresh[r].rev = cred \/ refresh[r].rev < cred
    BY DEF RenewalInv
  <2> QED BY <1>1, <1>5, <2>1 DEF RenewalInv, OwnerTypeOK
<1>4. /\ \A r, s \in sent : refresh'[r].rev = refresh'[s].rev => r = s
      /\ \A r \in sent : refresh'[r].rev = refresh[r].rev
  BY <1>1 DEF RenewalInv, OwnerTypeOK
<1> QED BY <1>2, <1>3, <1>4 DEF RenewalInv

\* Every committed transaction keeps the renewals in order.
LEMMA CommitsKeeps ==
    ASSUME OwnerTypeOK, RenewalInv, NEW q \in Requests, Commits(q), UNCHANGED sent
    PROVE  RenewalInv'
<1>1. CASE q.act = "claim" /\ ClaimRefresh(q.by)
  BY <1>1, ClaimKeeps, RequestShape
<1>2. CASE \/ q.act = "dispatch" /\ DispatchRefresh(q.by)
           \/ q.act = "abandon" /\ AbandonRefresh(q.by)
  BY <1>2, SettleKeeps, RequestShape DEF DispatchRefresh, AbandonRefresh
<1>3. CASE q.act = "publish" /\ PublishRefresh(q.by)
  BY <1>3, PublishKeeps, RequestShape
<1>4. CASE q.act = "put" /\ PutCredential
  <2>1. Fencing = {} /\ Fencing' = {} /\ cred' = cred + 1 /\ refresh' = refresh
    BY <1>4 DEF PutCredential, Fencing, Working
  <2>2. \A r \in sent : refresh[r].rev < cred'
    BY <2>1 DEF RenewalInv, OwnerTypeOK
  <2> QED BY <2>1, <2>2 DEF RenewalInv
<1>5. CASE (q.act = "start" /\ StartRun(q.by)) \/ Command(q.act, q.seen)
  BY <1>5 DEF StartRun, Command, RenewalInv, Fencing, Working
<1> QED BY <1>1, <1>2, <1>3, <1>4, <1>5 DEF Commits

\* A transaction changes the receipt of its own thread only.
LEMMA CommitsOwn ==
    ASSUME OwnerTypeOK, NEW q \in Requests, Commits(q), NEW r \in Refreshes
    PROVE  /\ r # q.by => refresh'[r] = refresh[r]
           /\ q.act = "dispatch" => refresh'[q.by].state = "dispatched"
<1> USE RequestShape DEF OwnerTypeOK
<1>1. CASE q.act = "start" /\ StartRun(q.by)
  BY <1>1 DEF StartRun
<1>2. CASE q.act = "claim" /\ ClaimRefresh(q.by)
  BY <1>2 DEF ClaimRefresh
<1>3. CASE q.act = "dispatch" /\ DispatchRefresh(q.by)
  BY <1>3 DEF DispatchRefresh, Settled
<1>4. CASE q.act = "publish" /\ PublishRefresh(q.by)
  BY <1>4 DEF PublishRefresh, Settled
<1>5. CASE q.act = "abandon" /\ AbandonRefresh(q.by)
  BY <1>5 DEF AbandonRefresh, Settled
<1>6. CASE (q.act = "put" /\ PutCredential) \/ Command(q.act, q.seen)
  BY <1>6 DEF PutCredential, Command, Commands
<1> QED BY <1>1, <1>2, <1>3, <1>4, <1>5, <1>6 DEF Commits

\* The rest of the queue after its head: shorter, the same requests, and none of
\* the thread that was served.
LEMMA TailFacts ==
    ASSUME OwnerTypeOK, ThreadInv, queue # <<>>
    PROVE  /\ Head(queue) = queue[1] /\ 1 \in 1..Len(queue)
           /\ Len(Tail(queue)) = Len(queue) - 1
           /\ \A i \in 1..Len(Tail(queue)) :
                /\ i + 1 \in 1..Len(queue) /\ Tail(queue)[i] = queue[i + 1]
                /\ Tail(queue)[i].by # Head(queue).by
<1>1. /\ Head(queue) = queue[1] /\ Len(queue) \in Nat /\ Len(queue) # 0
      /\ Len(Tail(queue)) = Len(queue) - 1
      /\ \A i \in 1..Len(Tail(queue)) : Tail(queue)[i] = queue[i + 1]
  BY HeadTailProperties, EmptySeq, LenProperties DEF OwnerTypeOK
<1>2. ASSUME NEW i \in 1..Len(Tail(queue))
      PROVE  i + 1 \in 1..Len(queue) /\ 1 \in 1..Len(queue) /\ i + 1 # 1
  BY <1>1
<1>3. ASSUME NEW i \in 1..Len(Tail(queue)) PROVE Tail(queue)[i].by # Head(queue).by
  BY <1>1, <1>2, <1>3 DEF ThreadInv
<1>4. 1 \in 1..Len(queue)
  BY <1>1
<1> QED BY <1>1, <1>2, <1>3, <1>4

\* Serving the head keeps the threads in order, whatever it is answered.
LEMMA ServingKeeps ==
    ASSUME OwnerTypeOK, ThreadInv, TakeHead, UNCHANGED serving, NEW next,
           at' = [at EXCEPT ![Head(queue).by] = next],
           \A r \in Refreshes : r # Head(queue).by => refresh'[r] = refresh[r],
           Head(queue).by \in Refreshes /\ next = "dispatched"
             => refresh'[Head(queue).by].state = "dispatched"
    PROVE  ThreadInv'
<1>1. queue # <<>> /\ queue' = Tail(queue) /\ serving' # 0
  BY DEF TakeHead
<1>2. \A r \in Refreshes : at'[r] = "dispatched" => refresh'[r].state = "dispatched"
  <2> TAKE r \in Refreshes
  <2>1. CASE r = Head(queue).by
    BY <2>1 DEF OwnerTypeOK, Threads
  <2>2. CASE r # Head(queue).by
    BY <2>2 DEF OwnerTypeOK, ThreadInv, Threads
  <2> QED BY <2>1, <2>2
<1>3. \A i \in 1..Len(queue') : at'[queue'[i].by] = "waiting"
  <2> TAKE i \in 1..Len(queue')
  <2>1. i + 1 \in 1..Len(queue) /\ queue'[i] = queue[i + 1] /\ queue'[i].by # Head(queue).by
    BY <1>1, TailFacts
  <2>2. at[queue[i + 1].by] = "waiting" /\ queue[i + 1].by \in Threads
    <3>1. queue[i + 1] \in Requests
      BY <2>1, ElementOfSeq DEF OwnerTypeOK
    <3> QED BY <2>1, <3>1, RequestShape DEF ThreadInv
  <2> QED BY <2>1, <2>2 DEF OwnerTypeOK
<1>4. \A i, j \in 1..Len(queue') : queue'[i].by = queue'[j].by => i = j
  <2> TAKE i, j \in 1..Len(queue')
  <2> HAVE queue'[i].by = queue'[j].by
  <2>1. /\ i + 1 \in 1..Len(queue) /\ queue'[i] = queue[i + 1]
        /\ j + 1 \in 1..Len(queue) /\ queue'[j] = queue[j + 1]
    BY <1>1, TailFacts
  <2>2. i + 1 = j + 1
    BY <2>1 DEF ThreadInv
  <2>3. i \in Int /\ j \in Int
    OBVIOUS
  <2> QED BY <2>2, <2>3
<1> QED BY <1>1, <1>2, <1>3, <1>4 DEF ThreadInv

\* Submitting keeps them in order: only a thread that does not wait submits.
LEMMA SubmittingKeeps ==
    ASSUME OwnerTypeOK, ThreadInv, NEW t \in Threads, NEW act, NEW seen,
           at[t] # "waiting", Submit(t, act, seen),
           [by |-> t, act |-> act, seen |-> seen] \in Requests
    PROVE  ThreadInv'
<1> DEFINE q == [by |-> t, act |-> act, seen |-> seen]
<1>1. q.by = t /\ q \in Requests
  OBVIOUS
<1> HIDE DEF q
<1>2. serving' # 0 /\ serving' = serving /\ refresh' = refresh
  BY DEF Submit
<1>3. \A i \in 1..Len(queue) : queue[i].by # t /\ queue[i].by \in Threads
  <2> TAKE i \in 1..Len(queue)
  <2>1. queue[i] \in Requests
    BY ElementOfSeq DEF OwnerTypeOK
  <2> QED BY <2>1, RequestShape DEF ThreadInv
<1>4. CASE queue' = Append(queue, q) /\ at' = [at EXCEPT ![t] = "waiting"]
  <2>1. /\ Len(queue') = Len(queue) + 1 /\ Len(queue) \in Nat
        /\ \A i \in 1..Len(queue) : queue'[i] = queue[i]
        /\ queue'[Len(queue) + 1] = q
    BY <1>1, <1>4, AppendProperties, LenProperties DEF OwnerTypeOK
  <2>2. \A i \in 1..Len(queue') : i \in 1..Len(queue) \/ i = Len(queue) + 1
    BY <2>1
  <2>3. \A i \in 1..Len(queue') : at'[queue'[i].by] = "waiting"
    BY <1>1, <1>3, <1>4, <2>1, <2>2 DEF OwnerTypeOK, ThreadInv
  <2>4. \A i, j \in 1..Len(queue') : queue'[i].by = queue'[j].by => i = j
    BY <1>1, <1>3, <2>1, <2>2 DEF ThreadInv
  <2>5. \A r \in Refreshes : at'[r] = "dispatched" => refresh'[r].state = "dispatched"
    BY <1>2, <1>4 DEF OwnerTypeOK, ThreadInv, Threads
  <2> QED BY <1>2, <2>3, <2>4, <2>5 DEF ThreadInv
<1>5. CASE queue' = queue /\ at' = [at EXCEPT ![t] = Thrown(act)]
  <2>1. Thrown(act) # "dispatched"
    BY DEF Thrown
  <2>2. \A r \in Refreshes : at'[r] = "dispatched" => refresh'[r].state = "dispatched"
    BY <1>2, <1>5, <2>1 DEF OwnerTypeOK, ThreadInv, Threads
  <2>3. \A i \in 1..Len(queue') : at'[queue'[i].by] = "waiting"
    BY <1>3, <1>5 DEF OwnerTypeOK, ThreadInv
  <2> QED BY <1>2, <1>5, <2>2, <2>3 DEF ThreadInv
<1> QED BY <1>4, <1>5 DEF Submit, q

\* A step that touches no receipt keeps them in order.
LEMMA RenewalsSame ==
    ASSUME RenewalInv, UNCHANGED <<refresh, cred, sent>> PROVE RenewalInv'
  BY DEF RenewalInv, Fencing, Working

\* A fresh generation: no thread is there yet, and what it recovers keeps the order.
LEMMA NewOwnerKeeps ==
    ASSUME TokenInv, NEW phase, NEW source, NewOwner(phase, source)
    PROVE  RenewalInv' /\ ThreadInv'
<1>1. /\ refresh' = Recovered(births + 1) /\ serving = 0 /\ serving' # 0
      /\ UNCHANGED <<queue, at, cred, sent>>
  BY DEF NewOwner, TokenInv, OwnerTypeOK
<1>2. \A r \in Refreshes :
        /\ refresh'[r].rev = refresh[r].rev
        /\ \/ refresh'[r].state = refresh[r].state
           \/ refresh[r].state = "prepared" /\ refresh'[r].state = "cancelled"
           \/ refresh[r].state = "dispatched" /\ refresh'[r].state = "uncertain"
  BY <1>1, RecoveredWorks DEF TokenInv
<1>3. Fencing' \subseteq Fencing
  BY <1>2 DEF Fencing, Working
<1>4. \A r \in sent : r \in Fencing => r \in Fencing'
  BY <1>2 DEF TokenInv, RenewalInv, Fencing, Working
<1>5. \A r \in sent : refresh'[r].state \notin {"none", "prepared"}
  BY <1>2 DEF TokenInv, RenewalInv, OwnerTypeOK
<1>6. \A r \in sent : r \in Fencing' \/ refresh'[r].rev < cred'
  BY <1>1, <1>2, <1>4 DEF TokenInv, RenewalInv, OwnerTypeOK
<1>7. \A r, s \in sent : refresh'[r].rev = refresh'[s].rev => r = s
  BY <1>2 DEF TokenInv, RenewalInv, OwnerTypeOK
<1>8. \A r \in Fencing' : refresh'[r].rev = cred'
  BY <1>1, <1>2, <1>3 DEF TokenInv, RenewalInv, Fencing, Working
<1>9. RenewalInv'
  BY <1>1, <1>3, <1>5, <1>6, <1>7, <1>8 DEF TokenInv, RenewalInv
<1>10. \A r \in Refreshes : at'[r] # "dispatched"
  BY <1>1 DEF TokenInv, ThreadInv, Threads
<1> QED BY <1>1, <1>9, <1>10 DEF TokenInv, ThreadInv

\* Every step keeps the invariant of the spent tokens.
LEMMA TokenStep == TokenInv /\ [OwnerNext]_ownerVars => TokenInv'
<1> SUFFICES ASSUME TokenInv, [OwnerNext]_ownerVars PROVE RenewalInv' /\ ThreadInv'
  BY TypeStep DEF TokenInv
<1> USE DEF TokenInv
<1>1. CASE Serve \/ ServeUnheard
  <2>1. /\ Head(queue) \in Requests /\ Commits(Head(queue)) /\ TakeHead
        /\ UNCHANGED <<serving, sent>>
    BY <1>1, HeadIsRequest DEF Serve, ServeUnheard, TakeHead, OwnerTypeOK
  <2>2. RenewalInv'
    BY <2>1, CommitsKeeps
  <2>3. /\ \A r \in Refreshes : r # Head(queue).by => refresh'[r] = refresh[r]
        /\ Head(queue).by \in Refreshes /\ Head(queue).act = "dispatch"
             => refresh'[Head(queue).by].state = "dispatched"
    BY <2>1, CommitsOwn
  <2>4. /\ Answered(Head(queue).act) = "dispatched" => Head(queue).act = "dispatch"
        /\ Thrown(Head(queue).act) # "dispatched"
    BY DEF Answered, Thrown
  <2>5. PICK next : /\ at' = [at EXCEPT ![Head(queue).by] = next]
                    /\ next = "dispatched" => Head(queue).act = "dispatch"
    BY <1>1, <2>4 DEF Serve, ServeUnheard
  <2>6. ThreadInv'
    BY <2>1, <2>3, <2>5, ServingKeeps
  <2> QED BY <2>2, <2>6
<1>2. CASE Refuse \/ LookAt
  <2>1. TakeHead /\ UNCHANGED <<serving, refresh, cred, sent>>
    BY <1>2 DEF Refuse, LookAt
  <2>2. Thrown(Head(queue).act) # "dispatched"
    BY DEF Thrown
  <2>3. PICK next : at' = [at EXCEPT ![Head(queue).by] = next] /\ next # "dispatched"
    BY <1>2, <2>2 DEF Refuse, LookAt
  <2> QED BY <2>1, <2>3, ServingKeeps, RenewalsSame
<1>3. ASSUME NEW t \in Threads, NEW act, NEW seen, at[t] # "waiting", Submit(t, act, seen),
             [by |-> t, act |-> act, seen |-> seen] \in Requests
      PROVE  RenewalInv' /\ ThreadInv'
  BY <1>3, SubmittingKeeps, RenewalsSame DEF Submit
<1>4. ASSUME NEW j \in Jobs, SubmitStart(j) PROVE RenewalInv' /\ ThreadInv'
  <2>1. [by |-> j, act |-> "start", seen |-> NoReceipt] \in Requests /\ j \in Threads
    BY BoundAssumption DEF Requests, NoReceipt, Receipts, Threads
  <2> QED BY <1>3, <1>4, <2>1 DEF SubmitStart
<1>5. ASSUME NEW r \in Refreshes, SubmitRefresh(r) PROVE RenewalInv' /\ ThreadInv'
  <2>1. \A act \in {"claim", "dispatch", "publish", "look", "abandon"} :
          [by |-> r, act |-> act, seen |-> NoReceipt] \in Requests
    BY BoundAssumption DEF Requests, NoReceipt, Receipts
  <2> QED BY <1>3, <1>5, <2>1 DEF SubmitRefresh, Threads
<1>6. ASSUME NEW k \in Controllers, SubmitCommand(k) PROVE RenewalInv' /\ ThreadInv'
  <2>1. <<view[k].gen, view[k].rev>> \in Receipts
    BY DEF OwnerTypeOK, Records, Receipts
  <2>2. \A act \in Commands :
          [by |-> k, act |-> act, seen |-> <<view[k].gen, view[k].rev>>] \in Requests
    BY <2>1 DEF Requests
  <2>3. [by |-> k, act |-> "put", seen |-> NoReceipt] \in Requests
    BY BoundAssumption DEF Requests, NoReceipt, Receipts
  <2> QED BY <1>3, <1>6, <2>2, <2>3 DEF SubmitCommand, Threads
<1>7. ASSUME NEW r \in Refreshes, Exchange(r) PROVE RenewalInv' /\ ThreadInv'
  <2>1. refresh[r].state = "dispatched" /\ r \in Fencing
    BY <1>7 DEF Exchange, ThreadInv, Fencing, Working
  <2>2. \A s \in sent : refresh[s].rev = refresh[r].rev => s = r
    BY <2>1 DEF RenewalInv, OwnerTypeOK
  <2>3. RenewalInv'
    BY <1>7, <2>1, <2>2 DEF Exchange, RenewalInv, Fencing, Working
  <2>4. ThreadInv'
    BY <1>7 DEF Exchange, ThreadInv, OwnerTypeOK, Threads
  <2> QED BY <2>3, <2>4
<1>8. ASSUME NEW r \in Refreshes, Fail(r) PROVE RenewalInv' /\ ThreadInv'
  BY <1>8, RenewalsSame DEF Fail, ThreadInv, OwnerTypeOK, Threads
<1>9. CASE UNCHANGED <<refresh, cred, sent, at, queue, serving>>
  BY <1>9, RenewalsSame DEF ThreadInv
<1>10. CASE ProcessEnds
  BY <1>10, RenewalsSame, EmptySeq DEF ProcessEnds, ThreadInv, Threads
<1>11. CASE Open \/ \E k \in Controllers : Bootstrap(k)
  BY <1>11, NewOwnerKeeps DEF Open, Bootstrap
<1> QED
  BY <1>1, <1>2, <1>4, <1>5, <1>6, <1>7, <1>8, <1>9, <1>10, <1>11
  DEF OwnerNext, ownerVars, EndRoot, Observe, FinishRetirement, CloseStore

\* No refresh token is sent twice, and a spent one stays fenced, for every
\* interleaving of threads, lost answers, crashes and hand-offs
\* (renew_mcp_oauth_grant, refresh_fence, refresh_recover).
THEOREM SpentTokensAreFenced == OwnerSpec => []SpentTokenIsFenced
<1>1. OwnerInit => OwnerTypeOK /\ RenewalInv /\ ThreadInv
  <2>1. OwnerInit => RenewalInv
    BY DEF OwnerInit, RenewalInv, Fencing, Working
  <2>2. OwnerInit => ThreadInv
    BY EmptySeq DEF OwnerInit, ThreadInv, Threads
  <2> QED BY <2>1, <2>2, TypeInit
<1>2. TokenInv => SpentTokenIsFenced
  BY DEF TokenInv, RenewalInv, SpentTokenIsFenced, OwnerTypeOK
<1> QED BY <1>1, <1>2, TokenStep, PTL DEF OwnerSpec, TokenInv

================================================================================
