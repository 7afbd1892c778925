-------------------------- MODULE AgentWorkers_proofs --------------------------
(***************************************************************************)
(* What AgentWorkers guarantees for any number of processes and of calls,  *)
(* and that the worlds of MCOperationJournal are typed.                    *)
(***************************************************************************)
EXTENDS MCOperationJournal, OperationJournal_proofs, BackendOwner_proofs, FiniteSetTheorems

\* A thread that calls the model works on a claim of its own process, and has not
\* sent the call before it stands at "sent".
ModelThreadsOwnClaims ==
    \A g \in Generations : exchange[g].pc # "idle" =>
        /\ exchange[g].of \in Calls
        /\ claim[exchange[g].of].by = g /\ claim[exchange[g].of].state # "none"
        /\ exchange[g].pc = "claimed" => sends[exchange[g].of] = 0

\* A thread that calls tools does so too, and writes the file last.
ToolThreadsOwnClaims ==
    \A g \in Generations : dispatch[g].pc # "idle" =>
        /\ dispatch[g].of \in Calls
        /\ claim[dispatch[g].of].by = g /\ Responded(dispatch[g].of)
        /\ tool[dispatch[g].of] # "none"
        /\ dispatch[g].pc \notin {"written", "saving"} => writes[dispatch[g].of] = 0

ThreadsOwnClaims == ModelThreadsOwnClaims /\ ToolThreadsOwnClaims

\* What was never claimed was never done.
UnclaimedIsUntouched ==
    \A a \in Calls : /\ claim[a].state = "none" => sends[a] = 0
                     /\ tool[a] = "none" => writes[a] = 0

ReplayInv == WorkerTypeOK /\ ThreadsOwnClaims /\ UnclaimedIsUntouched /\ NothingIsReplayed

\* A lease has a supervisor, only one is active, and a retired one has nothing
\* under way that could still turn into an answer or a result unseen.
LeasesInOrder ==
    /\ \A g \in Generations : lease[g] # "none" => watch[g] # "none"
    /\ \A g, h \in Generations : lease[g] = "active" /\ lease[h] = "active" => g = h
    /\ \A g \in Generations, a \in Calls : lease[g] = "retired" /\ claim[a].by = g =>
        claim[a].state # "dispatching" /\ tool[a] \notin {"awaiting", "executing"}

\* Only a paid call is claimed, by who paid or for the backend; a closed one has its answer.
CallsArePaid ==
    \A a \in Calls : /\ claim[a].state # "none" => /\ Reserved(a)
                                                  /\ call[a].by \in {claim[a].by, Backend}
                     /\ call[a].state = "finished" => Responded(a)

\* A run that completed closed every call.
CompletedCallsAreClosed ==
    task = "completed" => \A a \in Calls : call[a].state \in {"none", "finished"}

WorkerInv ==
    /\ ReplayInv /\ LeasesInOrder /\ CallsArePaid
    /\ EndedRootIsSettled /\ CompletedCallsAreClosed

--------------------------------------------------------------------------------
\* There are at most as many leases as the bound says.
LEMMA LeaseCount ==
    Cardinality(Leased) \in 0..MaxLeases
<1>1. IsFiniteSet(Generations) /\ Cardinality(Generations) = MaxLeases
  BY WorkerAssumption, FS_Interval DEF Generations
<1>2. Leased \subseteq Generations
  BY DEF Leased
<1>3. Cardinality(Leased) \in Nat /\ Cardinality(Leased) <= Cardinality(Generations)
  BY <1>1, <1>2, FS_Subset, FS_CardinalityType
<1> QED BY <1>1, <1>3, WorkerAssumption

\* No process is the backend.
LEMMA NoProcessIsBackend ==
    Backend \notin Generations /\ NoCall \notin Calls
  BY WorkerAssumption DEF Backend, Generations, NoCall, Calls

\* A table of threads keeps its type when a thread enters, goes on or leaves.
LEMMA ThreadTable ==
    ASSUME NEW S, NEW X, NEW Y, NEW table \in [S -> [of : X, pc : Y]], NEW s \in S, NEW x \in X, NEW y \in Y
    PROVE  /\ [table EXCEPT ![s].pc = y] \in [S -> [of : X, pc : Y]]
           /\ [table EXCEPT ![s] = [of |-> x, pc |-> y]] \in [S -> [of : X, pc : Y]]
           /\ [i \in S |-> [of |-> x, pc |-> y]] \in [S -> [of : X, pc : Y]]
<1> DEFINE next == [table[s] EXCEPT !.pc = y]
           entry == [of |-> x, pc |-> y]
<1>1. next \in [of : X, pc : Y] /\ entry \in [of : X, pc : Y]
  OBVIOUS
<1>2. [table EXCEPT ![s].pc = y] = [table EXCEPT ![s] = next]
  OBVIOUS
<1> HIDE DEF next, entry
<1> QED BY <1>1, <1>2

\* A table of claims keeps its type when one changes its state.
LEMMA ClaimTable ==
    ASSUME NEW S, NEW X, NEW Y, NEW Z, NEW table \in [S -> [state : X, by : Y, reply : Z]],
           NEW s \in S, NEW x \in X
    PROVE  [table EXCEPT ![s].state = x] \in [S -> [state : X, by : Y, reply : Z]]
<1> DEFINE next == [table[s] EXCEPT !.state = x]
<1>1. next \in [state : X, by : Y, reply : Z]
  OBVIOUS
<1>2. [table EXCEPT ![s].state = x] = [table EXCEPT ![s] = next]
  OBVIOUS
<1> HIDE DEF next
<1> QED BY <1>1, <1>2

\* So does a table of reservations.
LEMMA CallTable ==
    ASSUME NEW S, NEW X, NEW Y, NEW Z, NEW table \in [S -> [state : X, by : Y, leases : Z]],
           NEW s \in S, NEW x \in X
    PROVE  [table EXCEPT ![s].state = x] \in [S -> [state : X, by : Y, leases : Z]]
<1> DEFINE next == [table[s] EXCEPT !.state = x]
<1>1. next \in [state : X, by : Y, leases : Z]
  OBVIOUS
<1>2. [table EXCEPT ![s].state = x] = [table EXCEPT ![s] = next]
  OBVIOUS
<1> HIDE DEF next
<1> QED BY <1>1, <1>2

\* The parts of WorkerTypeOK.
ThreadTypes ==
    /\ exchange \in [Generations -> [of : {NoCall} \union Calls, pc : ExchangeStates]]
    /\ dispatch \in [Generations -> [of : {NoCall} \union Calls, pc : DispatchStates]]

LedgerTypes ==
    /\ call \in [Calls -> [state : {"none", "reserved", "started", "finished", "interrupted"},
                           by : {Backend} \union Generations, leases : 0..MaxLeases]]
    /\ claim \in [Calls -> [state : {"none", "dispatching", "responded", "uncertain"},
                            by : {Backend} \union Generations, reply : Replies]]

FactTypes ==
    /\ task \in {"queued", "running"} \union Ended
    /\ lease \in [Generations -> {"none", "active", "retired"}]
    /\ tool \in [Calls -> {"none", "awaiting", "executing", "returned", "uncertain"}]
    /\ effect \in [Calls -> {"none", "awaiting", "executing", "succeeded", "failed",
                             "uncertain", "refused"}]
    /\ bound \subseteq Calls /\ turns \subseteq Calls
    /\ alive \subseteq Generations
    /\ watch \in [Generations -> {"none", "serving", "draining", "closed", "done",
                                  "faulted", "lost"}]
    /\ sends \in [Calls -> Nat] /\ writes \in [Calls -> Nat]

\* Together they are the invariant.
LEMMA TypeParts ==
    WorkerTypeOK <=> ThreadTypes /\ LedgerTypes /\ FactTypes
  BY DEF WorkerTypeOK, ThreadTypes, LedgerTypes, FactTypes

\* A thread that calls the model goes on or leaves.
LEMMA ExchangeType ==
    ASSUME ThreadTypes, NEW g \in Generations, NEW a \in {NoCall} \union Calls, NEW pc \in ExchangeStates,
           \/ exchange' = [exchange EXCEPT ![g].pc = pc]
           \/ exchange' = [exchange EXCEPT ![g] = [of |-> a, pc |-> pc]],
           UNCHANGED dispatch
    PROVE  ThreadTypes'
<1> DEFINE Of == {NoCall} \union Calls
<1>1. exchange \in [Generations -> [of : Of, pc : ExchangeStates]] /\ a \in Of
  BY DEF ThreadTypes
<1> HIDE DEF Of
<1>2. ASSUME exchange' = [exchange EXCEPT ![g].pc = pc]
     PROVE  exchange' \in [Generations -> [of : Of, pc : ExchangeStates]]
  BY <1>1, <1>2, ThreadTable
<1>3. ASSUME exchange' = [exchange EXCEPT ![g] = [of |-> a, pc |-> pc]]
     PROVE  exchange' \in [Generations -> [of : Of, pc : ExchangeStates]]
  BY <1>1, <1>3, ThreadTable
<1>4. exchange' \in [Generations -> [of : Of, pc : ExchangeStates]]
  BY <1>2, <1>3
<1> QED BY <1>4 DEF ThreadTypes, Of

\* A thread that calls tools goes on or leaves.
LEMMA DispatchType ==
    ASSUME ThreadTypes, NEW g \in Generations, NEW a \in {NoCall} \union Calls, NEW pc \in DispatchStates,
           GoesTo(g, pc) \/ dispatch' = [dispatch EXCEPT ![g] = [of |-> a, pc |-> pc]],
           UNCHANGED exchange
    PROVE  ThreadTypes'
<1> DEFINE Of == {NoCall} \union Calls
<1>1. dispatch \in [Generations -> [of : Of, pc : DispatchStates]] /\ a \in Of
  BY DEF ThreadTypes
<1> HIDE DEF Of
<1>2. ASSUME GoesTo(g, pc)
     PROVE  dispatch' \in [Generations -> [of : Of, pc : DispatchStates]]
  BY <1>1, <1>2, ThreadTable DEF GoesTo
<1>3. ASSUME dispatch' = [dispatch EXCEPT ![g] = [of |-> a, pc |-> pc]]
     PROVE  dispatch' \in [Generations -> [of : Of, pc : DispatchStates]]
  BY <1>1, <1>3, ThreadTable
<1>4. dispatch' \in [Generations -> [of : Of, pc : DispatchStates]]
  BY <1>2, <1>3
<1> QED BY <1>4 DEF ThreadTypes, Of

\* Every step keeps the threads well typed.
LEMMA ThreadTypesStep ==
    ASSUME ThreadTypes, [WorkerNext]_workerVars PROVE ThreadTypes'
<1>1. CASE UNCHANGED <<exchange, dispatch>>
  BY <1>1 DEF ThreadTypes
<1>2. ASSUME NEW g \in Generations,
         Begin(g) \/ Launch(g) \/ Exit(g) \/ Drain(g) \/ SeeExit(g) \/
         TerminationRefused(g) \/ RetireByHand(g)
     PROVE  ThreadTypes'
  BY <1>1, <1>2 DEF Begin, Launch, Exit, Drain, SeeExit, TerminationRefused, RetireByHand
<1>3. ASSUME NEW g \in Generations, NEW outcome \in {"failed", "cancelled"},
         Terminate(g, outcome)
     PROVE  ThreadTypes'
  BY <1>1, <1>3 DEF Terminate
<1>4. ASSUME NEW w \in {Backend} \union Generations, NEW a \in Calls,
         ReserveCall(w, a) \/ StartCall(w, a)
     PROVE  ThreadTypes'
  BY <1>1, <1>4 DEF ReserveCall, StartCall
<1>5. ASSUME NEW g \in Generations, NEW a \in Calls,
         FinishCall(g, a) \/ CommitTurn(g, a) \/ CompleteTask(g, a)
     PROVE  ThreadTypes'
  BY <1>1, <1>5 DEF FinishCall, CommitTurn, CompleteTask
<1>6. ASSUME NEW g \in Generations, SendToProvider(g) \/ InterruptModel(g) \/ LoseAnswer(g)
     PROVE  ThreadTypes'
  BY <1>6, ExchangeType DEF SendToProvider, InterruptModel, LoseAnswer, NoThread, ExchangeStates
<1>7. ASSUME NEW g \in Generations, NEW reply \in Replies, RecordAnswer(g, reply)
     PROVE  ThreadTypes'
  BY <1>7, ExchangeType DEF RecordAnswer, NoThread, ExchangeStates
<1>8. ASSUME NEW g \in Generations, NEW a \in Calls, ClaimModel(g, a)
     PROVE  ThreadTypes'
  BY <1>8, ExchangeType DEF ClaimModel, ExchangeStates
<1>9. ASSUME NEW g \in Generations, NEW a \in Calls, ClaimTool(g, a)
     PROVE  ThreadTypes'
  BY <1>9, DispatchType DEF ClaimTool, DispatchStates
<1>10. ASSUME NEW g \in Generations, NEW a \in Calls, StartTool(g, a)
     PROVE  ThreadTypes'
  BY <1>10, DispatchType DEF StartTool, DispatchStates
<1>11. ASSUME NEW g \in Generations, NEW a \in Calls,
         RefuseStart(g, a) \/ SaveResult(g, a) \/ LoseResult(g, a)
     PROVE  ThreadTypes'
  BY <1>11, DispatchType DEF RefuseStart, SaveResult, LoseResult, Leaves, NoThread, DispatchStates
<1>12. ASSUME NEW g \in Generations, NEW a \in Calls,
         FinishRead(g, a) \/ AskForEdit(g, a) \/ RejectEdit(g, a) \/ GrantEdit(g, a) \/
         RefuseEdit(g, a) \/ BindEffect(g, a) \/ WriteFile(g, a) \/ FinishEdit(g, a)
     PROVE  ThreadTypes'
  BY <1>12, DispatchType DEF FinishRead, AskForEdit, RejectEdit, GrantEdit, RefuseEdit, BindEffect,
       WriteFile, FinishEdit, DispatchStates
<1>13. ASSUME NEW g \in Generations, NEW a \in Calls, NEW outcome \in {"uncertain", "executing"},
         GiveUpEdit(g, a, outcome)
     PROVE  ThreadTypes'
  BY <1>13, DispatchType DEF GiveUpEdit, Leaves, NoThread, DispatchStates
<1>14. CASE Restart
  BY <1>14 DEF Restart, ThreadTypes, NoThread, ExchangeStates, DispatchStates
<1> QED
  BY <1>1, <1>2, <1>3, <1>4, <1>5, <1>6, <1>7, <1>8, <1>9, <1>10, <1>11, <1>12,
       <1>13, <1>14
  DEF WorkerNext, ProcessStep, BackendPays, ModelThread, ToolThread, Supervisor, workerVars

\* Retirement and recovery rewrite the ledger row by row.
LEMMA RetiredType ==
    ASSUME LedgerTypes, NEW g \in Generations, Retired(g)
    PROVE  claim' \in [Calls -> [state : {"none", "dispatching", "responded", "uncertain"},
                            by : {Backend} \union Generations, reply : Replies]]
  BY DEF LedgerTypes, Retired

\* Interrupted calls are calls.
LEMMA InterruptedType ==
    ASSUME LedgerTypes
    PROVE  CallsInterrupted \in [Calls -> [state : {"none", "reserved", "started", "finished", "interrupted"},
                           by : {Backend} \union Generations, leases : 0..MaxLeases]]
  BY DEF LedgerTypes, CallsInterrupted

\* An answer, or the lack of one, keeps the claims well typed.
LEMMA ClaimRow ==
    ASSUME LedgerTypes, NEW a \in Calls, NEW reply \in Replies
    PROVE  /\ [claim EXCEPT ![a].state = "responded", ![a].reply = reply] \in
                [Calls -> [state : {"none", "dispatching", "responded", "uncertain"},
                            by : {Backend} \union Generations, reply : Replies]]
           /\ [claim EXCEPT ![a].state = "uncertain"] \in
                [Calls -> [state : {"none", "dispatching", "responded", "uncertain"},
                            by : {Backend} \union Generations, reply : Replies]]
<1> DEFINE States == {"none", "dispatching", "responded", "uncertain"}
           Owners == {Backend} \union Generations
<1>1. claim \in [Calls -> [state : States, by : Owners, reply : Replies]]
  BY DEF LedgerTypes
<1>2. "responded" \in States /\ "uncertain" \in States
  OBVIOUS
<1> HIDE DEF States, Owners
<1>3. [claim EXCEPT ![a].state = "uncertain"] \in [Calls -> [state : States, by : Owners, reply : Replies]]
  BY <1>1, <1>2, ClaimTable
<1>4. [claim EXCEPT ![a].state = "responded", ![a].reply = reply] \in
        [Calls -> [state : States, by : Owners, reply : Replies]]
  <2> DEFINE next == [claim[a] EXCEPT !.state = "responded", !.reply = reply]
  <2>1. next \in [state : States, by : Owners, reply : Replies]
    BY <1>1, <1>2
  <2>2. [claim EXCEPT ![a].state = "responded", ![a].reply = reply] = [claim EXCEPT ![a] = next]
    BY <1>1, Zenon
  <2> HIDE DEF next
  <2> QED BY <1>1, <2>1, <2>2
<1> QED BY <1>3, <1>4 DEF States, Owners

\* Every step keeps reservations and claims well typed.
LEMMA LedgerTypesStep ==
    ASSUME WorkerTypeOK, ThreadsOwnClaims, [WorkerNext]_workerVars PROVE LedgerTypes'
<1>1. CASE UNCHANGED <<call, claim>>
  BY <1>1 DEF LedgerTypes, WorkerTypeOK
<1>2. ASSUME NEW g \in Generations,
         Begin(g) \/ SendToProvider(g) \/ LoseAnswer(g) \/ Launch(g) \/ Exit(g) \/
         Drain(g) \/ SeeExit(g) \/ TerminationRefused(g)
     PROVE  LedgerTypes'
  BY <1>1, <1>2 DEF Begin, SendToProvider, LoseAnswer, Launch, Exit, Drain, SeeExit,
       TerminationRefused
<1>3. ASSUME NEW g \in Generations, NEW a \in Calls,
         CommitTurn(g, a) \/ ClaimTool(g, a) \/ StartTool(g, a) \/ RefuseStart(g, a) \/
         FinishRead(g, a) \/ AskForEdit(g, a) \/ RejectEdit(g, a) \/ GrantEdit(g, a)
     PROVE  LedgerTypes'
  BY <1>1, <1>3 DEF CommitTurn, ClaimTool, StartTool, RefuseStart, FinishRead, AskForEdit,
       RejectEdit, GrantEdit
<1>4. ASSUME NEW g \in Generations, NEW a \in Calls,
         RefuseEdit(g, a) \/ BindEffect(g, a) \/ WriteFile(g, a) \/ FinishEdit(g, a) \/
         SaveResult(g, a) \/ LoseResult(g, a)
     PROVE  LedgerTypes'
  BY <1>1, <1>4 DEF RefuseEdit, BindEffect, WriteFile, FinishEdit, SaveResult, LoseResult
<1>5. ASSUME NEW g \in Generations, NEW a \in Calls, NEW outcome \in {"uncertain", "executing"},
         GiveUpEdit(g, a, outcome)
     PROVE  LedgerTypes'
  BY <1>1, <1>5 DEF GiveUpEdit
<1>6. ASSUME NEW w \in {Backend} \union Generations, NEW a \in Calls, ReserveCall(w, a)
     PROVE  LedgerTypes'
  <2> DEFINE row == [state |-> "reserved", by |-> w, leases |-> Cardinality(Leased)]
  <2>1. row \in [state : {"none", "reserved", "started", "finished", "interrupted"},
                by : {Backend} \union Generations, leases : 0..MaxLeases]
    BY LeaseCount
  <2>2. call' = [call EXCEPT ![a] = row] /\ UNCHANGED claim
    BY <1>6 DEF ReserveCall
  <2> HIDE DEF row
  <2> QED BY <2>1, <2>2, TypeParts DEF LedgerTypes
<1>7. ASSUME NEW w \in {Backend} \union Generations, NEW a \in Calls, StartCall(w, a)
     PROVE  LedgerTypes'
  BY <1>7, CallTable, TypeParts DEF StartCall, LedgerTypes
<1>8. ASSUME NEW g \in Generations, NEW a \in Calls, FinishCall(g, a)
     PROVE  LedgerTypes'
  BY <1>8, CallTable, TypeParts DEF FinishCall, LedgerTypes
<1>9. ASSUME NEW g \in Generations, NEW a \in Calls, CompleteTask(g, a)
     PROVE  LedgerTypes'
  BY <1>9, RetiredType, TypeParts DEF CompleteTask, LedgerTypes
<1>10. ASSUME NEW g \in Generations, RetireByHand(g)
     PROVE  LedgerTypes'
  BY <1>10, RetiredType, TypeParts DEF RetireByHand, LedgerTypes
<1>11. ASSUME NEW g \in Generations, NEW outcome \in {"failed", "cancelled"},
         Terminate(g, outcome)
     PROVE  LedgerTypes'
  BY <1>11, RetiredType, InterruptedType, TypeParts DEF Terminate, LedgerTypes
<1>12. ASSUME NEW g \in Generations, NEW a \in Calls, ClaimModel(g, a)
     PROVE  LedgerTypes'
  BY <1>12, TypeParts DEF ClaimModel, LedgerTypes, Replies
<1>13. ASSUME NEW g \in Generations, NEW reply \in Replies, RecordAnswer(g, reply)
     PROVE  LedgerTypes'
  <2>1. exchange[g].of \in Calls
    BY <1>13 DEF RecordAnswer, ThreadsOwnClaims, ModelThreadsOwnClaims
  <2>2. /\ claim' = [claim EXCEPT ![exchange[g].of].state = "responded", ![exchange[g].of].reply = reply]
        /\ UNCHANGED call
    BY <1>13 DEF RecordAnswer
  <2> QED BY <2>1, <2>2, ClaimRow, TypeParts DEF LedgerTypes
<1>14. ASSUME NEW g \in Generations, InterruptModel(g)
     PROVE  LedgerTypes'
  <2>1. exchange[g].of \in Calls
    BY <1>14 DEF InterruptModel, ThreadsOwnClaims, ModelThreadsOwnClaims
  <2>2. claim' = [claim EXCEPT ![exchange[g].of].state = "uncertain"] /\ UNCHANGED call
    BY <1>14 DEF InterruptModel
  <2> QED BY <2>1, <2>2, ClaimRow, TypeParts DEF LedgerTypes
<1>15. CASE Restart
  <2>1. UNCHANGED claim \/ \E g \in Generations : Retired(g)
    BY <1>15 DEF Restart
  <2>2. call' = CallsInterrupted
    BY <1>15 DEF Restart
  <2> QED BY <2>1, <2>2, RetiredType, InterruptedType, TypeParts DEF LedgerTypes
<1> QED
  BY <1>1, <1>2, <1>3, <1>4, <1>5, <1>6, <1>7, <1>8, <1>9, <1>10, <1>11, <1>12,
       <1>13, <1>14, <1>15
  DEF WorkerNext, ProcessStep, BackendPays, ModelThread, ToolThread, Supervisor, workerVars

\* Every step keeps the rest well typed.
LEMMA FactTypesStep ==
    ASSUME WorkerTypeOK, ThreadsOwnClaims, [WorkerNext]_workerVars PROVE FactTypes'
<1>1. CASE UNCHANGED <<task, lease, tool, effect, bound, turns, alive, watch, sends, writes>>
  BY <1>1 DEF FactTypes, WorkerTypeOK
<1>2. ASSUME NEW g \in Generations,
         InterruptModel(g) \/ LoseAnswer(g)
     PROVE  FactTypes'
  BY <1>1, <1>2 DEF InterruptModel, LoseAnswer
<1>3. ASSUME NEW g \in Generations, NEW reply \in Replies,
         RecordAnswer(g, reply)
     PROVE  FactTypes'
  BY <1>1, <1>3 DEF RecordAnswer
<1>4. ASSUME NEW w \in {Backend} \union Generations, NEW a \in Calls,
         ReserveCall(w, a) \/ StartCall(w, a)
     PROVE  FactTypes'
  BY <1>1, <1>4 DEF ReserveCall, StartCall
<1>5. ASSUME NEW g \in Generations, NEW a \in Calls,
         FinishCall(g, a) \/ ClaimModel(g, a) \/ RefuseStart(g, a) \/ FinishRead(g, a) \/
         RejectEdit(g, a) \/ LoseResult(g, a)
     PROVE  FactTypes'
  BY <1>1, <1>5 DEF FinishCall, ClaimModel, RefuseStart, FinishRead, RejectEdit, LoseResult
<1>6. ASSUME NEW g \in Generations, Begin(g) \/ Launch(g) \/ Exit(g)
     PROVE  FactTypes'
  BY <1>6, TypeParts DEF Begin, Launch, Exit, FactTypes
<1>7. ASSUME NEW g \in Generations, Drain(g) \/ SeeExit(g) \/ TerminationRefused(g)
     PROVE  FactTypes'
  BY <1>7, TypeParts DEF Drain, SeeExit, TerminationRefused, FactTypes
<1>8. ASSUME NEW g \in Generations, SendToProvider(g)
     PROVE  FactTypes'
  <2>1. exchange[g].of \in Calls
    BY <1>8 DEF SendToProvider, ThreadsOwnClaims, ModelThreadsOwnClaims
  <2> QED BY <1>8, <2>1, TypeParts DEF SendToProvider, FactTypes
<1>9. ASSUME NEW g \in Generations, RetireByHand(g)
     PROVE  FactTypes'
  BY <1>9, TypeParts DEF RetireByHand, Retired, FactTypes
<1>10. ASSUME NEW g \in Generations, NEW outcome \in {"failed", "cancelled"},
         Terminate(g, outcome)
     PROVE  FactTypes'
  BY <1>10, TypeParts DEF Terminate, Retired, ProposalsWithdrawn, FactTypes, Ended
<1>11. ASSUME NEW g \in Generations, NEW a \in Calls, CompleteTask(g, a)
     PROVE  FactTypes'
  BY <1>11, TypeParts DEF CompleteTask, Retired, FactTypes, Ended
<1>12. ASSUME NEW g \in Generations, NEW a \in Calls,
         CommitTurn(g, a) \/ ClaimTool(g, a) \/ StartTool(g, a) \/ SaveResult(g, a)
     PROVE  FactTypes'
  BY <1>12, TypeParts DEF CommitTurn, ClaimTool, StartTool, SaveResult, FactTypes
<1>13. ASSUME NEW g \in Generations, NEW a \in Calls,
         AskForEdit(g, a) \/ GrantEdit(g, a) \/ RefuseEdit(g, a) \/ FinishEdit(g, a)
     PROVE  FactTypes'
  BY <1>13, TypeParts DEF AskForEdit, GrantEdit, RefuseEdit, FinishEdit, FactTypes
<1>14. ASSUME NEW g \in Generations, NEW a \in Calls, BindEffect(g, a) \/ WriteFile(g, a)
     PROVE  FactTypes'
  BY <1>14, TypeParts DEF BindEffect, WriteFile, FactTypes
<1>15. ASSUME NEW g \in Generations, NEW a \in Calls, NEW outcome \in {"uncertain", "executing"},
         GiveUpEdit(g, a, outcome)
     PROVE  FactTypes'
  BY <1>15, TypeParts DEF GiveUpEdit, FactTypes
<1>16. CASE Restart
  <2>1. UNCHANGED <<lease, claim, tool>> \/ \E g \in Generations : Retired(g)
    BY <1>16 DEF Restart
  <2>2. lease' \in [Generations -> {"none", "active", "retired"}]
        /\ tool' \in [Calls -> {"none", "awaiting", "executing", "returned", "uncertain"}]
    BY <2>1, TypeParts DEF Retired, FactTypes
  <2>3. effect' \in [Calls -> {"none", "awaiting", "executing", "succeeded", "failed",
                              "uncertain", "refused"}]
    BY <1>16, TypeParts DEF Restart, ProposalsWithdrawn, FactTypes
  <2>4. /\ task' \in {"queued", "running"} \union Ended /\ alive' \subseteq Generations
        /\ watch' \in [Generations -> {"none", "serving", "draining", "closed", "done",
                                      "faulted", "lost"}]
    BY <1>16, TypeParts DEF Restart, FactTypes, Ended
  <2>5. UNCHANGED <<bound, turns, sends, writes>>
    BY <1>16 DEF Restart
  <2> QED BY <2>2, <2>3, <2>4, <2>5, TypeParts DEF FactTypes
<1> QED
  BY <1>1, <1>2, <1>3, <1>4, <1>5, <1>6, <1>7, <1>8, <1>9, <1>10, <1>11, <1>12,
       <1>13, <1>14, <1>15, <1>16
  DEF WorkerNext, ProcessStep, BackendPays, ModelThread, ToolThread, Supervisor, workerVars

\* Retirement and recovery leave who claimed what alone, and every answer.
LEMMA RetiredClaims ==
    ASSUME WorkerTypeOK, NEW a \in Calls, UNCHANGED <<claim, tool>> \/ \E g \in Generations : Retired(g)
    PROVE  /\ claim'[a].by = claim[a].by /\ claim'[a].reply = claim[a].reply
           /\ claim'[a].state = "none" <=> claim[a].state = "none"
           /\ claim'[a].state = "responded" <=> claim[a].state = "responded"
           /\ tool'[a] = "none" <=> tool[a] = "none"
<1>1. CASE UNCHANGED <<claim, tool>>
  BY <1>1
<1>2. ASSUME NEW g \in Generations, Retired(g)
     PROVE  claim'[a] = IF claim[a].by = g /\ claim[a].state = "dispatching"
                          THEN [claim[a] EXCEPT !.state = "uncertain"] ELSE claim[a]
  BY <1>2 DEF Retired
<1>3. claim[a] \in [state : {"none", "dispatching", "responded", "uncertain"},
                   by : {Backend} \union Generations, reply : Replies]
  BY DEF WorkerTypeOK
<1>4. tool'[a] = "none" <=> tool[a] = "none"
  <2>1. ASSUME NEW g \in Generations, Retired(g)
       PROVE  tool'[a] = IF claim[a].by = g /\ tool[a] \in {"awaiting", "executing"}
                           THEN "uncertain" ELSE tool[a]
    BY <2>1 DEF Retired
  <2> QED BY <1>1, <2>1
<1> QED BY <1>1, <1>2, <1>3, <1>4

\* Every step keeps the threads that call the model at claims of their own.
LEMMA ModelThreadsStep ==
    ASSUME WorkerTypeOK, ModelThreadsOwnClaims, UnclaimedIsUntouched,
           [WorkerNext]_workerVars
    PROVE  ModelThreadsOwnClaims'
<1>1. CASE UNCHANGED <<exchange, claim, sends>>
  BY <1>1 DEF ModelThreadsOwnClaims
<1>2. ASSUME NEW g \in Generations,
         Begin(g) \/ Launch(g) \/ Exit(g) \/ Drain(g) \/ SeeExit(g) \/
         TerminationRefused(g)
     PROVE  ModelThreadsOwnClaims'
  BY <1>1, <1>2 DEF Begin, Launch, Exit, Drain, SeeExit, TerminationRefused
<1>3. ASSUME NEW w \in {Backend} \union Generations, NEW a \in Calls,
         ReserveCall(w, a) \/ StartCall(w, a)
     PROVE  ModelThreadsOwnClaims'
  BY <1>1, <1>3 DEF ReserveCall, StartCall
<1>4. ASSUME NEW g \in Generations, NEW a \in Calls,
         FinishCall(g, a) \/ CommitTurn(g, a) \/ ClaimTool(g, a) \/ StartTool(g, a) \/
         RefuseStart(g, a) \/ FinishRead(g, a) \/ AskForEdit(g, a) \/ RejectEdit(g, a)
     PROVE  ModelThreadsOwnClaims'
  BY <1>1, <1>4 DEF FinishCall, CommitTurn, ClaimTool, StartTool, RefuseStart, FinishRead,
       AskForEdit, RejectEdit
<1>5. ASSUME NEW g \in Generations, NEW a \in Calls,
         GrantEdit(g, a) \/ RefuseEdit(g, a) \/ BindEffect(g, a) \/ WriteFile(g, a) \/
         FinishEdit(g, a) \/ SaveResult(g, a) \/ LoseResult(g, a)
     PROVE  ModelThreadsOwnClaims'
  BY <1>1, <1>5 DEF GrantEdit, RefuseEdit, BindEffect, WriteFile, FinishEdit, SaveResult, LoseResult
<1>6. ASSUME NEW g \in Generations, NEW a \in Calls, NEW outcome \in {"uncertain", "executing"},
         GiveUpEdit(g, a, outcome)
     PROVE  ModelThreadsOwnClaims'
  BY <1>1, <1>6 DEF GiveUpEdit
<1>7. ASSUME NEW g \in Generations, NEW a \in Calls, CompleteTask(g, a)
     PROVE  ModelThreadsOwnClaims'
  BY <1>7, RetiredClaims DEF CompleteTask, ModelThreadsOwnClaims
<1>8. ASSUME NEW g \in Generations, NEW outcome \in {"failed", "cancelled"},
         Terminate(g, outcome)
     PROVE  ModelThreadsOwnClaims'
  BY <1>8, RetiredClaims DEF Terminate, ModelThreadsOwnClaims
<1>9. ASSUME NEW g \in Generations, RetireByHand(g)
     PROVE  ModelThreadsOwnClaims'
  BY <1>9, RetiredClaims DEF RetireByHand, ModelThreadsOwnClaims
<1>10. ASSUME NEW g \in Generations, NEW a \in Calls, ClaimModel(g, a)
     PROVE  ModelThreadsOwnClaims'
  <2>1. /\ claim[a].state = "none" /\ sends' = sends /\ sends[a] = 0
        /\ claim' = [claim EXCEPT ![a] = [state |-> "dispatching", by |-> g, reply |-> "stop"]]
        /\ exchange' = [exchange EXCEPT ![g] = [of |-> a, pc |-> "claimed"]]
    BY <1>10 DEF ClaimModel, Unclaimed, UnclaimedIsUntouched
  <2>2. ASSUME NEW h \in Generations, h # g
       PROVE  exchange'[h] = exchange[h]
    BY <2>1, <2>2 DEF WorkerTypeOK
  <2>3. exchange'[g] = [of |-> a, pc |-> "claimed"]
    BY <2>1 DEF WorkerTypeOK
  <2>4. claim'[a].by = g /\ claim'[a].state = "dispatching" /\ \A b \in Calls : b # a => claim'[b] = claim[b]
    BY <2>1 DEF WorkerTypeOK
  <2> QED BY <2>1, <2>2, <2>3, <2>4 DEF ModelThreadsOwnClaims
<1>11. ASSUME NEW g \in Generations, SendToProvider(g)
     PROVE  ModelThreadsOwnClaims'
  <2> DEFINE b == exchange[g].of
  <2>1. b \in Calls /\ claim[b].by = g
    BY <1>11 DEF SendToProvider, ModelThreadsOwnClaims
  <2>2. /\ sends' = [sends EXCEPT ![b] = @ + 1] /\ exchange' = [exchange EXCEPT ![g].pc = "sent"]
        /\ UNCHANGED claim
    BY <1>11 DEF SendToProvider
  <2>3. exchange'[g].pc = "sent" /\ exchange'[g].of = b /\ \A h \in Generations : h # g => exchange'[h] = exchange[h]
    BY <2>2 DEF WorkerTypeOK
  <2>4. \A c \in Calls : c # b => sends'[c] = sends[c]
    BY <2>2 DEF WorkerTypeOK
  <2>5. exchange[g].pc # "idle"
    BY <1>11 DEF SendToProvider
  <2> HIDE DEF b
  <2> QED BY <2>1, <2>2, <2>3, <2>4, <2>5 DEF ModelThreadsOwnClaims, b
<1>12. ASSUME NEW g \in Generations, InterruptModel(g) \/ LoseAnswer(g)
     PROVE  ModelThreadsOwnClaims'
  <2>1. /\ exchange'[g].pc = "idle" /\ \A h \in Generations : h # g => exchange'[h] = exchange[h]
        /\ UNCHANGED sends
    BY <1>12 DEF InterruptModel, LoseAnswer, WorkerTypeOK, NoThread
  <2>2. \A b \in Calls : claim'[b].by = claim[b].by /\ (claim[b].state # "none" => claim'[b].state # "none")
    <3>1. CASE LoseAnswer(g)
      BY <3>1 DEF LoseAnswer
    <3>2. CASE InterruptModel(g)
      BY <3>2 DEF InterruptModel, WorkerTypeOK
    <3> QED BY <1>12, <3>1, <3>2
  <2> QED BY <2>1, <2>2 DEF ModelThreadsOwnClaims
<1>13. ASSUME NEW g \in Generations, NEW reply \in Replies, RecordAnswer(g, reply)
     PROVE  ModelThreadsOwnClaims'
  <2>1. /\ exchange'[g].pc = "idle" /\ \A h \in Generations : h # g => exchange'[h] = exchange[h]
        /\ UNCHANGED sends
    BY <1>13 DEF RecordAnswer, WorkerTypeOK, NoThread
  <2>2. \A b \in Calls : claim'[b].by = claim[b].by /\ (claim[b].state # "none" => claim'[b].state # "none")
    BY <1>13 DEF RecordAnswer, WorkerTypeOK
  <2> QED BY <2>1, <2>2 DEF ModelThreadsOwnClaims
<1>14. CASE Restart
  BY <1>14 DEF Restart, ModelThreadsOwnClaims, NoThread
<1> QED
  BY <1>1, <1>2, <1>3, <1>4, <1>5, <1>6, <1>7, <1>8, <1>9, <1>10, <1>11, <1>12,
       <1>13, <1>14
  DEF WorkerNext, ProcessStep, BackendPays, ModelThread, ToolThread, Supervisor, workerVars

\* A step of a thread that calls a tool.
LEMMA ToolThreadMoves ==
    ASSUME WorkerTypeOK, ToolThreadsOwnClaims, NEW g \in Generations, NEW a \in Calls,
           dispatch[g].of = a, dispatch[g].pc # "idle", NEW pc \in DispatchStates,
           GoesTo(g, pc) \/ (pc = "idle" /\ Leaves(g)),
           UNCHANGED claim,
           \A b \in Calls : tool[b] # "none" => tool'[b] # "none",
           \A b \in Calls : b # a => writes'[b] = writes[b],
           pc \in {"idle", "written", "saving"} \/ (dispatch[g].pc \notin {"written", "saving"}
                                                      /\ UNCHANGED writes)
    PROVE  ToolThreadsOwnClaims'
<1>1. \A h \in Generations : h # g => dispatch'[h] = dispatch[h]
  BY DEF GoesTo, Leaves, WorkerTypeOK
<1>2. dispatch'[g].pc = pc /\ (pc # "idle" => dispatch'[g].of = a)
  BY DEF GoesTo, Leaves, NoThread, WorkerTypeOK
<1>3. claim[a].by = g
  BY DEF ToolThreadsOwnClaims
<1> QED BY <1>1, <1>2, <1>3 DEF ToolThreadsOwnClaims, Responded

\* Every step keeps the threads that call tools at claims of their own.
LEMMA ToolThreadsStep ==
    ASSUME WorkerTypeOK, ModelThreadsOwnClaims, ToolThreadsOwnClaims, UnclaimedIsUntouched,
           [WorkerNext]_workerVars
    PROVE  ToolThreadsOwnClaims'
<1>1. CASE UNCHANGED <<dispatch, claim, tool, writes>>
  BY <1>1 DEF ToolThreadsOwnClaims, Responded
<1>2. ASSUME NEW g \in Generations,
         Begin(g) \/ SendToProvider(g) \/ LoseAnswer(g) \/ Launch(g) \/ Exit(g) \/
         Drain(g) \/ SeeExit(g) \/ TerminationRefused(g)
     PROVE  ToolThreadsOwnClaims'
  BY <1>1, <1>2 DEF Begin, SendToProvider, LoseAnswer, Launch, Exit, Drain, SeeExit,
       TerminationRefused
<1>3. ASSUME NEW w \in {Backend} \union Generations, NEW a \in Calls,
         ReserveCall(w, a) \/ StartCall(w, a)
     PROVE  ToolThreadsOwnClaims'
  BY <1>1, <1>3 DEF ReserveCall, StartCall
<1>4. ASSUME NEW g \in Generations, NEW a \in Calls,
         FinishCall(g, a) \/ CommitTurn(g, a)
     PROVE  ToolThreadsOwnClaims'
  BY <1>1, <1>4 DEF FinishCall, CommitTurn
<1>5. ASSUME NEW g \in Generations, NEW a \in Calls, CompleteTask(g, a)
     PROVE  ToolThreadsOwnClaims'
  BY <1>5, RetiredClaims DEF CompleteTask, ToolThreadsOwnClaims, Responded
<1>6. ASSUME NEW g \in Generations, NEW outcome \in {"failed", "cancelled"},
         Terminate(g, outcome)
     PROVE  ToolThreadsOwnClaims'
  BY <1>6, RetiredClaims DEF Terminate, ToolThreadsOwnClaims, Responded
<1>7. ASSUME NEW g \in Generations, RetireByHand(g)
     PROVE  ToolThreadsOwnClaims'
  BY <1>7, RetiredClaims DEF RetireByHand, ToolThreadsOwnClaims, Responded
<1>8. ASSUME NEW g \in Generations, NEW a \in Calls, ClaimModel(g, a)
     PROVE  ToolThreadsOwnClaims'
  BY <1>8 DEF ClaimModel, Unclaimed, ToolThreadsOwnClaims, Responded, WorkerTypeOK
<1>9. ASSUME NEW g \in Generations, NEW reply \in Replies, RecordAnswer(g, reply)
     PROVE  ToolThreadsOwnClaims'
  BY <1>9 DEF RecordAnswer, ToolThreadsOwnClaims, Responded, WorkerTypeOK
<1>10. ASSUME NEW g \in Generations, InterruptModel(g)
     PROVE  ToolThreadsOwnClaims'
  BY <1>10 DEF InterruptModel, ToolThreadsOwnClaims, Responded, WorkerTypeOK
<1>11. ASSUME NEW g \in Generations, NEW a \in Calls, ClaimTool(g, a)
     PROVE  ToolThreadsOwnClaims'
  <2>1. /\ tool[a] = "none" /\ claim[a].by = g /\ Responded(a) /\ UNCHANGED <<claim, writes>>
        /\ writes[a] = 0
    BY <1>11 DEF ClaimTool, ToolAuthority, RespondedTo, UnclaimedIsUntouched
  <2>2. /\ dispatch'[g] = [of |-> a, pc |-> "claimed"]
        /\ \A h \in Generations : h # g => dispatch'[h] = dispatch[h]
        /\ tool'[a] = "awaiting" /\ \A b \in Calls : b # a => tool'[b] = tool[b]
    BY <1>11 DEF ClaimTool, WorkerTypeOK
  <2> QED BY <2>1, <2>2 DEF ToolThreadsOwnClaims, Responded
<1>12. ASSUME NEW g \in Generations, NEW a \in Calls, StartTool(g, a)
     PROVE  ToolThreadsOwnClaims'
  BY <1>12, ToolThreadMoves DEF StartTool, At, DispatchStates, WorkerTypeOK
<1>13. ASSUME NEW g \in Generations, NEW a \in Calls, RefuseStart(g, a)
     PROVE  ToolThreadsOwnClaims'
  BY <1>13, ToolThreadMoves DEF RefuseStart, At, DispatchStates
<1>14. ASSUME NEW g \in Generations, NEW a \in Calls,
         FinishRead(g, a) \/ AskForEdit(g, a) \/ RejectEdit(g, a) \/ GrantEdit(g, a) \/
         RefuseEdit(g, a) \/ BindEffect(g, a)
     PROVE  ToolThreadsOwnClaims'
  BY <1>14, ToolThreadMoves DEF FinishRead, AskForEdit, RejectEdit, GrantEdit, RefuseEdit, BindEffect,
       At, DispatchStates
<1>15. ASSUME NEW g \in Generations, NEW a \in Calls, WriteFile(g, a)
     PROVE  ToolThreadsOwnClaims'
  BY <1>15, ToolThreadMoves DEF WriteFile, At, DispatchStates, WorkerTypeOK
<1>16. ASSUME NEW g \in Generations, NEW a \in Calls, FinishEdit(g, a)
     PROVE  ToolThreadsOwnClaims'
  BY <1>16, ToolThreadMoves DEF FinishEdit, At, DispatchStates
<1>17. ASSUME NEW g \in Generations, NEW a \in Calls, NEW outcome \in {"uncertain", "executing"},
         GiveUpEdit(g, a, outcome)
     PROVE  ToolThreadsOwnClaims'
  BY <1>17, ToolThreadMoves DEF GiveUpEdit, At, DispatchStates
<1>18. ASSUME NEW g \in Generations, NEW a \in Calls, SaveResult(g, a)
     PROVE  ToolThreadsOwnClaims'
  BY <1>18, ToolThreadMoves DEF SaveResult, At, DispatchStates, WorkerTypeOK
<1>19. ASSUME NEW g \in Generations, NEW a \in Calls, LoseResult(g, a)
     PROVE  ToolThreadsOwnClaims'
  BY <1>19, ToolThreadMoves DEF LoseResult, At, DispatchStates
<1>20. CASE Restart
  BY <1>20 DEF Restart, ToolThreadsOwnClaims, NoThread
<1> QED
  BY <1>1, <1>2, <1>3, <1>4, <1>5, <1>6, <1>7, <1>8, <1>9, <1>10, <1>11, <1>12,
       <1>13, <1>14, <1>15, <1>16, <1>17, <1>18, <1>19, <1>20
  DEF WorkerNext, ProcessStep, BackendPays, ModelThread, ToolThread, Supervisor, workerVars

\* No step does again what a claim covers.
LEMMA ReplayStep ==
    ASSUME ReplayInv, [WorkerNext]_workerVars
    PROVE  UnclaimedIsUntouched' /\ NothingIsReplayed'
<1>1. CASE UNCHANGED <<claim, tool, sends, writes>>
  BY <1>1 DEF ReplayInv, UnclaimedIsUntouched, NothingIsReplayed
<1>2. ASSUME NEW g \in Generations,
         Begin(g) \/ LoseAnswer(g) \/ Launch(g) \/ Exit(g) \/ Drain(g) \/ SeeExit(g) \/
         TerminationRefused(g)
     PROVE  UnclaimedIsUntouched' /\ NothingIsReplayed'
  BY <1>1, <1>2 DEF Begin, LoseAnswer, Launch, Exit, Drain, SeeExit, TerminationRefused
<1>3. ASSUME NEW w \in {Backend} \union Generations, NEW a \in Calls,
         ReserveCall(w, a) \/ StartCall(w, a)
     PROVE  UnclaimedIsUntouched' /\ NothingIsReplayed'
  BY <1>1, <1>3 DEF ReserveCall, StartCall
<1>4. ASSUME NEW g \in Generations, NEW a \in Calls,
         FinishCall(g, a) \/ CommitTurn(g, a) \/ RefuseStart(g, a) \/ FinishRead(g, a) \/
         AskForEdit(g, a) \/ RejectEdit(g, a) \/ GrantEdit(g, a) \/ RefuseEdit(g, a)
     PROVE  UnclaimedIsUntouched' /\ NothingIsReplayed'
  BY <1>1, <1>4 DEF FinishCall, CommitTurn, RefuseStart, FinishRead, AskForEdit, RejectEdit,
       GrantEdit, RefuseEdit
<1>5. ASSUME NEW g \in Generations, NEW a \in Calls,
         BindEffect(g, a) \/ FinishEdit(g, a) \/ LoseResult(g, a)
     PROVE  UnclaimedIsUntouched' /\ NothingIsReplayed'
  BY <1>1, <1>5 DEF BindEffect, FinishEdit, LoseResult
<1>6. ASSUME NEW g \in Generations, NEW a \in Calls, NEW outcome \in {"uncertain", "executing"},
         GiveUpEdit(g, a, outcome)
     PROVE  UnclaimedIsUntouched' /\ NothingIsReplayed'
  BY <1>1, <1>6 DEF GiveUpEdit
<1>7. ASSUME NEW g \in Generations, NEW a \in Calls, CompleteTask(g, a)
     PROVE  UnclaimedIsUntouched' /\ NothingIsReplayed'
  BY <1>7, RetiredClaims DEF CompleteTask, ReplayInv, UnclaimedIsUntouched, NothingIsReplayed
<1>8. ASSUME NEW g \in Generations, NEW outcome \in {"failed", "cancelled"},
         Terminate(g, outcome)
     PROVE  UnclaimedIsUntouched' /\ NothingIsReplayed'
  BY <1>8, RetiredClaims DEF Terminate, ReplayInv, UnclaimedIsUntouched, NothingIsReplayed
<1>9. ASSUME NEW g \in Generations, RetireByHand(g)
     PROVE  UnclaimedIsUntouched' /\ NothingIsReplayed'
  BY <1>9, RetiredClaims DEF RetireByHand, ReplayInv, UnclaimedIsUntouched, NothingIsReplayed
<1>10. CASE Restart
  <2>1. UNCHANGED <<claim, tool>> \/ \E g \in Generations : Retired(g)
    BY <1>10 DEF Restart
  <2>2. UNCHANGED <<sends, writes>>
    BY <1>10 DEF Restart
  <2> QED BY <2>1, <2>2, RetiredClaims DEF ReplayInv, UnclaimedIsUntouched, NothingIsReplayed
<1>11. ASSUME NEW g \in Generations, NEW a \in Calls, ClaimModel(g, a)
     PROVE  UnclaimedIsUntouched' /\ NothingIsReplayed'
  BY <1>11 DEF ClaimModel, ReplayInv, WorkerTypeOK, UnclaimedIsUntouched, NothingIsReplayed
<1>12. ASSUME NEW g \in Generations, NEW reply \in Replies, RecordAnswer(g, reply)
     PROVE  UnclaimedIsUntouched' /\ NothingIsReplayed'
  BY <1>12 DEF RecordAnswer, ReplayInv, WorkerTypeOK, UnclaimedIsUntouched, NothingIsReplayed
<1>13. ASSUME NEW g \in Generations, InterruptModel(g)
     PROVE  UnclaimedIsUntouched' /\ NothingIsReplayed'
  BY <1>13 DEF InterruptModel, ReplayInv, WorkerTypeOK, UnclaimedIsUntouched, NothingIsReplayed
<1>14. ASSUME NEW g \in Generations, SendToProvider(g)
     PROVE  UnclaimedIsUntouched' /\ NothingIsReplayed'
  <2> DEFINE b == exchange[g].of
  <2>1. b \in Calls /\ claim[b].state # "none" /\ sends[b] = 0
    BY <1>14 DEF SendToProvider, ReplayInv, ThreadsOwnClaims, ModelThreadsOwnClaims
  <2>2. sends' = [sends EXCEPT ![b] = @ + 1] /\ UNCHANGED <<claim, tool, writes>>
    BY <1>14 DEF SendToProvider
  <2> HIDE DEF b
  <2> QED BY <2>1, <2>2 DEF ReplayInv, WorkerTypeOK, UnclaimedIsUntouched, NothingIsReplayed
<1>15. ASSUME NEW g \in Generations, NEW a \in Calls,
         ClaimTool(g, a) \/ StartTool(g, a) \/ SaveResult(g, a)
     PROVE  UnclaimedIsUntouched' /\ NothingIsReplayed'
  BY <1>15 DEF ClaimTool, StartTool, SaveResult, ReplayInv, WorkerTypeOK, UnclaimedIsUntouched,
       NothingIsReplayed
<1>16. ASSUME NEW g \in Generations, NEW a \in Calls, WriteFile(g, a)
     PROVE  UnclaimedIsUntouched' /\ NothingIsReplayed'
  <2>1. tool[a] # "none" /\ writes[a] = 0
    BY <1>16 DEF WriteFile, At, ReplayInv, ThreadsOwnClaims, ToolThreadsOwnClaims
  <2> QED BY <1>16, <2>1 DEF WriteFile, ReplayInv, WorkerTypeOK, UnclaimedIsUntouched, NothingIsReplayed
<1> QED
  BY <1>1, <1>2, <1>3, <1>4, <1>5, <1>6, <1>7, <1>8, <1>9, <1>10, <1>11, <1>12,
       <1>13, <1>14, <1>15, <1>16
  DEF WorkerNext, ProcessStep, BackendPays, ModelThread, ToolThread, Supervisor, workerVars

\* The parts of the invariant together.
LEMMA ReplayInvStep ==
    ASSUME ReplayInv, [WorkerNext]_workerVars PROVE ReplayInv'
<1>1. WorkerTypeOK /\ ModelThreadsOwnClaims /\ ToolThreadsOwnClaims /\ UnclaimedIsUntouched
  BY DEF ReplayInv, ThreadsOwnClaims
<1>2. WorkerTypeOK'
  BY <1>1, TypeParts, ThreadTypesStep, LedgerTypesStep, FactTypesStep DEF ThreadsOwnClaims, ReplayInv,
       WorkerTypeOK, ThreadTypes, LedgerTypes, FactTypes
<1>3. ThreadsOwnClaims'
  BY <1>1, ModelThreadsStep, ToolThreadsStep DEF ThreadsOwnClaims
<1> QED BY <1>2, <1>3, ReplayStep DEF ReplayInv

\* A root that was only queued satisfies it.
LEMMA ReplayInvInit ==
    WorkerInit => ReplayInv
<1> SUFFICES ASSUME WorkerInit PROVE ReplayInv
  OBVIOUS
<1>1. ThreadTypes
  BY DEF WorkerInit, ThreadTypes, NoThread, ExchangeStates, DispatchStates
<1>2. LedgerTypes
  BY WorkerAssumption DEF WorkerInit, LedgerTypes, Replies
<1>3. FactTypes
  BY DEF WorkerInit, FactTypes
<1>4. WorkerTypeOK
  BY <1>1, <1>2, <1>3, TypeParts
<1>5. ThreadsOwnClaims
  BY DEF WorkerInit, NoThread, ThreadsOwnClaims, ModelThreadsOwnClaims, ToolThreadsOwnClaims
<1>6. UnclaimedIsUntouched /\ NothingIsReplayed
  BY DEF WorkerInit, UnclaimedIsUntouched, NothingIsReplayed
<1> QED BY <1>4, <1>5, <1>6 DEF ReplayInv

\* The invariant holds in every behaviour.
THEOREM ReplayInvariant ==
    WorkerSpec => []ReplayInv
<1> QED BY ReplayInvInit, ReplayInvStep, PTL DEF WorkerSpec

\* Every variable keeps its type.
THEOREM WorkerTypeCorrect ==
    WorkerSpec => []WorkerTypeOK
<1>1. ReplayInv => WorkerTypeOK
  BY DEF ReplayInv
<1> QED BY <1>1, ReplayInvariant, PTL

\* However many processes and backends a root goes through, no model call reaches the
\* provider twice and no tool call writes its file twice.
THEOREM NothingIsEverReplayed ==
    WorkerSpec => []NothingIsReplayed
<1>1. ReplayInv => NothingIsReplayed
  BY DEF ReplayInv
<1> QED BY <1>1, ReplayInvariant, PTL

\* Retirement closes every claim under way of its own process and touches no other.
LEMMA RetiredRows ==
    ASSUME WorkerTypeOK, NEW g \in Generations, Retired(g)
    PROVE  /\ lease'[g] = "retired" /\ \A h \in Generations : h # g => lease'[h] = lease[h]
           /\ \A a \in Calls :
                /\ claim'[a].by = claim[a].by
                /\ claim[a].state # "dispatching" \/ claim[a].by # g => claim'[a] = claim[a]
                /\ tool[a] \notin {"awaiting", "executing"} \/ claim[a].by # g => tool'[a] = tool[a]
                /\ claim[a].by = g => /\ claim'[a].state # "dispatching"
                                      /\ tool'[a] \notin {"awaiting", "executing"}
<1>1. lease'[g] = "retired" /\ \A h \in Generations : h # g => lease'[h] = lease[h]
  BY DEF Retired, WorkerTypeOK
<1>2. ASSUME NEW a \in Calls
     PROVE  /\ claim'[a] = IF claim[a].by = g /\ claim[a].state = "dispatching"
                             THEN [claim[a] EXCEPT !.state = "uncertain"] ELSE claim[a]
            /\ tool'[a] = IF claim[a].by = g /\ tool[a] \in {"awaiting", "executing"}
                            THEN "uncertain" ELSE tool[a]
            /\ claim[a] \in [state : {"none", "dispatching", "responded", "uncertain"},
                             by : {Backend} \union Generations, reply : Replies]
  BY DEF Retired, WorkerTypeOK
<1>3. ASSUME NEW a \in Calls
     PROVE  claim'[a].by = claim[a].by
  BY <1>2
<1>4. ASSUME NEW a \in Calls, claim[a].by = g
     PROVE  claim'[a].state # "dispatching" /\ tool'[a] \notin {"awaiting", "executing"}
  BY <1>2, <1>4
<1> QED BY <1>1, <1>2, <1>3, <1>4

\* Every step keeps the leases in order.
LEMMA LeasesStep ==
    ASSUME WorkerTypeOK, ThreadsOwnClaims, LeasesInOrder, [WorkerNext]_workerVars
    PROVE  LeasesInOrder'
<1>1. CASE UNCHANGED <<lease, watch, claim, tool>>
  BY <1>1 DEF LeasesInOrder
<1>2. ASSUME NEW g \in Generations,
         Begin(g) \/ SendToProvider(g) \/ LoseAnswer(g) \/ Exit(g)
     PROVE  LeasesInOrder'
  BY <1>1, <1>2 DEF Begin, SendToProvider, LoseAnswer, Exit
<1>3. ASSUME NEW w \in {Backend} \union Generations, NEW a \in Calls,
         ReserveCall(w, a) \/ StartCall(w, a)
     PROVE  LeasesInOrder'
  BY <1>1, <1>3 DEF ReserveCall, StartCall
<1>4. ASSUME NEW g \in Generations, NEW a \in Calls,
         FinishCall(g, a) \/ CommitTurn(g, a) \/ RefuseStart(g, a) \/ FinishRead(g, a) \/
         AskForEdit(g, a) \/ RejectEdit(g, a) \/ GrantEdit(g, a) \/ RefuseEdit(g, a)
     PROVE  LeasesInOrder'
  BY <1>1, <1>4 DEF FinishCall, CommitTurn, RefuseStart, FinishRead, AskForEdit, RejectEdit,
       GrantEdit, RefuseEdit
<1>5. ASSUME NEW g \in Generations, NEW a \in Calls,
         BindEffect(g, a) \/ WriteFile(g, a) \/ FinishEdit(g, a) \/ LoseResult(g, a)
     PROVE  LeasesInOrder'
  BY <1>1, <1>5 DEF BindEffect, WriteFile, FinishEdit, LoseResult
<1>6. ASSUME NEW g \in Generations, NEW a \in Calls, NEW outcome \in {"uncertain", "executing"},
         GiveUpEdit(g, a, outcome)
     PROVE  LeasesInOrder'
  BY <1>1, <1>6 DEF GiveUpEdit
<1>7. ASSUME NEW g \in Generations, NEW a \in Calls, CompleteTask(g, a)
     PROVE  LeasesInOrder'
  <2>1. Retired(g) /\ lease[g] = "active" /\ UNCHANGED watch
    BY <1>7 DEF CompleteTask, CurrentScope
  <2> QED BY <2>1, RetiredRows DEF LeasesInOrder
<1>8. ASSUME NEW g \in Generations, RetireByHand(g)
     PROVE  LeasesInOrder'
  <2>1. Retired(g) /\ lease[g] = "active" /\ UNCHANGED watch
    BY <1>8 DEF RetireByHand
  <2> QED BY <2>1, RetiredRows DEF LeasesInOrder
<1>9. ASSUME NEW g \in Generations, NEW outcome \in {"failed", "cancelled"},
         Terminate(g, outcome)
     PROVE  LeasesInOrder'
  <2>1. /\ Retired(g) /\ lease[g] = "active"
        /\ \A h \in Generations : watch[h] # "none" => watch'[h] # "none"
    BY <1>9 DEF Terminate, QueuedScope, WorkerTypeOK
  <2> QED BY <2>1, RetiredRows DEF LeasesInOrder
<1>10. CASE Restart
  <2>1. \A h \in Generations : watch[h] # "none" => watch'[h] # "none"
    BY <1>10 DEF Restart, WorkerTypeOK
  <2>2. CASE UNCHANGED <<lease, claim, tool>>
    BY <2>1, <2>2 DEF LeasesInOrder
  <2>3. ASSUME NEW h \in Generations, lease[h] = "active", Retired(h)
       PROVE  LeasesInOrder'
    BY <2>1, <2>3, RetiredRows DEF LeasesInOrder
  <2> QED BY <1>10, <2>2, <2>3 DEF Restart
<1>11. ASSUME NEW g \in Generations, Launch(g)
     PROVE  LeasesInOrder'
  <2>1. /\ lease'[g] = "active" /\ watch'[g] = "serving" /\ UNCHANGED <<claim, tool>>
        /\ \A h \in Generations : lease[h] # "active"
        /\ \A h \in Generations : h # g => lease'[h] = lease[h] /\ watch'[h] = watch[h]
    BY <1>11 DEF Launch, WorkerTypeOK
  <2> QED BY <2>1 DEF LeasesInOrder
<1>12. ASSUME NEW g \in Generations, Drain(g) \/ SeeExit(g) \/ TerminationRefused(g)
     PROVE  LeasesInOrder'
  <2>1. /\ \A h \in Generations : watch[h] # "none" => watch'[h] # "none"
        /\ UNCHANGED <<lease, claim, tool>>
    BY <1>12 DEF Drain, SeeExit, TerminationRefused, WorkerTypeOK
  <2> QED BY <2>1 DEF LeasesInOrder
<1>13. ASSUME NEW g \in Generations, NEW a \in Calls, ClaimModel(g, a)
     PROVE  LeasesInOrder'
  <2>1. /\ lease[g] = "active" /\ claim'[a].by = g /\ \A b \in Calls : b # a => claim'[b] = claim[b]
        /\ UNCHANGED <<lease, watch, tool>>
    BY <1>13 DEF ClaimModel, CurrentScope, WorkerTypeOK
  <2> QED BY <2>1 DEF LeasesInOrder
<1>14. ASSUME NEW g \in Generations, InterruptModel(g)
     PROVE  LeasesInOrder'
  <2>1. /\ UNCHANGED <<lease, watch, tool>>
        /\ \A b \in Calls : claim'[b].by = claim[b].by
                              /\ (claim[b].state # "dispatching" => claim'[b].state # "dispatching")
    BY <1>14 DEF InterruptModel, WorkerTypeOK
  <2> QED BY <2>1 DEF LeasesInOrder
<1>15. ASSUME NEW g \in Generations, NEW reply \in Replies, RecordAnswer(g, reply)
     PROVE  LeasesInOrder'
  <2>1. /\ UNCHANGED <<lease, watch, tool>>
        /\ \A b \in Calls : claim'[b].by = claim[b].by
                              /\ (claim[b].state # "dispatching" => claim'[b].state # "dispatching")
    BY <1>15 DEF RecordAnswer, WorkerTypeOK
  <2> QED BY <2>1 DEF LeasesInOrder
<1>16. ASSUME NEW g \in Generations, NEW a \in Calls, ClaimTool(g, a) \/ StartTool(g, a)
     PROVE  LeasesInOrder'
  <2>1. /\ lease[g] = "active" /\ claim[a].by = g /\ \A b \in Calls : b # a => tool'[b] = tool[b]
        /\ UNCHANGED <<lease, watch, claim>>
    BY <1>16 DEF ClaimTool, StartTool, ToolAuthority, CurrentScope, RespondedTo, WorkerTypeOK
  <2> QED BY <2>1 DEF LeasesInOrder
<1>17. ASSUME NEW g \in Generations, NEW a \in Calls, SaveResult(g, a)
     PROVE  LeasesInOrder'
  <2>1. /\ tool'[a] = "returned" /\ \A b \in Calls : b # a => tool'[b] = tool[b]
        /\ UNCHANGED <<lease, watch, claim>>
    BY <1>17 DEF SaveResult, WorkerTypeOK
  <2> QED BY <2>1 DEF LeasesInOrder
<1> QED
  BY <1>1, <1>2, <1>3, <1>4, <1>5, <1>6, <1>7, <1>8, <1>9, <1>10, <1>11, <1>12,
       <1>13, <1>14, <1>15, <1>16, <1>17
  DEF WorkerNext, ProcessStep, BackendPays, ModelThread, ToolThread, Supervisor, workerVars

\* A recovered ledger keeps what was reserved, who paid for it, and what was closed.
LEMMA InterruptedRows ==
    ASSUME WorkerTypeOK, call' = CallsInterrupted, NEW a \in Calls
    PROVE  /\ call'[a].by = call[a].by
           /\ call'[a].state = "none" <=> call[a].state = "none"
           /\ call'[a].state = "finished" <=> call[a].state = "finished"
           /\ call'[a].state \notin {"reserved", "started"}
           /\ call'[a] = call[a] \/ call'[a].state = "interrupted"
<1>1. call'[a] = IF call[a].state \in {"reserved", "started"}
                   THEN [call[a] EXCEPT !.state = "interrupted"] ELSE call[a]
  BY DEF CallsInterrupted
<1>2. call[a] \in [state : {"none", "reserved", "started", "finished", "interrupted"},
                   by : {Backend} \union Generations, leases : 0..MaxLeases]
  BY DEF WorkerTypeOK
<1> QED BY <1>1, <1>2

\* Every step keeps the claims paid.
LEMMA CallsStep ==
    ASSUME WorkerTypeOK, ThreadsOwnClaims, CallsArePaid, [WorkerNext]_workerVars
    PROVE  CallsArePaid'
<1>1. CASE UNCHANGED <<call, claim>>
  BY <1>1 DEF CallsArePaid, Reserved, Responded
<1>2. ASSUME NEW g \in Generations,
         Begin(g) \/ SendToProvider(g) \/ LoseAnswer(g) \/ Launch(g) \/ Exit(g) \/
         Drain(g) \/ SeeExit(g) \/ TerminationRefused(g)
     PROVE  CallsArePaid'
  BY <1>1, <1>2 DEF Begin, SendToProvider, LoseAnswer, Launch, Exit, Drain, SeeExit,
       TerminationRefused
<1>3. ASSUME NEW g \in Generations, NEW a \in Calls,
         CommitTurn(g, a) \/ ClaimTool(g, a) \/ StartTool(g, a) \/ RefuseStart(g, a) \/
         FinishRead(g, a) \/ AskForEdit(g, a) \/ RejectEdit(g, a) \/ GrantEdit(g, a)
     PROVE  CallsArePaid'
  BY <1>1, <1>3 DEF CommitTurn, ClaimTool, StartTool, RefuseStart, FinishRead, AskForEdit,
       RejectEdit, GrantEdit
<1>4. ASSUME NEW g \in Generations, NEW a \in Calls,
         RefuseEdit(g, a) \/ BindEffect(g, a) \/ WriteFile(g, a) \/ FinishEdit(g, a) \/
         SaveResult(g, a) \/ LoseResult(g, a)
     PROVE  CallsArePaid'
  BY <1>1, <1>4 DEF RefuseEdit, BindEffect, WriteFile, FinishEdit, SaveResult, LoseResult
<1>5. ASSUME NEW g \in Generations, NEW a \in Calls, NEW outcome \in {"uncertain", "executing"},
         GiveUpEdit(g, a, outcome)
     PROVE  CallsArePaid'
  BY <1>1, <1>5 DEF GiveUpEdit
<1>6. ASSUME NEW g \in Generations, NEW a \in Calls, CompleteTask(g, a)
     PROVE  CallsArePaid'
  BY <1>6, RetiredClaims DEF CompleteTask, CallsArePaid, Reserved, Responded
<1>7. ASSUME NEW g \in Generations, RetireByHand(g)
     PROVE  CallsArePaid'
  BY <1>7, RetiredClaims DEF RetireByHand, CallsArePaid, Reserved, Responded
<1>8. ASSUME NEW g \in Generations, NEW outcome \in {"failed", "cancelled"},
         Terminate(g, outcome)
     PROVE  CallsArePaid'
  BY <1>8, RetiredClaims, InterruptedRows DEF Terminate, CallsArePaid, Reserved, Responded
<1>9. CASE Restart
  <2>1. call' = CallsInterrupted /\ (UNCHANGED <<claim, tool>> \/ \E g \in Generations : Retired(g))
    BY <1>9 DEF Restart
  <2> QED BY <2>1, RetiredClaims, InterruptedRows DEF CallsArePaid, Reserved, Responded
<1>10. ASSUME NEW w \in {Backend} \union Generations, NEW a \in Calls, ReserveCall(w, a)
     PROVE  CallsArePaid'
  <2>1. /\ claim[a].state = "none" /\ UNCHANGED claim
        /\ call'[a].state = "reserved" /\ \A b \in Calls : b # a => call'[b] = call[b]
    BY <1>10 DEF ReserveCall, WorkerTypeOK, CallsArePaid
  <2> QED BY <2>1 DEF CallsArePaid, Reserved, Responded
<1>11. ASSUME NEW w \in {Backend} \union Generations, NEW a \in Calls, StartCall(w, a)
     PROVE  CallsArePaid'
  <2>1. /\ UNCHANGED claim /\ call[a].state # "none" /\ call'[a].state = "started" /\ call'[a].by = call[a].by
        /\ \A b \in Calls : b # a => call'[b] = call[b]
    BY <1>11 DEF StartCall, WorkerTypeOK
  <2> QED BY <2>1 DEF CallsArePaid, Reserved, Responded
<1>12. ASSUME NEW g \in Generations, NEW a \in Calls, FinishCall(g, a)
     PROVE  CallsArePaid'
  <2>1. /\ UNCHANGED claim /\ call'[a].state = "finished" /\ call'[a].by = call[a].by
        /\ Responded(a) /\ \A b \in Calls : b # a => call'[b] = call[b]
    BY <1>12 DEF FinishCall, RespondedTo, WorkerTypeOK
  <2> QED BY <2>1 DEF CallsArePaid, Reserved, Responded
<1>13. ASSUME NEW g \in Generations, NEW a \in Calls, ClaimModel(g, a)
     PROVE  CallsArePaid'
  <2>1. /\ UNCHANGED call /\ claim'[a].by = g /\ \A b \in Calls : b # a => claim'[b] = claim[b]
        /\ call[a].state = "started" /\ call[a].by \in {g, Backend}
    BY <1>13 DEF ClaimModel, OwnFunding, WorkerTypeOK
  <2> QED BY <2>1 DEF CallsArePaid, Reserved, Responded
<1>14. ASSUME NEW g \in Generations, NEW reply \in Replies, RecordAnswer(g, reply)
     PROVE  CallsArePaid'
  <2>1. /\ UNCHANGED call
        /\ \A b \in Calls : /\ claim'[b].by = claim[b].by /\ (claim[b].state = "none" => claim'[b].state = "none")
                            /\ claim[b].state = "responded" => claim'[b].state = "responded"
    BY <1>14 DEF RecordAnswer, WorkerTypeOK
  <2> QED BY <2>1 DEF CallsArePaid, Reserved, Responded
<1>15. ASSUME NEW g \in Generations, InterruptModel(g)
     PROVE  CallsArePaid'
  <2>1. /\ UNCHANGED call
        /\ \A b \in Calls : /\ claim'[b].by = claim[b].by /\ (claim[b].state = "none" => claim'[b].state = "none")
                            /\ claim[b].state = "responded" => claim'[b].state = "responded"
    BY <1>15 DEF InterruptModel, WorkerTypeOK
  <2> QED BY <2>1 DEF CallsArePaid, Reserved, Responded
<1> QED
  BY <1>1, <1>2, <1>3, <1>4, <1>5, <1>6, <1>7, <1>8, <1>9, <1>10, <1>11, <1>12,
       <1>13, <1>14, <1>15
  DEF WorkerNext, ProcessStep, BackendPays, ModelThread, ToolThread, Supervisor, workerVars

\* No step opens a call of a completed run.
LEMMA CompletedStep ==
    ASSUME WorkerTypeOK, CompletedCallsAreClosed, [WorkerNext]_workerVars
    PROVE  CompletedCallsAreClosed'
<1>1. CASE UNCHANGED <<call, task>>
  BY <1>1 DEF CompletedCallsAreClosed
<1>2. ASSUME NEW g \in Generations,
         SendToProvider(g) \/ InterruptModel(g) \/ LoseAnswer(g) \/ Launch(g) \/ Exit(g)
         \/ Drain(g) \/ SeeExit(g) \/ TerminationRefused(g)
     PROVE  CompletedCallsAreClosed'
  BY <1>1, <1>2 DEF SendToProvider, InterruptModel, LoseAnswer, Launch, Exit, Drain, SeeExit,
       TerminationRefused
<1>3. ASSUME NEW g \in Generations,
         RetireByHand(g)
     PROVE  CompletedCallsAreClosed'
  BY <1>1, <1>3 DEF RetireByHand
<1>4. ASSUME NEW g \in Generations, NEW reply \in Replies,
         RecordAnswer(g, reply)
     PROVE  CompletedCallsAreClosed'
  BY <1>1, <1>4 DEF RecordAnswer
<1>5. ASSUME NEW g \in Generations, NEW a \in Calls,
         CommitTurn(g, a) \/ ClaimModel(g, a) \/ ClaimTool(g, a) \/ StartTool(g, a) \/
         RefuseStart(g, a) \/ FinishRead(g, a) \/ AskForEdit(g, a) \/ RejectEdit(g, a)
     PROVE  CompletedCallsAreClosed'
  BY <1>1, <1>5 DEF CommitTurn, ClaimModel, ClaimTool, StartTool, RefuseStart, FinishRead,
       AskForEdit, RejectEdit
<1>6. ASSUME NEW g \in Generations, NEW a \in Calls,
         GrantEdit(g, a) \/ RefuseEdit(g, a) \/ BindEffect(g, a) \/ WriteFile(g, a) \/
         FinishEdit(g, a) \/ SaveResult(g, a) \/ LoseResult(g, a)
     PROVE  CompletedCallsAreClosed'
  BY <1>1, <1>6 DEF GrantEdit, RefuseEdit, BindEffect, WriteFile, FinishEdit, SaveResult, LoseResult
<1>7. ASSUME NEW g \in Generations, NEW a \in Calls, NEW outcome \in {"uncertain", "executing"},
         GiveUpEdit(g, a, outcome)
     PROVE  CompletedCallsAreClosed'
  BY <1>1, <1>7 DEF GiveUpEdit
<1>8. ASSUME NEW g \in Generations, Begin(g)
     PROVE  CompletedCallsAreClosed'
  BY <1>8 DEF Begin, CompletedCallsAreClosed
<1>9. ASSUME NEW g \in Generations, NEW a \in Calls, CompleteTask(g, a)
     PROVE  CompletedCallsAreClosed'
  BY <1>9 DEF CompleteTask, FinalAnswer, CompletedCallsAreClosed
<1>10. ASSUME NEW g \in Generations, NEW outcome \in {"failed", "cancelled"},
         Terminate(g, outcome)
     PROVE  CompletedCallsAreClosed'
  BY <1>10 DEF Terminate, CompletedCallsAreClosed
<1>11. CASE Restart
  <2>1. call' = CallsInterrupted /\ (task' = task \/ task' = "failed")
    BY <1>11 DEF Restart
  <2> QED BY <2>1, InterruptedRows DEF CompletedCallsAreClosed, WorkerTypeOK
<1>12. ASSUME NEW w \in {Backend} \union Generations, NEW a \in Calls,
         ReserveCall(w, a) \/ StartCall(w, a)
     PROVE  CompletedCallsAreClosed'
  BY <1>12 DEF ReserveCall, StartCall, CompletedCallsAreClosed
<1>13. ASSUME NEW g \in Generations, NEW a \in Calls, FinishCall(g, a)
     PROVE  CompletedCallsAreClosed'
  BY <1>13 DEF FinishCall, CurrentScope, CompletedCallsAreClosed
<1> QED
  BY <1>1, <1>2, <1>3, <1>4, <1>5, <1>6, <1>7, <1>8, <1>9, <1>10, <1>11, <1>12, <1>13
  DEF WorkerNext, ProcessStep, BackendPays, ModelThread, ToolThread, Supervisor, workerVars

\* The parts of EndedRootIsSettled: what a run that ended left behind, and what it holds
\* when it completed.
EndedIsClosed ==
    task \in Ended =>
        /\ \A g \in Generations : lease[g] # "active"
        /\ \A a \in Calls : call[a].state \notin {"reserved", "started"}

EndedIsInert ==
    task \in Ended => \A a \in Calls : effect[a] \notin {"awaiting", "executing"}

CompletedIsAnswered ==
    task = "completed" =>
        \A a \in Calls : /\ tool[a] \in {"none", "returned"} /\ effect[a] # "uncertain"
                         /\ AsksForTool(a) => a \in turns

\* Together they are the property.
LEMMA EndedParts ==
    EndedRootIsSettled <=> EndedIsClosed /\ EndedIsInert /\ CompletedIsAnswered
  BY DEF EndedRootIsSettled, EndedIsClosed, EndedIsInert, CompletedIsAnswered, Ended

\* A run gives its lease and its open calls back when it ends, and gets no new ones.
LEMMA ClosedStep ==
    ASSUME WorkerTypeOK, LeasesInOrder, EndedIsClosed, [WorkerNext]_workerVars
    PROVE  EndedIsClosed'
<1>1. CASE UNCHANGED <<task, lease, call>>
  BY <1>1 DEF EndedIsClosed
<1>2. ASSUME NEW g \in Generations,
         SendToProvider(g) \/ InterruptModel(g) \/ LoseAnswer(g) \/ Exit(g) \/ Drain(g)
         \/ SeeExit(g) \/ TerminationRefused(g)
     PROVE  EndedIsClosed'
  BY <1>1, <1>2 DEF SendToProvider, InterruptModel, LoseAnswer, Exit, Drain, SeeExit,
       TerminationRefused
<1>3. ASSUME NEW g \in Generations, NEW reply \in Replies,
         RecordAnswer(g, reply)
     PROVE  EndedIsClosed'
  BY <1>1, <1>3 DEF RecordAnswer
<1>4. ASSUME NEW g \in Generations, NEW a \in Calls,
         CommitTurn(g, a) \/ ClaimModel(g, a) \/ ClaimTool(g, a) \/ StartTool(g, a) \/
         RefuseStart(g, a) \/ FinishRead(g, a) \/ AskForEdit(g, a) \/ RejectEdit(g, a)
     PROVE  EndedIsClosed'
  BY <1>1, <1>4 DEF CommitTurn, ClaimModel, ClaimTool, StartTool, RefuseStart, FinishRead,
       AskForEdit, RejectEdit
<1>5. ASSUME NEW g \in Generations, NEW a \in Calls,
         GrantEdit(g, a) \/ RefuseEdit(g, a) \/ BindEffect(g, a) \/ WriteFile(g, a) \/
         FinishEdit(g, a) \/ SaveResult(g, a) \/ LoseResult(g, a)
     PROVE  EndedIsClosed'
  BY <1>1, <1>5 DEF GrantEdit, RefuseEdit, BindEffect, WriteFile, FinishEdit, SaveResult, LoseResult
<1>6. ASSUME NEW g \in Generations, NEW a \in Calls, NEW outcome \in {"uncertain", "executing"},
         GiveUpEdit(g, a, outcome)
     PROVE  EndedIsClosed'
  BY <1>1, <1>6 DEF GiveUpEdit
<1>7. ASSUME NEW g \in Generations, Begin(g)
     PROVE  EndedIsClosed'
  BY <1>7 DEF Begin, EndedIsClosed, Ended
<1>8. ASSUME NEW g \in Generations, NEW a \in Calls, CompleteTask(g, a)
     PROVE  EndedIsClosed'
  <2>1. Retired(g) /\ lease[g] = "active"
    BY <1>8 DEF CompleteTask, CurrentScope
  <2>2. \A h \in Generations : lease'[h] # "active"
    BY <2>1, RetiredRows DEF LeasesInOrder
  <2>3. \A b \in Calls : call'[b].state \notin {"reserved", "started"}
    BY <1>8 DEF CompleteTask, FinalAnswer
  <2> QED BY <2>2, <2>3 DEF EndedIsClosed
<1>9. ASSUME NEW g \in Generations, NEW outcome \in {"failed", "cancelled"},
         Terminate(g, outcome)
     PROVE  EndedIsClosed'
  <2>1. Retired(g) /\ lease[g] = "active"
    BY <1>9 DEF Terminate, QueuedScope
  <2>2. \A h \in Generations : lease'[h] # "active"
    BY <2>1, RetiredRows DEF LeasesInOrder
  <2>3. \A b \in Calls : call'[b].state \notin {"reserved", "started"}
    BY <1>9, InterruptedRows DEF Terminate
  <2> QED BY <2>2, <2>3 DEF EndedIsClosed
<1>10. ASSUME NEW g \in Generations, RetireByHand(g)
     PROVE  EndedIsClosed'
  BY <1>10, RetiredRows DEF RetireByHand, EndedIsClosed
<1>11. ASSUME NEW g \in Generations, Launch(g)
     PROVE  EndedIsClosed'
  <2>1. task \notin Ended /\ UNCHANGED task
    BY <1>11 DEF Launch, Ended
  <2> QED BY <2>1 DEF EndedIsClosed
<1>12. ASSUME NEW w \in {Backend} \union Generations, NEW a \in Calls,
         ReserveCall(w, a) \/ StartCall(w, a)
     PROVE  EndedIsClosed'
  <2>1. task \notin Ended /\ UNCHANGED task
    BY <1>12 DEF ReserveCall, StartCall, Ended
  <2> QED BY <2>1 DEF EndedIsClosed
<1>13. ASSUME NEW g \in Generations, NEW a \in Calls, FinishCall(g, a)
     PROVE  EndedIsClosed'
  <2>1. task \notin Ended /\ UNCHANGED task
    BY <1>13 DEF FinishCall, CurrentScope, Ended
  <2> QED BY <2>1 DEF EndedIsClosed
<1>14. CASE Restart
  <2>1. \A b \in Calls : call'[b].state \notin {"reserved", "started"}
    BY <1>14, InterruptedRows DEF Restart
  <2>2. CASE \E g \in Generations : lease[g] = "active"
    <3>1. PICK g \in Generations : lease[g] = "active" /\ Retired(g)
      BY <1>14, <2>2 DEF Restart
    <3>2. \A h \in Generations : lease'[h] # "active"
      BY <3>1, RetiredRows DEF LeasesInOrder
    <3> QED BY <2>1, <3>2 DEF EndedIsClosed
  <2>3. CASE \A g \in Generations : lease[g] # "active"
    BY <1>14, <2>1, <2>3 DEF Restart, EndedIsClosed
  <2> QED BY <2>2, <2>3
<1> QED
  BY <1>1, <1>2, <1>3, <1>4, <1>5, <1>6, <1>7, <1>8, <1>9, <1>10, <1>11, <1>12,
       <1>13, <1>14
  DEF WorkerNext, ProcessStep, BackendPays, ModelThread, ToolThread, Supervisor, workerVars

\* A run withdraws its operations when it ends, and proposes none later.
LEMMA InertStep ==
    ASSUME WorkerTypeOK, EndedIsInert, [WorkerNext]_workerVars PROVE EndedIsInert'
<1>1. CASE UNCHANGED <<task, effect>>
  BY <1>1 DEF EndedIsInert
<1>2. ASSUME NEW g \in Generations,
         SendToProvider(g) \/ InterruptModel(g) \/ LoseAnswer(g) \/ Launch(g) \/ Exit(g)
         \/ Drain(g) \/ SeeExit(g) \/ TerminationRefused(g)
     PROVE  EndedIsInert'
  BY <1>1, <1>2 DEF SendToProvider, InterruptModel, LoseAnswer, Launch, Exit, Drain, SeeExit,
       TerminationRefused
<1>3. ASSUME NEW g \in Generations,
         RetireByHand(g)
     PROVE  EndedIsInert'
  BY <1>1, <1>3 DEF RetireByHand
<1>4. ASSUME NEW g \in Generations, NEW reply \in Replies,
         RecordAnswer(g, reply)
     PROVE  EndedIsInert'
  BY <1>1, <1>4 DEF RecordAnswer
<1>5. ASSUME NEW w \in {Backend} \union Generations, NEW a \in Calls,
         ReserveCall(w, a) \/ StartCall(w, a)
     PROVE  EndedIsInert'
  BY <1>1, <1>5 DEF ReserveCall, StartCall
<1>6. ASSUME NEW g \in Generations, NEW a \in Calls,
         FinishCall(g, a) \/ CommitTurn(g, a) \/ ClaimModel(g, a) \/ ClaimTool(g, a) \/
         StartTool(g, a) \/ RefuseStart(g, a) \/ FinishRead(g, a) \/ RejectEdit(g, a)
     PROVE  EndedIsInert'
  BY <1>1, <1>6 DEF FinishCall, CommitTurn, ClaimModel, ClaimTool, StartTool, RefuseStart,
       FinishRead, RejectEdit
<1>7. ASSUME NEW g \in Generations, NEW a \in Calls,
         BindEffect(g, a) \/ WriteFile(g, a) \/ SaveResult(g, a) \/ LoseResult(g, a)
     PROVE  EndedIsInert'
  BY <1>1, <1>7 DEF BindEffect, WriteFile, SaveResult, LoseResult
<1>8. ASSUME NEW g \in Generations, Begin(g)
     PROVE  EndedIsInert'
  BY <1>8 DEF Begin, EndedIsInert, Ended
<1>9. ASSUME NEW g \in Generations, NEW a \in Calls, CompleteTask(g, a)
     PROVE  EndedIsInert'
  BY <1>9 DEF CompleteTask, EndedIsInert
<1>10. ASSUME NEW g \in Generations, NEW outcome \in {"failed", "cancelled"},
         Terminate(g, outcome)
     PROVE  EndedIsInert'
  BY <1>10 DEF Terminate, ProposalsWithdrawn, NothingExecutes, EndedIsInert
<1>11. CASE Restart
  <2>1. CASE task \in Ended
    BY <1>11, <2>1 DEF Restart, EndedIsInert
  <2>2. CASE task \notin Ended
    <3>1. effect' = [a \in Calls |-> IF effect[a] = "executing" THEN "uncertain" ELSE ProposalsWithdrawn[a]]
      BY <1>11, <2>2 DEF Restart
    <3>2. \A a \in Calls : effect'[a] \notin {"awaiting", "executing"}
      BY <3>1 DEF ProposalsWithdrawn
    <3> QED BY <3>2 DEF EndedIsInert
  <2> QED BY <2>1, <2>2
<1>12. ASSUME NEW g \in Generations, NEW a \in Calls, AskForEdit(g, a) \/ GrantEdit(g, a)
     PROVE  EndedIsInert'
  <2>1. task \notin Ended /\ UNCHANGED task
    BY <1>12 DEF AskForEdit, GrantEdit, Ended
  <2> QED BY <2>1 DEF EndedIsInert
<1>13. ASSUME NEW g \in Generations, NEW a \in Calls, RefuseEdit(g, a) \/ FinishEdit(g, a)
     PROVE  EndedIsInert'
  <2>1. /\ effect[a] \in {"awaiting", "executing", "refused"} /\ UNCHANGED task
        /\ \A b \in Calls : b # a => effect'[b] = effect[b]
        /\ effect[a] = "refused" => effect'[a] = "refused"
    BY <1>13 DEF RefuseEdit, FinishEdit, At, WorkerTypeOK
  <2> QED BY <2>1 DEF EndedIsInert
<1>14. ASSUME NEW g \in Generations, NEW a \in Calls, NEW outcome \in {"uncertain", "executing"},
         GiveUpEdit(g, a, outcome)
     PROVE  EndedIsInert'
  <2>1. /\ effect[a] \in {"awaiting", "executing", "refused"} /\ UNCHANGED task
        /\ \A b \in Calls : b # a => effect'[b] = effect[b]
        /\ effect[a] = "refused" => effect'[a] = "refused"
    BY <1>14 DEF GiveUpEdit, WorkerTypeOK
  <2> QED BY <2>1 DEF EndedIsInert
<1> QED
  BY <1>1, <1>2, <1>3, <1>4, <1>5, <1>6, <1>7, <1>8, <1>9, <1>10, <1>11, <1>12,
       <1>13, <1>14
  DEF WorkerNext, ProcessStep, BackendPays, ModelThread, ToolThread, Supervisor, workerVars

\* A completed run keeps every answer it was completed with.
LEMMA AnsweredStep ==
    ASSUME WorkerTypeOK, ThreadsOwnClaims, CallsArePaid, CompletedCallsAreClosed,
           EndedIsInert, CompletedIsAnswered, [WorkerNext]_workerVars
    PROVE  CompletedIsAnswered'
<1>1. CASE UNCHANGED <<task, claim, tool, effect, turns>>
  BY <1>1 DEF CompletedIsAnswered, AsksForTool, Responded
<1>2. ASSUME NEW g \in Generations,
         SendToProvider(g) \/ LoseAnswer(g) \/ Launch(g) \/ Exit(g) \/ Drain(g) \/
         SeeExit(g) \/ TerminationRefused(g)
     PROVE  CompletedIsAnswered'
  BY <1>1, <1>2 DEF SendToProvider, LoseAnswer, Launch, Exit, Drain, SeeExit, TerminationRefused
<1>3. ASSUME NEW w \in {Backend} \union Generations, NEW a \in Calls,
         ReserveCall(w, a) \/ StartCall(w, a)
     PROVE  CompletedIsAnswered'
  BY <1>1, <1>3 DEF ReserveCall, StartCall
<1>4. ASSUME NEW g \in Generations, NEW a \in Calls,
         FinishCall(g, a) \/ RefuseStart(g, a) \/ FinishRead(g, a) \/ RejectEdit(g, a) \/
         BindEffect(g, a) \/ WriteFile(g, a) \/ LoseResult(g, a)
     PROVE  CompletedIsAnswered'
  BY <1>1, <1>4 DEF FinishCall, RefuseStart, FinishRead, RejectEdit, BindEffect, WriteFile,
       LoseResult
<1>5. ASSUME NEW g \in Generations, Begin(g)
     PROVE  CompletedIsAnswered'
  BY <1>5 DEF Begin, CompletedIsAnswered
<1>6. ASSUME NEW g \in Generations, NEW a \in Calls, CompleteTask(g, a)
     PROVE  CompletedIsAnswered'
  <2>1. Retired(g) /\ UNCHANGED <<effect, turns>> /\ TurnsCommitted
        /\ \A b \in Calls : tool[b] \in {"none", "returned"} /\ effect[b] # "uncertain"
    BY <1>6 DEF CompleteTask, FinalAnswer
  <2> QED BY <2>1, RetiredRows, RetiredClaims DEF CompletedIsAnswered, TurnsCommitted, AsksForTool, Responded
<1>7. ASSUME NEW g \in Generations, RetireByHand(g)
     PROVE  CompletedIsAnswered'
  BY <1>7, RetiredRows, RetiredClaims DEF RetireByHand, CompletedIsAnswered, AsksForTool, Responded
<1>8. ASSUME NEW g \in Generations, NEW outcome \in {"failed", "cancelled"},
         Terminate(g, outcome)
     PROVE  CompletedIsAnswered'
  BY <1>8 DEF Terminate, CompletedIsAnswered
<1>9. CASE Restart
  <2>1. CASE task = "completed"
    <3>1. UNCHANGED <<effect, turns>> /\ (UNCHANGED <<claim, tool>> \/ \E g \in Generations : Retired(g))
      BY <1>9, <2>1 DEF Restart, Ended
    <3> QED BY <2>1, <3>1, RetiredRows, RetiredClaims DEF CompletedIsAnswered, AsksForTool, Responded
  <2>2. CASE task # "completed"
    BY <1>9, <2>2 DEF Restart, CompletedIsAnswered
  <2> QED BY <2>1, <2>2
<1>10. ASSUME NEW g \in Generations, NEW a \in Calls, ClaimModel(g, a)
     PROVE  CompletedIsAnswered'
  <2>1. task # "completed" /\ UNCHANGED task
    BY <1>10 DEF ClaimModel, CurrentScope
  <2> QED BY <2>1 DEF CompletedIsAnswered
<1>11. ASSUME NEW g \in Generations, NEW a \in Calls, ClaimTool(g, a) \/ StartTool(g, a)
     PROVE  CompletedIsAnswered'
  <2>1. task # "completed" /\ UNCHANGED task
    BY <1>11 DEF ClaimTool, StartTool, ToolAuthority, CurrentScope
  <2> QED BY <2>1 DEF CompletedIsAnswered
<1>12. ASSUME NEW g \in Generations, NEW a \in Calls, CommitTurn(g, a)
     PROVE  CompletedIsAnswered'
  BY <1>12 DEF CommitTurn, CompletedIsAnswered, AsksForTool, Responded
<1>13. ASSUME NEW g \in Generations, NEW reply \in Replies, RecordAnswer(g, reply)
     PROVE  CompletedIsAnswered'
  <2>1. task # "completed" /\ UNCHANGED task
    <3> DEFINE b == exchange[g].of
    <3>1. b \in Calls /\ claim[b].state \notin {"none", "responded"} /\ UNCHANGED task
      BY <1>13 DEF RecordAnswer, ThreadsOwnClaims, ModelThreadsOwnClaims
    <3>2. call[b].state \notin {"none", "finished"}
      BY <3>1 DEF CallsArePaid, Reserved, Responded
    <3> QED BY <3>1, <3>2 DEF CompletedCallsAreClosed
  <2> QED BY <2>1 DEF CompletedIsAnswered
<1>14. ASSUME NEW g \in Generations, InterruptModel(g)
     PROVE  CompletedIsAnswered'
  <2>1. task # "completed" /\ UNCHANGED task
    <3> DEFINE b == exchange[g].of
    <3>1. b \in Calls /\ claim[b].state \notin {"none", "responded"} /\ UNCHANGED task
      BY <1>14 DEF InterruptModel, ThreadsOwnClaims, ModelThreadsOwnClaims
    <3>2. call[b].state \notin {"none", "finished"}
      BY <3>1 DEF CallsArePaid, Reserved, Responded
    <3> QED BY <3>1, <3>2 DEF CompletedCallsAreClosed
  <2> QED BY <2>1 DEF CompletedIsAnswered
<1>15. ASSUME NEW g \in Generations, NEW a \in Calls, SaveResult(g, a)
     PROVE  CompletedIsAnswered'
  BY <1>15 DEF SaveResult, WorkerTypeOK, CompletedIsAnswered, AsksForTool, Responded
<1>16. ASSUME NEW g \in Generations, NEW a \in Calls, AskForEdit(g, a) \/ GrantEdit(g, a)
     PROVE  CompletedIsAnswered'
  <2>1. task # "completed" /\ UNCHANGED task
    BY <1>16 DEF AskForEdit, GrantEdit
  <2> QED BY <2>1 DEF CompletedIsAnswered
<1>17. ASSUME NEW g \in Generations, NEW a \in Calls, RefuseEdit(g, a)
     PROVE  CompletedIsAnswered'
  BY <1>17 DEF RefuseEdit, WorkerTypeOK, CompletedIsAnswered, AsksForTool, Responded
<1>18. ASSUME NEW g \in Generations, NEW a \in Calls, FinishEdit(g, a)
     PROVE  CompletedIsAnswered'
  <2>1. task # "completed" /\ UNCHANGED task
    BY <1>18 DEF FinishEdit, EndedIsInert, Ended
  <2> QED BY <2>1 DEF CompletedIsAnswered
<1>19. ASSUME NEW g \in Generations, NEW a \in Calls, NEW outcome \in {"uncertain", "executing"},
         GiveUpEdit(g, a, outcome)
     PROVE  CompletedIsAnswered'
  <2>1. task # "completed" /\ UNCHANGED task
    BY <1>19 DEF GiveUpEdit, EndedIsInert, Ended
  <2> QED BY <2>1 DEF CompletedIsAnswered
<1> QED
  BY <1>1, <1>2, <1>3, <1>4, <1>5, <1>6, <1>7, <1>8, <1>9, <1>10, <1>11, <1>12,
       <1>13, <1>14, <1>15, <1>16, <1>17, <1>18, <1>19
  DEF WorkerNext, ProcessStep, BackendPays, ModelThread, ToolThread, Supervisor, workerVars

\* The parts of OnlyFactsOf: the lease and the reservations of g, and its claims.
NothingPaid(g) ==
    /\ lease'[g] = "retired"
    /\ \A a \in Calls : call'[a].by = g => call'[a] = call[a] \/ call'[a].state = "interrupted"

NothingStarted(g) ==
    \A a \in Calls :
        /\ claim'[a].by = g => claim'[a] = claim[a]
                               \/ (claim[a].by = g /\ claim[a].state = "uncertain"
                                    /\ claim'[a].state = "responded")
        /\ claim[a].by = g => tool'[a] = tool[a] \/ (tool[a] = "uncertain"
                                                       /\ tool'[a] = "returned")
        /\ a \in bound' \ bound => claim[a].by # g
        /\ a \in turns' \ turns => claim[a].by # g

\* Together they are all that a retired lease may see.
LEMMA OnlyFactsParts ==
    ASSUME NEW g \in Generations, NothingPaid(g), NothingStarted(g) PROVE OnlyFactsOf(g)
  BY DEF OnlyFactsOf, NothingPaid, NothingStarted

\* Nothing is reserved, started or closed under a retired lease.
LEMMA PaidStep ==
    ASSUME WorkerTypeOK, ThreadsOwnClaims, LeasesInOrder, CallsArePaid,
           NEW r \in Generations, lease[r] = "retired", [WorkerNext]_workerVars
    PROVE  NothingPaid(r)
<1>1. CASE UNCHANGED <<lease, call>>
  BY <1>1 DEF NothingPaid
<1>2. ASSUME NEW g \in Generations,
         Begin(g) \/ SendToProvider(g) \/ InterruptModel(g) \/ LoseAnswer(g) \/ Exit(g)
         \/ Drain(g) \/ SeeExit(g) \/ TerminationRefused(g)
     PROVE  NothingPaid(r)
  BY <1>1, <1>2 DEF Begin, SendToProvider, InterruptModel, LoseAnswer, Exit, Drain, SeeExit,
       TerminationRefused
<1>3. ASSUME NEW g \in Generations, NEW reply \in Replies,
         RecordAnswer(g, reply)
     PROVE  NothingPaid(r)
  BY <1>1, <1>3 DEF RecordAnswer
<1>4. ASSUME NEW g \in Generations, NEW a \in Calls,
         CommitTurn(g, a) \/ ClaimModel(g, a) \/ ClaimTool(g, a) \/ StartTool(g, a) \/
         RefuseStart(g, a) \/ FinishRead(g, a) \/ AskForEdit(g, a) \/ RejectEdit(g, a)
     PROVE  NothingPaid(r)
  BY <1>1, <1>4 DEF CommitTurn, ClaimModel, ClaimTool, StartTool, RefuseStart, FinishRead,
       AskForEdit, RejectEdit
<1>5. ASSUME NEW g \in Generations, NEW a \in Calls,
         GrantEdit(g, a) \/ RefuseEdit(g, a) \/ BindEffect(g, a) \/ WriteFile(g, a) \/
         FinishEdit(g, a) \/ SaveResult(g, a) \/ LoseResult(g, a)
     PROVE  NothingPaid(r)
  BY <1>1, <1>5 DEF GrantEdit, RefuseEdit, BindEffect, WriteFile, FinishEdit, SaveResult, LoseResult
<1>6. ASSUME NEW g \in Generations, NEW a \in Calls, NEW outcome \in {"uncertain", "executing"},
         GiveUpEdit(g, a, outcome)
     PROVE  NothingPaid(r)
  BY <1>1, <1>6 DEF GiveUpEdit
<1>7. ASSUME NEW g \in Generations, NEW a \in Calls, CompleteTask(g, a)
     PROVE  NothingPaid(r)
  BY <1>7, RetiredRows DEF CompleteTask, NothingPaid
<1>8. ASSUME NEW g \in Generations, RetireByHand(g)
     PROVE  NothingPaid(r)
  BY <1>8, RetiredRows DEF RetireByHand, NothingPaid
<1>9. ASSUME NEW g \in Generations, NEW outcome \in {"failed", "cancelled"},
         Terminate(g, outcome)
     PROVE  NothingPaid(r)
  BY <1>9, RetiredRows, InterruptedRows DEF Terminate, NothingPaid
<1>10. CASE Restart
  <2>1. lease'[r] = "retired"
    <3>1. CASE UNCHANGED lease
      BY <3>1
    <3>2. ASSUME NEW g \in Generations, Retired(g)
         PROVE  lease'[r] = "retired"
      BY <3>2, RetiredRows
    <3> QED BY <1>10, <3>1, <3>2 DEF Restart
  <2>2. call' = CallsInterrupted
    BY <1>10 DEF Restart
  <2> QED BY <2>1, <2>2, InterruptedRows DEF NothingPaid
<1>11. ASSUME NEW g \in Generations, Launch(g)
     PROVE  NothingPaid(r)
  <2>1. g # r
    BY <1>11 DEF Launch, LeasesInOrder
  <2> QED BY <1>11, <2>1 DEF Launch, WorkerTypeOK, NothingPaid
<1>12. ASSUME NEW w \in {Backend} \union Generations, NEW a \in Calls, ReserveCall(w, a)
     PROVE  NothingPaid(r)
  <2>1. w # r /\ UNCHANGED lease
    BY <1>12, NoProcessIsBackend DEF ReserveCall, Authorized, CurrentScope
  <2>2. call'[a].by = w /\ \A b \in Calls : b # a => call'[b] = call[b]
    BY <1>12 DEF ReserveCall, WorkerTypeOK
  <2> QED BY <2>1, <2>2 DEF NothingPaid
<1>13. ASSUME NEW w \in {Backend} \union Generations, NEW a \in Calls, StartCall(w, a)
     PROVE  NothingPaid(r)
  <2>1. w # r /\ UNCHANGED lease
    BY <1>13, NoProcessIsBackend DEF StartCall, Authorized, CurrentScope
  <2>2. call'[a].by = w /\ \A b \in Calls : b # a => call'[b] = call[b]
    BY <1>13 DEF StartCall, WorkerTypeOK
  <2> QED BY <2>1, <2>2 DEF NothingPaid
<1>14. ASSUME NEW g \in Generations, NEW a \in Calls, FinishCall(g, a)
     PROVE  NothingPaid(r)
  <2>1. g # r /\ call[a].by \in {g, Backend} /\ UNCHANGED lease
    BY <1>14 DEF FinishCall, CurrentScope, RespondedTo, Responded, CallsArePaid
  <2>2. call'[a].by = call[a].by /\ \A b \in Calls : b # a => call'[b] = call[b]
    BY <1>14 DEF FinishCall, WorkerTypeOK
  <2> QED BY <2>1, <2>2, NoProcessIsBackend DEF NothingPaid
<1> QED
  BY <1>1, <1>2, <1>3, <1>4, <1>5, <1>6, <1>7, <1>8, <1>9, <1>10, <1>11, <1>12,
       <1>13, <1>14
  DEF WorkerNext, ProcessStep, BackendPays, ModelThread, ToolThread, Supervisor, workerVars

\* Nothing is claimed, changed or committed under a retired lease, and what was under
\* way turns at most into an answer or a result.
LEMMA StartedStep ==
    ASSUME WorkerTypeOK, ThreadsOwnClaims, LeasesInOrder, CallsArePaid,
           NEW r \in Generations, lease[r] = "retired", [WorkerNext]_workerVars
    PROVE  NothingStarted(r)
<1>1. CASE UNCHANGED <<claim, tool, bound, turns>>
  BY <1>1 DEF NothingStarted
<1>2. ASSUME NEW g \in Generations,
         Begin(g) \/ SendToProvider(g) \/ LoseAnswer(g) \/ Launch(g) \/ Exit(g) \/
         Drain(g) \/ SeeExit(g) \/ TerminationRefused(g)
     PROVE  NothingStarted(r)
  BY <1>1, <1>2 DEF Begin, SendToProvider, LoseAnswer, Launch, Exit, Drain, SeeExit,
       TerminationRefused
<1>3. ASSUME NEW w \in {Backend} \union Generations, NEW a \in Calls,
         ReserveCall(w, a) \/ StartCall(w, a)
     PROVE  NothingStarted(r)
  BY <1>1, <1>3 DEF ReserveCall, StartCall
<1>4. ASSUME NEW g \in Generations, NEW a \in Calls,
         FinishCall(g, a) \/ RefuseStart(g, a) \/ FinishRead(g, a) \/ AskForEdit(g, a) \/
         RejectEdit(g, a) \/ GrantEdit(g, a) \/ RefuseEdit(g, a) \/ WriteFile(g, a)
     PROVE  NothingStarted(r)
  BY <1>1, <1>4 DEF FinishCall, RefuseStart, FinishRead, AskForEdit, RejectEdit, GrantEdit,
       RefuseEdit, WriteFile
<1>5. ASSUME NEW g \in Generations, NEW a \in Calls,
         FinishEdit(g, a) \/ LoseResult(g, a)
     PROVE  NothingStarted(r)
  BY <1>1, <1>5 DEF FinishEdit, LoseResult
<1>6. ASSUME NEW g \in Generations, NEW a \in Calls, NEW outcome \in {"uncertain", "executing"},
         GiveUpEdit(g, a, outcome)
     PROVE  NothingStarted(r)
  BY <1>1, <1>6 DEF GiveUpEdit
<1>7. ASSUME NEW g \in Generations, NEW a \in Calls, CompleteTask(g, a)
     PROVE  NothingStarted(r)
  <2>1. Retired(g) /\ UNCHANGED <<bound, turns>>
    BY <1>7 DEF CompleteTask
  <2> QED BY <2>1, RetiredRows DEF LeasesInOrder, NothingStarted
<1>8. ASSUME NEW g \in Generations, RetireByHand(g)
     PROVE  NothingStarted(r)
  <2>1. Retired(g) /\ UNCHANGED <<bound, turns>>
    BY <1>8 DEF RetireByHand
  <2> QED BY <2>1, RetiredRows DEF LeasesInOrder, NothingStarted
<1>9. ASSUME NEW g \in Generations, NEW outcome \in {"failed", "cancelled"},
         Terminate(g, outcome)
     PROVE  NothingStarted(r)
  <2>1. Retired(g) /\ UNCHANGED <<bound, turns>>
    BY <1>9 DEF Terminate
  <2> QED BY <2>1, RetiredRows DEF LeasesInOrder, NothingStarted
<1>10. CASE Restart
  <2>1. UNCHANGED <<bound, turns>> /\ (UNCHANGED <<claim, tool>> \/ \E g \in Generations : Retired(g))
    BY <1>10 DEF Restart
  <2> QED BY <2>1, RetiredRows DEF LeasesInOrder, NothingStarted
<1>11. ASSUME NEW g \in Generations, NEW a \in Calls, ClaimModel(g, a)
     PROVE  NothingStarted(r)
  <2>1. /\ g # r /\ claim'[a].by = g /\ \A b \in Calls : b # a => claim'[b] = claim[b]
        /\ UNCHANGED <<tool, bound, turns>>
    BY <1>11 DEF ClaimModel, CurrentScope, WorkerTypeOK
  <2> QED BY <2>1 DEF NothingStarted
<1>12. ASSUME NEW g \in Generations, NEW reply \in Replies, RecordAnswer(g, reply)
     PROVE  NothingStarted(r)
  <2> DEFINE b == exchange[g].of
  <2>1. /\ b \in Calls /\ claim[b].state \in {"dispatching", "uncertain"}
        /\ claim'[b].by = claim[b].by /\ claim'[b].state = "responded"
        /\ \A c \in Calls : c # b => claim'[c] = claim[c]
        /\ UNCHANGED <<tool, bound, turns>>
    BY <1>12 DEF RecordAnswer, ThreadsOwnClaims, ModelThreadsOwnClaims, WorkerTypeOK
  <2>2. claim[b].by = r => claim[b].state = "uncertain"
    BY <2>1 DEF LeasesInOrder
  <2> HIDE DEF b
  <2> QED BY <2>1, <2>2 DEF NothingStarted
<1>13. ASSUME NEW g \in Generations, InterruptModel(g)
     PROVE  NothingStarted(r)
  <2> DEFINE b == exchange[g].of
  <2>1. /\ b \in Calls /\ claim[b].state \in {"dispatching", "uncertain"}
        /\ claim'[b].by = claim[b].by /\ claim'[b] = [claim[b] EXCEPT !.state = "uncertain"]
        /\ \A c \in Calls : c # b => claim'[c] = claim[c]
        /\ UNCHANGED <<tool, bound, turns>>
    BY <1>13 DEF InterruptModel, ThreadsOwnClaims, ModelThreadsOwnClaims, WorkerTypeOK
  <2>2. claim[b].by = r => claim[b].state = "uncertain"
    BY <2>1 DEF LeasesInOrder
  <2>3. claim[b].by = r => claim'[b] = claim[b]
    BY <2>1, <2>2 DEF WorkerTypeOK
  <2> HIDE DEF b
  <2> QED BY <2>1, <2>3 DEF NothingStarted
<1>14. ASSUME NEW g \in Generations, NEW a \in Calls, ClaimTool(g, a) \/ StartTool(g, a)
     PROVE  NothingStarted(r)
  <2>1. /\ claim[a].by # r /\ UNCHANGED <<claim, bound, turns>>
        /\ \A b \in Calls : b # a => tool'[b] = tool[b]
    BY <1>14 DEF ClaimTool, StartTool, ToolAuthority, CurrentScope, RespondedTo, WorkerTypeOK
  <2> QED BY <2>1 DEF NothingStarted
<1>15. ASSUME NEW g \in Generations, NEW a \in Calls, BindEffect(g, a)
     PROVE  NothingStarted(r)
  <2>1. /\ claim[a].by # r /\ UNCHANGED <<claim, tool, turns>>
        /\ bound' = bound \union {a}
    BY <1>15 DEF BindEffect, ToolAuthority, CurrentScope, RespondedTo, WorkerTypeOK
  <2> QED BY <2>1 DEF NothingStarted
<1>16. ASSUME NEW g \in Generations, NEW a \in Calls, CommitTurn(g, a)
     PROVE  NothingStarted(r)
  <2>1. /\ claim[a].by # r /\ UNCHANGED <<claim, tool, bound>>
        /\ turns' = turns \union {a}
    BY <1>16 DEF CommitTurn, ToolAuthority, CurrentScope, RespondedTo, WorkerTypeOK
  <2> QED BY <2>1 DEF NothingStarted
<1>17. ASSUME NEW g \in Generations, NEW a \in Calls, SaveResult(g, a)
     PROVE  NothingStarted(r)
  <2>1. /\ tool[a] \in {"awaiting", "executing", "uncertain"} /\ tool'[a] = "returned"
        /\ \A b \in Calls : b # a => tool'[b] = tool[b]
        /\ UNCHANGED <<claim, bound, turns>>
    BY <1>17 DEF SaveResult, WorkerTypeOK
  <2> QED BY <2>1 DEF LeasesInOrder, NothingStarted
<1> QED
  BY <1>1, <1>2, <1>3, <1>4, <1>5, <1>6, <1>7, <1>8, <1>9, <1>10, <1>11, <1>12,
       <1>13, <1>14, <1>15, <1>16, <1>17
  DEF WorkerNext, ProcessStep, BackendPays, ModelThread, ToolThread, Supervisor, workerVars

\* The whole invariant: a step keeps it.
LEMMA WorkerInvStep ==
    ASSUME WorkerInv, [WorkerNext]_workerVars PROVE WorkerInv'
<1>1. /\ ReplayInv /\ WorkerTypeOK /\ ThreadsOwnClaims /\ LeasesInOrder /\ CallsArePaid
      /\ EndedIsClosed /\ EndedIsInert /\ CompletedIsAnswered /\ CompletedCallsAreClosed
  BY EndedParts DEF WorkerInv, ReplayInv
<1>2. ReplayInv'
  BY <1>1, ReplayInvStep
<1>3. LeasesInOrder' /\ CallsArePaid' /\ CompletedCallsAreClosed'
  BY <1>1, LeasesStep, CallsStep, CompletedStep
<1>4. EndedIsClosed' /\ EndedIsInert' /\ CompletedIsAnswered'
  BY <1>1, ClosedStep, InertStep, AnsweredStep
<1>5. EndedRootIsSettled'
  BY <1>4 DEF EndedRootIsSettled, EndedIsClosed, EndedIsInert, CompletedIsAnswered, Ended
<1> QED BY <1>2, <1>3, <1>5 DEF WorkerInv

\* A queued root, with no lease and no call, satisfies it.
LEMMA WorkerInvInit ==
    WorkerInit => WorkerInv
<1> SUFFICES ASSUME WorkerInit PROVE WorkerInv
  OBVIOUS
<1>1. ReplayInv
  BY ReplayInvInit
<1>2. LeasesInOrder /\ CallsArePaid
  BY DEF WorkerInit, LeasesInOrder, CallsArePaid
<1>3. EndedRootIsSettled /\ CompletedCallsAreClosed
  BY DEF WorkerInit, EndedRootIsSettled, CompletedCallsAreClosed, Ended
<1> QED BY <1>1, <1>2, <1>3 DEF WorkerInv

\* It holds in every behaviour.
THEOREM WorkerInvariant ==
    WorkerSpec => []WorkerInv
<1> QED BY WorkerInvInit, WorkerInvStep, PTL DEF WorkerSpec

\* A run that ended, however it ended, has no lease, no open call and no operation that
\* may still change the workspace; a completed one holds every answer it asked for.
THEOREM EveryEndedRootIsSettled ==
    WorkerSpec => []EndedRootIsSettled
<1>1. WorkerInv => EndedRootIsSettled
  BY DEF WorkerInv
<1> QED BY <1>1, WorkerInvariant, PTL

\* A process that lost its lease gains nothing by going on.
THEOREM RetiredLeasesGainOnlyFacts ==
    WorkerSpec => RetiredGainsOnlyFacts
<1>1. ASSUME WorkerInv, [WorkerNext]_workerVars
     PROVE  [\A g \in Generations : lease[g] = "retired" => OnlyFactsOf(g)]_workerVars
  <2>1. WorkerTypeOK /\ ThreadsOwnClaims /\ LeasesInOrder /\ CallsArePaid
    BY <1>1 DEF WorkerInv, ReplayInv
  <2>2. ASSUME NEW g \in Generations, lease[g] = "retired"
       PROVE  OnlyFactsOf(g)
    BY <1>1, <2>1, <2>2, PaidStep, StartedStep, OnlyFactsParts
  <2> QED BY <2>2
<1> QED BY <1>1, WorkerInvariant, PTL DEF WorkerSpec, RetiredGainsOnlyFacts

--------------------------------------------------------------------------------
(* The worlds of MCOperationJournal *)

\* A world of the journal that still has to begin, or is over.
LEMMA WorldTyped ==
    ASSUME NEW S, NEW w \in Workspaces, World(S, w) PROVE TypeOK
<1>1. Lives(s3, w) \in AccessRecords /\ \A s : Lives(s, w) \in AccessRecords
  BY RevisionAssumption DEF Lives, AccessRecords
<1>2. Spent \in AccessRecords
  BY RevisionAssumption, WorldsAssumption DEF Spent, AccessRecords
<1>3. access \in [Sessions -> AccessRecords]
  BY <1>1, <1>2 DEF World
<1>4. run \in [Runs -> RunStates \cup {"absent"}] /\ op \in [Ops -> OpStates \cup {"absent"}]
  BY DEF World, RunStates
<1>5. autoAt \in [Ops -> 0..MaxRevision]
  BY RevisionAssumption DEF World
<1> QED BY <1>3, <1>4, <1>5 DEF World, TypeOK

\* So has the database.
LEMMA OwnerWorldTyped ==
    ASSUME NEW record \in Records, NEW born \in 0..MaxGenerations, NEW J, NEW R,
           OwnerWorld(record, born, J, R)
    PROVE  OwnerTypeOK
<1>1. /\ <<>> \in Seq(Requests) /\ 0 \in 0..MaxGenerations /\ Vacant \in Records
      /\ "idle" \in Positions
  BY BoundAssumption, EmptySeq DEF Vacant, Records, Phases, Receipts, NoReceipt, Positions
<1>2. \A s \in {"none", "cancelled"} : [state |-> s, gen |-> 0, rev |-> 0]
          \in [state : RefreshStates, gen : 0..MaxGenerations, rev : Nat]
  BY <1>1 DEF RefreshStates
<1>3. refresh \in [Refreshes -> [state : RefreshStates, gen : 0..MaxGenerations, rev : Nat]]
  BY <1>2 DEF OwnerWorld
<1>4. root \in [Jobs -> {"none", "live", "ended"}]
  BY DEF OwnerWorld
<1>5. at \in [Threads -> Positions] /\ view \in [Controllers -> Records]
  BY <1>1 DEF OwnerWorld
<1>6. cred \in Nat /\ sent \in SUBSET Refreshes /\ accepting \in BOOLEAN
  BY DEF OwnerWorld
<1> QED BY <1>1, <1>3, <1>4, <1>5, <1>6 DEF OwnerWorld, OwnerTypeOK

\* A root that ended before a process was started for it.
LEMMA WorkersOverInv == WorkersAreOver => ReplayInv
<1> SUFFICES ASSUME WorkersAreOver PROVE ReplayInv
  OBVIOUS
<1>1. ThreadTypes
  BY DEF WorkersAreOver, ThreadTypes, NoThread, ExchangeStates, DispatchStates
<1>2. LedgerTypes
  BY WorkerAssumption DEF WorkersAreOver, LedgerTypes, Replies
<1>3. FactTypes
  BY DEF WorkersAreOver, FactTypes, Ended
<1>4. WorkerTypeOK
  BY <1>1, <1>2, <1>3, TypeParts
<1>5. ThreadsOwnClaims
  BY DEF WorkersAreOver, NoThread, ThreadsOwnClaims, ModelThreadsOwnClaims, ToolThreadsOwnClaims
<1>6. UnclaimedIsUntouched /\ NothingIsReplayed
  BY DEF WorkersAreOver, UnclaimedIsUntouched, NothingIsReplayed
<1> QED BY <1>4, <1>5, <1>6 DEF ReplayInv

LEMMA WorldsInit == MCInit => TypeOK /\ OwnerTypeOK /\ ReplayInv
<1> SUFFICES ASSUME MCInit PROVE TypeOK /\ OwnerTypeOK /\ ReplayInv
  OBVIOUS
<1>1. TypeOK
  BY WorldTyped, WorldsAssumption DEF MCInit
<1>2. OwnerTypeOK
  <2>1. Vacant \in Records /\ [Vacant EXCEPT !.rev = MaxOwnerRev - 2] \in Records
    BY BoundAssumption, WorldsAssumption DEF Vacant, Records, Phases, Receipts, NoReceipt
  <2>2. 0 \in 0..MaxGenerations /\ MaxGenerations \in 0..MaxGenerations
    BY BoundAssumption
  <2> QED BY <2>1, <2>2, OwnerWorldTyped DEF MCInit, OwnerIsOver, OwnerBegins
<1>3. ReplayInv
  BY WorkersOverInv, ReplayInvInit DEF MCInit
<1> QED BY <1>1, <1>2, <1>3

LEMMA WorldsStep ==
    [MCNext]_<<journal, revoked, ownerVars, workerVars>> =>
        [Next]_journal /\ [OwnerNext]_ownerVars /\ [WorkerNext]_workerVars
BY DEF MCNext, HistoryNext

\* The journal, the database owner and the workers of a root keep their types, each in
\* its own world.
THEOREM WorldsTyped == MCSpec => []WorldsTypeOK
<1>1. ASSUME TypeOK, OwnerTypeOK, ReplayInv,
             [MCNext]_<<journal, revoked, ownerVars, workerVars>>
      PROVE  TypeOK' /\ OwnerTypeOK' /\ ReplayInv'
  BY <1>1, WorldsStep, NextTypeOK, TypeStep, ReplayInvStep
<1>2. TypeOK /\ OwnerTypeOK /\ ReplayInv => WorldsTypeOK
  BY DEF WorldsTypeOK, ReplayInv
<1> QED BY <1>1, <1>2, WorldsInit, PTL DEF MCSpec

================================================================================
