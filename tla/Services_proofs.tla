----------------------------- MODULE Services_proofs -----------------------------
(***************************************************************************)
(* What AgentService guarantees for any runs, callers and workers, what    *)
(* SessionInbox guarantees for any sessions, prompts and clients, any      *)
(* limit of a queue and any window of the dispatcher's read, and what the  *)
(* two guarantee side by side.                                             *)
(***************************************************************************)
EXTENDS MCServices, FiniteSetTheorems, TLAPS

--------------------------------------------------------------------------------
(* AgentService *)

InHand == {"claimed", "executing", "returned", "unavailable", "failing"}

\* A run in a worker's hands is in phase working, a run that was never submitted is
\* nowhere.
HandsAreWorking ==
    \A r \in Runs : /\ run[r] = "absent" => phase[r] = "none" /\ runner[r] = "none"
                    /\ runner[r] \in InHand => phase[r] = "working"
                    /\ runner[r] = "marked" => phase[r] \in {"faulted", "none"}

\* While an open service has an unfinished run in its table, and a worker that executes
\* one is alone with it: the parts of UnfinishedRunIsOwned.
OpenOwnsRuns ==
    closer = "open" =>
        \A r \in Runs : run[r] \in {"queued", "running", "paused"} => phase[r] # "none"

ExecutingRuns == \A r \in Runs : runner[r] = "executing" => run[r] = "running"

WorkersAlone == \A r \in Runs : runner[r] # "none" => task[r] = "none" /\ r \notin pending

\* A service that is closing takes no more tasks, and no worker has what it sweeps.
ClosingIsFinal ==
    /\ closer \notin {"open", "refused"} => ~accepting
    /\ closer = "sweeping" => \A r \in sweep : runner[r] = "none"

\* TypeOK without the bound of the queue, and the bound.
ServiceTypes ==
    /\ run \in [Runs -> RunStates]
    /\ asking \subseteq DynamicRuns /\ runnable \subseteq DynamicRuns
    /\ phase \in [Runs -> {"none", "queued", "working", "waiting", "faulted"}]
    /\ task \in [Runs -> {"none", "staged", "ready", "taken"}]
    /\ runner \in [Runs -> {"none", "claimed", "executing", "returned", "unavailable",
                            "failing", "marked"}]
    /\ cancelling \subseteq asked /\ asked \subseteq Runs
    /\ stop \subseteq Runs /\ stopDue \subseteq Runs
    /\ sweep \subseteq Runs /\ stopping \subseteq Runs
    /\ caller \in [Callers -> {"idle", "asleep", "notified"}]
    /\ accepting \in BOOLEAN /\ faulted \in BOOLEAN
    /\ closer \in {"open", "sweeping", "notifying", "joining", "closed", "refused"}
    /\ restarts \in 0..MaxRestarts

QueueBounded ==
    /\ pending \subseteq Runs /\ IsFiniteSet(pending)
    /\ Cardinality(pending) <= Capacity

ServiceInv ==
    /\ ServiceTypes /\ QueueBounded
    /\ HandsAreWorking /\ OpenOwnsRuns /\ ExecutingRuns /\ WorkersAlone /\ ClosingIsFinal
    /\ AnswerFollowsPause

--------------------------------------------------------------------------------
\* Taking a job out of the queue, or putting one in that is there or finds room, keeps
\* the bound.
LEMMA QueueRoom ==
    ASSUME QueueBounded, NEW J
    PROVE  /\ pending \ J \subseteq Runs /\ IsFiniteSet(pending \ J)
           /\ Cardinality(pending \ J) <= Capacity
           /\ \A r \in Runs : r \in pending \/ Cardinality(pending) < Capacity =>
                /\ pending \cup {r} \subseteq Runs /\ IsFiniteSet(pending \cup {r})
                /\ Cardinality(pending \cup {r}) <= Capacity
<1>1. pending \subseteq Runs /\ IsFiniteSet(pending) /\ Cardinality(pending) \in Nat
      /\ Cardinality(pending) <= Capacity /\ Capacity \in Nat
  BY FS_CardinalityType, ServiceAssumption DEF QueueBounded
<1>2. IsFiniteSet(pending \ J) /\ Cardinality(pending \ J) \in Nat
      /\ Cardinality(pending \ J) <= Cardinality(pending)
  BY <1>1, FS_Subset, FS_CardinalityType
<1>3. ASSUME NEW r \in Runs, r \in pending \/ Cardinality(pending) < Capacity
     PROVE  IsFiniteSet(pending \cup {r}) /\ Cardinality(pending \cup {r}) <= Capacity
  <2>1. CASE r \in pending
    BY <1>1, <2>1, pending \cup {r} = pending
  <2>2. CASE r \notin pending
    <3>1. IsFiniteSet(pending \cup {r}) /\ Cardinality(pending \cup {r}) = Cardinality(pending) + 1
      BY <1>1, <2>2, FS_AddElement, Zenon
    <3> QED BY <1>1, <1>3, <2>2, <3>1
  <2> QED BY <2>1, <2>2
<1> QED BY <1>1, <1>2, <1>3

\* The functions of the table that the actions share keep its types.
LEMMA TableTypes ==
    ASSUME ServiceTypes, NEW J
    PROVE  /\ Dropped(J) \in [Runs -> {"none", "staged", "ready", "taken"}]
           /\ Notified \in [Callers -> {"idle", "asleep", "notified"}]
           /\ \A p \in {"none", "waiting", "faulted"} :
                Park(J, p) =>
                  /\ phase' \in [Runs -> {"none", "queued", "working", "waiting", "faulted"}]
                  /\ task' \in [Runs -> {"none", "staged", "ready", "taken"}]
           /\ \A r \in Runs :
                Enqueue(r) =>
                  /\ phase' \in [Runs -> {"none", "queued", "working", "waiting", "faulted"}]
                  /\ task' \in [Runs -> {"none", "staged", "ready", "taken"}]
<1>1. Dropped(J) \in [Runs -> {"none", "staged", "ready", "taken"}]
  BY DEF ServiceTypes, Dropped
<1>2. Notified \in [Callers -> {"idle", "asleep", "notified"}]
  BY DEF ServiceTypes, Notified
<1>3. ASSUME NEW p \in {"none", "waiting", "faulted"}, Park(J, p)
     PROVE  phase' \in [Runs -> {"none", "queued", "working", "waiting", "faulted"}]
  BY <1>3 DEF ServiceTypes, Park
<1>4. ASSUME NEW r \in Runs, Enqueue(r)
     PROVE  /\ phase' \in [Runs -> {"none", "queued", "working", "waiting", "faulted"}]
            /\ task' \in [Runs -> {"none", "staged", "ready", "taken"}]
  BY <1>4 DEF ServiceTypes, Enqueue
<1> QED BY <1>1, <1>2, <1>3, <1>4 DEF Park

\* What a fault does to the table.
LEMMA FaultTypes ==
    ASSUME ServiceTypes, NEW reserved, FaultLocked(reserved)
    PROVE  /\ phase' \in [Runs -> {"none", "queued", "working", "waiting", "faulted"}]
           /\ task' \in [Runs -> {"none", "staged", "ready", "taken"}]
           /\ stopDue' \subseteq Runs /\ caller' \in [Callers -> {"idle", "asleep", "notified"}]
           /\ accepting' \in BOOLEAN /\ faulted' \in BOOLEAN
           /\ UNCHANGED <<closer, sweep, stopping, restarts>>
<1> DEFINE kept == {r \in InPhase("queued") \ cancelling : run[r] = "paused"}
<1>1. /\ phase' = [r \in Runs |-> IF r \in kept THEN "waiting" ELSE phase[r]]
      /\ task' = [r \in Runs |-> IF r \in reserved THEN "staged" ELSE Dropped(kept)[r]]
      /\ stopDue' = stopDue \cup Active /\ caller' = Notified
      /\ accepting' = FALSE /\ faulted' = TRUE /\ UNCHANGED <<closer, sweep, stopping, restarts>>
  BY DEF FaultLocked
<1> HIDE DEF kept
<1>2. Dropped(kept) \in [Runs -> {"none", "staged", "ready", "taken"}]
      /\ Notified \in [Callers -> {"idle", "asleep", "notified"}]
  BY TableTypes
<1>3. task' \in [Runs -> {"none", "staged", "ready", "taken"}]
  BY <1>1, <1>2
<1>4. phase' \in [Runs -> {"none", "queued", "working", "waiting", "faulted"}]
  BY <1>1 DEF ServiceTypes
<1>5. stopDue' \subseteq Runs
  BY <1>1 DEF ServiceTypes, Active
<1> QED BY <1>1, <1>2, <1>3, <1>4, <1>5

\* An answer is for a run that no worker has: it parks or wakes that run, or faults the
\* service with the wake reserved.
LEMMA AnswersAreTimely ==
    ASSUME ServiceTypes, NEW c \in Callers, InputNow(c) \/ InputGoesOn(c)
    PROVE  \E r \in Runs : /\ phase[r] \in {"queued", "waiting"} /\ run[r] = "paused"
                           /\ Answer(c, r) \/ AnswerUnobserved(c, r)
<1>1. AnswerTo[c] \in Runs
  BY ServiceAssumption
<1>2. CASE InputNow(c)
  BY <1>1, <1>2 DEF InputNow, MustWait, Answer, AnswerUnobserved, ServiceTypes
<1>3. CASE InputGoesOn(c)
  BY <1>1, <1>3 DEF InputGoesOn, Answer, AnswerUnobserved
<1> QED BY <1>2, <1>3

\* Every step keeps the types.
LEMMA ServiceTypesStep ==
    ASSUME ServiceTypes, [Next]_vars PROVE ServiceTypes'
<1>1. CASE UNCHANGED <<vars>>
  BY <1>1 DEF vars, durable, table, tokens, service, ServiceTypes
<1>2. ASSUME NEW r \in Runs, Submit(r)
     PROVE  ServiceTypes'
  BY <1>2, TableTypes DEF Submit, ServiceTypes, durable, table, tokens, service, RunStates
<1>3. ASSUME NEW r \in Runs, Cancel(r)
     PROVE  ServiceTypes'
  BY <1>3, TableTypes DEF Cancel, ServiceTypes, durable, table, tokens, service, RunStates, Erase
<1>4. ASSUME NEW r \in Runs, StopJob(r)
     PROVE  ServiceTypes'
  BY <1>4, TableTypes DEF StopJob, ServiceTypes, durable, table, tokens, service
<1>5. ASSUME NEW r \in Runs, Resume(r)
     PROVE  ServiceTypes'
  BY <1>5, TableTypes DEF Resume, ServiceTypes, durable, table, tokens, service
<1>6. ASSUME NEW r \in Runs, Take(r)
     PROVE  ServiceTypes'
  BY <1>6 DEF Take, ServiceTypes, durable, table, tokens, service
<1>7. ASSUME NEW r \in Runs, Claim(r)
     PROVE  ServiceTypes'
  BY <1>7 DEF Claim, ServiceTypes, durable, table, tokens, service
<1>8. ASSUME NEW r \in Runs,
         BeginStopped(r) \/ Begin(r) \/ BeginUnavailable(r) \/ RunnerFails(r)
     PROVE  ServiceTypes'
  BY <1>8 DEF BeginStopped, Begin, BeginUnavailable, RunnerFails, ServiceTypes, durable,
       table, tokens, service, RunStates
<1>9. ASSUME NEW r \in Runs, NEW state \in Terminal, End(r, state)
     PROVE  ServiceTypes'
  BY <1>9 DEF End, ServiceTypes, durable, table, tokens, service, RunStates, Terminal
<1>10. ASSUME NEW r \in Runs, Pause(r)
     PROVE  ServiceTypes'
  BY <1>10 DEF Pause, ServiceTypes, durable, table, tokens, service, RunStates
<1>11. ASSUME NEW r \in Runs, SettleTerminal(r)
     PROVE  ServiceTypes'
  BY <1>11, TableTypes DEF SettleTerminal, ServiceTypes, durable, table, tokens, service, Erase
<1>12. ASSUME NEW r \in Runs, SettleCancelled(r)
     PROVE  ServiceTypes'
  BY <1>12, TableTypes DEF SettleCancelled, ServiceTypes, durable, table, tokens, service, Erase, RunStates
<1>13. ASSUME NEW r \in Runs, SettleStopped(r)
     PROVE  ServiceTypes'
  BY <1>13, TableTypes DEF SettleStopped, ServiceTypes, durable, table, tokens, service
<1>14. ASSUME NEW r \in Runs, SettlePaused(r)
     PROVE  ServiceTypes'
  BY <1>14, TableTypes DEF SettlePaused, ServiceTypes, durable, table, tokens, service
<1>15. ASSUME NEW r \in Runs, SettleUnavailable(r)
     PROVE  ServiceTypes'
  BY <1>15, TableTypes DEF SettleUnavailable, ServiceTypes, durable, table, tokens, service
<1>16. ASSUME NEW r \in Runs, MarkFaulted(r)
     PROVE  ServiceTypes'
  BY <1>16, TableTypes DEF MarkFaulted, ServiceTypes, durable, table, tokens, service
<1>17. ASSUME NEW r \in Runs, FailService(r)
     PROVE  ServiceTypes'
  BY <1>17, FaultTypes DEF FailService, ServiceTypes, durable, tokens
<1>18. ASSUME NEW r \in Runs, ExpireWaiting(r)
     PROVE  ServiceTypes'
  BY <1>18, TableTypes DEF ExpireWaiting, ServiceTypes, durable, table, tokens, service, Erase, RunStates
<1>19. ASSUME NEW c \in Callers, InputWaits(c) \/ InputSleepsOn(c) \/ InputFails(c)
     PROVE  ServiceTypes'
  BY <1>19 DEF InputWaits, InputSleepsOn, InputFails, ServiceTypes, durable, table, tokens,
       service
<1>20. ASSUME NEW c \in Callers, InputNow(c) \/ InputGoesOn(c)
     PROVE  ServiceTypes'
  <2>1. PICK r \in Runs : /\ phase[r] \in {"queued", "waiting"} /\ run[r] = "paused"
                          /\ Answer(c, r) \/ AnswerUnobserved(c, r)
    BY <1>20, AnswersAreTimely DEF ServiceInv
  <2>2. CASE Answer(c, r)
    <3>1. asking' \subseteq DynamicRuns /\ runnable' \subseteq DynamicRuns
      BY <2>2 DEF Answer, Answered, ServiceTypes
    <3>2. /\ phase' \in [Runs -> {"none", "queued", "working", "waiting", "faulted"}]
          /\ task' \in [Runs -> {"none", "staged", "ready", "taken"}]
      BY <2>2, TableTypes DEF Answer, ServiceTypes, table
    <3>3. caller' \in [Callers -> {"idle", "asleep", "notified"}]
      BY <2>2, TableTypes DEF Answer
    <3> QED BY <2>2, <3>1, <3>2, <3>3 DEF Answer, ServiceTypes, tokens, service
  <2>3. CASE AnswerUnobserved(c, r)
    <3>1. asking' \subseteq DynamicRuns /\ runnable' \subseteq DynamicRuns
      BY <2>3 DEF AnswerUnobserved, Answered, ServiceTypes
    <3>2. FaultLocked({r} \ pending) /\ UNCHANGED <<run, runner, tokens>>
      BY <2>3 DEF AnswerUnobserved
    <3> QED BY <3>1, <3>2, FaultTypes DEF ServiceTypes, tokens
  <2> QED BY <2>1, <2>2, <2>3
<1>21. CASE ServiceFails
  BY <1>21, FaultTypes DEF ServiceFails, ServiceTypes, durable, tokens
<1>22. CASE CloseAdmission
  BY <1>22, TableTypes DEF CloseAdmission, ServiceTypes, durable, table, tokens, service, InPhase
<1>23. CASE CloseSweep
  BY <1>23, TableTypes DEF CloseSweep, ServiceTypes, durable, table, tokens, service, Erase, RunStates
<1>24. CASE CloseNotify
  BY <1>24, TableTypes DEF CloseNotify, ServiceTypes, durable, table, tokens, service
<1>25. CASE CloseJoin
  BY <1>25 DEF CloseJoin, ServiceTypes, durable, table, tokens, service
<1>26. CASE Restart
  <2>1. PICK kept \in SUBSET {r \in Runs : run[r] = "paused"} :
          LET adopted == IF Cardinality(kept) <= Capacity THEN kept ELSE {} IN
          /\ run' = [r \in Runs |->
                      IF run[r] \in {"queued", "running"} \/ (run[r] = "paused" /\ r \notin kept)
                      THEN "failed" ELSE run[r]]
          /\ asking' = asking \cap kept /\ runnable' = runnable \cap kept
          /\ phase' = [r \in Runs |-> IF r \in adopted THEN "waiting" ELSE "none"]
          /\ closer' = IF adopted = kept THEN "open" ELSE "refused"
    BY <1>26 DEF Restart
  <2>2. run' \in [Runs -> RunStates]
    BY <2>1 DEF ServiceTypes, RunStates
  <2>3. /\ asking' \subseteq DynamicRuns /\ runnable' \subseteq DynamicRuns
        /\ phase' \in [Runs -> {"none", "queued", "working", "waiting", "faulted"}]
        /\ closer' \in {"open", "refused"}
    BY <2>1 DEF ServiceTypes
  <2>4. restarts' \in 0..MaxRestarts
    BY <1>26, ServiceAssumption DEF Restart, ServiceTypes
  <2> QED BY <1>26, <2>2, <2>3, <2>4 DEF Restart, ServiceTypes
<1> QED
  BY <1>1, <1>2, <1>3, <1>4, <1>5, <1>6, <1>7, <1>8, <1>9, <1>10, <1>11, <1>12,
     <1>13, <1>14, <1>15, <1>16, <1>17, <1>18, <1>19, <1>20, <1>21, <1>22, <1>23,
     <1>24, <1>25, <1>26
  DEF Next, Controller, Execute, Settle, Input, Close, vars, durable, table, tokens, service

\* Every step keeps the bound of the queue.
LEMMA QueueStep ==
    ASSUME ServiceTypes, QueueBounded, [Next]_vars PROVE QueueBounded'
<1>1. CASE UNCHANGED <<pending>>
  BY <1>1 DEF vars, durable, table, tokens, service, QueueBounded
<1>2. ASSUME NEW r \in Runs,
         StopJob(r) \/ Take(r) \/ BeginStopped(r) \/ Begin(r) \/ BeginUnavailable(r) \/
         Pause(r) \/ RunnerFails(r)
     PROVE  QueueBounded'
  BY <1>1, <1>2 DEF StopJob, Take, BeginStopped, Begin, BeginUnavailable, Pause, RunnerFails, vars,
       durable, table, tokens, service
<1>3. ASSUME NEW r \in Runs, NEW state \in Terminal, End(r, state)
     PROVE  QueueBounded'
  BY <1>1, <1>3 DEF End, vars, durable, table, tokens, service
<1>4. ASSUME NEW c \in Callers, InputWaits(c) \/ InputSleepsOn(c) \/ InputFails(c)
     PROVE  QueueBounded'
  BY <1>1, <1>4 DEF InputWaits, InputSleepsOn, InputFails, vars, durable, table, tokens, service
<1>5. CASE CloseNotify \/ CloseJoin
  BY <1>1, <1>5 DEF CloseNotify, CloseJoin, vars, durable, table, tokens, service
<1>6. ASSUME NEW r \in Runs, Submit(r) \/ Resume(r) \/ SettlePaused(r)
     PROVE  QueueBounded'
  BY <1>6, QueueRoom DEF Submit, Resume, SettlePaused, Enqueue, Park, QueueBounded
<1>7. ASSUME NEW r \in Runs,
         Claim(r) \/ SettleTerminal(r) \/ SettleCancelled(r) \/ SettleStopped(r) \/
         SettleUnavailable(r) \/ MarkFaulted(r)
     PROVE  QueueBounded'
  BY <1>7, QueueRoom DEF Claim, SettleTerminal, SettleCancelled, SettleStopped, SettleUnavailable,
       MarkFaulted, Erase, Park, QueueBounded
<1>8. ASSUME NEW r \in Runs, Cancel(r)
     PROVE  QueueBounded'
  BY <1>8, QueueRoom DEF Cancel, Erase, Park, table, QueueBounded
<1>9. ASSUME NEW r \in Runs, ExpireWaiting(r)
     PROVE  QueueBounded'
  BY <1>9, QueueRoom DEF ExpireWaiting, Erase, Park, QueueBounded
<1>10. ASSUME NEW r \in Runs, FailService(r)
     PROVE  QueueBounded'
  <2>1. pending' = pending \ {q \in InPhase("queued") \ cancelling : run[q] = "paused"}
    BY <1>10 DEF FailService, FaultLocked
  <2> QED BY <2>1, QueueRoom DEF QueueBounded
<1>11. CASE ServiceFails
  <2>1. pending' = pending \ {q \in InPhase("queued") \ cancelling : run[q] = "paused"}
    BY <1>11 DEF ServiceFails, FaultLocked
  <2> QED BY <2>1, QueueRoom DEF QueueBounded
<1>12. ASSUME NEW c \in Callers, InputNow(c) \/ InputGoesOn(c)
     PROVE  QueueBounded'
  <2>1. PICK r \in Runs : /\ phase[r] \in {"queued", "waiting"} /\ run[r] = "paused"
                          /\ Answer(c, r) \/ AnswerUnobserved(c, r)
    BY <1>12, AnswersAreTimely DEF ServiceInv
  <2>2. CASE Answer(c, r)
    BY <2>2, QueueRoom DEF Answer, Enqueue, Park, table, QueueBounded
  <2>3. CASE AnswerUnobserved(c, r)
    <3> DEFINE kept == {q \in InPhase("queued") \ cancelling : run[q] = "paused"}
    <3>1. pending' = (pending \ kept) \cup ({r} \ pending) /\ (r \in pending \/ Cardinality(pending) < Capacity)
      BY <2>3 DEF AnswerUnobserved, FaultLocked
    <3> HIDE DEF kept
    <3>2. QueueBounded /\ pending' \subseteq pending \cup {r}
      BY <3>1
    <3>3. IsFiniteSet(pending \cup {r}) /\ Cardinality(pending \cup {r}) <= Capacity /\ pending \cup {r} \subseteq Runs
      BY <3>1, QueueRoom
    <3>4. IsFiniteSet(pending') /\ Cardinality(pending') <= Cardinality(pending \cup {r})
          /\ Cardinality(pending') \in Nat /\ Cardinality(pending \cup {r}) \in Nat
      BY <3>2, <3>3, FS_Subset, FS_CardinalityType
    <3> QED BY <3>2, <3>3, <3>4, ServiceAssumption DEF QueueBounded
  <2> QED BY <2>1, <2>2, <2>3
<1>13. CASE CloseAdmission
  BY <1>13, QueueRoom DEF CloseAdmission, Park, QueueBounded
<1>14. CASE CloseSweep
  BY <1>14, QueueRoom DEF CloseSweep, Erase, Park, QueueBounded
<1>15. CASE Restart
  <2>1. pending' = {} /\ IsFiniteSet({}) /\ Cardinality({}) = 0
    BY <1>15, FS_EmptySet DEF Restart
  <2> QED BY <2>1, ServiceAssumption DEF QueueBounded
<1> QED
  BY <1>1, <1>2, <1>3, <1>4, <1>5, <1>6, <1>7, <1>8, <1>9, <1>10, <1>11, <1>12,
     <1>13, <1>14, <1>15
  DEF Next, Controller, Execute, Settle, Input, Close, vars, durable, table, tokens, service

\* What a fault does to the run of a worker, or to one that is not waiting: nothing.
LEMMA FaultRows ==
    ASSUME ServiceTypes, NEW reserved, FaultLocked(reserved), NEW r \in Runs
    PROVE  /\ \/ phase'[r] = phase[r]
              \/ phase[r] = "queued" /\ run[r] = "paused" /\ phase'[r] = "waiting"
           /\ task[r] = "none" /\ r \notin reserved => task'[r] = "none"
           /\ r \notin pending /\ r \notin reserved => r \notin pending'
           /\ ~accepting' /\ UNCHANGED <<closer, sweep>>
<1> DEFINE kept == {q \in InPhase("queued") \ cancelling : run[q] = "paused"}
<1>1. /\ phase' = [q \in Runs |-> IF q \in kept THEN "waiting" ELSE phase[q]]
      /\ task' = [q \in Runs |-> IF q \in reserved THEN "staged" ELSE Dropped(kept)[q]]
      /\ pending' = (pending \ kept) \cup reserved /\ ~accepting' /\ UNCHANGED <<closer, sweep>>
  BY DEF FaultLocked
<1>2. r \in kept => phase[r] = "queued" /\ run[r] = "paused"
  BY DEF InPhase
<1>3. task[r] = "none" => Dropped(kept)[r] = "none"
  BY DEF Dropped
<1> HIDE DEF kept
<1> QED BY <1>1, <1>2, <1>3

\* Every step keeps a run in hand in phase working.
LEMMA HandsStep ==
    ASSUME ServiceTypes, HandsAreWorking, ClosingIsFinal, [Next]_vars PROVE HandsAreWorking'
<1>1. CASE UNCHANGED <<run, phase, runner>>
  BY <1>1 DEF HandsAreWorking, InHand
<1>2. ASSUME NEW r \in Runs, StopJob(r) \/ Take(r)
     PROVE  HandsAreWorking'
  BY <1>1, <1>2 DEF StopJob, Take, vars, durable, table, tokens, service
<1>3. ASSUME NEW c \in Callers, InputWaits(c) \/ InputSleepsOn(c) \/ InputFails(c)
     PROVE  HandsAreWorking'
  BY <1>1, <1>3 DEF InputWaits, InputSleepsOn, InputFails, vars, durable, table, tokens, service
<1>4. CASE CloseNotify \/ CloseJoin
  BY <1>1, <1>4 DEF CloseNotify, CloseJoin, vars, durable, table, tokens, service
<1>5. ASSUME NEW r \in Runs,
         Submit(r) \/ Cancel(r) \/ Resume(r) \/ ExpireWaiting(r) \/ Claim(r)
     PROVE  HandsAreWorking'
  BY <1>5 DEF Submit, Cancel, Resume, ExpireWaiting, Claim, HandsAreWorking, InHand, Enqueue,
       Erase, Park, durable, table, tokens, service, ServiceTypes
<1>6. ASSUME NEW r \in Runs,
         BeginStopped(r) \/ Begin(r) \/ BeginUnavailable(r) \/ Pause(r) \/ RunnerFails(r)
     PROVE  HandsAreWorking'
  BY <1>6 DEF BeginStopped, Begin, BeginUnavailable, Pause, RunnerFails, HandsAreWorking,
       InHand, Enqueue, Erase, Park, durable, table, tokens, service, ServiceTypes
<1>7. ASSUME NEW r \in Runs, NEW state \in Terminal, End(r, state)
     PROVE  HandsAreWorking'
  BY <1>7 DEF End, HandsAreWorking, InHand, Terminal, Enqueue, Erase, Park, durable, table,
       tokens, service, ServiceTypes
<1>8. ASSUME NEW r \in Runs,
         SettleTerminal(r) \/ SettleCancelled(r) \/ SettleStopped(r) \/ SettlePaused(r)
         \/ SettleUnavailable(r) \/ MarkFaulted(r)
     PROVE  HandsAreWorking'
  BY <1>8 DEF SettleTerminal, SettleCancelled, SettleStopped, SettlePaused, SettleUnavailable,
       MarkFaulted, HandsAreWorking, InHand, Enqueue, Erase, Park, durable, table,
       tokens, service, ServiceTypes
<1>9. ASSUME NEW r \in Runs, FailService(r)
     PROVE  HandsAreWorking'
  <2>1. \A q \in Runs : \/ phase'[q] = phase[q]
                        \/ phase[q] = "queued" /\ run[q] = "paused" /\ phase'[q] = "waiting"
    BY <1>9, FaultRows DEF FailService
  <2>2. run' = run /\ runner' = [runner EXCEPT ![r] = "none"]
    BY <1>9 DEF FailService, durable
  <2> QED BY <2>1, <2>2 DEF HandsAreWorking, InHand, ServiceTypes
<1>10. ASSUME NEW c \in Callers, InputNow(c) \/ InputGoesOn(c)
     PROVE  HandsAreWorking'
  <2>1. PICK r \in Runs : /\ phase[r] \in {"queued", "waiting"} /\ run[r] = "paused"
                          /\ Answer(c, r) \/ AnswerUnobserved(c, r)
    BY <1>10, AnswersAreTimely DEF ServiceTypes
  <2>2. CASE Answer(c, r)
    <3>1. UNCHANGED <<run, runner>> /\ \A q \in Runs : q # r => phase'[q] = phase[q]
      BY <2>2 DEF Answer, Enqueue, Park, table, ServiceTypes
    <3>2. runner[r] \notin InHand /\ runner[r] # "marked" /\ run[r] # "absent"
      BY <2>1 DEF HandsAreWorking
    <3> QED BY <3>1, <3>2 DEF HandsAreWorking
  <2>3. CASE AnswerUnobserved(c, r)
    <3>1. UNCHANGED <<run, runner>>
      BY <2>3 DEF AnswerUnobserved
    <3>2. \A q \in Runs : \/ phase'[q] = phase[q]
                          \/ phase[q] = "queued" /\ run[q] = "paused" /\ phase'[q] = "waiting"
      BY <2>3, FaultRows DEF AnswerUnobserved
    <3> QED BY <3>1, <3>2 DEF HandsAreWorking, InHand
  <2> QED BY <2>1, <2>2, <2>3
<1>11. CASE ServiceFails
  <2>1. \A q \in Runs : \/ phase'[q] = phase[q]
                        \/ phase[q] = "queued" /\ run[q] = "paused" /\ phase'[q] = "waiting"
    BY <1>11, FaultRows DEF ServiceFails
  <2>2. UNCHANGED <<run, runner>>
    BY <1>11 DEF ServiceFails, durable
  <2> QED BY <2>1, <2>2 DEF HandsAreWorking, InHand
<1>12. CASE CloseAdmission
  BY <1>12 DEF CloseAdmission, HandsAreWorking, InHand, InPhase, Enqueue, Erase, Park, durable,
       table, tokens, service, ServiceTypes
<1>13. CASE CloseSweep
  <2>1. \A q \in sweep : runner[q] = "none"
    BY <1>13 DEF CloseSweep, ClosingIsFinal
  <2> QED BY <1>13, <2>1 DEF CloseSweep, Erase, Park, HandsAreWorking, InHand, ServiceTypes
<1>14. CASE Restart
  <2>1. \A r \in Runs : /\ run'[r] = "absent" => run[r] = "absent" /\ phase'[r] = "none"
                         /\ runner'[r] = "none"
    BY <1>14, ServiceAssumption DEF Restart, HandsAreWorking, ServiceTypes
  <2>2. \A r \in Runs : runner'[r] = "none"
    BY <1>14 DEF Restart
  <2> QED BY <2>1, <2>2 DEF HandsAreWorking, InHand
<1> QED
  BY <1>1, <1>2, <1>3, <1>4, <1>5, <1>6, <1>7, <1>8, <1>9, <1>10, <1>11, <1>12,
     <1>13, <1>14
  DEF Next, Controller, Execute, Settle, Input, Close, vars, durable, table, tokens, service

\* An open service keeps every unfinished run in its table.
LEMMA OwnsStep ==
    ASSUME ServiceTypes, HandsAreWorking, ClosingIsFinal, OpenOwnsRuns, [Next]_vars
    PROVE  OpenOwnsRuns'
<1>1. CASE UNCHANGED <<run, phase, closer>>
  BY <1>1 DEF OpenOwnsRuns, HandsAreWorking, InHand
<1>2. ASSUME NEW r \in Runs, StopJob(r) \/ Take(r) \/ BeginUnavailable(r) \/ RunnerFails(r)
     PROVE  OpenOwnsRuns'
  BY <1>1, <1>2 DEF StopJob, Take, BeginUnavailable, RunnerFails, vars, durable, table, tokens,
       service
<1>3. ASSUME NEW c \in Callers, InputWaits(c) \/ InputSleepsOn(c) \/ InputFails(c)
     PROVE  OpenOwnsRuns'
  BY <1>1, <1>3 DEF InputWaits, InputSleepsOn, InputFails, vars, durable, table, tokens, service
<1>4. ASSUME NEW r \in Runs,
         Submit(r) \/ Cancel(r) \/ Resume(r) \/ ExpireWaiting(r) \/ Claim(r)
     PROVE  OpenOwnsRuns'
  BY <1>4 DEF Submit, Cancel, Resume, ExpireWaiting, Claim, OpenOwnsRuns, HandsAreWorking,
       InHand, Enqueue, Erase, Park, durable, table, tokens, service, ServiceTypes
<1>5. ASSUME NEW r \in Runs, BeginStopped(r) \/ Begin(r) \/ Pause(r)
     PROVE  OpenOwnsRuns'
  BY <1>5 DEF BeginStopped, Begin, Pause, OpenOwnsRuns, HandsAreWorking, InHand, Enqueue,
       Erase, Park, durable, table, tokens, service, ServiceTypes
<1>6. ASSUME NEW r \in Runs, NEW state \in Terminal, End(r, state)
     PROVE  OpenOwnsRuns'
  BY <1>6 DEF End, OpenOwnsRuns, HandsAreWorking, InHand, Terminal, Enqueue, Erase, Park,
       durable, table, tokens, service, ServiceTypes
<1>7. ASSUME NEW r \in Runs,
         SettleTerminal(r) \/ SettleCancelled(r) \/ SettleStopped(r) \/ SettlePaused(r)
         \/ SettleUnavailable(r) \/ MarkFaulted(r)
     PROVE  OpenOwnsRuns'
  BY <1>7 DEF SettleTerminal, SettleCancelled, SettleStopped, SettlePaused, SettleUnavailable,
       MarkFaulted, OpenOwnsRuns, HandsAreWorking, InHand, Terminal, Enqueue, Erase,
       Park, durable, table, tokens, service, ServiceTypes
<1>8. ASSUME NEW r \in Runs, FailService(r)
     PROVE  OpenOwnsRuns'
  <2>1. UNCHANGED <<run, closer>> /\ \A q \in Runs : phase[q] # "none" => phase'[q] # "none"
    BY <1>8, FaultRows DEF FailService, durable
  <2> QED BY <2>1 DEF OpenOwnsRuns
<1>9. ASSUME NEW c \in Callers, InputNow(c) \/ InputGoesOn(c)
     PROVE  OpenOwnsRuns'
  <2>1. PICK r \in Runs : /\ phase[r] \in {"queued", "waiting"} /\ run[r] = "paused"
                          /\ Answer(c, r) \/ AnswerUnobserved(c, r)
    BY <1>9, AnswersAreTimely DEF ServiceTypes
  <2>2. CASE Answer(c, r)
    <3>1. UNCHANGED <<run, closer>> /\ \A q \in Runs : phase[q] # "none" => phase'[q] # "none"
      BY <2>2 DEF Answer, Enqueue, Park, table, service, ServiceTypes
    <3> QED BY <3>1 DEF OpenOwnsRuns
  <2>3. CASE AnswerUnobserved(c, r)
    <3>1. UNCHANGED <<run, closer>> /\ \A q \in Runs : phase[q] # "none" => phase'[q] # "none"
      BY <2>3, FaultRows DEF AnswerUnobserved
    <3> QED BY <3>1 DEF OpenOwnsRuns
  <2> QED BY <2>1, <2>2, <2>3
<1>10. CASE ServiceFails
  <2>1. UNCHANGED <<run, closer>> /\ \A q \in Runs : phase[q] # "none" => phase'[q] # "none"
    <3>1. FaultLocked({}) /\ UNCHANGED run
      BY <1>10 DEF ServiceFails, durable
    <3>2. UNCHANGED closer
      BY <3>1, FaultTypes
    <3>3. \A q \in Runs : phase[q] # "none" => phase'[q] # "none"
      BY <3>1, FaultRows
    <3> QED BY <3>1, <3>2, <3>3
  <2> QED BY <2>1 DEF OpenOwnsRuns
<1>11. CASE CloseAdmission \/ CloseSweep \/ CloseNotify \/ CloseJoin
  BY <1>11 DEF CloseAdmission, CloseSweep, CloseNotify, CloseJoin, OpenOwnsRuns
<1>12. CASE Restart
  <2>1. closer' = "open" => \A r \in Runs : run'[r] \in {"queued", "running", "paused"} => phase'[r] # "none"
    BY <1>12 DEF Restart, ServiceTypes
  <2> QED BY <2>1 DEF OpenOwnsRuns
<1> QED
  BY <1>1, <1>2, <1>3, <1>4, <1>5, <1>6, <1>7, <1>8, <1>9, <1>10, <1>11, <1>12
  DEF Next, Controller, Execute, Settle, Input, Close, vars, durable, table, tokens, service

\* What an agent executes is running, whatever else happens to it.
LEMMA ExecutingStep ==
    ASSUME ServiceTypes, HandsAreWorking, ClosingIsFinal, ExecutingRuns, [Next]_vars
    PROVE  ExecutingRuns'
<1>1. CASE UNCHANGED <<run, runner>>
  BY <1>1 DEF ExecutingRuns
<1>2. ASSUME NEW r \in Runs, Resume(r) \/ StopJob(r) \/ Take(r)
     PROVE  ExecutingRuns'
  BY <1>1, <1>2 DEF Resume, StopJob, Take, vars, durable, table, tokens, service
<1>3. ASSUME NEW c \in Callers, InputWaits(c) \/ InputSleepsOn(c) \/ InputFails(c)
     PROVE  ExecutingRuns'
  BY <1>1, <1>3 DEF InputWaits, InputSleepsOn, InputFails, vars, durable, table, tokens, service
<1>4. CASE ServiceFails \/ CloseAdmission \/ CloseNotify \/ CloseJoin
  BY <1>1, <1>4 DEF ServiceFails, CloseAdmission, CloseNotify, CloseJoin, vars, durable, table,
       tokens, service
<1>5. ASSUME NEW r \in Runs, Submit(r) \/ Cancel(r) \/ ExpireWaiting(r)
     PROVE  ExecutingRuns'
  BY <1>5 DEF Submit, Cancel, ExpireWaiting, ExecutingRuns, HandsAreWorking, InHand, Enqueue,
       Erase, Park, durable, table, tokens, service, ServiceTypes
<1>6. ASSUME NEW r \in Runs,
         Claim(r) \/ BeginStopped(r) \/ Begin(r) \/ BeginUnavailable(r) \/ Pause(r) \/
         RunnerFails(r)
     PROVE  ExecutingRuns'
  BY <1>6 DEF Claim, BeginStopped, Begin, BeginUnavailable, Pause, RunnerFails, ExecutingRuns,
       Enqueue, Erase, Park, durable, table, tokens, service, ServiceTypes
<1>7. ASSUME NEW r \in Runs, NEW state \in Terminal, End(r, state)
     PROVE  ExecutingRuns'
  BY <1>7 DEF End, ExecutingRuns, Enqueue, Erase, Park, durable, table, tokens, service,
       ServiceTypes
<1>8. ASSUME NEW r \in Runs,
         SettleTerminal(r) \/ SettleCancelled(r) \/ SettleStopped(r) \/ SettlePaused(r)
         \/ SettleUnavailable(r) \/ MarkFaulted(r)
     PROVE  ExecutingRuns'
  BY <1>8 DEF SettleTerminal, SettleCancelled, SettleStopped, SettlePaused, SettleUnavailable,
       MarkFaulted, ExecutingRuns, Enqueue, Erase, Park, durable, table, tokens,
       service, ServiceTypes
<1>9. ASSUME NEW r \in Runs, FailService(r)
     PROVE  ExecutingRuns'
  BY <1>9 DEF FailService, ExecutingRuns, durable, ServiceTypes
<1>10. ASSUME NEW c \in Callers, InputNow(c) \/ InputGoesOn(c)
     PROVE  ExecutingRuns'
  <2>1. PICK r \in Runs : /\ phase[r] \in {"queued", "waiting"} /\ run[r] = "paused"
                          /\ Answer(c, r) \/ AnswerUnobserved(c, r)
    BY <1>10, AnswersAreTimely DEF ServiceTypes
  <2>2. CASE Answer(c, r)
    BY <2>2 DEF Answer, ExecutingRuns
  <2>3. CASE AnswerUnobserved(c, r)
    BY <2>3 DEF AnswerUnobserved, ExecutingRuns
  <2> QED BY <2>1, <2>2, <2>3
<1>11. CASE CloseSweep
  BY <1>11 DEF CloseSweep, ClosingIsFinal, ExecutingRuns, ServiceTypes
<1>12. CASE Restart
  BY <1>12 DEF Restart, ExecutingRuns
<1> QED
  BY <1>1, <1>2, <1>3, <1>4, <1>5, <1>6, <1>7, <1>8, <1>9, <1>10, <1>11, <1>12
  DEF Next, Controller, Execute, Settle, Input, Close, vars, durable, table, tokens, service

\* A run that waits, or has just been paused or submitted, has no worker.
LEMMA NoHand ==
    ASSUME HandsAreWorking, ServiceTypes, NEW r \in Runs,
           phase[r] \in {"queued", "waiting"} \/ run[r] = "absent"
    PROVE  runner[r] = "none"
  BY DEF HandsAreWorking, InHand, ServiceTypes

\* The run of a worker has no task and is in no queue.
LEMMA AloneStep ==
    ASSUME ServiceTypes, HandsAreWorking, ClosingIsFinal, WorkersAlone, [Next]_vars
    PROVE  WorkersAlone'
<1>1. CASE UNCHANGED <<task, pending, runner>>
  BY <1>1 DEF WorkersAlone
<1>2. ASSUME NEW r \in Runs, StopJob(r)
     PROVE  WorkersAlone'
  BY <1>1, <1>2 DEF StopJob, vars, durable, table, tokens, service
<1>3. ASSUME NEW c \in Callers, InputWaits(c) \/ InputSleepsOn(c) \/ InputFails(c)
     PROVE  WorkersAlone'
  BY <1>1, <1>3 DEF InputWaits, InputSleepsOn, InputFails, vars, durable, table, tokens, service
<1>4. CASE CloseNotify \/ CloseJoin
  BY <1>1, <1>4 DEF CloseNotify, CloseJoin, vars, durable, table, tokens, service
<1>5. ASSUME NEW r \in Runs, Submit(r) \/ Resume(r)
     PROVE  WorkersAlone'
  BY <1>5, NoHand DEF Submit, Resume, WorkersAlone, Enqueue, Erase, Park, durable, table, tokens,
       service, ServiceTypes
<1>6. ASSUME NEW r \in Runs, Cancel(r) \/ ExpireWaiting(r)
     PROVE  WorkersAlone'
  BY <1>6 DEF Cancel, ExpireWaiting, WorkersAlone, Dropped, Enqueue, Erase, Park, durable,
       table, tokens, service, ServiceTypes
<1>7. ASSUME NEW r \in Runs, Take(r) \/ Claim(r)
     PROVE  WorkersAlone'
  BY <1>7, NoHand DEF Take, Claim, WorkersAlone, Enqueue, Erase, Park, durable, table, tokens,
       service, ServiceTypes
<1>8. ASSUME NEW r \in Runs,
         BeginStopped(r) \/ Begin(r) \/ BeginUnavailable(r) \/ Pause(r) \/ RunnerFails(r)
     PROVE  WorkersAlone'
  BY <1>8 DEF BeginStopped, Begin, BeginUnavailable, Pause, RunnerFails, WorkersAlone,
       Enqueue, Erase, Park, durable, table, tokens, service, ServiceTypes
<1>9. ASSUME NEW r \in Runs, NEW state \in Terminal, End(r, state)
     PROVE  WorkersAlone'
  BY <1>9 DEF End, WorkersAlone, Enqueue, Erase, Park, durable, table, tokens, service,
       ServiceTypes
<1>10. ASSUME NEW r \in Runs,
         SettleTerminal(r) \/ SettleCancelled(r) \/ SettleStopped(r) \/ SettlePaused(r)
         \/ SettleUnavailable(r) \/ MarkFaulted(r)
     PROVE  WorkersAlone'
  BY <1>10 DEF SettleTerminal, SettleCancelled, SettleStopped, SettlePaused, SettleUnavailable,
       MarkFaulted, WorkersAlone, Dropped, Enqueue, Erase, Park, durable, table,
       tokens, service, ServiceTypes
<1>11. ASSUME NEW r \in Runs, FailService(r)
     PROVE  WorkersAlone'
  <2>1. FaultLocked({}) /\ \A q \in Runs : runner'[q] # "none" => runner[q] # "none"
    BY <1>11 DEF FailService, durable, ServiceTypes
  <2>2. \A q \in Runs : task[q] = "none" /\ q \notin pending
                          => task'[q] = "none" /\ q \notin pending'
    BY <2>1, FaultRows
  <2> QED BY <2>1, <2>2 DEF WorkersAlone
<1>12. ASSUME NEW c \in Callers, InputNow(c) \/ InputGoesOn(c)
     PROVE  WorkersAlone'
  <2>1. PICK r \in Runs : /\ phase[r] \in {"queued", "waiting"} /\ run[r] = "paused"
                          /\ Answer(c, r) \/ AnswerUnobserved(c, r)
    BY <1>12, AnswersAreTimely DEF ServiceTypes
  <2>2. CASE Answer(c, r)
    <3>1. runner[r] = "none" /\ UNCHANGED runner
      BY <2>1, <2>2, NoHand DEF Answer
    <3>2. \A q \in Runs : q # r /\ task[q] = "none" /\ q \notin pending
                            => task'[q] = "none" /\ q \notin pending'
      BY <2>2 DEF Answer, Enqueue, Park, Dropped, table, ServiceTypes
    <3> QED BY <3>1, <3>2 DEF WorkersAlone
  <2>3. CASE AnswerUnobserved(c, r)
    <3>1. runner[r] = "none" /\ UNCHANGED runner /\ FaultLocked({r} \ pending)
      BY <2>1, <2>3, NoHand DEF AnswerUnobserved
    <3>2. \A q \in Runs : q # r /\ task[q] = "none" /\ q \notin pending
                            => task'[q] = "none" /\ q \notin pending'
      BY <3>1, FaultRows
    <3> QED BY <3>1, <3>2 DEF WorkersAlone
  <2> QED BY <2>1, <2>2, <2>3
<1>13. CASE ServiceFails
  <2>1. FaultLocked({}) /\ \A q \in Runs : runner'[q] # "none" => runner[q] # "none"
    BY <1>13 DEF ServiceFails, durable, ServiceTypes
  <2>2. \A q \in Runs : task[q] = "none" /\ q \notin pending
                          => task'[q] = "none" /\ q \notin pending'
    BY <2>1, FaultRows
  <2> QED BY <2>1, <2>2 DEF WorkersAlone
<1>14. CASE CloseAdmission \/ CloseSweep
  BY <1>14 DEF CloseAdmission, CloseSweep, WorkersAlone, Dropped, Enqueue, Erase, Park,
       durable, table, tokens, service, ServiceTypes
<1>15. CASE Restart
  BY <1>15 DEF Restart, WorkersAlone
<1> QED
  BY <1>1, <1>2, <1>3, <1>4, <1>5, <1>6, <1>7, <1>8, <1>9, <1>10, <1>11, <1>12,
     <1>13, <1>14, <1>15
  DEF Next, Controller, Execute, Settle, Input, Close, vars, durable, table, tokens, service

\* A service that closes stays closed and takes nothing up.
LEMMA ClosingStep ==
    ASSUME ServiceTypes, HandsAreWorking, WorkersAlone, ClosingIsFinal, [Next]_vars
    PROVE  ClosingIsFinal'
<1>1. CASE UNCHANGED <<closer, accepting, sweep, runner>>
  BY <1>1 DEF ClosingIsFinal
<1>2. ASSUME NEW r \in Runs,
         Submit(r) \/ Cancel(r) \/ Resume(r) \/ StopJob(r) \/ ExpireWaiting(r) \/ Take(r)
     PROVE  ClosingIsFinal'
  BY <1>1, <1>2 DEF Submit, Cancel, Resume, StopJob, ExpireWaiting, Take, vars, durable, table,
       tokens, service
<1>3. ASSUME NEW c \in Callers, InputWaits(c) \/ InputSleepsOn(c) \/ InputFails(c)
     PROVE  ClosingIsFinal'
  BY <1>1, <1>3 DEF InputWaits, InputSleepsOn, InputFails, vars, durable, table, tokens, service
<1>4. ASSUME NEW r \in Runs,
         Claim(r) \/ BeginStopped(r) \/ Begin(r) \/ BeginUnavailable(r) \/ Pause(r) \/
         RunnerFails(r)
     PROVE  ClosingIsFinal'
  BY <1>4 DEF Claim, BeginStopped, Begin, BeginUnavailable, Pause, RunnerFails,
       ClosingIsFinal, service, ServiceTypes
<1>5. ASSUME NEW r \in Runs, NEW state \in Terminal, End(r, state)
     PROVE  ClosingIsFinal'
  BY <1>5 DEF End, ClosingIsFinal, service, ServiceTypes
<1>6. ASSUME NEW r \in Runs,
         SettleTerminal(r) \/ SettleCancelled(r) \/ SettleStopped(r) \/ SettlePaused(r)
         \/ SettleUnavailable(r) \/ MarkFaulted(r)
     PROVE  ClosingIsFinal'
  BY <1>6 DEF SettleTerminal, SettleCancelled, SettleStopped, SettlePaused, SettleUnavailable,
       MarkFaulted, ClosingIsFinal, service, ServiceTypes
<1>7. ASSUME NEW r \in Runs, FailService(r)
     PROVE  ClosingIsFinal'
  <2>1. FaultLocked({}) /\ UNCHANGED durable
    BY <1>7 DEF FailService
  <2>2. ~accepting' /\ UNCHANGED <<closer, sweep>>
    BY <2>1 DEF FaultLocked
  <2>3. \A q \in Runs : runner[q] = "none" => runner'[q] = "none"
    BY <1>7 DEF FailService, ServiceTypes
  <2> QED BY <2>2, <2>3 DEF ClosingIsFinal, ServiceTypes
<1>8. ASSUME NEW c \in Callers, InputNow(c) \/ InputGoesOn(c)
     PROVE  ClosingIsFinal'
  <2>1. PICK r \in Runs : /\ phase[r] \in {"queued", "waiting"} /\ run[r] = "paused"
                          /\ Answer(c, r) \/ AnswerUnobserved(c, r)
    BY <1>8, AnswersAreTimely DEF ServiceTypes
  <2>2. CASE Answer(c, r)
    BY <2>2 DEF Answer, ClosingIsFinal, service
  <2>3. CASE AnswerUnobserved(c, r)
    BY <2>3 DEF AnswerUnobserved, FaultLocked, ClosingIsFinal
  <2> QED BY <2>1, <2>2, <2>3
<1>9. CASE ServiceFails
  <2>1. FaultLocked({}) /\ UNCHANGED durable
    BY <1>9 DEF ServiceFails
  <2>2. ~accepting' /\ UNCHANGED <<closer, sweep>>
    BY <2>1 DEF FaultLocked
  <2>3. \A q \in Runs : runner[q] = "none" => runner'[q] = "none"
    BY <1>9 DEF ServiceFails, ServiceTypes
  <2> QED BY <2>2, <2>3 DEF ClosingIsFinal, ServiceTypes
<1>10. CASE CloseAdmission
  <2>1. ~accepting' /\ closer' = "sweeping" /\ sweep' = InPhase("queued") /\ UNCHANGED runner
    BY <1>10 DEF CloseAdmission
  <2>2. \A q \in InPhase("queued") : runner[q] = "none"
    BY NoHand DEF InPhase
  <2> QED BY <2>1, <2>2 DEF ClosingIsFinal
<1>11. CASE CloseSweep \/ CloseNotify \/ CloseJoin
  BY <1>11 DEF CloseSweep, CloseNotify, CloseJoin, ClosingIsFinal
<1>12. CASE Restart
  BY <1>12 DEF Restart, ClosingIsFinal
<1> QED
  BY <1>1, <1>2, <1>3, <1>4, <1>5, <1>6, <1>7, <1>8, <1>9, <1>10, <1>11, <1>12
  DEF Next, Controller, Execute, Settle, Input, Close, vars, durable, table, tokens, service

\* A pause that was just committed is still a pause when its worker settles.
LEMMA AnswerStep ==
    ASSUME ServiceTypes, HandsAreWorking, ExecutingRuns, AnswerFollowsPause, [Next]_vars
    PROVE  AnswerFollowsPause'
<1>1. CASE UNCHANGED <<run, runner, stop, runnable>>
  BY <1>1 DEF AnswerFollowsPause
<1>2. ASSUME NEW r \in Runs, Resume(r) \/ Take(r)
     PROVE  AnswerFollowsPause'
  BY <1>1, <1>2 DEF Resume, Take, vars, durable, table, tokens, service
<1>3. ASSUME NEW c \in Callers, InputWaits(c) \/ InputSleepsOn(c) \/ InputFails(c)
     PROVE  AnswerFollowsPause'
  BY <1>1, <1>3 DEF InputWaits, InputSleepsOn, InputFails, vars, durable, table, tokens, service
<1>4. CASE CloseAdmission \/ CloseNotify \/ CloseJoin
  BY <1>1, <1>4 DEF CloseAdmission, CloseNotify, CloseJoin, vars, durable, table, tokens, service
<1>5. ASSUME NEW r \in Runs, Submit(r) \/ Cancel(r)
     PROVE  AnswerFollowsPause'
  BY <1>5 DEF Submit, Cancel, AnswerFollowsPause, HandsAreWorking, InHand, Enqueue, Erase,
       Park, durable, table, tokens, service, ServiceTypes
<1>6. ASSUME NEW r \in Runs, ExpireWaiting(r)
     PROVE  AnswerFollowsPause'
  BY <1>6 DEF ExpireWaiting, AnswerFollowsPause, Enqueue, Erase, Park, durable, table, tokens,
       service, ServiceTypes
<1>7. ASSUME NEW r \in Runs, StopJob(r)
     PROVE  AnswerFollowsPause'
  BY <1>7 DEF StopJob, AnswerFollowsPause, durable, table, service
<1>8. ASSUME NEW r \in Runs,
         Claim(r) \/ BeginStopped(r) \/ Begin(r) \/ BeginUnavailable(r) \/ Pause(r) \/
         RunnerFails(r)
     PROVE  AnswerFollowsPause'
  BY <1>8 DEF Claim, BeginStopped, Begin, BeginUnavailable, Pause, RunnerFails,
       AnswerFollowsPause, Enqueue, Erase, Park, durable, table, tokens, service,
       ServiceTypes
<1>9. ASSUME NEW r \in Runs, NEW state \in Terminal, End(r, state)
     PROVE  AnswerFollowsPause'
  BY <1>9 DEF End, AnswerFollowsPause, Terminal, Enqueue, Erase, Park, durable, table, tokens,
       service, ServiceTypes
<1>10. ASSUME NEW r \in Runs,
         SettleTerminal(r) \/ SettleCancelled(r) \/ SettleStopped(r) \/ SettlePaused(r)
         \/ SettleUnavailable(r) \/ MarkFaulted(r)
     PROVE  AnswerFollowsPause'
  BY <1>10 DEF SettleTerminal, SettleCancelled, SettleStopped, SettlePaused, SettleUnavailable,
       MarkFaulted, AnswerFollowsPause, Enqueue, Erase, Park, durable, table, tokens,
       service, ServiceTypes
<1>11. ASSUME NEW r \in Runs, FailService(r)
     PROVE  AnswerFollowsPause'
  BY <1>11 DEF FailService, AnswerFollowsPause, durable, tokens, ServiceTypes
<1>12. ASSUME NEW c \in Callers, InputNow(c) \/ InputGoesOn(c)
     PROVE  AnswerFollowsPause'
  <2>1. PICK r \in Runs : /\ phase[r] \in {"queued", "waiting"} /\ run[r] = "paused"
                          /\ Answer(c, r) \/ AnswerUnobserved(c, r)
    BY <1>12, AnswersAreTimely DEF ServiceTypes
  <2>2. CASE Answer(c, r)
    <3>1. runner[r] = "none" /\ runnable' \subseteq runnable \cup {r} /\ UNCHANGED <<run, runner, stop>>
      BY <2>1, <2>2, NoHand DEF Answer, Answered, tokens
    <3> QED BY <3>1 DEF AnswerFollowsPause
  <2>3. CASE AnswerUnobserved(c, r)
    <3>1. runner[r] = "none" /\ runnable' \subseteq runnable \cup {r} /\ UNCHANGED <<run, runner, stop>>
      BY <2>1, <2>3, NoHand DEF AnswerUnobserved, Answered, tokens
    <3> QED BY <3>1 DEF AnswerFollowsPause
  <2> QED BY <2>1, <2>2, <2>3
<1>13. CASE ServiceFails
  BY <1>13 DEF ServiceFails, AnswerFollowsPause, durable, tokens
<1>14. CASE CloseSweep
  BY <1>14 DEF CloseSweep, AnswerFollowsPause, tokens, ServiceTypes
<1>15. CASE Restart
  BY <1>15 DEF Restart, AnswerFollowsPause
<1> QED
  BY <1>1, <1>2, <1>3, <1>4, <1>5, <1>6, <1>7, <1>8, <1>9, <1>10, <1>11, <1>12,
     <1>13, <1>14, <1>15
  DEF Next, Controller, Execute, Settle, Input, Close, vars, durable, table, tokens, service

\* One step of OnlyUsersCancelPauses.
OnlyUsersCancel == \A r \in Runs : run[r] = "paused" /\ run'[r] = "cancelled" => r \in asked'

\* A pause ends as cancelled only in the hand of a user's cancellation.
LEMMA CancelStep ==
    ASSUME ServiceTypes, ExecutingRuns, [Next]_vars PROVE OnlyUsersCancel
<1>1. CASE UNCHANGED <<run>>
  BY <1>1 DEF OnlyUsersCancel
<1>2. ASSUME NEW r \in Runs,
         Resume(r) \/ StopJob(r) \/ Take(r) \/ Claim(r) \/ RunnerFails(r) \/
         SettleTerminal(r) \/ SettleStopped(r) \/ SettlePaused(r)
     PROVE  OnlyUsersCancel
  BY <1>1, <1>2 DEF Resume, StopJob, Take, Claim, RunnerFails, SettleTerminal, SettleStopped,
       SettlePaused, vars, durable, table, tokens, service
<1>3. ASSUME NEW r \in Runs, SettleUnavailable(r) \/ MarkFaulted(r)
     PROVE  OnlyUsersCancel
  BY <1>1, <1>3 DEF SettleUnavailable, MarkFaulted, vars, durable, table, tokens, service
<1>4. ASSUME NEW c \in Callers, InputWaits(c) \/ InputSleepsOn(c) \/ InputFails(c)
     PROVE  OnlyUsersCancel
  BY <1>1, <1>4 DEF InputWaits, InputSleepsOn, InputFails, vars, durable, table, tokens, service
<1>5. CASE CloseAdmission \/ CloseNotify \/ CloseJoin
  BY <1>1, <1>5 DEF CloseAdmission, CloseNotify, CloseJoin, vars, durable, table, tokens, service
<1>6. ASSUME NEW r \in Runs,
         Submit(r) \/ Cancel(r) \/ ExpireWaiting(r) \/ BeginStopped(r) \/ Begin(r) \/
         BeginUnavailable(r) \/ Pause(r)
     PROVE  OnlyUsersCancel
  BY <1>6 DEF Submit, Cancel, ExpireWaiting, BeginStopped, Begin, BeginUnavailable, Pause,
       OnlyUsersCancel, durable, tokens, ServiceTypes
<1>7. ASSUME NEW r \in Runs, NEW state \in Terminal, End(r, state)
     PROVE  OnlyUsersCancel
  BY <1>7 DEF End, OnlyUsersCancel, ExecutingRuns, ServiceTypes
<1>8. ASSUME NEW r \in Runs, SettleCancelled(r)
     PROVE  OnlyUsersCancel
  BY <1>8 DEF SettleCancelled, OnlyUsersCancel, tokens, ServiceTypes
<1>9. ASSUME NEW r \in Runs, FailService(r)
     PROVE  OnlyUsersCancel
  BY <1>9 DEF FailService, OnlyUsersCancel, durable
<1>10. ASSUME NEW c \in Callers, InputNow(c) \/ InputGoesOn(c)
     PROVE  OnlyUsersCancel
  <2>1. PICK r \in Runs : /\ phase[r] \in {"queued", "waiting"} /\ run[r] = "paused"
                          /\ Answer(c, r) \/ AnswerUnobserved(c, r)
    BY <1>10, AnswersAreTimely DEF ServiceTypes
  <2>2. CASE Answer(c, r)
    BY <2>2 DEF Answer, OnlyUsersCancel
  <2>3. CASE AnswerUnobserved(c, r)
    BY <2>3 DEF AnswerUnobserved, OnlyUsersCancel
  <2> QED BY <2>1, <2>2, <2>3
<1>11. CASE ServiceFails
  BY <1>11 DEF ServiceFails, OnlyUsersCancel, durable
<1>12. CASE CloseSweep
  BY <1>12 DEF CloseSweep, OnlyUsersCancel, ServiceTypes
<1>13. CASE Restart
  BY <1>13 DEF Restart, OnlyUsersCancel, ServiceTypes
<1> QED
  BY <1>1, <1>2, <1>3, <1>4, <1>5, <1>6, <1>7, <1>8, <1>9, <1>10, <1>11, <1>12, <1>13
  DEF Next, Controller, Execute, Settle, Input, Close, vars, durable, table, tokens, service

\* A service that has just started satisfies the invariant.
LEMMA ServiceInvInit ==
    Init => ServiceInv
<1> SUFFICES ASSUME Init PROVE ServiceInv
  OBVIOUS
<1>1. ServiceTypes
  <2>1. run \in [Runs -> RunStates] /\ caller \in [Callers -> {"idle", "asleep", "notified"}]
    BY DEF Init, RunStates
  <2>2. /\ phase \in [Runs -> {"none", "queued", "working", "waiting", "faulted"}]
        /\ task \in [Runs -> {"none", "staged", "ready", "taken"}]
        /\ runner \in [Runs -> {"none", "claimed", "executing", "returned", "unavailable",
                                "failing", "marked"}]
    BY DEF Init
  <2>3. restarts \in 0..MaxRestarts
    BY ServiceAssumption DEF Init
  <2> QED BY <2>1, <2>2, <2>3 DEF Init, ServiceTypes
<1>2. QueueBounded
  BY FS_EmptySet, ServiceAssumption DEF Init, QueueBounded
<1>3. HandsAreWorking /\ OpenOwnsRuns /\ ExecutingRuns /\ WorkersAlone
  BY DEF Init, HandsAreWorking, OpenOwnsRuns, ExecutingRuns, WorkersAlone, InHand
<1>4. ClosingIsFinal /\ AnswerFollowsPause
  BY DEF Init, ClosingIsFinal, AnswerFollowsPause
<1> QED BY <1>1, <1>2, <1>3, <1>4 DEF ServiceInv

\* Every step keeps it.
LEMMA ServiceInvStep ==
    ASSUME ServiceInv, [Next]_vars PROVE ServiceInv'
<1>1. /\ ServiceTypes /\ QueueBounded /\ HandsAreWorking /\ OpenOwnsRuns /\ ExecutingRuns
      /\ WorkersAlone /\ ClosingIsFinal /\ AnswerFollowsPause
  BY DEF ServiceInv
<1>2. ServiceTypes' /\ QueueBounded'
  BY <1>1, ServiceTypesStep, QueueStep
<1>3. HandsAreWorking' /\ OpenOwnsRuns' /\ ExecutingRuns'
  BY <1>1, HandsStep, OwnsStep, ExecutingStep
<1>4. WorkersAlone' /\ ClosingIsFinal' /\ AnswerFollowsPause'
  BY <1>1, AloneStep, ClosingStep, AnswerStep
<1> QED BY <1>2, <1>3, <1>4 DEF ServiceInv

\* It holds in every behaviour.
THEOREM ServiceInvariant ==
    Spec => []ServiceInv
<1> QED BY ServiceInvInit, ServiceInvStep, PTL DEF Spec

\* Every variable keeps its type, and the queue its limit.
THEOREM ServiceTypeCorrect ==
    Spec => []TypeOK
<1>1. ServiceInv => TypeOK
  BY DEF ServiceInv, ServiceTypes, QueueBounded, TypeOK
<1> QED BY <1>1, ServiceInvariant, PTL

\* An open service has every unfinished run in its table, and nobody interferes with a run
\* that an agent executes.
THEOREM UnfinishedRunsAreOwned ==
    Spec => []UnfinishedRunIsOwned
<1>1. ServiceInv => UnfinishedRunIsOwned
  BY DEF ServiceInv, HandsAreWorking, OpenOwnsRuns, ExecutingRuns, WorkersAlone,
         UnfinishedRunIsOwned, InHand
<1> QED BY <1>1, ServiceInvariant, PTL

\* No answer overtakes the worker whose pause it answers.
THEOREM AnswersFollowPauses ==
    Spec => []AnswerFollowsPause
<1>1. ServiceInv => AnswerFollowsPause
  BY DEF ServiceInv
<1> QED BY <1>1, ServiceInvariant, PTL

\* Only a cancellation that a user asked for ends a pause as cancelled.
THEOREM PausesOutliveTheService ==
    Spec => OnlyUsersCancelPauses
<1>1. ASSUME ServiceInv, [Next]_vars PROVE [OnlyUsersCancel]_vars
  BY <1>1, CancelStep DEF ServiceInv
<1> QED BY <1>1, ServiceInvariant, PTL DEF Spec, OnlyUsersCancelPauses, OnlyUsersCancel

--------------------------------------------------------------------------------
(* SessionInbox *)

\* A session entered since the dispatcher looked is in the map.
EnteredStays == \A s \in bumped : entry[s] # "none"

\* The dispatcher submits a prompt that it read.
PickedIsInput == dispatcher = "submitting" => picked \in Inputs

\* The dispatcher is about to erase a session in which it found nothing.  Since then
\* nothing can be found there, or somebody announces it, or has.
ErasesInVain ==
    dispatcher = "erasing" =>
        \A s \in Inboxes : s = serving =>
            \/ Findable(s) = {} \/ s \in bumped \/ missed
            \/ \E c \in Clients : sender[c] \in InputsOf(s)

InboxInv ==
    /\ InboxTypeOK /\ InputRunsOnce /\ PickedIsInput
    /\ EnteredStays /\ ErasesInVain /\ QueuedInputIsScheduled

--------------------------------------------------------------------------------
(* What the dispatcher can find *)

\* A step that leaves the rows of a session alone leaves what can be found there.
LEMMA SameRows ==
    ASSUME NEW s \in Inboxes,
           \A i \in InputsOf(s) : item'[i] = item[i] /\ rank'[i] = rank[i]
    PROVE  Findable(s)' = Findable(s)
<1>1. InputsOf(s)' = InputsOf(s)
  BY DEF InputsOf
<1>2. Shown(s)' = Shown(s) /\ QueuedIn(s)' = QueuedIn(s)
  BY <1>1 DEF Shown, QueuedIn, InputsOf
<1>3. ASSUME NEW i \in Shown(s)
      PROVE  {j \in Shown(s) : rank'[j] < rank'[i]} = {j \in Shown(s) : rank[j] < rank[i]}
  BY DEF Shown, InputsOf
<1>4. Listed(s)' = Listed(s)
  BY <1>2, <1>3 DEF Listed
<1> QED BY <1>2, <1>4 DEF Findable

\* A claim takes a prompt out of what can be found and adds none: the claimed row keeps
\* its place in the window.
LEMMA ClaimHides ==
    ASSUME InboxTypeOK, NEW i \in Inputs, item[i] = "queued",
           item' = [item EXCEPT ![i] = "claimed"], rank' = rank, NEW s \in Inboxes
    PROVE  Findable(s)' \subseteq Findable(s)
<1>1. \A j \in Inputs : item'[j] = IF j = i THEN "claimed" ELSE item[j]
  BY DEF InboxTypeOK
<1>2. Shown(s)' = Shown(s) /\ QueuedIn(s)' \subseteq QueuedIn(s)
  BY <1>1 DEF Shown, QueuedIn, InputsOf
<1>3. Listed(s)' = Listed(s)
  BY <1>2 DEF Listed
<1> QED BY <1>2, <1>3 DEF Findable

\* A cancellation can move a waiting prompt into the window only from behind another
\* waiting one that was in it: where nothing could be found, nothing can be.
LEMMA CancelReveals ==
    ASSUME InboxAssumption, InboxTypeOK, NEW i \in Inputs, item[i] = "queued",
           item' = [item EXCEPT ![i] = "cancelled"], rank' = rank,
           NEW s \in Inboxes, Findable(s) = {}
    PROVE  Findable(s)' = {}
<1> SUFFICES ASSUME NEW k \in Findable(s)' PROVE FALSE
  OBVIOUS
<1> DEFINE Before(j) == {h \in Shown(s) : rank[h] < rank[j]}
<1>1. \A j \in Inputs : item'[j] = IF j = i THEN "cancelled" ELSE item[j]
  BY DEF InboxTypeOK
<1>2. Shown(s)' = Shown(s) \ {i}
  BY <1>1 DEF Shown, InputsOf
<1>3. /\ k \in Shown(s) /\ k # i /\ k \in QueuedIn(s)
      /\ Cardinality(Before(k) \ {i}) < Window
  <2>1. /\ k \in Shown(s) \ {i} /\ item'[k] = "queued"
        /\ Cardinality({h \in Shown(s) \ {i} : rank[h] < rank[k]}) < Window
    BY <1>2 DEF Findable, Listed, QueuedIn, InputsOf
  <2>2. {h \in Shown(s) \ {i} : rank[h] < rank[k]} = Before(k) \ {i}
    OBVIOUS
  <2> QED BY <1>1, <2>1, <2>2 DEF QueuedIn, Shown, InputsOf
<1>4. IsFiniteSet(Shown(s)) /\ Shown(s) \subseteq Inputs
  BY FS_Subset, InboxAssumption DEF InboxAssumption, Shown, InputsOf
<1>5. \A j \in Inputs : rank[j] \in Nat
  <2>1. Cardinality(Inputs) \in Nat
    BY FS_CardinalityType, InboxAssumption DEF InboxAssumption
  <2> QED BY <2>1 DEF InboxTypeOK
<1>6. i \in Before(k)
  <2>1. SUFFICES ASSUME i \notin Before(k) PROVE FALSE
    OBVIOUS
  <2>2. Before(k) \ {i} = Before(k)
    BY <2>1
  <2> QED BY <1>3, <2>2 DEF Findable, Listed
<1>7. Before(i) \subseteq Before(k) \ {i}
  BY <1>3, <1>4, <1>5, <1>6
<1>8. Cardinality(Before(i)) < Window
  <2>1. IsFiniteSet(Before(k) \ {i})
    BY <1>4, FS_Subset
  <2>2. /\ Cardinality(Before(i)) \in Nat /\ Cardinality(Before(k) \ {i}) \in Nat
        /\ Cardinality(Before(i)) <= Cardinality(Before(k) \ {i})
    BY <1>7, <2>1, FS_Subset, FS_CardinalityType
  <2>3. Window \in Nat
    BY InboxAssumption DEF InboxAssumption
  <2> QED BY <1>3, <2>2, <2>3
<1>9. i \in Findable(s)
  BY <1>6, <1>8 DEF Findable, Listed, QueuedIn, Shown, InputsOf
<1> QED BY <1>9

--------------------------------------------------------------------------------
(* Types, and one run per prompt *)

\* The ranks that a row may get are ranks of the type.
LEMMA RanksFit ==
    ASSUME InboxAssumption, NEW s \in Inboxes
    PROVE  /\ Cardinality(Inputs) \in Nat /\ Cardinality(InputsOf(s)) \in Nat
           /\ Cardinality(InputsOf(s)) <= Cardinality(Inputs)
BY FS_Subset, FS_CardinalityType DEF InboxAssumption, InputsOf

\* A claim makes the first run of its prompt.
LEMMA ClaimTypes ==
    ASSUME InboxAssumption, InboxTypeOK, InputRunsOnce, NEW i \in Inputs, StartsRun(i)
    PROVE  /\ item' \in [Inputs -> {"none", "queued", "claimed", "cancelled"}]
           /\ started' \in [Inputs -> 0..1] /\ rooted' \subseteq Inboxes
           /\ rank' = rank /\ stale' = stale
           /\ InputRunsOnce'
<1>1. started[i] = 0 /\ Home[i] \in Inboxes
  BY DEF InputRunsOnce, StartsRun, InboxAssumption
<1>2. /\ item' \in [Inputs -> {"none", "queued", "claimed", "cancelled"}]
      /\ started' = [started EXCEPT ![i] = 1]
      /\ \A j \in Inputs : item'[j] = IF j = i THEN "claimed" ELSE item[j]
  BY <1>1 DEF StartsRun, InboxTypeOK
<1>3. \A j \in Inputs : started'[j] = IF j = i THEN 1 ELSE started[j]
  BY <1>2 DEF InboxTypeOK
<1>4. started' \in [Inputs -> 0..1]
  BY <1>2 DEF InboxTypeOK
<1>5. InputRunsOnce'
  BY <1>2, <1>3 DEF InputRunsOnce
<1> QED BY <1>1, <1>2, <1>4, <1>5 DEF StartsRun, InboxTypeOK

\* Every step keeps the types.
LEMMA TypeStep ==
    ASSUME InboxAssumption, InboxTypeOK, InputRunsOnce, PickedIsInput, [InboxNext]_inboxVars
    PROVE  InboxTypeOK' /\ PickedIsInput'
<1> USE InboxAssumption
        DEF InboxAssumption, InboxTypeOK, PickedIsInput, rows, map, duty
<1>1. CASE StartDispatcher
  BY <1>1 DEF StartDispatcher
<1>2. CASE ScanEnds \/ ScanFails
  BY <1>2 DEF ScanEnds, ScanFails
<1>3. CASE Collect
  BY <1>3 DEF Collect
<1>4. CASE BatchEnds
  BY <1>4 DEF BatchEnds
<1>5. CASE EraseSession
  BY <1>5 DEF EraseSession
<1>6. CASE SubmitQueued
  <2>1. picked \in Inputs
    BY <1>6 DEF SubmitQueued
  <2> QED BY <1>6, <2>1, ClaimTypes DEF SubmitQueued
<1>7. CASE SubmitRefused \/ SubmitFails
  BY <1>7 DEF SubmitRefused, SubmitFails
<1>8. CASE Defer
  BY <1>8 DEF Defer
<1>9. CASE DispatcherReturns
  BY <1>9 DEF DispatcherReturns
<1>10. ASSUME NEW s \in Inboxes, Scan(s) PROVE InboxTypeOK' /\ PickedIsInput'
  BY <1>10 DEF Scan
<1>11. ASSUME NEW s \in Inboxes, ReadInbox(s) PROVE InboxTypeOK' /\ PickedIsInput'
  <2>1. NextQueued(s) \subseteq Inputs
    BY DEF NextQueued, Findable, QueuedIn, InputsOf
  <2> QED BY <1>11, <2>1 DEF ReadInbox
<1>12. ASSUME NEW s \in Inboxes, PassOver(s) \/ ReadFails(s)
       PROVE  InboxTypeOK' /\ PickedIsInput'
  BY <1>12 DEF PassOver, ReadFails
<1>13. ASSUME NEW c \in Clients, Announce(c) PROVE InboxTypeOK' /\ PickedIsInput'
  <2>1. Home[sender[c]] \in Inboxes
    BY <1>13 DEF Announce
  <2> QED BY <1>13, <2>1 DEF Announce
<1>14. ASSUME NEW c \in Clients, AnnounceFails(c) PROVE InboxTypeOK' /\ PickedIsInput'
  BY <1>14 DEF AnnounceFails
<1>15. ASSUME NEW c \in Clients, NEW i \in Inputs, StoreInput(c, i)
      PROVE  InboxTypeOK' /\ PickedIsInput'
  <2>1. Home[i] \in Inboxes
    OBVIOUS
  <2> QED BY <1>15, <2>1, RanksFit DEF StoreInput
<1>16. ASSUME NEW i \in Inputs, CancelInput(i) PROVE InboxTypeOK' /\ PickedIsInput'
  BY <1>16 DEF CancelInput
<1>17. ASSUME NEW i \in Inputs, ClientDrains(i) PROVE InboxTypeOK' /\ PickedIsInput'
  BY <1>17, ClaimTypes DEF ClientDrains
<1>18. ASSUME NEW s \in Inboxes, StartDirect(s) PROVE InboxTypeOK' /\ PickedIsInput'
  BY <1>18 DEF StartDirect
<1>19. ASSUME NEW s \in Inboxes, RootEnds(s) PROVE InboxTypeOK' /\ PickedIsInput'
  BY <1>19 DEF RootEnds
<1>20. ASSUME NEW s \in Inboxes, Elapse(s) PROVE InboxTypeOK' /\ PickedIsInput'
  BY <1>20 DEF Elapse
<1>21. CASE MembershipChanges
  BY <1>21 DEF MembershipChanges
<1>22. CASE CloseInbox
  BY <1>22 DEF CloseInbox
<1>23. CASE StopDispatcher
  BY <1>23 DEF StopDispatcher
<1>24. CASE NextProcess
  <2>1. /\ entry' \in [Inboxes -> {"none", "later", "due"}]
        /\ sender' \in [Clients -> Inputs \cup {Nothing}]
        /\ rooted' \subseteq Inboxes /\ process' \in 0..InboxLives
    BY <1>24 DEF NextProcess
  <2> QED BY <1>24, <2>1 DEF NextProcess
<1>25. ASSUME NEW c \in Clients, NEW i \in Inputs, SendAgain(c, i)
      PROVE  InboxTypeOK' /\ PickedIsInput'
  BY <1>25 DEF SendAgain
<1>26. CASE UNCHANGED inboxVars
  BY <1>26 DEF inboxVars
<1> QED BY <1>1, <1>2, <1>3, <1>4, <1>5, <1>6, <1>7, <1>8, <1>9, <1>10, <1>11, <1>12,
       <1>13, <1>14, <1>15, <1>16, <1>17, <1>18, <1>19, <1>20, <1>21, <1>22, <1>23,
       <1>24, <1>25, <1>26
       DEF InboxNext, DispatcherStep

\* No step makes a second run for a prompt, or a run for a row that is not claimed by it.
LEMMA RunsOnceStep ==
    ASSUME InboxAssumption, InboxTypeOK, InputRunsOnce, PickedIsInput, [InboxNext]_inboxVars
    PROVE  InputRunsOnce'
<1>1. ASSUME NEW c \in Clients, NEW i \in Inputs, StoreInput(c, i) PROVE InputRunsOnce'
  BY <1>1 DEF InputRunsOnce, InboxTypeOK, StoreInput
<1>2. ASSUME NEW i \in Inputs, CancelInput(i) PROVE InputRunsOnce'
  BY <1>2 DEF InputRunsOnce, InboxTypeOK, CancelInput
<1>3. ASSUME NEW i \in Inputs, ClientDrains(i) PROVE InputRunsOnce'
  BY <1>3, ClaimTypes DEF ClientDrains
<1>4. CASE SubmitQueued
  BY <1>4, ClaimTypes DEF SubmitQueued, PickedIsInput
<1>5. CASE UNCHANGED <<item, started>>
  BY <1>5 DEF InputRunsOnce
<1>6. ASSUME InboxNext
      PROVE  \/ UNCHANGED <<item, started>> \/ SubmitQueued
             \/ \E c \in Clients, i \in Inputs : StoreInput(c, i)
             \/ \E i \in Inputs : CancelInput(i) \/ ClientDrains(i)
  BY <1>6 DEF InboxNext, DispatcherStep, StartDispatcher, ScanEnds, ScanFails, Collect,
       BatchEnds, EraseSession, SubmitRefused, SubmitFails, Defer, DispatcherReturns, Scan,
       ReadInbox, PassOver, ReadFails, SendAgain, Announce, AnnounceFails, StartDirect,
       RootEnds, Elapse, MembershipChanges, CloseInbox, StopDispatcher, NextProcess, rows
<1> QED BY <1>1, <1>2, <1>3, <1>4, <1>5, <1>6 DEF inboxVars, rows

--------------------------------------------------------------------------------
(* No prompt is lost *)

\* Steps that do not touch the rows.
LEMMA RowsKept ==
    ASSUME UNCHANGED <<item, rank>>
    PROVE  \A s \in Inboxes : Findable(s)' = Findable(s)
BY SameRows

\* A step that leaves the map, the dispatcher and the clients alone loses nothing if it
\* brings nothing into view.
LEMMA ScheduleKept ==
    ASSUME EnteredStays, ErasesInVain, QueuedInputIsScheduled,
           UNCHANGED <<entry, bumped, dispatcher, due, serving, sender, missed>>,
           \A s \in Inboxes : Findable(s) = {} => Findable(s)' = {}
    PROVE  EnteredStays' /\ ErasesInVain' /\ QueuedInputIsScheduled'
BY DEF EnteredStays, ErasesInVain, QueuedInputIsScheduled

\* Every step keeps it.
LEMMA ScheduleStep ==
    ASSUME InboxAssumption, InboxInv, [InboxNext]_inboxVars
    PROVE  EnteredStays' /\ ErasesInVain' /\ QueuedInputIsScheduled'
<1> DEFINE Goal == EnteredStays' /\ ErasesInVain' /\ QueuedInputIsScheduled'
<1>0. /\ InboxTypeOK /\ InputRunsOnce /\ PickedIsInput
      /\ EnteredStays /\ ErasesInVain /\ QueuedInputIsScheduled
  BY DEF InboxInv
<1>r. UNCHANGED <<item, rank>> => \A s \in Inboxes : Findable(s)' = Findable(s)
  BY RowsKept
<1> USE DEF rows, map, duty, InboxTypeOK,
            EnteredStays, ErasesInVain, QueuedInputIsScheduled
<1>1. CASE StartDispatcher
  BY <1>1, <1>0, <1>r DEF StartDispatcher
<1>2. CASE ScanEnds \/ ScanFails
  BY <1>2, <1>0, <1>r DEF ScanEnds, ScanFails
<1>3. CASE Collect
  BY <1>3, <1>0, <1>r DEF Collect
<1>4. CASE BatchEnds
  BY <1>4, <1>0, <1>r DEF BatchEnds
<1>5. CASE EraseSession
  BY <1>5, <1>0, <1>r DEF EraseSession
<1>6. CASE SubmitQueued
  <2>1. \A s \in Inboxes : Findable(s)' \subseteq Findable(s)
    BY <1>6, <1>0, ClaimHides DEF SubmitQueued, StartsRun, PickedIsInput
  <2> QED BY <1>6, <1>0, <2>1
          DEF SubmitQueued, map, EnteredStays, ErasesInVain, QueuedInputIsScheduled
<1>7. CASE SubmitRefused \/ SubmitFails
  BY <1>7, <1>0, <1>r DEF SubmitRefused, SubmitFails
<1>8. CASE Defer
  BY <1>8, <1>0, <1>r DEF Defer
<1>9. CASE DispatcherReturns
  BY <1>9, <1>0, <1>r DEF DispatcherReturns
<1>10. ASSUME NEW s \in Inboxes, Scan(s) PROVE Goal
  BY <1>10, <1>0, <1>r DEF Scan
<1>11. ASSUME NEW s \in Inboxes, ReadInbox(s) PROVE Goal
  BY <1>11, <1>0, <1>r DEF ReadInbox
<1>12. ASSUME NEW s \in Inboxes, PassOver(s) \/ ReadFails(s) PROVE Goal
  BY <1>12, <1>0, RowsKept, ScheduleKept DEF PassOver, ReadFails
<1>13. ASSUME NEW c \in Clients, Announce(c) PROVE Goal
  <2> DEFINE h == Home[sender[c]]
  <2>1. \A s \in Inboxes : Findable(s)' = Findable(s)
    BY <1>13, RowsKept DEF Announce, rows
  <2>2. /\ h \in Inboxes /\ bumped' = bumped \cup {h}
        /\ \A s \in Inboxes : IF s = h THEN entry'[s] # "none" ELSE entry'[s] = entry[s]
        /\ \A d \in Clients : d # c => sender'[d] = sender[d]
        /\ UNCHANGED <<dispatcher, due, serving, missed>>
    BY <1>13, <1>0, InboxAssumption DEF Announce, duty, InboxTypeOK, InboxAssumption
  <2>3. \A s \in Inboxes : sender[c] \in InputsOf(s) => s = h
    BY DEF InputsOf
  <2> HIDE DEF h
  <2>4. EnteredStays'
    BY <1>0, <2>2 DEF EnteredStays, InboxTypeOK
  <2>5. ErasesInVain'
    BY <1>0, <2>1, <2>2, <2>3 DEF ErasesInVain
  <2>6. QueuedInputIsScheduled'
    BY <1>0, <2>1, <2>2, <2>3 DEF QueuedInputIsScheduled
  <2> QED BY <2>4, <2>5, <2>6
<1>14. ASSUME NEW c \in Clients, AnnounceFails(c) PROVE Goal
  BY <1>14, <1>0, <1>r DEF AnnounceFails
<1>15. ASSUME NEW c \in Clients, NEW i \in Inputs, StoreInput(c, i) PROVE Goal
  <2>1. ASSUME NEW s \in Inboxes, s # Home[i] PROVE Findable(s)' = Findable(s)
    BY <1>15, <1>0, <2>1, SameRows DEF StoreInput, InboxTypeOK, InputsOf
  <2>2. /\ sender[c] = Nothing /\ sender'[c] = i /\ i \in InputsOf(Home[i])
        /\ \A d \in Clients : d # c => sender'[d] = sender[d]
        /\ UNCHANGED <<entry, bumped, dispatcher, due, serving, missed>>
    BY <1>15, <1>0 DEF StoreInput, Free, InboxTypeOK, InputsOf, map, duty
  <2>3. \A s \in Inboxes : sender[c] \notin InputsOf(s)
    BY <2>2, InboxAssumption DEF InboxAssumption, InputsOf
  <2> QED BY <1>0, <2>1, <2>2, <2>3
          DEF EnteredStays, ErasesInVain, QueuedInputIsScheduled
<1>16. ASSUME NEW i \in Inputs, CancelInput(i) PROVE Goal
  <2>1. \A s \in Inboxes : Findable(s) = {} => Findable(s)' = {}
    BY <1>16, <1>0, CancelReveals DEF CancelInput
  <2> QED BY <1>16, <1>0, <2>1, ScheduleKept DEF CancelInput, map, duty
<1>17. ASSUME NEW i \in Inputs, ClientDrains(i) PROVE Goal
  <2>1. \A s \in Inboxes : Findable(s)' \subseteq Findable(s)
    BY <1>17, <1>0, ClaimHides DEF ClientDrains, StartsRun
  <2> QED BY <1>17, <1>0, <2>1, ScheduleKept DEF ClientDrains, map, duty
<1>18. ASSUME NEW s \in Inboxes, StartDirect(s) PROVE Goal
  BY <1>18, <1>0, RowsKept, ScheduleKept DEF StartDirect, map, duty
<1>19. ASSUME NEW s \in Inboxes, RootEnds(s) PROVE Goal
  BY <1>19, <1>0, RowsKept, ScheduleKept DEF RootEnds, map, duty
<1>20. ASSUME NEW s \in Inboxes, Elapse(s) PROVE Goal
  BY <1>20, <1>0, <1>r DEF Elapse
<1>21. CASE MembershipChanges
  BY <1>21, <1>0, RowsKept, ScheduleKept DEF MembershipChanges, map, duty
<1>22. CASE CloseInbox
  BY <1>22, <1>0, RowsKept, ScheduleKept DEF CloseInbox, map, duty, rows
<1>23. CASE StopDispatcher
  BY <1>23, <1>0, RowsKept, ScheduleKept DEF StopDispatcher, map, duty, rows
<1>24. CASE NextProcess
  BY <1>24, <1>0, <1>r DEF NextProcess
<1>25. ASSUME NEW c \in Clients, NEW i \in Inputs, SendAgain(c, i) PROVE Goal
  <2>1. /\ sender[c] = Nothing
        /\ \A d \in Clients : d # c => sender'[d] = sender[d]
        /\ UNCHANGED <<item, rank, entry, bumped, dispatcher, due, serving, missed>>
    BY <1>25, <1>0 DEF SendAgain, Free
  <2>2. \A s \in Inboxes : sender[c] \notin InputsOf(s)
    BY <2>1, InboxAssumption DEF InboxAssumption, InputsOf
  <2>3. \A s \in Inboxes : Findable(s)' = Findable(s)
    BY <2>1, RowsKept
  <2> QED BY <1>0, <2>1, <2>2, <2>3
          DEF EnteredStays, ErasesInVain, QueuedInputIsScheduled
<1>26. CASE UNCHANGED inboxVars
  BY <1>26, <1>0, RowsKept, ScheduleKept DEF inboxVars, rows, map, duty
<1> QED BY <1>1, <1>2, <1>3, <1>4, <1>5, <1>6, <1>7, <1>8, <1>9, <1>10, <1>11, <1>12,
       <1>13, <1>14, <1>15, <1>16, <1>17, <1>18, <1>19, <1>20, <1>21, <1>22, <1>23,
       <1>24, <1>25, <1>26
       DEF InboxNext, DispatcherStep

--------------------------------------------------------------------------------
\* The invariant holds at the start,
LEMMA InboxInvInit ==
    ASSUME InboxAssumption, InboxInit
    PROVE  InboxInv
<1>1. Cardinality(Inputs) \in Nat
  BY FS_CardinalityType DEF InboxAssumption
<1>2. InboxTypeOK
  <2>1. 0 \in 0..Cardinality(Inputs) /\ 0 \in 0..InboxLives
    BY <1>1, InboxAssumption DEF InboxAssumption
  <2>2. /\ rank \in [Inputs -> 0..Cardinality(Inputs)]
        /\ process \in 0..InboxLives
    BY <2>1 DEF InboxInit
  <2>3. /\ item \in [Inputs -> {"none", "queued", "claimed", "cancelled"}]
        /\ started \in [Inputs -> 0..1]
        /\ entry \in [Inboxes -> {"none", "later", "due"}]
        /\ sender \in [Clients -> Inputs \cup {Nothing}]
    BY DEF InboxInit
  <2> QED BY <2>2, <2>3, Zenon DEF InboxTypeOK, InboxInit
<1>3. InputRunsOnce
  BY DEF InputRunsOnce, InboxInit
<1>4. PickedIsInput /\ EnteredStays /\ ErasesInVain /\ QueuedInputIsScheduled
  BY DEF InboxInit, PickedIsInput, EnteredStays, ErasesInVain, QueuedInputIsScheduled
<1> QED BY <1>2, <1>3, <1>4 DEF InboxInv

\* every step keeps it,
LEMMA InboxInvStep ==
    ASSUME InboxAssumption, InboxInv, [InboxNext]_inboxVars
    PROVE  InboxInv'
BY TypeStep, RunsOnceStep, ScheduleStep DEF InboxInv

\* and so it holds in every behaviour.
THEOREM InboxInvariant ==
    InboxSpec => []InboxInv
<1> QED BY InboxAssumption, InboxInvInit, InboxInvStep, PTL DEF InboxSpec

\* Every variable of the inbox keeps its type.
THEOREM InboxTypeCorrect ==
    InboxSpec => []InboxTypeOK
<1>1. InboxInv => InboxTypeOK
  BY DEF InboxInv
<1> QED BY <1>1, InboxInvariant, PTL

\* A prompt starts at most one run, and as long as no failure was swallowed a session in
\* which the dispatcher would find a prompt is in its map, or about to be.
THEOREM NoInputIsEverLostOrRepeated ==
    InboxSpec => []NoInputIsLostOrRepeated
<1>1. InboxInv => NoInputIsLostOrRepeated
  BY DEF InboxInv, NoInputIsLostOrRepeated
<1> QED BY <1>1, InboxInvariant, PTL

--------------------------------------------------------------------------------
(* Side by side *)

\* Each starts as it does alone, or has ended.
LEMMA BothServicesInit ==
    ServicesInit => ServiceInv /\ InboxInv
<1> SUFFICES ASSUME ServicesInit PROVE ServiceInv /\ InboxInv
  OBVIOUS
<1>1. ASSUME ServiceIsOver PROVE ServiceInv
  <2>1. ServiceTypes
    <3>1. MaxRestarts \in 0..MaxRestarts
      BY ServiceAssumption
    <3>2. restarts \in 0..MaxRestarts
      BY <1>1, <3>1 DEF ServiceIsOver
    <3> QED BY <1>1, <3>2 DEF ServiceIsOver, ServiceTypes, RunStates
  <2>2. QueueBounded
    BY <1>1, FS_EmptySet, ServiceAssumption DEF ServiceIsOver, QueueBounded
  <2>3. /\ HandsAreWorking /\ OpenOwnsRuns /\ ExecutingRuns /\ WorkersAlone
        /\ ClosingIsFinal /\ AnswerFollowsPause
    BY <1>1 DEF ServiceIsOver, HandsAreWorking, OpenOwnsRuns, ExecutingRuns, WorkersAlone,
                InHand, ClosingIsFinal, AnswerFollowsPause
  <2> QED BY <2>1, <2>2, <2>3 DEF ServiceInv
<1>2. ASSUME InboxIsOver PROVE InboxInv
  <2>1. Cardinality(Inputs) \in Nat
    BY FS_CardinalityType, InboxAssumption DEF InboxAssumption
  <2>2. InboxTypeOK
    <3>1. 0 \in 0..Cardinality(Inputs) /\ InboxLives \in 0..InboxLives
      BY <2>1, InboxAssumption
    <3>2. /\ rank \in [Inputs -> 0..Cardinality(Inputs)]
          /\ process \in 0..InboxLives
      BY <1>2, <3>1 DEF InboxIsOver
    <3>3. /\ item \in [Inputs -> {"none", "queued", "claimed", "cancelled"}]
          /\ started \in [Inputs -> 0..1]
          /\ entry \in [Inboxes -> {"none", "later", "due"}]
          /\ sender \in [Clients -> Inputs \cup {Nothing}]
      BY <1>2 DEF InboxIsOver
    <3> QED BY <1>2, <3>2, <3>3, Zenon DEF InboxTypeOK, InboxIsOver
  <2>3. InputRunsOnce
    BY <1>2 DEF InputRunsOnce, InboxIsOver
  <2>4. PickedIsInput /\ EnteredStays /\ ErasesInVain /\ QueuedInputIsScheduled
    BY <1>2 DEF InboxIsOver, PickedIsInput, EnteredStays, ErasesInVain, QueuedInputIsScheduled
  <2> QED BY <2>2, <2>3, <2>4 DEF InboxInv
<1> QED BY <1>1, <1>2, ServiceInvInit, InboxInvInit, InboxAssumption DEF ServicesInit

\* A step is a step of one of them, and the other rests.
LEMMA BothServicesStep ==
    ServiceInv /\ InboxInv /\ [ServicesNext]_<<vars, inboxVars>> => ServiceInv' /\ InboxInv'
<1> SUFFICES ASSUME ServiceInv, InboxInv, [ServicesNext]_<<vars, inboxVars>>
             PROVE  ServiceInv' /\ InboxInv'
  OBVIOUS
<1>1. [Next]_vars /\ [InboxNext]_inboxVars
  BY DEF ServicesNext
<1> QED BY <1>1, ServiceInvStep, InboxInvStep, InboxAssumption

THEOREM ServicesInvariant == ServicesSpec => [](ServiceInv /\ InboxInv)
BY BothServicesInit, BothServicesStep, PTL DEF ServicesSpec

\* The service and the inboxes in front of it keep their types, and the queue its limit.
THEOREM ServicesTyped == ServicesSpec => []ServicesTypeOK
<1>1. ServiceInv /\ InboxInv => ServicesTypeOK
  BY DEF ServiceInv, ServiceTypes, QueueBounded, TypeOK, InboxInv, ServicesTypeOK
<1> QED BY <1>1, ServicesInvariant, PTL

================================================================================
