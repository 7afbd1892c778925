------------------------------ MODULE Pools_proofs ------------------------------
(***************************************************************************)
(* What the two thread pools guarantee for any jobs, workers, limits and   *)
(* nesting of plans, and that both implement WorkLedger: RootWorkExecutor  *)
(* first, then NativeChildExecutor, and either as MCPools joins them.      *)
(***************************************************************************)
EXTENDS MCPools, WorkQueues_proofs

--------------------------------------------------------------------------------
(* RootWorkExecutor: the inductive invariant *)

\* The queue holds each job that waits, once.
QueueHoldsWaiting ==
    /\ IsInjective(queue)
    /\ Range(queue) = {j \in Jobs : phase[j] \in {"staged", "ready"}}

\* A worker has a job exactly while it acts or publishes, and nobody else has it.
WorkersHoldJobs ==
    \A w \in Workers :
        /\ worker[w] \in {"acting", "publishing"} <=> job[w] # NoJob
        /\ worker[w] = "acting" => phase[job[w]] = "running"
        /\ worker[w] = "publishing" => phase[job[w]] = "retired" /\ result[job[w]] = "pending"
        /\ \A v \in Workers : job[v] = job[w] /\ job[w] # NoJob => v = w

\* A job that was started and has no result yet is in a worker's hands.
StartedJobsAreHeld ==
    \A j \in Jobs :
        /\ phase[j] = "running" => \E w \in Workers : worker[w] = "acting" /\ job[w] = j
        /\ phase[j] = "retired" /\ result[j] = "pending"
             => \E w \in Workers : worker[w] = "publishing" /\ job[w] = j

TicketsAreTaken == \A j \in Jobs : ticket[j] = "none" <=> phase[j] = "new"

\* close() stops admission, then asks the jobs to stop, then joins; a worker
\* returns only when nothing can come any more.
ClosingIsOrdered ==
    /\ accepting <=> closer = "open"
    /\ ~accepting => \A j \in Jobs : phase[j] # "staged"
    /\ \A w \in Workers : worker[w] = "exited" => NothingLeft
    /\ closer = "closed" => \A w \in Workers : worker[w] = "exited"
    /\ closer \in {"joining", "closed"} =>
         \A j \in Jobs : phase[j] \in {"ready", "running"} => j \in stopped

RootWorkInv ==
    /\ TypeOK /\ QueueHoldsWaiting /\ WorkersHoldJobs /\ StartedJobsAreHeld
    /\ TicketsAreTaken /\ ClosingIsOrdered /\ WorkIsOverOnce

--------------------------------------------------------------------------------
(* RootWorkExecutor: every step keeps it *)

\* Only a job that waits is in the queue, and the head of the queue is one.
LEMMA HeadWaits ==
    ASSUME TypeOK, QueueHoldsWaiting, queue # <<>>
    PROVE  /\ Head(queue) \in Jobs /\ Head(queue) \in Range(queue)
           /\ phase[Head(queue)] \in {"staged", "ready"}
BY TailMembers DEF TypeOK, QueueHoldsWaiting

\* The queue stays a sequence of jobs within its capacity.
LEMMA QueueType ==
    ASSUME TypeOK, [Next]_vars
    PROVE  queue' \in Seq(Jobs) /\ Len(queue') <= Capacity
<1> USE DEF TypeOK
<1>q. queue \in Seq(Jobs) /\ Len(queue) \in Nat /\ Len(queue) <= Capacity /\ Capacity \in Nat
  BY CapacityAssumption, LenProperties
<1>w. \A J : /\ Without(queue, J) \in Seq(Jobs) /\ Len(Without(queue, J)) \in Nat
             /\ Len(Without(queue, J)) <= Len(queue)
  BY <1>q, WithoutMembers
<1>v. \A J : Len(Without(queue, J)) <= Capacity
  BY <1>q, <1>w
<1>1. ASSUME NEW j \in Jobs, Stage(j)
      PROVE  (queue' \in Seq(Jobs) /\ Len(queue') <= Capacity)
  BY <1>1, <1>q, AppendMembers DEF Stage
<1>2. ASSUME NEW j \in Jobs, StageRefused(j)
      PROVE  (queue' \in Seq(Jobs) /\ Len(queue') <= Capacity)
  BY <1>2, <1>w, <1>v DEF StageRefused, Withdraw
<1>3. ASSUME NEW j \in Jobs, Commit(j)
      PROVE  (queue' \in Seq(Jobs) /\ Len(queue') <= Capacity)
  BY <1>3, <1>q DEF Commit, Notified
<1>4. ASSUME NEW j \in Jobs, Detach(j)
      PROVE  (queue' \in Seq(Jobs) /\ Len(queue') <= Capacity)
  BY <1>4, <1>q DEF Detach
<1>5. ASSUME NEW j \in Jobs, RequestStop(j)
      PROVE  (queue' \in Seq(Jobs) /\ Len(queue') <= Capacity)
  BY <1>5, <1>q DEF RequestStop
<1>6. ASSUME NEW j \in Jobs, DestroyTicket(j)
      PROVE  (queue' \in Seq(Jobs) /\ Len(queue') <= Capacity)
  BY <1>6, <1>q, <1>w, <1>v DEF DestroyTicket, Withdraw
<1>7. ASSUME NEW j \in Jobs, Drained(j)
      PROVE  (queue' \in Seq(Jobs) /\ Len(queue') <= Capacity)
  BY <1>7, <1>q DEF Drained
<1>8. ASSUME NEW w \in Workers, Take(w)
      PROVE  (queue' \in Seq(Jobs) /\ Len(queue') <= Capacity)
  BY <1>8, <1>q, TailMembers DEF Take, HeadReady
<1>9. ASSUME NEW w \in Workers, Retire(w)
      PROVE  (queue' \in Seq(Jobs) /\ Len(queue') <= Capacity)
  BY <1>9, <1>q DEF Retire
<1>10. ASSUME NEW w \in Workers, Publish(w)
      PROVE  (queue' \in Seq(Jobs) /\ Len(queue') <= Capacity)
  BY <1>10, <1>q DEF Publish, Notified
<1>11. ASSUME NEW w \in Workers, Exit(w)
      PROVE  (queue' \in Seq(Jobs) /\ Len(queue') <= Capacity)
  BY <1>11, <1>q DEF Exit, NothingLeft
<1>12. ASSUME NEW w \in Workers, Sleep(w)
      PROVE  (queue' \in Seq(Jobs) /\ Len(queue') <= Capacity)
  BY <1>12, <1>q DEF Sleep, NothingLeft
<1>13. CASE CloseAdmission
  BY <1>13, <1>w, <1>v DEF CloseAdmission, Withdraw
<1>14. CASE CloseStop
  BY <1>14, <1>q DEF CloseStop, Notified
<1>15. CASE CloseJoin
  BY <1>15, <1>q DEF CloseJoin
<1>16. CASE UNCHANGED vars
  BY <1>16 DEF vars
<1> QED BY <1>1, <1>2, <1>3, <1>4, <1>5, <1>6, <1>7, <1>8, <1>9, <1>10, <1>11, <1>12,
       <1>13, <1>14, <1>15, <1>16
       DEF Next, WorkerStep

LEMMA RootWorkTypeStep ==
    ASSUME TypeOK, QueueHoldsWaiting, WorkersHoldJobs, [Next]_vars
    PROVE  TypeOK'
<1> USE DEF TypeOK, TicketStates
<1>q. queue' \in Seq(Jobs) /\ Len(queue') <= Capacity
  BY QueueType
<1>1. ASSUME NEW j \in Jobs, Stage(j) PROVE TypeOK'
  BY <1>1, <1>q DEF Stage
<1>2. ASSUME NEW j \in Jobs, StageRefused(j) PROVE TypeOK'
  BY <1>2, <1>q DEF StageRefused, Withdraw, Notified
<1>3. ASSUME NEW j \in Jobs, Commit(j) PROVE TypeOK'
  BY <1>3, <1>q DEF Commit, Notified
<1>4. ASSUME NEW j \in Jobs, Detach(j) PROVE TypeOK'
  BY <1>4, <1>q DEF Detach
<1>5. ASSUME NEW j \in Jobs, RequestStop(j) PROVE TypeOK'
  BY <1>5, <1>q DEF RequestStop
<1>6. ASSUME NEW j \in Jobs, DestroyTicket(j) PROVE TypeOK'
  BY <1>6, <1>q DEF DestroyTicket, Withdrawable, Withdraw, Notified
<1>7. ASSUME NEW j \in Jobs, Drained(j) PROVE TypeOK'
  BY <1>7, <1>q DEF Drained
<1>8. ASSUME NEW w \in Workers, Take(w) PROVE TypeOK'
  BY <1>8, <1>q, HeadWaits DEF Take, HeadReady
<1>9. ASSUME NEW w \in Workers, Retire(w) PROVE TypeOK'
  <2>1. job[w] \in Jobs
    BY <1>9, NoJobAssumption DEF Retire, WorkersHoldJobs
  <2> QED BY <1>9, <1>q, <2>1 DEF Retire
<1>10. ASSUME NEW w \in Workers, Publish(w) PROVE TypeOK'
  <2>1. job[w] \in Jobs
    BY <1>10, NoJobAssumption DEF Publish, WorkersHoldJobs
  <2> QED BY <1>10, <1>q, <2>1 DEF Publish, Notified
<1>11. ASSUME NEW w \in Workers, Exit(w) PROVE TypeOK'
  BY <1>11, <1>q DEF Exit, NothingLeft
<1>12. ASSUME NEW w \in Workers, Sleep(w) PROVE TypeOK'
  BY <1>12, <1>q DEF Sleep, NothingLeft
<1>13. CASE CloseAdmission
  BY <1>13, <1>q DEF CloseAdmission, Withdraw
<1>14. CASE CloseStop
  BY <1>14, <1>q DEF CloseStop, Notified
<1>15. CASE CloseJoin
  BY <1>15, <1>q DEF CloseJoin
<1>16. CASE UNCHANGED vars
  BY <1>16 DEF vars
<1> QED BY <1>1, <1>2, <1>3, <1>4, <1>5, <1>6, <1>7, <1>8, <1>9, <1>10, <1>11, <1>12,
       <1>13, <1>14, <1>15, <1>16
       DEF Next, WorkerStep

LEMMA QueueStep ==
    ASSUME TypeOK, QueueHoldsWaiting, WorkersHoldJobs, TicketsAreTaken, [Next]_vars
    PROVE  QueueHoldsWaiting'
<1> USE DEF TypeOK, QueueHoldsWaiting
<1>q. queue \in Seq(Jobs) /\ Range(queue) \subseteq Jobs
  BY Members
<1>w. \A J : /\ Range(Without(queue, J)) = Range(queue) \ J
             /\ IsInjective(queue) => IsInjective(Without(queue, J))
  BY <1>q, WithoutMembers
<1>h. \A w \in Workers : job[w] \in Jobs => phase[job[w]] \notin {"staged", "ready"}
  BY NoJobAssumption DEF WorkersHoldJobs
<1>1. ASSUME NEW j \in Jobs, Stage(j) PROVE QueueHoldsWaiting'
  <2>1. /\ Range(Append(queue, j)) = Range(queue) \cup {j}
        /\ IsInjective(Append(queue, j))
    <3>1. j \notin Range(queue)
      BY <1>1 DEF Stage
    <3> QED BY <1>q, <3>1, AppendMembers
  <2> QED BY <1>1, <2>1 DEF Stage
<1>2. ASSUME NEW j \in Jobs, StageRefused(j) PROVE QueueHoldsWaiting'
  BY <1>2, <1>w DEF StageRefused, Withdraw
<1>3. ASSUME NEW j \in Jobs, Commit(j) PROVE QueueHoldsWaiting'
  BY <1>3 DEF Commit
<1>4. ASSUME NEW j \in Jobs, Detach(j) PROVE QueueHoldsWaiting'
  BY <1>4 DEF Detach
<1>5. ASSUME NEW j \in Jobs, RequestStop(j) PROVE QueueHoldsWaiting'
  BY <1>5 DEF RequestStop
<1>6. ASSUME NEW j \in Jobs, DestroyTicket(j) PROVE QueueHoldsWaiting'
  BY <1>6, <1>w DEF DestroyTicket, Withdraw
<1>7. ASSUME NEW j \in Jobs, Drained(j) PROVE QueueHoldsWaiting'
  BY <1>7 DEF Drained
<1>8. ASSUME NEW w \in Workers, Take(w) PROVE QueueHoldsWaiting'
  <2>1. /\ Range(queue) = Range(Tail(queue)) \cup {Head(queue)}
        /\ IsInjective(Tail(queue)) /\ Head(queue) \notin Range(Tail(queue))
    BY <1>8, <1>q, TailMembers DEF Take, HeadReady
  <2> QED BY <1>8, <2>1, HeadWaits DEF Take, HeadReady
<1>9. ASSUME NEW w \in Workers, Retire(w) PROVE QueueHoldsWaiting'
  BY <1>9, NoJobAssumption DEF Retire, WorkersHoldJobs
<1>10. ASSUME NEW w \in Workers, Publish(w) PROVE QueueHoldsWaiting'
  BY <1>10 DEF Publish, Notified
<1>11. ASSUME NEW w \in Workers, Exit(w) PROVE QueueHoldsWaiting'
  BY <1>11 DEF Exit, NothingLeft
<1>12. ASSUME NEW w \in Workers, Sleep(w) PROVE QueueHoldsWaiting'
  BY <1>12 DEF Sleep, NothingLeft
<1>13. CASE CloseAdmission
  BY <1>13, <1>w DEF CloseAdmission, Withdraw
<1>14. CASE CloseStop
  BY <1>14 DEF CloseStop, Notified
<1>15. CASE CloseJoin
  BY <1>15 DEF CloseJoin
<1>16. CASE UNCHANGED vars
  BY <1>16 DEF vars
<1> QED BY <1>1, <1>2, <1>3, <1>4, <1>5, <1>6, <1>7, <1>8, <1>9, <1>10, <1>11, <1>12,
       <1>13, <1>14, <1>15, <1>16
       DEF Next, WorkerStep

LEMMA WorkersStep ==
    ASSUME TypeOK, QueueHoldsWaiting, WorkersHoldJobs, TicketsAreTaken, WorkIsOverOnce,
           [Next]_vars
    PROVE  WorkersHoldJobs'
<1> USE NoJobAssumption DEF TypeOK, WorkersHoldJobs
<1>h. \A w \in Workers : job[w] # NoJob => phase[job[w]] \in {"running", "retired"}
  OBVIOUS
<1>1. ASSUME NEW j \in Jobs, Stage(j) PROVE WorkersHoldJobs'
  BY <1>1, <1>h DEF Stage
<1>2. ASSUME NEW j \in Jobs, StageRefused(j) PROVE WorkersHoldJobs'
  BY <1>2, <1>h DEF StageRefused, Withdraw, Notified
<1>3. ASSUME NEW j \in Jobs, Commit(j) PROVE WorkersHoldJobs'
  BY <1>3, <1>h DEF Commit, Notified
<1>4. ASSUME NEW j \in Jobs, Detach(j) PROVE WorkersHoldJobs'
  BY <1>4 DEF Detach
<1>5. ASSUME NEW j \in Jobs, RequestStop(j) PROVE WorkersHoldJobs'
  BY <1>5 DEF RequestStop
<1>6. ASSUME NEW j \in Jobs, DestroyTicket(j) PROVE WorkersHoldJobs'
  BY <1>6, <1>h DEF DestroyTicket, Withdrawable, Withdraw, Notified
<1>7. ASSUME NEW j \in Jobs, Drained(j) PROVE WorkersHoldJobs'
  BY <1>7 DEF Drained
<1>8. ASSUME NEW w \in Workers, Take(w) PROVE WorkersHoldJobs'
  BY <1>8, <1>h, HeadWaits DEF Take, HeadReady
<1>9. ASSUME NEW w \in Workers, Retire(w) PROVE WorkersHoldJobs'
  <2>1. job[w] \in Jobs /\ phase[job[w]] = "running" /\ result[job[w]] = "pending"
    BY <1>9 DEF Retire, WorkIsOverOnce, ResultIsFinal
  <2>2. /\ phase'[job[w]] = "retired" /\ worker'[w] = "publishing" /\ job' = job
        /\ \A v \in Workers : v # w => worker'[v] = worker[v] /\ job[v] # job[w]
        /\ \A k \in Jobs : k # job[w] => phase'[k] = phase[k]
    BY <1>9, <2>1 DEF Retire
  <2>3. ASSUME NEW v \in Workers, v # w
        PROVE  /\ worker'[v] \in {"acting", "publishing"} <=> job'[v] # NoJob
               /\ worker'[v] = "acting" => phase'[job'[v]] = "running"
               /\ worker'[v] = "publishing"
                    => phase'[job'[v]] = "retired" /\ result[job'[v]] = "pending"
    BY <2>2, <2>3
  <2> QED BY <1>9, <2>1, <2>2, <2>3 DEF Retire
<1>10. ASSUME NEW w \in Workers, Publish(w) PROVE WorkersHoldJobs'
  BY <1>10 DEF Publish, Notified
<1>11. ASSUME NEW w \in Workers, Exit(w) PROVE WorkersHoldJobs'
  BY <1>11 DEF Exit, NothingLeft
<1>12. ASSUME NEW w \in Workers, Sleep(w) PROVE WorkersHoldJobs'
  BY <1>12 DEF Sleep, NothingLeft
<1>13. CASE CloseAdmission
  BY <1>13, <1>h DEF CloseAdmission, Withdraw
<1>14. CASE CloseStop
  BY <1>14 DEF CloseStop, Notified
<1>15. CASE CloseJoin
  BY <1>15 DEF CloseJoin
<1>16. CASE UNCHANGED vars
  BY <1>16 DEF vars
<1> QED BY <1>1, <1>2, <1>3, <1>4, <1>5, <1>6, <1>7, <1>8, <1>9, <1>10, <1>11, <1>12,
       <1>13, <1>14, <1>15, <1>16
       DEF Next, WorkerStep

LEMMA StartedStep ==
    ASSUME TypeOK, QueueHoldsWaiting, WorkersHoldJobs, StartedJobsAreHeld, TicketsAreTaken,
           [Next]_vars
    PROVE  StartedJobsAreHeld'
<1> USE NoJobAssumption DEF TypeOK, StartedJobsAreHeld
<1>1. ASSUME NEW j \in Jobs, Stage(j) PROVE StartedJobsAreHeld'
  BY <1>1 DEF Stage
<1>2. ASSUME NEW j \in Jobs, StageRefused(j) PROVE StartedJobsAreHeld'
  BY <1>2 DEF StageRefused, Withdraw, Notified
<1>3. ASSUME NEW j \in Jobs, Commit(j) PROVE StartedJobsAreHeld'
  BY <1>3 DEF Commit, Notified
<1>4. ASSUME NEW j \in Jobs, Detach(j) PROVE StartedJobsAreHeld'
  BY <1>4 DEF Detach
<1>5. ASSUME NEW j \in Jobs, RequestStop(j) PROVE StartedJobsAreHeld'
  BY <1>5 DEF RequestStop
<1>6. ASSUME NEW j \in Jobs, DestroyTicket(j) PROVE StartedJobsAreHeld'
  BY <1>6 DEF DestroyTicket, Withdrawable, Withdraw, Notified
<1>7. ASSUME NEW j \in Jobs, Drained(j) PROVE StartedJobsAreHeld'
  BY <1>7 DEF Drained
<1>8. ASSUME NEW w \in Workers, Take(w) PROVE StartedJobsAreHeld'
  BY <1>8, HeadWaits DEF Take, HeadReady, WorkersHoldJobs
<1>9. ASSUME NEW w \in Workers, Retire(w) PROVE StartedJobsAreHeld'
  <2>1. job[w] \in Jobs /\ phase[job[w]] = "running"
    BY <1>9 DEF Retire, WorkersHoldJobs
  <2>2. /\ worker'[w] = "publishing" /\ job' = job /\ result' = result
        /\ \A v \in Workers : v # w => worker'[v] = worker[v] /\ job[v] # job[w]
        /\ \A k \in Jobs : k # job[w] => phase'[k] = phase[k]
        /\ phase'[job[w]] = "retired"
    BY <1>9, <2>1 DEF Retire, WorkersHoldJobs
  <2>3. ASSUME NEW k \in Jobs, k # job[w]
        PROVE  /\ phase'[k] = "running"
                    => \E v \in Workers : worker'[v] = "acting" /\ job'[v] = k
               /\ phase'[k] = "retired" /\ result'[k] = "pending"
                    => \E v \in Workers : worker'[v] = "publishing" /\ job'[v] = k
    BY <2>2, <2>3
  <2> QED BY <2>1, <2>2, <2>3
<1>10. ASSUME NEW w \in Workers, Publish(w) PROVE StartedJobsAreHeld'
  <2>1. job[w] \in Jobs /\ phase' = phase /\ result'[job[w]] = "done"
    BY <1>10 DEF Publish, WorkersHoldJobs
  <2>2. \A v \in Workers : v # w /\ worker[v] \in {"acting", "publishing"}
            => worker'[v] = worker[v] /\ job'[v] = job[v]
    BY <1>10 DEF Publish, Notified
  <2>3. \A k \in Jobs : k # job[w] => result'[k] = result[k]
    BY <1>10 DEF Publish
  <2>4. phase[job[w]] = "retired"
    BY <1>10 DEF Publish, WorkersHoldJobs
  <2>5. ASSUME NEW k \in Jobs, k # job[w]
        PROVE  /\ phase'[k] = "running"
                    => \E v \in Workers : worker'[v] = "acting" /\ job'[v] = k
               /\ phase'[k] = "retired" /\ result'[k] = "pending"
                    => \E v \in Workers : worker'[v] = "publishing" /\ job'[v] = k
    BY <2>1, <2>2, <2>3, <2>5
  <2> QED BY <2>1, <2>4, <2>5
<1>11. ASSUME NEW w \in Workers, Exit(w) PROVE StartedJobsAreHeld'
  BY <1>11 DEF Exit, WorkersHoldJobs
<1>12. ASSUME NEW w \in Workers, Sleep(w) PROVE StartedJobsAreHeld'
  BY <1>12 DEF Sleep, WorkersHoldJobs
<1>13. CASE CloseAdmission
  BY <1>13 DEF CloseAdmission, Withdraw
<1>14. CASE CloseStop
  BY <1>14 DEF CloseStop, Notified
<1>15. CASE CloseJoin
  BY <1>15 DEF CloseJoin
<1>16. CASE UNCHANGED vars
  BY <1>16 DEF vars
<1> QED BY <1>1, <1>2, <1>3, <1>4, <1>5, <1>6, <1>7, <1>8, <1>9, <1>10, <1>11, <1>12,
       <1>13, <1>14, <1>15, <1>16
       DEF Next, WorkerStep

LEMMA TicketsStep ==
    ASSUME TypeOK, QueueHoldsWaiting, WorkersHoldJobs, TicketsAreTaken, [Next]_vars
    PROVE  TicketsAreTaken'
<1> USE NoJobAssumption DEF TypeOK, TicketsAreTaken
<1>1. ASSUME NEW j \in Jobs, Stage(j) PROVE TicketsAreTaken'
  BY <1>1 DEF Stage
<1>2. ASSUME NEW j \in Jobs, StageRefused(j) PROVE TicketsAreTaken'
  BY <1>2 DEF StageRefused, Withdraw, Notified
<1>3. ASSUME NEW j \in Jobs, Commit(j) PROVE TicketsAreTaken'
  BY <1>3 DEF Commit, Notified
<1>4. ASSUME NEW j \in Jobs, Detach(j) PROVE TicketsAreTaken'
  BY <1>4 DEF Detach
<1>5. ASSUME NEW j \in Jobs, RequestStop(j) PROVE TicketsAreTaken'
  BY <1>5 DEF RequestStop
<1>6. ASSUME NEW j \in Jobs, DestroyTicket(j) PROVE TicketsAreTaken'
  BY <1>6 DEF DestroyTicket, Withdrawable, Withdraw, Notified
<1>7. ASSUME NEW j \in Jobs, Drained(j) PROVE TicketsAreTaken'
  BY <1>7 DEF Drained
<1>8. ASSUME NEW w \in Workers, Take(w) PROVE TicketsAreTaken'
  BY <1>8, HeadWaits DEF Take, HeadReady
<1>9. ASSUME NEW w \in Workers, Retire(w) PROVE TicketsAreTaken'
  BY <1>9 DEF Retire, WorkersHoldJobs
<1>10. ASSUME NEW w \in Workers, Publish(w) PROVE TicketsAreTaken'
  BY <1>10 DEF Publish, Notified
<1>11. ASSUME NEW w \in Workers, Exit(w) PROVE TicketsAreTaken'
  BY <1>11 DEF Exit, NothingLeft
<1>12. ASSUME NEW w \in Workers, Sleep(w) PROVE TicketsAreTaken'
  BY <1>12 DEF Sleep, NothingLeft
<1>13. CASE CloseAdmission
  BY <1>13 DEF CloseAdmission, Withdraw
<1>14. CASE CloseStop
  BY <1>14 DEF CloseStop, Notified
<1>15. CASE CloseJoin
  BY <1>15 DEF CloseJoin
<1>16. CASE UNCHANGED vars
  BY <1>16 DEF vars
<1> QED BY <1>1, <1>2, <1>3, <1>4, <1>5, <1>6, <1>7, <1>8, <1>9, <1>10, <1>11, <1>12,
       <1>13, <1>14, <1>15, <1>16
       DEF Next, WorkerStep

LEMMA ClosingStep ==
    ASSUME TypeOK, QueueHoldsWaiting, WorkersHoldJobs, TicketsAreTaken, ClosingIsOrdered,
           [Next]_vars
    PROVE  ClosingIsOrdered'
<1> USE NoJobAssumption DEF TypeOK, ClosingIsOrdered, NothingLeft
<1>e. \A J : queue = <<>> => Without(queue, J) = <<>>
  <2> SUFFICES ASSUME NEW J, queue = <<>> PROVE Without(queue, J) = <<>>
    OBVIOUS
  <2>1. Range(Without(queue, J)) = Range(queue) \ J /\ Without(queue, J) \in Seq(Jobs)
    BY WithoutMembers
  <2>2. Range(queue) = {}
    BY EmptyQueue
  <2> QED BY <2>1, <2>2, NoMembers
<1>1. ASSUME NEW j \in Jobs, Stage(j) PROVE ClosingIsOrdered'
  BY <1>1 DEF Stage
<1>2. ASSUME NEW j \in Jobs, StageRefused(j) PROVE ClosingIsOrdered'
  BY <1>2, <1>e DEF StageRefused, Withdraw, Notified
<1>3. ASSUME NEW j \in Jobs, Commit(j) PROVE ClosingIsOrdered'
  BY <1>3 DEF Commit, Notified
<1>4. ASSUME NEW j \in Jobs, Detach(j) PROVE ClosingIsOrdered'
  BY <1>4 DEF Detach
<1>5. ASSUME NEW j \in Jobs, RequestStop(j) PROVE ClosingIsOrdered'
  BY <1>5 DEF RequestStop
<1>6. ASSUME NEW j \in Jobs, DestroyTicket(j) PROVE ClosingIsOrdered'
  BY <1>6, <1>e DEF DestroyTicket, Withdraw, Notified
<1>7. ASSUME NEW j \in Jobs, Drained(j) PROVE ClosingIsOrdered'
  BY <1>7 DEF Drained
<1>8. ASSUME NEW w \in Workers, Take(w) PROVE ClosingIsOrdered'
  BY <1>8, HeadWaits DEF Take, HeadReady
<1>9. ASSUME NEW w \in Workers, Retire(w) PROVE ClosingIsOrdered'
  BY <1>9 DEF Retire, WorkersHoldJobs
<1>10. ASSUME NEW w \in Workers, Publish(w) PROVE ClosingIsOrdered'
  BY <1>10 DEF Publish, Notified
<1>11. ASSUME NEW w \in Workers, Exit(w) PROVE ClosingIsOrdered'
  BY <1>11 DEF Exit, NothingLeft
<1>12. ASSUME NEW w \in Workers, Sleep(w) PROVE ClosingIsOrdered'
  BY <1>12 DEF Sleep, NothingLeft
<1>13. CASE CloseAdmission
  BY <1>13, <1>e DEF CloseAdmission, Withdraw
<1>14. CASE CloseStop
  BY <1>14 DEF CloseStop, Notified
<1>15. CASE CloseJoin
  BY <1>15 DEF CloseJoin
<1>16. CASE UNCHANGED vars
  BY <1>16 DEF vars
<1> QED BY <1>1, <1>2, <1>3, <1>4, <1>5, <1>6, <1>7, <1>8, <1>9, <1>10, <1>11, <1>12,
       <1>13, <1>14, <1>15, <1>16
       DEF Next, WorkerStep

LEMMA OverStep ==
    ASSUME TypeOK, QueueHoldsWaiting, WorkersHoldJobs, TicketsAreTaken, WorkIsOverOnce,
           [Next]_vars
    PROVE  WorkIsOverOnce'
<1> USE NoJobAssumption DEF TypeOK, WorkIsOverOnce, DestructionDrains, ResultIsFinal
<1>h. \A w \in Workers : job[w] # NoJob => phase[job[w]] \in {"running", "retired"}
  BY DEF WorkersHoldJobs
<1>1. ASSUME NEW j \in Jobs, Stage(j) PROVE WorkIsOverOnce'
  BY <1>1 DEF Stage
<1>2. ASSUME NEW j \in Jobs, StageRefused(j) PROVE WorkIsOverOnce'
  BY <1>2, <1>h DEF StageRefused, Withdraw
<1>3. ASSUME NEW j \in Jobs, Commit(j) PROVE WorkIsOverOnce'
  BY <1>3 DEF Commit, Notified
<1>4. ASSUME NEW j \in Jobs, Detach(j) PROVE WorkIsOverOnce'
  BY <1>4 DEF Detach
<1>5. ASSUME NEW j \in Jobs, RequestStop(j) PROVE WorkIsOverOnce'
  BY <1>5 DEF RequestStop
<1>6. ASSUME NEW j \in Jobs, DestroyTicket(j) PROVE WorkIsOverOnce'
  BY <1>6, <1>h DEF DestroyTicket, Withdrawable, Withdraw, TicketsAreTaken
<1>7. ASSUME NEW j \in Jobs, Drained(j) PROVE WorkIsOverOnce'
  BY <1>7 DEF Drained
<1>8. ASSUME NEW w \in Workers, Take(w) PROVE WorkIsOverOnce'
  BY <1>8, HeadWaits DEF Take, HeadReady
<1>9. ASSUME NEW w \in Workers, Retire(w) PROVE WorkIsOverOnce'
  BY <1>9 DEF Retire, WorkersHoldJobs
<1>10. ASSUME NEW w \in Workers, Publish(w) PROVE WorkIsOverOnce'
  BY <1>10 DEF Publish, Notified, WorkersHoldJobs
<1>11. ASSUME NEW w \in Workers, Exit(w) PROVE WorkIsOverOnce'
  BY <1>11 DEF Exit, NothingLeft
<1>12. ASSUME NEW w \in Workers, Sleep(w) PROVE WorkIsOverOnce'
  BY <1>12 DEF Sleep, NothingLeft
<1>13. CASE CloseAdmission
  BY <1>13, <1>h DEF CloseAdmission, Withdraw
<1>14. CASE CloseStop
  BY <1>14 DEF CloseStop, Notified
<1>15. CASE CloseJoin
  BY <1>15 DEF CloseJoin
<1>16. CASE UNCHANGED vars
  BY <1>16 DEF vars
<1> QED BY <1>1, <1>2, <1>3, <1>4, <1>5, <1>6, <1>7, <1>8, <1>9, <1>10, <1>11, <1>12,
       <1>13, <1>14, <1>15, <1>16
       DEF Next, WorkerStep

LEMMA RootWorkStep == RootWorkInv /\ [Next]_vars => RootWorkInv'
BY RootWorkTypeStep, QueueStep, WorkersStep, StartedStep, TicketsStep, ClosingStep, OverStep
   DEF RootWorkInv

LEMMA RootWorkInit == Init => RootWorkInv
<1> SUFFICES ASSUME Init PROVE RootWorkInv
  OBVIOUS
<1>1. TypeOK
  BY CapacityAssumption, EmptySeq DEF Init, TypeOK, TicketStates
<1>2. QueueHoldsWaiting
  BY EmptyQueue DEF Init, QueueHoldsWaiting
<1>3. WorkersHoldJobs /\ StartedJobsAreHeld /\ TicketsAreTaken
  BY DEF Init, WorkersHoldJobs, StartedJobsAreHeld, TicketsAreTaken
<1>4. ClosingIsOrdered /\ WorkIsOverOnce
  BY DEF Init, ClosingIsOrdered, WorkIsOverOnce, DestructionDrains, ResultIsFinal
<1> QED BY <1>1, <1>2, <1>3, <1>4 DEF RootWorkInv

\* After close() no job waits, runs or is about to publish: the workers have gone.
LEMMA CloseLeft == RootWorkInv => CloseLeavesNothing
<1> SUFFICES ASSUME RootWorkInv PROVE CloseLeavesNothing
  OBVIOUS
<1> USE DEF RootWorkInv
<1>1. CASE closer = "closed"
  <2>1. ~accepting /\ queue = <<>> /\ \A w \in Workers : worker[w] = "exited"
    BY <1>1, CapacityAssumption DEF ClosingIsOrdered, NothingLeft
  <2>2. \A j \in Jobs : phase[j] \notin {"staged", "ready"}
    BY <2>1, EmptyQueue DEF QueueHoldsWaiting
  <2>3. \A j \in Jobs : phase[j] # "running" /\ (phase[j] = "retired" => result[j] # "pending")
    BY <2>1 DEF StartedJobsAreHeld
  <2> QED BY <1>1, <2>2, <2>3 DEF TypeOK, CloseLeavesNothing
<1>2. CASE closer # "closed"
  BY <1>2 DEF ClosingIsOrdered, CloseLeavesNothing
<1> QED BY <1>1, <1>2

\* The executor is well typed and its queue stays within its capacity.
THEOREM RootWorkTyped == Spec => []TypeOK
<1>1. RootWorkInv => TypeOK
  BY DEF RootWorkInv
<1> QED BY <1>1, RootWorkInit, RootWorkStep, PTL DEF Spec

\* A job ends once and for everybody, whether its worker, the destructor of its
\* ticket (RootWorkExecutor::Ticket::~Ticket) or close() ends it.
THEOREM WorkEndsOnce == Spec => []WorkIsOverOnce
<1>1. RootWorkInv => WorkIsOverOnce
  BY DEF RootWorkInv
<1> QED BY <1>1, RootWorkInit, RootWorkStep, PTL DEF Spec

\* close() leaves no job behind, and has asked all that may still run to stop.
THEOREM CloseIsComplete == Spec => []CloseLeavesNothing
BY CloseLeft, RootWorkInit, RootWorkStep, PTL DEF Spec
--------------------------------------------------------------------------------
(* RootWorkExecutor implements WorkLedger *)

\* What one critical section of the executor can do to job j.
JobMoves(j) ==
    \/ phase'[j] = phase[j] /\ result'[j] = result[j]
    \/ accepting /\ phase[j] = "new" /\ phase'[j] = "staged" /\ result'[j] = result[j]
    \/ /\ phase[j] \in {"new", "staged", "ready"} /\ phase'[j] = "retired"
       /\ result[j] = "pending" /\ result'[j] = "withdrawn"
    \/ phase[j] = "staged" /\ phase'[j] = "ready" /\ result'[j] = result[j]
    \/ phase[j] = "ready" /\ phase'[j] = "running" /\ result'[j] = result[j]
    \/ /\ phase[j] = "running" /\ phase'[j] = "retired"
       /\ result[j] = "pending" /\ result'[j] = "pending"
    \/ /\ phase[j] = "retired" /\ phase'[j] = "retired"
       /\ result[j] = "pending" /\ result'[j] = "done"

LEMMA EveryJobMoves ==
    ASSUME RootWorkInv, [Next]_vars, NEW k \in Jobs
    PROVE  JobMoves(k)
<1> USE DEF RootWorkInv, TypeOK, JobMoves
<1>p. phase[k] # "retired" => result[k] = "pending"
  BY DEF WorkIsOverOnce, ResultIsFinal
<1>1. ASSUME NEW j \in Jobs, Stage(j) PROVE JobMoves(k)
  BY <1>1 DEF Stage
<1>2. ASSUME NEW j \in Jobs, StageRefused(j) PROVE JobMoves(k)
  BY <1>2, <1>p DEF StageRefused, Withdraw
<1>3. ASSUME NEW j \in Jobs, Commit(j) PROVE JobMoves(k)
  BY <1>3 DEF Commit
<1>4. ASSUME NEW j \in Jobs, Detach(j) \/ RequestStop(j) \/ Drained(j) PROVE JobMoves(k)
  BY <1>4 DEF Detach, RequestStop, Drained
<1>6. ASSUME NEW j \in Jobs, DestroyTicket(j) PROVE JobMoves(k)
  BY <1>6, <1>p DEF DestroyTicket, Withdrawable, Withdraw
<1>8. ASSUME NEW w \in Workers, Take(w) PROVE JobMoves(k)
  BY <1>8, HeadWaits DEF Take, HeadReady
<1>9. ASSUME NEW w \in Workers, Retire(w) PROVE JobMoves(k)
  BY <1>9, <1>p, NoJobAssumption DEF Retire, WorkersHoldJobs
<1>10. ASSUME NEW w \in Workers, Publish(w) PROVE JobMoves(k)
  BY <1>10, NoJobAssumption DEF Publish, WorkersHoldJobs
<1>11. ASSUME NEW w \in Workers, Exit(w) \/ Sleep(w) PROVE JobMoves(k)
  BY <1>11 DEF Exit, Sleep
<1>13. CASE CloseAdmission
  BY <1>13, <1>p DEF CloseAdmission, Withdraw
<1>14. CASE CloseStop \/ CloseJoin
  BY <1>14 DEF CloseStop, CloseJoin
<1>16. CASE UNCHANGED vars
  BY <1>16 DEF vars
<1> QED BY <1>1, <1>2, <1>3, <1>4, <1>6, <1>8, <1>9, <1>10, <1>11, <1>13, <1>14, <1>16
       DEF Next, WorkerStep

\* No ticket is taken back, and admission, once closed, stays closed.
LEMMA TicketsAndDoor ==
    ASSUME RootWorkInv, [Next]_vars
    PROVE  /\ \A j \in Jobs : ticket[j] = "gone" => ticket'[j] = "gone"
           /\ accepting' => accepting
           /\ closer = "closed" => closer' = "closed"
           /\ closer' = "closed" => ~accepting
<1> DEFINE Kept == /\ \A j \in Jobs : ticket[j] = "gone" => ticket'[j] = "gone"
                   /\ accepting' => accepting
                   /\ closer = "closed" => closer' = "closed"
                   /\ closer' = "closed" => ~accepting
<1> SUFFICES Kept
  OBVIOUS
<1> USE DEF RootWorkInv, TypeOK, ClosingIsOrdered
<1>1. ASSUME NEW j \in Jobs, Stage(j) \/ StageRefused(j) \/ Commit(j) \/ Detach(j)
                             \/ RequestStop(j) \/ Drained(j)
      PROVE  Kept
  BY <1>1 DEF Stage, StageRefused, Commit, Detach, RequestStop, Drained, TicketsAreTaken
<1>2. ASSUME NEW j \in Jobs, DestroyTicket(j) PROVE Kept
  BY <1>2 DEF DestroyTicket
<1>3. ASSUME NEW w \in Workers, WorkerStep(w) PROVE Kept
  BY <1>3 DEF WorkerStep, Take, Retire, Publish, Exit, Sleep
<1>4. CASE CloseAdmission \/ CloseStop \/ CloseJoin
  BY <1>4 DEF CloseAdmission, CloseStop, CloseJoin
<1>5. CASE UNCHANGED vars
  BY <1>5 DEF vars
<1> QED BY <1>1, <1>2, <1>3, <1>4, <1>5 DEF Next

\* Every step of the executor is one of the ledger, or leaves it alone.
LEMMA RootWorkRefines ==
    ASSUME RootWorkInv, [Next]_vars
    PROVE  RootLedger!Next
<1> DEFINE Stg == [j \in Jobs |-> Progress[phase[j]]]
           Out == [j \in Jobs |-> CASE result[j] = "pending" -> "none"
                                    [] result[j] = "withdrawn" -> "failed"
                                    [] OTHER -> "value"]
           Gone == {j \in Jobs : ticket[j] = "gone"}
           Door == IF closer = "closed" THEN "drained" ELSE IF accepting THEN "open" ELSE "shut"
<1>t. TypeOK /\ TypeOK'
  BY RootWorkStep DEF RootWorkInv
<1>1. ASSUME NEW j \in Jobs
      PROVE  \/ RootLedger!Keep(j) \/ RootLedger!Accept(j) \/ RootLedger!Fail(j)
             \/ RootLedger!Start(j) \/ RootLedger!End(j) \/ RootLedger!Tell(j)
  <2>1. JobMoves(j)
    BY EveryJobMoves
  <2>2. accepting => closer # "closed"
    BY DEF RootWorkInv, ClosingIsOrdered
  <2> QED
    BY <2>1, <2>2, <1>t
       DEF JobMoves, TypeOK, Progress, RootLedger!Keep, RootLedger!Accept, RootLedger!Fail,
           RootLedger!Start, RootLedger!End, RootLedger!Tell
<1>2. Gone \subseteq Gone'
  BY TicketsAndDoor
<1>3. \A j \in Gone' : Stg'[j] = "over"
  BY <1>t, RootWorkStep DEF RootWorkInv, TypeOK, Progress, WorkIsOverOnce, DestructionDrains
<1>4. Door' \in RootLedger!Onward[Door]
  <2>1. /\ accepting' => accepting
        /\ closer = "closed" => closer' = "closed"
        /\ closer' = "closed" => ~accepting
    BY TicketsAndDoor
  <2> QED BY <2>1 DEF RootLedger!Onward
<1>5. Door' = "drained" => RootLedger!NothingUnderWay'
  <2>1. RootWorkInv' => CloseLeavesNothing'
    BY CloseLeft, PTL
  <2>2. CloseLeavesNothing'
    BY <2>1, RootWorkStep
  <2> QED
    BY <2>2, <1>t DEF TypeOK, CloseLeavesNothing, RootLedger!NothingUnderWay, Progress
<1> QED
  BY <1>1, <1>2, <1>3, <1>4, <1>5 DEF RootLedger!Next

\* An executor that nobody has used yet is a ledger that nobody has used.
LEMMA RootLedgerInit == Init => RootLedger!Init
<1> SUFFICES ASSUME Init PROVE RootLedger!Init
  OBVIOUS
<1>1. [j \in Jobs |-> Progress[phase[j]]] = [j \in Jobs |-> "new"]
  BY DEF Init, Progress
<1>2. {j \in Jobs : ticket[j] = "gone"} = {}
  BY DEF Init
<1> QED BY <1>1, <1>2 DEF Init, RootLedger!Init

\* Every behaviour of the executor is one of WorkLedger: each job starts at most once, and
\* only if it was accepted, is over once, and no destructor and no close() returns before.
THEOREM RootWorkImplementsLedger == Spec => RootLedger!Spec
<1>1. RootWorkInv /\ [Next]_vars => [RootLedger!Next]_RootLedger!ledger
  BY RootWorkRefines
<1> QED BY <1>1, RootLedgerInit, RootWorkInit, RootWorkStep, PTL DEF Spec, RootLedger!Spec

--------------------------------------------------------------------------------
(* NativeChildExecutor: the inductive invariant *)

\* Queued jobs and reserved places together stay within the bound of the queue.
PlacesAreBounded ==
    /\ pending \in Seq(Children) /\ IsInjective(pending)
    /\ Len(pending) + reserved <= PoolCapacity

\* A batch is staged and dispatched as a whole.
BatchesAreWhole ==
    \A p \in PoolOwners :
        /\ batch[p] = "none" => \A c \in Kids(p) : at[c] = "new"
        /\ batch[p] = "staged" /\ open => \A c \in Kids(p) : at[c] = "staged"

\* Nothing is staged in a closed pool.
ClosedStagesNothing == ~open => \A c \in Children : at[c] # "staged"

\* The future of a job that left the pool is ready.
PromisesAreKept ==
    \A c \in Children : at[c] # "done" /\ (at[c] \in {"ended", "retired"} => promise[c] # "none")

\* A worker returns when nothing is queued or staged any more, and close() when
\* all workers have, and no job runs.
ClosingWaits ==
    /\ exited # {} => ~open /\ pending = <<>>
    /\ closing # "no" => ~open
    /\ closing = "closed" => exited = PoolWorkers /\ Dispatched = {}

PoolInv ==
    /\ PoolTypeOK /\ PlacesAreBounded /\ BatchesAreWhole /\ ClosedStagesNothing
    /\ PromisesAreKept /\ ClosingWaits /\ CountersAreExact

--------------------------------------------------------------------------------
(* NativeChildExecutor: every step keeps it *)

\* A thread takes the queued job c: what take_locked does, wherever c was queued.
Taken(c, h) ==
    /\ at[c] = "pending"
    /\ pending' \in Seq(Children) /\ IsInjective(pending')
    /\ Len(pending') = Len(pending) - 1 /\ Range(pending') = Range(pending) \ {c}
    /\ host' = [host EXCEPT ![c] = h]
    /\ \/ at' = [at EXCEPT ![c] = "slotless"] /\ UNCHANGED leaves
       \/ /\ leaves[RootOf[c]] < Parallel
          /\ at' = [at EXCEPT ![c] = "running"]
          /\ leaves' = [leaves EXCEPT ![RootOf[c]] = @ + 1]
    /\ UNCHANGED <<batch, reserved, promise, told, open, exited, closing>>

LEMMA TakeFirstTakes ==
    ASSUME PoolTypeOK, PlacesAreBounded, NEW h, NEW C, TakeFirst(h, C)
    PROVE  \E c \in Children : Taken(c, h)
<1>1. PICK i \in 1..Len(pending) :
        /\ Takeable(pending[i]) /\ pending' = RemoveAt(pending, i)
        /\ host' = [host EXCEPT ![pending[i]] = h]
        /\ IF Told[pending[i]]
           THEN at' = [at EXCEPT ![pending[i]] = "slotless"] /\ UNCHANGED leaves
           ELSE /\ at' = [at EXCEPT ![pending[i]] = "running"]
                /\ leaves' = [leaves EXCEPT ![RootOf[pending[i]]] = @ + 1]
        /\ UNCHANGED <<batch, reserved, promise, told, open, exited, closing>>
  BY DEF TakeFirst
<1>2. pending[i] \in Range(pending) /\ pending[i] \in Children
  BY Members DEF PlacesAreBounded
<1>3. at[pending[i]] = "pending"
  BY <1>2 DEF PoolTypeOK
<1>4. /\ pending' \in Seq(Children) /\ IsInjective(pending')
      /\ Len(pending') = Len(pending) - 1 /\ Range(pending') = Range(pending) \ {pending[i]}
  BY <1>1, RemoveAtMembers DEF PlacesAreBounded
<1>5. ~Told[pending[i]] => leaves[RootOf[pending[i]]] < Parallel
  BY <1>1 DEF Takeable, SlotFor
<1> QED BY <1>1, <1>2, <1>3, <1>4, <1>5 DEF Taken

\* The steps of the pool, one by one.
LEMMA PoolSteps ==
    ASSUME PoolInv, [PoolNext]_poolVars
    PROVE  \/ \E p \in PoolOwners : StageBatch(p) \/ DropBatch(p) \/ Dispatch(p) \/ GiveUp(p)
                                    \/ StopKids(p) \/ Joins(p)
           \/ \E c \in Children, h \in PoolWorkers \cup Children : Taken(c, h)
           \/ \E c \in Children : Yield(c) \/ Reacquire(c) \/ Finish(c) \/ Throws(c) \/ Leave(c)
           \/ \E w \in PoolWorkers : WorkerExits(w)
           \/ \E r \in Roots : CancelRoot(r)
           \/ ClosePool \/ PoolCloses \/ UNCHANGED poolVars
<1>1. ASSUME NEW p \in PoolOwners, Assist(p)
      PROVE  \E c \in Children, h \in PoolWorkers \cup Children : Taken(c, h)
  <2>1. p \in Children /\ TakeFirst(p, OwnRoot(p))
    BY <1>1 DEF Assist
  <2> QED BY <2>1, TakeFirstTakes DEF PoolInv
<1>2. ASSUME NEW w \in PoolWorkers, TakeChild(w)
      PROVE  \E c \in Children, h \in PoolWorkers \cup Children : Taken(c, h)
  BY <1>2, TakeFirstTakes DEF TakeChild, PoolInv
<1>3. ASSUME NEW p \in PoolOwners, OwnerStep(p)
      PROVE  StageBatch(p) \/ DropBatch(p) \/ Dispatch(p) \/ GiveUp(p) \/ StopKids(p) \/ Joins(p)
  BY <1>3 DEF OwnerStep
<1>4. ASSUME NEW c \in Children, JobStep(c)
      PROVE  Yield(c) \/ Reacquire(c) \/ Finish(c) \/ Throws(c) \/ Leave(c)
  BY <1>4 DEF JobStep
<1> QED BY <1>1, <1>2, <1>3, <1>4 DEF PoolNext, PoolThreads

\* Owners are roots or children, and each child is a kid of one owner.
LEMMA OwnersAndKids ==
    /\ \A p \in PoolOwners : p \in Children \cup Roots
    /\ \A p \in PoolOwners : Kids(p) \subseteq Children /\ IsFiniteSet(Kids(p))
    /\ \A p, q \in PoolOwners : \A c \in Kids(p) : c \in Kids(q) => p = q
    /\ \A r \in Roots : r \notin Children
<1>1. ASSUME NEW p \in PoolOwners PROVE Kids(p) \subseteq Children /\ IsFiniteSet(Kids(p))
  BY PoolAssumption, FS_Subset DEF Kids
<1> QED BY <1>1, PoolAssumption DEF PoolOwners, Kids


LEMMA AtTypeStep ==
    ASSUME PoolInv, [PoolNext]_poolVars
    PROVE  at' \in [Children \union Roots -> {"new", "staged", "pending", "running", "slotless",
                  "planning", "waiting", "back", "ended", "retired", "done"}]
<1> USE DEF PoolInv, PoolTypeOK
<1>1. ASSUME NEW p \in PoolOwners, StageBatch(p)
      PROVE  (at' \in [Children \union Roots -> {"new", "staged", "pending", "running",
                  "slotless", "planning", "waiting", "back", "ended", "retired", "done"}])
  BY <1>1 DEF StageBatch, MoveAll
<1>2. ASSUME NEW p \in PoolOwners, DropBatch(p)
      PROVE  (at' \in [Children \union Roots -> {"new", "staged", "pending", "running",
                  "slotless", "planning", "waiting", "back", "ended", "retired", "done"}])
  BY <1>2 DEF DropBatch, MoveAll
<1>3. ASSUME NEW p \in PoolOwners, Dispatch(p)
      PROVE  (at' \in [Children \union Roots -> {"new", "staged", "pending", "running",
                  "slotless", "planning", "waiting", "back", "ended", "retired", "done"}])
  BY <1>3 DEF Dispatch, MoveAll
<1>4. ASSUME NEW p \in PoolOwners, GiveUp(p)
      PROVE  (at' \in [Children \union Roots -> {"new", "staged", "pending", "running",
                  "slotless", "planning", "waiting", "back", "ended", "retired", "done"}])
  BY <1>4 DEF GiveUp
<1>5. ASSUME NEW p \in PoolOwners, StopKids(p)
      PROVE  (at' \in [Children \union Roots -> {"new", "staged", "pending", "running",
                  "slotless", "planning", "waiting", "back", "ended", "retired", "done"}])
  BY <1>5 DEF StopKids
<1>6. ASSUME NEW p \in PoolOwners, Joins(p)
      PROVE  (at' \in [Children \union Roots -> {"new", "staged", "pending", "running",
                  "slotless", "planning", "waiting", "back", "ended", "retired", "done"}])
  BY <1>6 DEF Joins
<1>7. ASSUME NEW c \in Children, NEW h \in PoolWorkers \cup Children, Taken(c, h)
      PROVE  (at' \in [Children \union Roots -> {"new", "staged", "pending", "running",
                  "slotless", "planning", "waiting", "back", "ended", "retired", "done"}])
  BY <1>7 DEF Taken
<1>8. ASSUME NEW c \in Children, Yield(c)
      PROVE  (at' \in [Children \union Roots -> {"new", "staged", "pending", "running",
                  "slotless", "planning", "waiting", "back", "ended", "retired", "done"}])
  BY <1>8 DEF Yield
<1>9. ASSUME NEW c \in Children, Reacquire(c)
      PROVE  (at' \in [Children \union Roots -> {"new", "staged", "pending", "running",
                  "slotless", "planning", "waiting", "back", "ended", "retired", "done"}])
  BY <1>9 DEF Reacquire, SlotFor
<1>10. ASSUME NEW c \in Children, Finish(c)
      PROVE  (at' \in [Children \union Roots -> {"new", "staged", "pending", "running",
                  "slotless", "planning", "waiting", "back", "ended", "retired", "done"}])
  BY <1>10 DEF Finish
<1>11. ASSUME NEW c \in Children, Throws(c)
      PROVE  (at' \in [Children \union Roots -> {"new", "staged", "pending", "running",
                  "slotless", "planning", "waiting", "back", "ended", "retired", "done"}])
  BY <1>11 DEF Throws, StopPool
<1>12. ASSUME NEW c \in Children, Leave(c)
      PROVE  (at' \in [Children \union Roots -> {"new", "staged", "pending", "running",
                  "slotless", "planning", "waiting", "back", "ended", "retired", "done"}])
  BY <1>12 DEF Leave
<1>13. ASSUME NEW w \in PoolWorkers, WorkerExits(w)
      PROVE  (at' \in [Children \union Roots -> {"new", "staged", "pending", "running",
                  "slotless", "planning", "waiting", "back", "ended", "retired", "done"}])
  BY <1>13 DEF WorkerExits
<1>14. ASSUME NEW r \in Roots, CancelRoot(r)
      PROVE  (at' \in [Children \union Roots -> {"new", "staged", "pending", "running",
                  "slotless", "planning", "waiting", "back", "ended", "retired", "done"}])
  BY <1>14 DEF CancelRoot
<1>15. CASE ClosePool
  BY <1>15 DEF ClosePool, StopPool
<1>16. CASE PoolCloses
  BY <1>16 DEF PoolCloses
<1>17. CASE UNCHANGED poolVars
  BY <1>17 DEF poolVars
<1> QED BY <1>1, <1>2, <1>3, <1>4, <1>5, <1>6, <1>7, <1>8, <1>9, <1>10, <1>11, <1>12,
       <1>13, <1>14, <1>15, <1>16, <1>17, PoolSteps

LEMMA OtherTypesStep ==
    ASSUME PoolInv, [PoolNext]_poolVars
    PROVE  /\ batch' \in [PoolOwners -> {"none", "staged", "dispatched", "dropped"}]
           /\ host' \in [Children -> PoolWorkers \union Children \union {NoHost}]
           /\ promise' \in [Children -> {"none", "value", "exception"}]
           /\ told' \subseteq Children \union Roots /\ open' \in BOOLEAN
           /\ exited' \subseteq PoolWorkers /\ closing' \in {"no", "joining", "closed"}
<1> DEFINE Typed ==
        /\ batch' \in [PoolOwners -> {"none", "staged", "dispatched", "dropped"}]
        /\ host' \in [Children -> PoolWorkers \union Children \union {NoHost}]
        /\ promise' \in [Children -> {"none", "value", "exception"}]
        /\ told' \subseteq Children \union Roots /\ open' \in BOOLEAN
        /\ exited' \subseteq PoolWorkers /\ closing' \in {"no", "joining", "closed"}
<1> SUFFICES Typed
  OBVIOUS
<1> USE DEF PoolInv, PoolTypeOK
<1>1. ASSUME NEW p \in PoolOwners, StageBatch(p) PROVE Typed
  BY <1>1, OwnersAndKids DEF StageBatch, MoveAll
<1>2. ASSUME NEW p \in PoolOwners, DropBatch(p) PROVE Typed
  BY <1>2, OwnersAndKids DEF DropBatch, MoveAll
<1>3. ASSUME NEW p \in PoolOwners, Dispatch(p) PROVE Typed
  BY <1>3, OwnersAndKids DEF Dispatch, MoveAll
<1>4. ASSUME NEW p \in PoolOwners, GiveUp(p) PROVE Typed
  BY <1>4, OwnersAndKids DEF GiveUp
<1>5. ASSUME NEW p \in PoolOwners, StopKids(p) PROVE Typed
  BY <1>5, OwnersAndKids DEF StopKids
<1>6. ASSUME NEW p \in PoolOwners, Joins(p) PROVE Typed
  BY <1>6, OwnersAndKids DEF Joins
<1>7. ASSUME NEW c \in Children, NEW h \in PoolWorkers \cup Children, Taken(c, h)
      PROVE  Typed
  BY <1>7, OwnersAndKids DEF Taken
<1>8. ASSUME NEW c \in Children, Yield(c) PROVE Typed
  BY <1>8, OwnersAndKids DEF Yield
<1>9. ASSUME NEW c \in Children, Reacquire(c) PROVE Typed
  BY <1>9, OwnersAndKids DEF Reacquire, SlotFor
<1>10. ASSUME NEW c \in Children, Finish(c) PROVE Typed
  BY <1>10, OwnersAndKids DEF Finish
<1>11. ASSUME NEW c \in Children, Throws(c) PROVE Typed
  BY <1>11, OwnersAndKids DEF Throws, StopPool
<1>12. ASSUME NEW c \in Children, Leave(c) PROVE Typed
  BY <1>12, OwnersAndKids DEF Leave
<1>13. ASSUME NEW w \in PoolWorkers, WorkerExits(w) PROVE Typed
  BY <1>13, OwnersAndKids DEF WorkerExits
<1>14. ASSUME NEW r \in Roots, CancelRoot(r) PROVE Typed
  BY <1>14, OwnersAndKids DEF CancelRoot
<1>15. CASE ClosePool
  BY <1>15, OwnersAndKids DEF ClosePool, StopPool
<1>16. CASE PoolCloses
  BY <1>16, OwnersAndKids DEF PoolCloses
<1>17. CASE UNCHANGED poolVars
  BY <1>17 DEF poolVars
<1> QED BY <1>1, <1>2, <1>3, <1>4, <1>5, <1>6, <1>7, <1>8, <1>9, <1>10, <1>11, <1>12,
       <1>13, <1>14, <1>15, <1>16, <1>17, PoolSteps

LEMMA PlacesStep ==
    ASSUME PoolInv, [PoolNext]_poolVars
    PROVE  /\ PlacesAreBounded'
           /\ Range(pending') = {c \in Children : at'[c] = "pending"}
<1> DEFINE Kept == /\ PlacesAreBounded'
                   /\ Range(pending') = {c \in Children : at'[c] = "pending"}
<1> SUFFICES Kept
  OBVIOUS
<1> USE DEF PoolInv, PoolTypeOK, PlacesAreBounded
<1>q. Len(pending) \in Nat /\ reserved \in Nat /\ PoolCapacity \in Nat
  BY PoolAssumption, LenProperties
<1>1. ASSUME NEW p \in PoolOwners, StageBatch(p) PROVE Kept
  <2>1. Cardinality(Kids(p)) \in Nat
    BY OwnersAndKids, FS_CardinalityType
  <2>2. Len(pending) + (reserved + Cardinality(Kids(p))) <= PoolCapacity
    BY <1>1, <1>q, <2>1 DEF StageBatch, Full
  <2>3. \A c \in Kids(p) : at[c] = "new"
    BY <1>1 DEF StageBatch, BatchesAreWhole
  <2>4. \A c \in Children : at'[c] = "pending" <=> at[c] = "pending"
    BY <1>1, <2>3, OwnersAndKids DEF StageBatch, MoveAll
  <2> QED BY <1>1, <2>2, <2>4 DEF StageBatch
<1>2. ASSUME NEW p \in PoolOwners, DropBatch(p) PROVE Kept
  <2> DEFINE mine == {c \in Kids(p) : at[c] = "staged"}
  <2>1. Cardinality(mine) \in Nat /\ reserved - Cardinality(mine) <= reserved
        /\ reserved - Cardinality(mine) \in Int
    <3>1. mine \subseteq Kids(p)
      OBVIOUS
    <3>2. IsFiniteSet(mine)
      BY <3>1, OwnersAndKids, FS_Subset
    <3>3. Cardinality(mine) \in Nat
      BY <3>2, FS_CardinalityType
    <3> QED BY <1>q, <3>3
  <2>2. \A c \in Children : at'[c] = "pending" <=> at[c] = "pending"
    BY <1>2, OwnersAndKids DEF DropBatch, MoveAll
  <2>3. reserved' = reserved - Cardinality(mine) /\ pending' = pending
    BY <1>2 DEF DropBatch
  <2> QED BY <1>q, <2>1, <2>2, <2>3
<1>3. ASSUME NEW p \in PoolOwners, Dispatch(p) PROVE Kept
  <2> DEFINE new == SetToSeq(Kids(p))
             n == Cardinality(Kids(p))
  <2>1. n \in Nat /\ new \in Seq(Kids(p)) /\ Len(new) = n /\ Range(new) = Kids(p)
        /\ IsInjective(new)
    BY OwnersAndKids, FS_CardinalityType, SetToSeqMembers
  <2> HIDE DEF new, n
  <2>2. new \in Seq(Children)
    BY <2>1, OwnersAndKids, SeqMonotonic
  <2>3. \A c \in Kids(p) : at[c] = "staged"
    BY <1>3 DEF Dispatch, BatchesAreWhole
  <2>4. Range(pending) \cap Range(new) = {}
    BY <2>1, <2>3
  <2>5. /\ pending \o new \in Seq(Children) /\ Len(pending \o new) = Len(pending) + n
        /\ Range(pending \o new) = Range(pending) \cup Kids(p) /\ IsInjective(pending \o new)
    <3>1. pending \in Seq(Children) /\ IsInjective(pending)
      OBVIOUS
    <3> HIDE DEF PoolInv, PoolTypeOK, PlacesAreBounded
    <3>2. /\ pending \o new \in Seq(Children) /\ Len(pending \o new) = Len(pending) + Len(new)
          /\ Range(pending \o new) = Range(pending) \cup Range(new)
          /\ IsInjective(pending \o new)
      BY <2>1, <2>2, <2>4, <3>1, ConcatMembers
    <3> QED BY <2>1, <3>2
  <2>6. pending' = pending \o new /\ reserved' = reserved - n
    BY <1>3 DEF Dispatch, new, n
  <2>7. \A c \in Children : at'[c] = "pending" <=> at[c] = "pending" \/ c \in Kids(p)
    <3>1. at[p] = "planning" /\ p \notin Kids(p)
      BY <1>3, <2>3 DEF Dispatch
    <3> QED BY <1>3, <3>1, OwnersAndKids DEF Dispatch, MoveAll
  <2>8. Len(pending') + reserved' <= PoolCapacity
    BY <1>q, <2>1, <2>5, <2>6
  <2>9. Range(pending') = {c \in Children : at'[c] = "pending"}
    BY <2>5, <2>6, <2>7, OwnersAndKids
  <2> QED BY <2>5, <2>6, <2>8, <2>9
<1>4. ASSUME NEW p \in PoolOwners, GiveUp(p) PROVE Kept
  BY <1>4, <1>q, OwnersAndKids DEF GiveUp
<1>5. ASSUME NEW p \in PoolOwners, StopKids(p) PROVE Kept
  BY <1>5, <1>q, OwnersAndKids DEF StopKids
<1>6. ASSUME NEW p \in PoolOwners, Joins(p) PROVE Kept
  BY <1>6, <1>q, OwnersAndKids DEF Joins
<1>7. ASSUME NEW c \in Children, NEW h \in PoolWorkers \cup Children, Taken(c, h)
      PROVE  Kept
  <2>1. Len(pending') + reserved' <= PoolCapacity
    BY <1>7, <1>q DEF Taken
  <2>2. \A x \in Children : at'[x] = "pending" <=> at[x] = "pending" /\ x # c
    BY <1>7 DEF Taken
  <2> QED BY <1>7, <2>1, <2>2 DEF Taken
<1>8. ASSUME NEW c \in Children, Yield(c) PROVE Kept
  BY <1>8, <1>q, OwnersAndKids DEF Yield
<1>9. ASSUME NEW c \in Children, Reacquire(c) PROVE Kept
  BY <1>9, <1>q, OwnersAndKids DEF Reacquire, SlotFor
<1>10. ASSUME NEW c \in Children, Finish(c) PROVE Kept
  BY <1>10, <1>q, OwnersAndKids DEF Finish
<1>11. ASSUME NEW c \in Children, Throws(c) PROVE Kept
  <2>1. reserved' = 0 /\ pending' = pending /\ Len(pending) + 0 <= PoolCapacity
    BY <1>11, <1>q DEF Throws, StopPool
  <2>2. \A x \in Children : at'[x] = "pending" <=> at[x] = "pending"
    BY <1>11 DEF Throws, StopPool
  <2> QED BY <2>1, <2>2
<1>12. ASSUME NEW c \in Children, Leave(c) PROVE Kept
  BY <1>12, <1>q, OwnersAndKids DEF Leave
<1>13. ASSUME NEW w \in PoolWorkers, WorkerExits(w) PROVE Kept
  BY <1>13, <1>q, OwnersAndKids DEF WorkerExits
<1>14. ASSUME NEW r \in Roots, CancelRoot(r) PROVE Kept
  BY <1>14, <1>q, OwnersAndKids DEF CancelRoot
<1>15. CASE ClosePool
  <2>1. reserved' = 0 /\ pending' = pending /\ Len(pending) + 0 <= PoolCapacity
    BY <1>15, <1>q DEF ClosePool, StopPool
  <2>2. \A x \in Children : at'[x] = "pending" <=> at[x] = "pending"
    BY <1>15 DEF ClosePool, StopPool
  <2> QED BY <2>1, <2>2
<1>16. CASE PoolCloses
  BY <1>16, <1>q, OwnersAndKids DEF PoolCloses
<1>17. CASE UNCHANGED poolVars
  BY <1>17 DEF poolVars
<1> QED BY <1>1, <1>2, <1>3, <1>4, <1>5, <1>6, <1>7, <1>8, <1>9, <1>10, <1>11, <1>12,
       <1>13, <1>14, <1>15, <1>16, <1>17, PoolSteps

LEMMA BatchesStep ==
    ASSUME PoolInv, [PoolNext]_poolVars
    PROVE  BatchesAreWhole'
<1> USE DEF PoolInv, PoolTypeOK, BatchesAreWhole
<1>1. ASSUME NEW p \in PoolOwners, StageBatch(p) PROVE BatchesAreWhole'
  BY <1>1, OwnersAndKids DEF StageBatch, MoveAll
<1>2. ASSUME NEW p \in PoolOwners, DropBatch(p) PROVE BatchesAreWhole'
  BY <1>2, OwnersAndKids DEF DropBatch, MoveAll
<1>3. ASSUME NEW p \in PoolOwners, Dispatch(p) PROVE BatchesAreWhole'
  BY <1>3, OwnersAndKids DEF Dispatch, MoveAll
<1>4. ASSUME NEW p \in PoolOwners, GiveUp(p) PROVE BatchesAreWhole'
  BY <1>4, OwnersAndKids DEF GiveUp
<1>5. ASSUME NEW p \in PoolOwners, StopKids(p) PROVE BatchesAreWhole'
  BY <1>5, OwnersAndKids DEF StopKids
<1>6. ASSUME NEW p \in PoolOwners, Joins(p) PROVE BatchesAreWhole'
  BY <1>6, OwnersAndKids DEF Joins
<1>7. ASSUME NEW c \in Children, NEW h \in PoolWorkers \cup Children, Taken(c, h)
      PROVE  BatchesAreWhole'
  <2>1. \A x \in Children : at[x] \in {"new", "staged"} => at'[x] = at[x]
    BY <1>7 DEF Taken
  <2> QED BY <1>7, <2>1, OwnersAndKids DEF Taken
<1>8. ASSUME NEW c \in Children, Yield(c) PROVE BatchesAreWhole'
  BY <1>8, OwnersAndKids DEF Yield
<1>9. ASSUME NEW c \in Children, Reacquire(c) PROVE BatchesAreWhole'
  BY <1>9, OwnersAndKids DEF Reacquire, SlotFor
<1>10. ASSUME NEW c \in Children, Finish(c) PROVE BatchesAreWhole'
  BY <1>10, OwnersAndKids DEF Finish
<1>11. ASSUME NEW c \in Children, Throws(c) PROVE BatchesAreWhole'
  BY <1>11, OwnersAndKids DEF Throws, StopPool
<1>12. ASSUME NEW c \in Children, Leave(c) PROVE BatchesAreWhole'
  BY <1>12, OwnersAndKids DEF Leave
<1>13. ASSUME NEW w \in PoolWorkers, WorkerExits(w) PROVE BatchesAreWhole'
  BY <1>13 DEF WorkerExits
<1>14. ASSUME NEW r \in Roots, CancelRoot(r) PROVE BatchesAreWhole'
  BY <1>14, OwnersAndKids DEF CancelRoot
<1>15. CASE ClosePool
  BY <1>15, OwnersAndKids DEF ClosePool, StopPool
<1>16. CASE PoolCloses
  BY <1>16, OwnersAndKids DEF PoolCloses
<1>17. CASE UNCHANGED poolVars
  BY <1>17 DEF poolVars
<1> QED BY <1>1, <1>2, <1>3, <1>4, <1>5, <1>6, <1>7, <1>8, <1>9, <1>10, <1>11, <1>12,
       <1>13, <1>14, <1>15, <1>16, <1>17, PoolSteps

LEMMA ClosedStep ==
    ASSUME PoolInv, [PoolNext]_poolVars
    PROVE  ClosedStagesNothing'
<1> USE DEF PoolInv, PoolTypeOK, ClosedStagesNothing
<1>1. ASSUME NEW p \in PoolOwners, StageBatch(p) PROVE ClosedStagesNothing'
  BY <1>1, OwnersAndKids DEF StageBatch, MoveAll
<1>2. ASSUME NEW p \in PoolOwners, DropBatch(p) PROVE ClosedStagesNothing'
  BY <1>2, OwnersAndKids DEF DropBatch, MoveAll
<1>3. ASSUME NEW p \in PoolOwners, Dispatch(p) PROVE ClosedStagesNothing'
  BY <1>3, OwnersAndKids DEF Dispatch, MoveAll
<1>4. ASSUME NEW p \in PoolOwners, GiveUp(p) PROVE ClosedStagesNothing'
  BY <1>4, OwnersAndKids DEF GiveUp
<1>5. ASSUME NEW p \in PoolOwners, StopKids(p) PROVE ClosedStagesNothing'
  BY <1>5, OwnersAndKids DEF StopKids
<1>6. ASSUME NEW p \in PoolOwners, Joins(p) PROVE ClosedStagesNothing'
  BY <1>6, OwnersAndKids DEF Joins
<1>7. ASSUME NEW c \in Children, NEW h \in PoolWorkers \cup Children, Taken(c, h)
      PROVE  ClosedStagesNothing'
  BY <1>7, OwnersAndKids DEF Taken
<1>8. ASSUME NEW c \in Children, Yield(c) PROVE ClosedStagesNothing'
  BY <1>8, OwnersAndKids DEF Yield
<1>9. ASSUME NEW c \in Children, Reacquire(c) PROVE ClosedStagesNothing'
  BY <1>9, OwnersAndKids DEF Reacquire, SlotFor
<1>10. ASSUME NEW c \in Children, Finish(c) PROVE ClosedStagesNothing'
  BY <1>10, OwnersAndKids DEF Finish
<1>11. ASSUME NEW c \in Children, Throws(c) PROVE ClosedStagesNothing'
  BY <1>11, OwnersAndKids DEF Throws, StopPool
<1>12. ASSUME NEW c \in Children, Leave(c) PROVE ClosedStagesNothing'
  BY <1>12, OwnersAndKids DEF Leave
<1>13. ASSUME NEW w \in PoolWorkers, WorkerExits(w) PROVE ClosedStagesNothing'
  BY <1>13, OwnersAndKids DEF WorkerExits
<1>14. ASSUME NEW r \in Roots, CancelRoot(r) PROVE ClosedStagesNothing'
  BY <1>14, OwnersAndKids DEF CancelRoot
<1>15. CASE ClosePool
  BY <1>15, OwnersAndKids DEF ClosePool, StopPool
<1>16. CASE PoolCloses
  BY <1>16, OwnersAndKids DEF PoolCloses
<1>17. CASE UNCHANGED poolVars
  BY <1>17 DEF poolVars
<1> QED BY <1>1, <1>2, <1>3, <1>4, <1>5, <1>6, <1>7, <1>8, <1>9, <1>10, <1>11, <1>12,
       <1>13, <1>14, <1>15, <1>16, <1>17, PoolSteps

LEMMA PromisesStep ==
    ASSUME PoolInv, [PoolNext]_poolVars
    PROVE  PromisesAreKept'
<1> USE DEF PoolInv, PoolTypeOK, PromisesAreKept
<1>1. ASSUME NEW p \in PoolOwners, StageBatch(p) PROVE PromisesAreKept'
  <2>1. \A c \in Children : at'[c] \notin {"done", "ended", "retired"} \/ at'[c] = at[c]
    BY <1>1, OwnersAndKids DEF StageBatch, MoveAll
  <2> QED BY <1>1, <2>1 DEF StageBatch
<1>2. ASSUME NEW p \in PoolOwners, DropBatch(p) PROVE PromisesAreKept'
  BY <1>2, OwnersAndKids DEF DropBatch, MoveAll
<1>3. ASSUME NEW p \in PoolOwners, Dispatch(p) PROVE PromisesAreKept'
  BY <1>3, OwnersAndKids DEF Dispatch, MoveAll
<1>4. ASSUME NEW p \in PoolOwners, GiveUp(p) PROVE PromisesAreKept'
  BY <1>4, OwnersAndKids DEF GiveUp
<1>5. ASSUME NEW p \in PoolOwners, StopKids(p) PROVE PromisesAreKept'
  BY <1>5, OwnersAndKids DEF StopKids
<1>6. ASSUME NEW p \in PoolOwners, Joins(p) PROVE PromisesAreKept'
  BY <1>6, OwnersAndKids DEF Joins
<1>7. ASSUME NEW c \in Children, NEW h \in PoolWorkers \cup Children, Taken(c, h)
      PROVE  PromisesAreKept'
  BY <1>7, OwnersAndKids DEF Taken
<1>8. ASSUME NEW c \in Children, Yield(c) PROVE PromisesAreKept'
  BY <1>8, OwnersAndKids DEF Yield
<1>9. ASSUME NEW c \in Children, Reacquire(c) PROVE PromisesAreKept'
  BY <1>9, OwnersAndKids DEF Reacquire, SlotFor
<1>10. ASSUME NEW c \in Children, Finish(c) PROVE PromisesAreKept'
  BY <1>10, OwnersAndKids DEF Finish
<1>11. ASSUME NEW c \in Children, Throws(c) PROVE PromisesAreKept'
  BY <1>11, OwnersAndKids DEF Throws, StopPool
<1>12. ASSUME NEW c \in Children, Leave(c) PROVE PromisesAreKept'
  BY <1>12, OwnersAndKids DEF Leave
<1>13. ASSUME NEW w \in PoolWorkers, WorkerExits(w) PROVE PromisesAreKept'
  BY <1>13, OwnersAndKids DEF WorkerExits
<1>14. ASSUME NEW r \in Roots, CancelRoot(r) PROVE PromisesAreKept'
  BY <1>14, OwnersAndKids DEF CancelRoot
<1>15. CASE ClosePool
  BY <1>15, OwnersAndKids DEF ClosePool, StopPool
<1>16. CASE PoolCloses
  BY <1>16, OwnersAndKids DEF PoolCloses
<1>17. CASE UNCHANGED poolVars
  BY <1>17 DEF poolVars
<1> QED BY <1>1, <1>2, <1>3, <1>4, <1>5, <1>6, <1>7, <1>8, <1>9, <1>10, <1>11, <1>12,
       <1>13, <1>14, <1>15, <1>16, <1>17, PoolSteps

LEMMA ClosingWaitsStep ==
    ASSUME PoolInv, [PoolNext]_poolVars
    PROVE  ClosingWaits'
<1> USE DEF PoolInv, PoolTypeOK, ClosingWaits, Dispatched
<1>p. exited = PoolWorkers => exited # {}
  BY PoolAssumption
<1>e. \A c \in Children : at[c] = "pending" => pending # <<>>
  BY EmptyQueue
<1>1. ASSUME NEW p \in PoolOwners, StageBatch(p) PROVE ClosingWaits'
  BY <1>1, OwnersAndKids, <1>p DEF StageBatch, MoveAll
<1>2. ASSUME NEW p \in PoolOwners, DropBatch(p) PROVE ClosingWaits'
  BY <1>2, OwnersAndKids, <1>p DEF DropBatch, MoveAll
<1>3. ASSUME NEW p \in PoolOwners, Dispatch(p) PROVE ClosingWaits'
  BY <1>3, OwnersAndKids, <1>p DEF Dispatch, MoveAll
<1>4. ASSUME NEW p \in PoolOwners, GiveUp(p) PROVE ClosingWaits'
  BY <1>4, OwnersAndKids, <1>p DEF GiveUp
<1>5. ASSUME NEW p \in PoolOwners, StopKids(p) PROVE ClosingWaits'
  BY <1>5, OwnersAndKids, <1>p DEF StopKids
<1>6. ASSUME NEW p \in PoolOwners, Joins(p) PROVE ClosingWaits'
  BY <1>6, OwnersAndKids, <1>p DEF Joins
<1>7. ASSUME NEW c \in Children, NEW h \in PoolWorkers \cup Children, Taken(c, h)
      PROVE  ClosingWaits'
  <2>1. pending # <<>> /\ exited = {}
    BY <1>7, <1>e DEF Taken
  <2> QED BY <1>7, <2>1, <1>p DEF Taken
<1>8. ASSUME NEW c \in Children, Yield(c) PROVE ClosingWaits'
  BY <1>8, OwnersAndKids, <1>p DEF Yield
<1>9. ASSUME NEW c \in Children, Reacquire(c) PROVE ClosingWaits'
  BY <1>9, OwnersAndKids, <1>p DEF Reacquire, SlotFor
<1>10. ASSUME NEW c \in Children, Finish(c) PROVE ClosingWaits'
  BY <1>10, OwnersAndKids, <1>p DEF Finish
<1>11. ASSUME NEW c \in Children, Throws(c) PROVE ClosingWaits'
  BY <1>11, OwnersAndKids, <1>p DEF Throws, StopPool
<1>12. ASSUME NEW c \in Children, Leave(c) PROVE ClosingWaits'
  BY <1>12, OwnersAndKids, <1>p DEF Leave
<1>13. ASSUME NEW w \in PoolWorkers, WorkerExits(w) PROVE ClosingWaits'
  BY <1>13, <1>p DEF WorkerExits, NothingOwed
<1>14. ASSUME NEW r \in Roots, CancelRoot(r) PROVE ClosingWaits'
  BY <1>14, OwnersAndKids, <1>p DEF CancelRoot
<1>15. CASE ClosePool
  BY <1>15, OwnersAndKids, <1>p DEF ClosePool, StopPool
<1>16. CASE PoolCloses
  BY <1>16, <1>p DEF PoolCloses
<1>17. CASE UNCHANGED poolVars
  BY <1>17 DEF poolVars
<1> QED BY <1>1, <1>2, <1>3, <1>4, <1>5, <1>6, <1>7, <1>8, <1>9, <1>10, <1>11, <1>12,
       <1>13, <1>14, <1>15, <1>16, <1>17, PoolSteps

\* The children of root r that hold a slot.
HoldersOf(r) == {c \in Holders : RootOf[c] = r}

StagedJobs == {c \in Children : at[c] = "staged"}

\* One child more or less holds a slot, and its root counts it.
LEMMA SlotTaken ==
    ASSUME PoolInv, NEW c \in Children, at[c] # "running", Holders' = Holders \cup {c},
           leaves' = [leaves EXCEPT ![RootOf[c]] = @ + 1]
    PROVE  \A r \in Roots : leaves'[r] = Cardinality(HoldersOf(r)')
<1> SUFFICES ASSUME NEW r \in Roots PROVE leaves'[r] = Cardinality(HoldersOf(r)')
  OBVIOUS
<1>1. IsFiniteSet(HoldersOf(r)) /\ c \notin HoldersOf(r)
  BY PoolAssumption, FS_Subset DEF HoldersOf, Holders
<1>2. leaves[r] = Cardinality(HoldersOf(r)) /\ r \in DOMAIN leaves
  BY DEF PoolInv, PoolTypeOK, CountersAreExact, HoldersOf
<1>3. CASE RootOf[c] = r
  <2>1. HoldersOf(r)' = HoldersOf(r) \cup {c}
    BY <1>3 DEF HoldersOf
  <2> QED BY <1>1, <1>2, <1>3, <2>1, FS_AddElement
<1>4. CASE RootOf[c] # r
  <2>1. HoldersOf(r)' = HoldersOf(r)
    BY <1>4 DEF HoldersOf
  <2> QED BY <1>2, <1>4, <2>1
<1> QED BY <1>3, <1>4

LEMMA SlotReleased ==
    ASSUME PoolInv, NEW c \in Children, at[c] = "running", Holders' = Holders \ {c},
           leaves' = [leaves EXCEPT ![RootOf[c]] = @ - 1]
    PROVE  /\ \A r \in Roots : leaves'[r] = Cardinality(HoldersOf(r)')
           /\ RootOf[c] \in Roots => leaves[RootOf[c]] >= 1
<1> SUFFICES ASSUME NEW r \in Roots
             PROVE  /\ leaves'[r] = Cardinality(HoldersOf(r)')
                    /\ RootOf[c] = r => leaves[r] >= 1
  OBVIOUS
<1>1. IsFiniteSet(HoldersOf(r))
  BY PoolAssumption, FS_Subset DEF HoldersOf, Holders
<1>2. leaves[r] = Cardinality(HoldersOf(r)) /\ r \in DOMAIN leaves
  BY DEF PoolInv, PoolTypeOK, CountersAreExact, HoldersOf
<1>3. CASE RootOf[c] = r
  <2>1. HoldersOf(r)' = HoldersOf(r) \ {c} /\ c \in HoldersOf(r)
    BY <1>3 DEF HoldersOf, Holders
  <2>2. Cardinality(HoldersOf(r)) >= 1
    BY <1>1, <2>1, FS_EmptySet, FS_CardinalityType
  <2> QED BY <1>1, <1>2, <1>3, <2>1, <2>2, FS_RemoveElement
<1>4. CASE RootOf[c] # r
  <2>1. HoldersOf(r)' = HoldersOf(r)
    BY <1>4 DEF HoldersOf
  <2> QED BY <1>2, <1>4, <2>1
<1> QED BY <1>3, <1>4

LEMMA SlotsKept ==
    ASSUME PoolInv, Holders' = Holders, leaves' = leaves
    PROVE  \A r \in Roots : leaves'[r] = Cardinality(HoldersOf(r)')
BY DEF PoolInv, CountersAreExact, HoldersOf

LEMMA SlotsStep ==
    ASSUME PoolInv, [PoolNext]_poolVars
    PROVE  /\ \A r \in Roots : leaves'[r] = Cardinality(HoldersOf(r)')
           /\ leaves' \in [Roots -> 0..Parallel]
<1> DEFINE Counted == /\ \A r \in Roots : leaves'[r] = Cardinality(HoldersOf(r)')
                      /\ leaves' \in [Roots -> 0..Parallel]
<1> SUFFICES Counted
  OBVIOUS
<1>t. at \in [Children \union Roots -> {"new", "staged", "pending", "running", "slotless",
                "planning", "waiting", "back", "ended", "retired", "done"}]
      /\ leaves \in [Roots -> 0..Parallel] /\ Parallel \in Nat
  BY PoolAssumption DEF PoolInv, PoolTypeOK
<1>k. ASSUME Holders' = Holders, leaves' = leaves PROVE Counted
  BY <1>k, <1>t, SlotsKept
<1>m. ASSUME NEW c \in Children, at[c] # "running", Holders' = Holders \cup {c},
             leaves[RootOf[c]] < Parallel, leaves' = [leaves EXCEPT ![RootOf[c]] = @ + 1]
      PROVE  Counted
  <2>1. leaves' \in [Roots -> 0..Parallel]
    <3>1. \A r \in Roots : leaves'[r] \in 0..Parallel
      BY <1>t, <1>m
    <3> QED BY <1>t, <1>m, <3>1
  <2> QED BY <1>m, <2>1, SlotTaken
<1>l. ASSUME NEW c \in Children, at[c] = "running", Holders' = Holders \ {c},
             leaves' = [leaves EXCEPT ![RootOf[c]] = @ - 1]
      PROVE  Counted
  <2>0. RootOf[c] \in Roots => leaves[RootOf[c]] >= 1
    BY <1>l, SlotReleased
  <2>1. leaves' \in [Roots -> 0..Parallel]
    <3>1. \A r \in Roots : leaves'[r] \in 0..Parallel
      BY <1>t, <1>l, <2>0
    <3> QED BY <1>t, <1>l, <3>1
  <2> QED BY <1>l, <2>1, SlotReleased
<1> HIDE DEF Counted
<1>1. ASSUME NEW p \in PoolOwners, StageBatch(p) PROVE Counted
  <2>0. \A c \in Kids(p) : at[c] = "new"
    BY <1>1 DEF StageBatch, BatchesAreWhole, PoolInv
  <2>1. Holders' = Holders /\ leaves' = leaves
    BY <1>1, <1>t, <2>0, OwnersAndKids DEF StageBatch, MoveAll, Holders
  <2> QED BY <2>1, <1>k
<1>2. ASSUME NEW p \in PoolOwners, DropBatch(p) PROVE Counted
  <2>1. Holders' = Holders /\ leaves' = leaves
    BY <1>2, <1>t, OwnersAndKids DEF DropBatch, MoveAll, Holders
  <2> QED BY <2>1, <1>k
<1>3. ASSUME NEW p \in PoolOwners, Dispatch(p) PROVE Counted
  <2>0. \A c \in Kids(p) : at[c] = "staged"
    BY <1>3 DEF Dispatch, BatchesAreWhole, PoolInv
  <2>1. Holders' = Holders /\ leaves' = leaves
    BY <1>3, <1>t, <2>0, OwnersAndKids DEF Dispatch, MoveAll, Holders
  <2> QED BY <2>1, <1>k
<1>4. ASSUME NEW p \in PoolOwners, GiveUp(p) PROVE Counted
  <2>1. Holders' = Holders /\ leaves' = leaves
    BY <1>4, <1>t, OwnersAndKids DEF GiveUp, Holders
  <2> QED BY <2>1, <1>k
<1>5. ASSUME NEW p \in PoolOwners, StopKids(p) PROVE Counted
  <2>1. Holders' = Holders /\ leaves' = leaves
    BY <1>5, <1>t DEF StopKids, Holders
  <2> QED BY <2>1, <1>k
<1>6. ASSUME NEW p \in PoolOwners, Joins(p) PROVE Counted
  <2>1. Holders' = Holders /\ leaves' = leaves
    BY <1>6, <1>t, OwnersAndKids DEF Joins, Holders
  <2> QED BY <2>1, <1>k
<1>7. ASSUME NEW c \in Children, NEW h \in PoolWorkers \cup Children, Taken(c, h)
      PROVE  Counted
  <2>1. CASE at' = [at EXCEPT ![c] = "slotless"] /\ leaves' = leaves
    <3>1. Holders' = Holders
      BY <1>7, <1>t, <2>1 DEF Taken, Holders
    <3> QED BY <1>k, <2>1, <3>1
  <2>2. CASE /\ leaves[RootOf[c]] < Parallel /\ at' = [at EXCEPT ![c] = "running"]
             /\ leaves' = [leaves EXCEPT ![RootOf[c]] = @ + 1]
    <3>1. Holders' = Holders \cup {c} /\ at[c] # "running"
      BY <1>7, <1>t, <2>2 DEF Taken, Holders
    <3> QED BY <1>m, <2>2, <3>1
  <2> QED BY <1>7, <2>1, <2>2 DEF Taken
<1>8. ASSUME NEW c \in Children, Yield(c) PROVE Counted
  <2>1. Holders' = Holders \ {c}
    BY <1>8, <1>t DEF Yield, Holders
  <2> QED BY <1>8, <1>l, <2>1 DEF Yield
<1>9. ASSUME NEW c \in Children, Reacquire(c) PROVE Counted
  <2>1. CASE at' = [at EXCEPT ![c] = "slotless"] /\ leaves' = leaves
    <3>1. Holders' = Holders
      BY <1>9, <1>t, <2>1 DEF Reacquire, Holders
    <3> QED BY <1>k, <2>1, <3>1
  <2>2. CASE /\ leaves[RootOf[c]] < Parallel /\ at' = [at EXCEPT ![c] = "running"]
             /\ leaves' = [leaves EXCEPT ![RootOf[c]] = @ + 1]
    <3>1. Holders' = Holders \cup {c} /\ at[c] # "running"
      BY <1>9, <1>t, <2>2 DEF Reacquire, Holders
    <3> QED BY <1>m, <2>2, <3>1
  <2> QED BY <1>9, <2>1, <2>2 DEF Reacquire, SlotFor
<1>10. ASSUME NEW c \in Children, Finish(c) PROVE Counted
  <2>1. Holders' = Holders \ {c}
    BY <1>10, <1>t DEF Finish, Holders
  <2>2. CASE at[c] = "running"
    BY <1>10, <1>l, <2>1, <2>2 DEF Finish, Released
  <2>3. CASE at[c] # "running"
    <3>1. Holders' = Holders
      BY <2>1, <2>3 DEF Holders
    <3> QED BY <1>10, <1>k, <2>3, <3>1 DEF Finish, Released
  <2> QED BY <2>2, <2>3
<1>11. ASSUME NEW c \in Children, Throws(c) PROVE Counted
  <2>1. Holders' = Holders \ {c}
    BY <1>11, <1>t DEF Throws, StopPool, Holders
  <2>2. CASE at[c] = "running"
    BY <1>11, <1>l, <2>1, <2>2 DEF Throws, Released
  <2>3. CASE at[c] # "running"
    <3>1. Holders' = Holders
      BY <2>1, <2>3 DEF Holders
    <3> QED BY <1>11, <1>k, <2>3, <3>1 DEF Throws, Released
  <2> QED BY <2>2, <2>3
<1>12. ASSUME NEW c \in Children, Leave(c) PROVE Counted
  <2>1. Holders' = Holders /\ leaves' = leaves
    BY <1>12, <1>t DEF Leave, Holders
  <2> QED BY <2>1, <1>k
<1>13. ASSUME NEW w \in PoolWorkers, WorkerExits(w) PROVE Counted
  <2>1. Holders' = Holders /\ leaves' = leaves
    BY <1>13, <1>t DEF WorkerExits, Holders
  <2> QED BY <2>1, <1>k
<1>14. ASSUME NEW r \in Roots, CancelRoot(r) PROVE Counted
  <2>1. Holders' = Holders /\ leaves' = leaves
    BY <1>14, <1>t DEF CancelRoot, Holders
  <2> QED BY <2>1, <1>k
<1>15. CASE ClosePool
  <2>1. Holders' = Holders /\ leaves' = leaves
    BY <1>15, <1>t DEF ClosePool, StopPool, Holders
  <2> QED BY <2>1, <1>k
<1>16. CASE PoolCloses
  <2>1. Holders' = Holders /\ leaves' = leaves
    BY <1>16, <1>t DEF PoolCloses, Holders
  <2> QED BY <2>1, <1>k
<1>17. CASE UNCHANGED poolVars
  BY <1>17, <1>k DEF poolVars, Holders
<1> QED BY <1>1, <1>2, <1>3, <1>4, <1>5, <1>6, <1>7, <1>8, <1>9, <1>10, <1>11, <1>12,
       <1>13, <1>14, <1>15, <1>16, <1>17, PoolSteps

LEMMA ReservedStep ==
    ASSUME PoolInv, [PoolNext]_poolVars
    PROVE  reserved' = Cardinality(StagedJobs')
<1>t. at \in [Children \union Roots -> {"new", "staged", "pending", "running", "slotless",
                "planning", "waiting", "back", "ended", "retired", "done"}]
  BY DEF PoolInv, PoolTypeOK
<1>f. IsFiniteSet(StagedJobs) /\ reserved = Cardinality(StagedJobs)
  BY PoolAssumption, FS_Subset DEF PoolInv, CountersAreExact, StagedJobs
<1>k. ASSUME StagedJobs' = StagedJobs, reserved' = reserved
      PROVE  reserved' = Cardinality(StagedJobs')
  BY <1>f, <1>k
<1>z. ASSUME StagedJobs' = {}, reserved' = 0 PROVE reserved' = Cardinality(StagedJobs')
  BY <1>z, FS_EmptySet
<1>1. ASSUME NEW p \in PoolOwners, StageBatch(p)
      PROVE  reserved' = Cardinality(StagedJobs')
  <2>1. \A c \in Kids(p) : at[c] = "new"
    BY <1>1 DEF StageBatch, BatchesAreWhole, PoolInv
  <2>2. StagedJobs' = StagedJobs \cup Kids(p) /\ StagedJobs \cap Kids(p) = {}
    BY <1>1, <1>t, <2>1, OwnersAndKids DEF StageBatch, MoveAll, StagedJobs
  <2>3. Cardinality(StagedJobs') = Cardinality(StagedJobs) + Cardinality(Kids(p))
    <3>1. Cardinality(StagedJobs \cup Kids(p))
            = Cardinality(StagedJobs) + Cardinality(Kids(p)) - Cardinality(StagedJobs \cap Kids(p))
      BY <1>f, OwnersAndKids, FS_Union
    <3>2. Cardinality(StagedJobs \cap Kids(p)) = 0
      BY <2>2, FS_EmptySet
    <3>3. Cardinality(StagedJobs) \in Nat /\ Cardinality(Kids(p)) \in Nat
      BY <1>f, OwnersAndKids, FS_CardinalityType
    <3> QED BY <2>2, <3>1, <3>2, <3>3
  <2> QED BY <1>1, <1>f, <2>3 DEF StageBatch
<1>2. ASSUME NEW p \in PoolOwners, DropBatch(p)
      PROVE  reserved' = Cardinality(StagedJobs')
  <2> DEFINE mine == {c \in Kids(p) : at[c] = "staged"}
  <2>1. at[p] = "planning"
    BY <1>2 DEF DropBatch
  <2>2. StagedJobs' = StagedJobs \ mine /\ mine \subseteq StagedJobs
    BY <1>2, <1>t, <2>1, OwnersAndKids DEF DropBatch, MoveAll, StagedJobs
  <2>3. reserved' = reserved - Cardinality(mine)
    BY <1>2 DEF DropBatch
  <2> HIDE DEF mine
  <2>4. Cardinality(StagedJobs \ mine)
          = Cardinality(StagedJobs) - Cardinality(StagedJobs \cap mine)
    BY <1>f, FS_Difference
  <2>5. StagedJobs \cap mine = mine
    BY <2>2
  <2> QED BY <1>f, <2>2, <2>3, <2>4, <2>5
<1>3. ASSUME NEW p \in PoolOwners, Dispatch(p)
      PROVE  reserved' = Cardinality(StagedJobs')
  <2> DEFINE mine == Kids(p)
  <2>1. at[p] = "planning" /\ \A c \in Kids(p) : at[c] = "staged"
    BY <1>3 DEF Dispatch, BatchesAreWhole, PoolInv
  <2>2. StagedJobs' = StagedJobs \ mine /\ mine \subseteq StagedJobs
    BY <1>3, <1>t, <2>1, OwnersAndKids DEF Dispatch, MoveAll, StagedJobs
  <2>3. reserved' = reserved - Cardinality(mine)
    BY <1>3 DEF Dispatch
  <2> HIDE DEF mine
  <2>4. Cardinality(StagedJobs \ mine)
          = Cardinality(StagedJobs) - Cardinality(StagedJobs \cap mine)
    BY <1>f, FS_Difference
  <2>5. StagedJobs \cap mine = mine
    BY <2>2
  <2> QED BY <1>f, <2>2, <2>3, <2>4, <2>5
<1>4. ASSUME NEW p \in PoolOwners, GiveUp(p)
      PROVE  reserved' = Cardinality(StagedJobs')
  <2>1. StagedJobs' = StagedJobs /\ reserved' = reserved
    BY <1>4, <1>t, OwnersAndKids DEF GiveUp, StagedJobs
  <2> QED BY <2>1, <1>k
<1>5. ASSUME NEW p \in PoolOwners, StopKids(p)
      PROVE  reserved' = Cardinality(StagedJobs')
  <2>1. StagedJobs' = StagedJobs /\ reserved' = reserved
    BY <1>5, <1>t DEF StopKids, StagedJobs
  <2> QED BY <2>1, <1>k
<1>6. ASSUME NEW p \in PoolOwners, Joins(p) PROVE reserved' = Cardinality(StagedJobs')
  <2>1. StagedJobs' = StagedJobs /\ reserved' = reserved
    BY <1>6, <1>t, OwnersAndKids DEF Joins, StagedJobs
  <2> QED BY <2>1, <1>k
<1>7. ASSUME NEW c \in Children, NEW h \in PoolWorkers \cup Children, Taken(c, h)
      PROVE  reserved' = Cardinality(StagedJobs')
  <2>1. StagedJobs' = StagedJobs /\ reserved' = reserved
    BY <1>7, <1>t DEF Taken, StagedJobs
  <2> QED BY <2>1, <1>k
<1>8. ASSUME NEW c \in Children, Yield(c) PROVE reserved' = Cardinality(StagedJobs')
  <2>1. StagedJobs' = StagedJobs /\ reserved' = reserved
    BY <1>8, <1>t DEF Yield, StagedJobs
  <2> QED BY <2>1, <1>k
<1>9. ASSUME NEW c \in Children, Reacquire(c)
      PROVE  reserved' = Cardinality(StagedJobs')
  <2>1. StagedJobs' = StagedJobs /\ reserved' = reserved
    BY <1>9, <1>t DEF Reacquire, SlotFor, StagedJobs
  <2> QED BY <2>1, <1>k
<1>10. ASSUME NEW c \in Children, Finish(c) PROVE reserved' = Cardinality(StagedJobs')
  <2>1. StagedJobs' = StagedJobs /\ reserved' = reserved
    BY <1>10, <1>t DEF Finish, StagedJobs
  <2> QED BY <2>1, <1>k
<1>11. ASSUME NEW c \in Children, Throws(c) PROVE reserved' = Cardinality(StagedJobs')
  <2>1. StagedJobs' = {} /\ reserved' = 0
    BY <1>11, <1>t DEF Throws, StopPool, StagedJobs
  <2> QED BY <2>1, <1>z
<1>12. ASSUME NEW c \in Children, Leave(c) PROVE reserved' = Cardinality(StagedJobs')
  <2>1. StagedJobs' = StagedJobs /\ reserved' = reserved
    BY <1>12, <1>t DEF Leave, StagedJobs
  <2> QED BY <2>1, <1>k
<1>13. ASSUME NEW w \in PoolWorkers, WorkerExits(w)
      PROVE  reserved' = Cardinality(StagedJobs')
  <2>1. StagedJobs' = StagedJobs /\ reserved' = reserved
    BY <1>13, <1>t DEF WorkerExits, StagedJobs
  <2> QED BY <2>1, <1>k
<1>14. ASSUME NEW r \in Roots, CancelRoot(r)
      PROVE  reserved' = Cardinality(StagedJobs')
  <2>1. StagedJobs' = StagedJobs /\ reserved' = reserved
    BY <1>14, <1>t DEF CancelRoot, StagedJobs
  <2> QED BY <2>1, <1>k
<1>15. CASE ClosePool
  <2>1. StagedJobs' = {} /\ reserved' = 0
    BY <1>15, <1>t DEF ClosePool, StopPool, StagedJobs
  <2> QED BY <2>1, <1>z
<1>16. CASE PoolCloses
  <2>1. StagedJobs' = StagedJobs /\ reserved' = reserved
    BY <1>16, <1>t DEF PoolCloses, StagedJobs
  <2> QED BY <2>1, <1>k
<1>17. CASE UNCHANGED poolVars
  BY <1>17, <1>k DEF poolVars, StagedJobs
<1> QED BY <1>1, <1>2, <1>3, <1>4, <1>5, <1>6, <1>7, <1>8, <1>9, <1>10, <1>11, <1>12,
       <1>13, <1>14, <1>15, <1>16, <1>17, PoolSteps

LEMMA PoolStep == PoolInv /\ [PoolNext]_poolVars => PoolInv'
<1> SUFFICES ASSUME PoolInv, [PoolNext]_poolVars PROVE PoolInv'
  OBVIOUS
<1>1. PlacesAreBounded' /\ Range(pending') = {c \in Children : at'[c] = "pending"}
  BY PlacesStep
<1>2. reserved' = Cardinality(StagedJobs') /\ reserved' \in Nat
  <2>1. IsFiniteSet(StagedJobs')
    BY PoolAssumption, FS_Subset DEF StagedJobs
  <2> QED BY <2>1, ReservedStep, FS_CardinalityType
<1>3. CountersAreExact'
  BY <1>2, SlotsStep DEF CountersAreExact, HoldersOf, StagedJobs
<1>4. Len(pending') <= PoolCapacity /\ reserved' \in 0..PoolCapacity
  <2>1. Len(pending') \in Nat /\ Len(pending') + reserved' <= PoolCapacity
    BY <1>1, LenProperties DEF PlacesAreBounded
  <2> QED BY <1>2, <2>1, PoolAssumption
<1>5. PoolTypeOK'
  BY <1>1, <1>4, AtTypeStep, OtherTypesStep, SlotsStep DEF PoolTypeOK
<1> QED BY <1>1, <1>3, <1>5, BatchesStep, ClosedStep, PromisesStep, ClosingWaitsStep DEF PoolInv


\* A pool without work, whose roots are all at one place, satisfies the invariant.
LEMMA EmptyPool ==
    ASSUME NEW place \in {"planning", "done"},
           at = [x \in Children \union Roots |-> IF x \in Roots THEN place ELSE "new"],
           batch = [p \in PoolOwners |-> "none"],
           pending = <<>>, reserved = 0, leaves = [r \in Roots |-> 0],
           host = [c \in Children |-> NoHost], promise = [c \in Children |-> "none"],
           told = {}, open \in BOOLEAN, exited \subseteq PoolWorkers,
           closing \in {"no", "joining", "closed"}, ClosingWaits
    PROVE  PoolInv
<1>1. \A c \in Children : at[c] = "new"
  BY PoolAssumption
<1>2. PoolTypeOK
  <2>1. Range(pending) = {c \in Children : at[c] = "pending"}
    BY <1>1, EmptyQueue
  <2>2. Len(pending) <= PoolCapacity /\ 0 \in 0..PoolCapacity /\ 0 \in 0..Parallel
    BY PoolAssumption, EmptySeq
  <2> QED BY <2>1, <2>2 DEF PoolTypeOK
<1>3. PlacesAreBounded
  BY EmptyQueue, EmptySeq, PoolAssumption DEF PlacesAreBounded
<1>4. BatchesAreWhole
  BY <1>1 DEF BatchesAreWhole, Kids
<1>5. ClosedStagesNothing /\ PromisesAreKept
  BY <1>1 DEF ClosedStagesNothing, PromisesAreKept
<1>6. CountersAreExact
  <2>1. {c \in Children : at[c] = "staged"} = {} /\ \A r : {c \in Holders : RootOf[c] = r} = {}
    BY <1>1 DEF Holders
  <2> QED BY <2>1, FS_EmptySet DEF CountersAreExact
<1> QED BY <1>2, <1>3, <1>4, <1>5, <1>6 DEF PoolInv

LEMMA PoolInitInv == PoolInit => PoolInv
<1> SUFFICES ASSUME PoolInit PROVE PoolInv
  OBVIOUS
<1>1. ClosingWaits
  BY DEF PoolInit, ClosingWaits
<1> QED BY <1>1, EmptyPool DEF PoolInit

\* After close() nothing runs, waits or is owed a result.
LEMMA PoolDrained == PoolInv => ClosedPoolIsDrained
<1> SUFFICES ASSUME PoolInv, closing = "closed", NEW c \in Children
             PROVE  at[c] = "new" \/ (at[c] = "retired" /\ promise[c] # "none")
  BY DEF ClosedPoolIsDrained
<1>1. ~open /\ exited # {} /\ c \notin Dispatched
  BY PoolAssumption DEF PoolInv, ClosingWaits
<1>2. at[c] # "staged" /\ at[c] # "pending"
  BY <1>1, EmptyQueue DEF PoolInv, PoolTypeOK, ClosingWaits, ClosedStagesNothing
<1>3. at[c] \in {"new", "retired"} /\ (at[c] = "retired" => promise[c] # "none")
  BY <1>1, <1>2 DEF PoolInv, PoolTypeOK, PromisesAreKept, Dispatched
<1> QED BY <1>3

\* The leaf counter of every root and the counter of reserved places are exact, for
\* any nesting of plans, any number of workers and any limits (NativeChildSlot).
THEOREM PoolCountsExactly == PoolSpec => []CountersAreExact
<1>1. PoolInv => CountersAreExact
  BY DEF PoolInv
<1> QED BY <1>1, PoolInitInv, PoolStep, PTL DEF PoolSpec

\* close() of the pool returns over no job, and every future of one is ready.
THEOREM PoolClosesDrained == PoolSpec => []ClosedPoolIsDrained
BY PoolDrained, PoolInitInv, PoolStep, PTL DEF PoolSpec

--------------------------------------------------------------------------------
(* NativeChildExecutor implements WorkLedger *)

\* A future is ready only when the action is over, or never will start.
OutcomesComeLast ==
    \A c \in Children : promise[c] # "none" => at[c] \in {"ended", "retired"}

\* An owner that is past its batch has no child under way.
JoinedIsOver ==
    \A p \in PoolOwners :
        /\ batch[p] = "staged" =>
             at[p] = "planning" /\ \A c \in Kids(p) : at[c] \in {"staged", "retired"}
        /\ batch[p] = "dropped" => \A c \in Kids(p) : at[c] = "retired"
        /\ Joined(p) => \A c \in Kids(p) : at[c] \in {"ended", "retired"}

JoinInv == PoolInv /\ OutcomesComeLast /\ JoinedIsOver

UnderWay == {"running", "slotless", "planning", "waiting", "back"}

\* What one critical section of the pool can do to child c.
ChildMoves(c) ==
    \/ at'[c] = at[c] /\ promise'[c] = promise[c]
    \/ open /\ at[c] = "new" /\ at'[c] = "staged" /\ promise'[c] = promise[c]
    \/ /\ at[c] = "staged" /\ at'[c] = "retired"
       /\ promise[c] = "none" /\ promise'[c] = "exception"
    \/ at[c] = "staged" /\ at'[c] = "pending" /\ promise'[c] = promise[c]
    \/ at[c] = "pending" /\ at'[c] \in {"running", "slotless"} /\ promise'[c] = promise[c]
    \/ at[c] \in UnderWay /\ at'[c] \in UnderWay /\ promise'[c] = promise[c]
    \/ /\ at[c] \in {"running", "slotless"} /\ at'[c] = "ended"
       /\ promise[c] = "none" /\ promise'[c] \in {"value", "exception"}
    \/ at[c] = "ended" /\ at'[c] = "retired" /\ promise'[c] = promise[c]

LEMMA EveryChildMoves ==
    ASSUME JoinInv, [PoolNext]_poolVars, NEW k \in Children
    PROVE  ChildMoves(k)
<1> USE DEF JoinInv, PoolInv, PoolTypeOK, ChildMoves, UnderWay
<1>p. at[k] \notin {"ended", "retired"} => promise[k] = "none"
  BY DEF OutcomesComeLast
<1>k. \A p \in PoolOwners : Kids(p) \subseteq Children
  BY OwnersAndKids
<1>1. ASSUME NEW p \in PoolOwners, StageBatch(p) PROVE ChildMoves(k)
  BY <1>1 DEF StageBatch, MoveAll, BatchesAreWhole
<1>2. ASSUME NEW p \in PoolOwners, DropBatch(p) PROVE ChildMoves(k)
  BY <1>2, <1>p, OwnersAndKids DEF DropBatch, MoveAll
<1>3. ASSUME NEW p \in PoolOwners, Dispatch(p) PROVE ChildMoves(k)
  BY <1>3, OwnersAndKids DEF Dispatch, MoveAll, BatchesAreWhole
<1>4. ASSUME NEW p \in PoolOwners, GiveUp(p) \/ StopKids(p) PROVE ChildMoves(k)
  BY <1>4, OwnersAndKids DEF GiveUp, StopKids
<1>6. ASSUME NEW p \in PoolOwners, Joins(p) PROVE ChildMoves(k)
  BY <1>6, OwnersAndKids DEF Joins
<1>7. ASSUME NEW c \in Children, NEW h \in PoolWorkers \cup Children, Taken(c, h)
      PROVE  ChildMoves(k)
  BY <1>7 DEF Taken
<1>8. ASSUME NEW c \in Children, Yield(c) \/ Reacquire(c) \/ Leave(c) PROVE ChildMoves(k)
  BY <1>8 DEF Yield, Reacquire, Leave
<1>10. ASSUME NEW c \in Children, Finish(c) PROVE ChildMoves(k)
  BY <1>10, <1>p DEF Finish
<1>11. ASSUME NEW c \in Children, Throws(c) PROVE ChildMoves(k)
  BY <1>11, <1>p DEF Throws, StopPool
<1>13. ASSUME NEW w \in PoolWorkers, WorkerExits(w) PROVE ChildMoves(k)
  BY <1>13 DEF WorkerExits
<1>14. ASSUME NEW r \in Roots, CancelRoot(r) PROVE ChildMoves(k)
  BY <1>14 DEF CancelRoot
<1>15. CASE ClosePool
  BY <1>15, <1>p DEF ClosePool, StopPool
<1>16. CASE PoolCloses \/ UNCHANGED poolVars
  BY <1>16 DEF PoolCloses, poolVars
<1> QED BY <1>1, <1>2, <1>3, <1>4, <1>6, <1>7, <1>8, <1>10, <1>11, <1>13, <1>14, <1>15,
       <1>16, PoolSteps

\* What one critical section can do to an owner that has a batch.
OwnerMoves(p) ==
    \/ batch'[p] = batch[p] /\ at'[p] = at[p]
    \/ batch[p] = "none" /\ batch'[p] = "none"
    \/ /\ batch[p] = "none" /\ batch'[p] = "staged"
       /\ at'[p] = "planning" /\ \A c \in Kids(p) : at'[c] = "staged"
    \/ /\ batch[p] = "staged" /\ batch'[p] = "dropped" /\ at'[p] = "waiting"
       /\ \A c \in Kids(p) : at'[c] = "retired"
    \/ batch[p] = "staged" /\ batch'[p] = "dispatched" /\ at'[p] = "waiting"
    \/ /\ batch[p] = "dispatched" /\ batch'[p] = batch[p] /\ at[p] = "waiting"
       /\ \A c \in Kids(p) : at[c] \in {"ended", "retired"}
    \/ batch[p] = "dropped" /\ batch'[p] = batch[p] /\ at[p] = "waiting"
    \/ batch'[p] = batch[p] /\ at[p] \notin {"planning", "waiting"}
                            /\ at'[p] \notin {"planning", "waiting"}

LEMMA EveryOwnerMoves ==
    ASSUME JoinInv, [PoolNext]_poolVars, NEW q \in PoolOwners
    PROVE  OwnerMoves(q)
<1> USE DEF JoinInv, PoolInv, PoolTypeOK, OwnerMoves
<1>k. /\ \A p \in PoolOwners : Kids(p) \subseteq Children /\ p \in Children \cup Roots
      /\ \A r \in Roots : r \notin Children
  BY OwnersAndKids
<1>1. ASSUME NEW p \in PoolOwners, StageBatch(p) PROVE OwnerMoves(q)
  <2>1. \A c \in Kids(p) : at[c] = "new"
    BY <1>1 DEF StageBatch, BatchesAreWhole
  <2> QED BY <1>1, <1>k, <2>1 DEF StageBatch, MoveAll
<1>2. ASSUME NEW p \in PoolOwners, DropBatch(p) PROVE OwnerMoves(q)
  <2>1. \A c \in Kids(p) : at[c] \in {"staged", "retired"}
    BY <1>2 DEF DropBatch, JoinedIsOver
  <2> QED BY <1>2, <1>k, <2>1 DEF DropBatch, MoveAll
<1>3. ASSUME NEW p \in PoolOwners, Dispatch(p) PROVE OwnerMoves(q)
  <2>1. \A c \in Kids(p) : at[c] = "staged"
    BY <1>3 DEF Dispatch, BatchesAreWhole
  <2> QED BY <1>3, <1>k, <2>1 DEF Dispatch, MoveAll
<1>4. ASSUME NEW p \in PoolOwners, GiveUp(p) \/ StopKids(p) PROVE OwnerMoves(q)
  BY <1>4, <1>k DEF GiveUp, StopKids
<1>6. ASSUME NEW p \in PoolOwners, Joins(p) PROVE OwnerMoves(q)
  <2>1. batch[p] # "staged"
    BY <1>6 DEF Joins, JoinedIsOver
  <2>2. batch[p] = "dispatched" => \A c \in Kids(p) : at[c] \in {"ended", "retired"}
    BY <1>6, <1>k DEF Joins, OutcomesComeLast
  <2> QED BY <1>6, <1>k, <2>1, <2>2 DEF Joins
<1>7. ASSUME NEW c \in Children, NEW h \in PoolWorkers \cup Children, Taken(c, h)
      PROVE  OwnerMoves(q)
  BY <1>7, <1>k DEF Taken
<1>8. ASSUME NEW c \in Children, Yield(c) \/ Reacquire(c) \/ Leave(c) \/ Finish(c)
      PROVE OwnerMoves(q)
  BY <1>8, <1>k DEF Yield, Reacquire, Leave, Finish
<1>11. ASSUME NEW c \in Children, Throws(c) PROVE OwnerMoves(q)
  BY <1>11, <1>k DEF Throws, StopPool
<1>13. ASSUME NEW w \in PoolWorkers, WorkerExits(w) PROVE OwnerMoves(q)
  BY <1>13 DEF WorkerExits
<1>14. ASSUME NEW r \in Roots, CancelRoot(r) PROVE OwnerMoves(q)
  BY <1>14 DEF CancelRoot
<1>15. CASE ClosePool
  BY <1>15, <1>k DEF ClosePool, StopPool
<1>16. CASE PoolCloses \/ UNCHANGED poolVars
  BY <1>16 DEF PoolCloses, poolVars
<1> QED BY <1>1, <1>2, <1>3, <1>4, <1>6, <1>7, <1>8, <1>11, <1>13, <1>14, <1>15,
       <1>16, PoolSteps

\* The children of a staged batch leave it only with the whole batch.
LEMMA StagedStay ==
    ASSUME JoinInv, [PoolNext]_poolVars, NEW q \in PoolOwners, NEW k \in Kids(q),
           batch[q] = "staged", batch'[q] = "staged"
    PROVE  at'[k] \in {"staged", "retired"}
<1> USE DEF JoinInv, PoolInv, PoolTypeOK
<1>k. /\ \A p \in PoolOwners : Kids(p) \subseteq Children /\ p \in Children \cup Roots
      /\ \A p \in PoolOwners : k \in Kids(p) => p = q
      /\ k \notin Roots
  BY OwnersAndKids
<1>s. k \in Children /\ at[k] \in {"staged", "retired"}
  BY <1>k DEF JoinedIsOver
<1>1. ASSUME NEW p \in PoolOwners, StageBatch(p) \/ DropBatch(p) \/ Dispatch(p)
      PROVE  at'[k] \in {"staged", "retired"}
  <2>1. p # q
    BY <1>1 DEF StageBatch, DropBatch, Dispatch
  <2> QED BY <1>1, <1>k, <1>s, <2>1 DEF StageBatch, DropBatch, Dispatch, MoveAll
<1>2. ASSUME NEW p \in PoolOwners, GiveUp(p) \/ StopKids(p) \/ Joins(p)
      PROVE  at'[k] \in {"staged", "retired"}
  BY <1>2, <1>k, <1>s DEF GiveUp, StopKids, Joins
<1>3. ASSUME NEW c \in Children, NEW h \in PoolWorkers \cup Children, Taken(c, h)
      PROVE  at'[k] \in {"staged", "retired"}
  BY <1>3, <1>s DEF Taken
<1>4. ASSUME NEW c \in Children,
             Yield(c) \/ Reacquire(c) \/ Finish(c) \/ Throws(c) \/ Leave(c)
      PROVE  at'[k] \in {"staged", "retired"}
  BY <1>4, <1>s DEF Yield, Reacquire, Finish, Throws, Leave, StopPool
<1>5. ASSUME NEW w \in PoolWorkers, WorkerExits(w) PROVE at'[k] \in {"staged", "retired"}
  BY <1>5, <1>s DEF WorkerExits
<1>6. ASSUME NEW r \in Roots, CancelRoot(r) PROVE at'[k] \in {"staged", "retired"}
  BY <1>6, <1>s DEF CancelRoot
<1>7. CASE ClosePool \/ PoolCloses \/ UNCHANGED poolVars
  BY <1>7, <1>s DEF ClosePool, StopPool, PoolCloses, poolVars
<1> QED BY <1>1, <1>2, <1>3, <1>4, <1>5, <1>6, <1>7, PoolSteps

LEMMA JoinStep == JoinInv /\ [PoolNext]_poolVars => JoinInv'
<1> SUFFICES ASSUME JoinInv, [PoolNext]_poolVars PROVE JoinInv'
  OBVIOUS
<1>1. PoolInv'
  BY PoolStep DEF JoinInv
<1>2. \A c \in Children : ChildMoves(c)
  BY EveryChildMoves
<1>3. OutcomesComeLast'
  BY <1>2 DEF JoinInv, OutcomesComeLast, ChildMoves, UnderWay
<1>4. ASSUME NEW p \in PoolOwners
      PROVE  /\ batch'[p] = "staged" =>
                  at'[p] = "planning" /\ \A c \in Kids(p) : at'[c] \in {"staged", "retired"}
             /\ batch'[p] = "dropped" => \A c \in Kids(p) : at'[c] = "retired"
             /\ Joined(p)' => \A c \in Kids(p) : at'[c] \in {"ended", "retired"}
  <2>1. Kids(p) \subseteq Children
    BY OwnersAndKids
  <2>2. /\ batch[p] = "staged" =>
             at[p] = "planning" /\ \A c \in Kids(p) : at[c] \in {"staged", "retired"}
        /\ batch[p] = "dropped" => \A c \in Kids(p) : at[c] = "retired"
        /\ Joined(p) => \A c \in Kids(p) : at[c] \in {"ended", "retired"}
    BY DEF JoinInv, JoinedIsOver
  <2>3. \A c \in Kids(p) : at[c] \in {"ended", "retired"} => at'[c] \in {"ended", "retired"}
    BY <1>2, <2>1 DEF ChildMoves, UnderWay
  <2>4. \A c \in Kids(p) : at[c] = "retired" => at'[c] = "retired"
    BY <1>2, <2>1 DEF ChildMoves, UnderWay
  <2>5. OwnerMoves(p)
    BY EveryOwnerMoves
  <2>6. batch[p] = "staged" /\ batch'[p] = "staged"
          => \A c \in Kids(p) : at'[c] \in {"staged", "retired"}
    BY StagedStay
  <2> QED BY <2>2, <2>3, <2>4, <2>5, <2>6 DEF OwnerMoves, Joined
<1> QED BY <1>1, <1>3, <1>4 DEF JoinInv, JoinedIsOver

LEMMA JoinInitInv == PoolInit => JoinInv
<1> SUFFICES ASSUME PoolInit PROVE JoinInv
  OBVIOUS
<1>1. PoolInv
  BY PoolInitInv
<1>2. OutcomesComeLast /\ JoinedIsOver
  BY DEF PoolInit, OutcomesComeLast, JoinedIsOver, Joined
<1> QED BY <1>1, <1>2 DEF JoinInv

\* A closed pool stays closed.
LEMMA PoolDoor ==
    ASSUME PoolInv, [PoolNext]_poolVars
    PROVE  /\ open' => open
           /\ closing = "closed" => closing' = "closed"
           /\ closing' = "closed" => ~open
<1> DEFINE Kept == /\ open' => open
                   /\ closing = "closed" => closing' = "closed"
                   /\ closing' = "closed" => ~open
<1> SUFFICES Kept
  OBVIOUS
<1> USE DEF PoolInv, PoolTypeOK, ClosingWaits
<1>1. ASSUME NEW p \in PoolOwners,
             StageBatch(p) \/ DropBatch(p) \/ Dispatch(p) \/ GiveUp(p) \/ StopKids(p) \/ Joins(p)
      PROVE  Kept
  BY <1>1 DEF StageBatch, DropBatch, Dispatch, GiveUp, StopKids, Joins
<1>2. ASSUME NEW c \in Children, NEW h \in PoolWorkers \cup Children, Taken(c, h) PROVE Kept
  BY <1>2 DEF Taken
<1>3. ASSUME NEW c \in Children,
             Yield(c) \/ Reacquire(c) \/ Finish(c) \/ Throws(c) \/ Leave(c)
      PROVE  Kept
  BY <1>3 DEF Yield, Reacquire, Finish, Throws, Leave, StopPool
<1>4. ASSUME NEW w \in PoolWorkers, WorkerExits(w) PROVE Kept
  BY <1>4 DEF WorkerExits
<1>5. ASSUME NEW r \in Roots, CancelRoot(r) PROVE Kept
  BY <1>5 DEF CancelRoot
<1>6. CASE ClosePool \/ PoolCloses \/ UNCHANGED poolVars
  BY <1>6 DEF ClosePool, StopPool, PoolCloses, poolVars
<1> QED BY <1>1, <1>2, <1>3, <1>4, <1>5, <1>6, PoolSteps

\* Every step of the pool is one of the ledger, or leaves it alone.
LEMMA PoolRefines ==
    ASSUME JoinInv, [PoolNext]_poolVars
    PROVE  ChildLedger!Next
<1> DEFINE Stg == [c \in Children |-> ChildStage(c)]
           SettledKids == {c \in Children : Joined(Parent[c])}
           Door == IF closing = "closed" THEN "drained" ELSE IF open THEN "open" ELSE "shut"
<1>t. PoolInv /\ PoolInv' /\ JoinInv'
  BY JoinStep, PoolStep DEF JoinInv
<1>1. ASSUME NEW c \in Children
      PROVE  \/ ChildLedger!Keep(c) \/ ChildLedger!Accept(c) \/ ChildLedger!Fail(c)
             \/ ChildLedger!Start(c) \/ ChildLedger!End(c) \/ ChildLedger!Tell(c)
  <2>1. ChildMoves(c)
    BY EveryChildMoves
  <2>2. open => closing # "closed"
    BY <1>t DEF PoolInv, ClosingWaits
  <2>3. promise[c] \in {"none", "value", "exception"}
    BY <1>t DEF PoolInv, PoolTypeOK
  <2> QED
    BY <2>1, <2>2, <2>3
       DEF ChildMoves, UnderWay, ChildStage, ChildLedger!Keep, ChildLedger!Accept,
           ChildLedger!Fail, ChildLedger!Start, ChildLedger!End, ChildLedger!Tell
<1>o. \A c \in Children : Parent[c] \in PoolOwners /\ c \in Kids(Parent[c])
  BY DEF PoolOwners, Kids
<1>2. SettledKids \subseteq SettledKids'
  <2>1. ASSUME NEW p \in PoolOwners, Joined(p) PROVE Joined(p)'
    <3>1. OwnerMoves(p)
      BY EveryOwnerMoves
    <3>2. batch[p] = "staged" => at[p] = "planning"
      BY DEF JoinInv, JoinedIsOver
    <3> QED BY <2>1, <3>1, <3>2 DEF OwnerMoves, Joined
  <2> QED BY <2>1, <1>o
<1>3. \A c \in SettledKids' : Stg'[c] = "over"
  BY <1>t, <1>o DEF JoinInv, JoinedIsOver, ChildStage
<1>4. Door' \in ChildLedger!Onward[Door]
  BY <1>t, PoolDoor DEF ChildLedger!Onward
<1>5. Door' = "drained" => ChildLedger!NothingUnderWay'
  <2>1. PoolInv' => ClosedPoolIsDrained'
    BY PoolDrained, PTL
  <2>2. \A c \in Children : promise'[c] \in {"none", "value", "exception"}
    BY <1>t DEF PoolInv, PoolTypeOK
  <2> QED
    BY <2>1, <2>2, <1>t DEF ClosedPoolIsDrained, ChildLedger!NothingUnderWay, ChildStage
<1> QED
  BY <1>1, <1>2, <1>3, <1>4, <1>5 DEF ChildLedger!Next

LEMMA ChildLedgerInit == PoolInit => ChildLedger!Init
<1> SUFFICES ASSUME PoolInit PROVE ChildLedger!Init
  OBVIOUS
<1>1. \A c \in Children : ChildStage(c) = "new" /\ promise[c] = "none"
  BY PoolAssumption DEF PoolInit, ChildStage
<1>2. {c \in Children : Joined(Parent[c])} = {}
  BY DEF PoolInit, Joined, PoolOwners
<1> QED BY <1>1, <1>2 DEF PoolInit, ChildLedger!Init

\* Every behaviour of the child pool is one of WorkLedger: no owner of a batch goes on
\* while a child of it still runs or waits (the futures of NativeChildExecutor::Batch),
\* however plans are nested, batches withdrawn and threads lent.
THEOREM PoolImplementsLedger == PoolSpec => ChildLedger!Spec
<1>1. JoinInv /\ [PoolNext]_poolVars => [ChildLedger!Next]_ChildLedger!ledger
  BY PoolRefines
<1> QED BY <1>1, ChildLedgerInit, JoinInitInv, JoinStep, PTL DEF PoolSpec, ChildLedger!Spec

--------------------------------------------------------------------------------
(* The two pools side by side *)

LEMMA BothPoolsInit == PoolsInit => RootWorkInv /\ PoolInv
<1>1. PoolIsOver => PoolInv
  <2> SUFFICES ASSUME PoolIsOver PROVE PoolInv
    OBVIOUS
  <2>1. ClosingWaits
    <3>1. Dispatched = {}
      BY PoolAssumption DEF PoolIsOver, Dispatched
    <3> QED BY <3>1 DEF PoolIsOver, ClosingWaits
  <2> QED BY <2>1, EmptyPool DEF PoolIsOver
<1>2. RootWorkIsOver => RootWorkInv
  <2> SUFFICES ASSUME RootWorkIsOver PROVE RootWorkInv
    OBVIOUS
  <2>1. TypeOK
    <3>1. queue \in Seq(Jobs) /\ Len(queue) <= Capacity
      BY CapacityAssumption, EmptySeq DEF RootWorkIsOver
    <3> QED BY <3>1 DEF RootWorkIsOver, TypeOK, TicketStates
  <2>2. QueueHoldsWaiting
    BY EmptyQueue DEF RootWorkIsOver, QueueHoldsWaiting
  <2>3. WorkersHoldJobs /\ StartedJobsAreHeld /\ TicketsAreTaken
    BY DEF RootWorkIsOver, WorkersHoldJobs, StartedJobsAreHeld, TicketsAreTaken
  <2>4. ClosingIsOrdered /\ WorkIsOverOnce
    BY NoJobAssumption
       DEF RootWorkIsOver, ClosingIsOrdered, NothingLeft, WorkIsOverOnce, DestructionDrains,
           ResultIsFinal
  <2> QED BY <2>1, <2>2, <2>3, <2>4 DEF RootWorkInv
<1> QED BY <1>1, <1>2, RootWorkInit, PoolInitInv DEF PoolsInit

LEMMA BothPoolsStep ==
    RootWorkInv /\ PoolInv /\ [PoolsNext]_<<vars, poolVars>> => (RootWorkInv /\ PoolInv)'
<1>1. [PoolsNext]_<<vars, poolVars>> => [Next]_vars /\ [PoolNext]_poolVars
  BY DEF PoolsNext
<1> QED BY <1>1, RootWorkStep, PoolStep

\* Both pools are well typed: their queues and counters stay within their limits.
THEOREM PoolsTyped == PoolsSpec => []PoolsTypeOK
<1>1. RootWorkInv /\ PoolInv => PoolsTypeOK
  BY DEF RootWorkInv, PoolInv, PoolsTypeOK
<1> QED BY <1>1, BothPoolsInit, BothPoolsStep, PTL DEF PoolsSpec

\* close() of either pool returns only when every job it accepted is over and its
\* owner can know.
THEOREM PoolsCloseDrained == PoolsSpec => []ClosedPoolsAreDrained
<1>1. RootWorkInv /\ PoolInv => ClosedPoolsAreDrained
  BY CloseLeft, PoolDrained DEF ClosedPoolsAreDrained
<1> QED BY <1>1, BothPoolsInit, BothPoolsStep, PTL DEF PoolsSpec

LEMMA BothLedgersInit == PoolsInit => RootLedger!Init /\ ChildLedger!Init /\ JoinInv
<1>1. RootWorkIsOver => RootLedger!Init
  BY NoJobAssumption DEF RootWorkIsOver, RootLedger!Init, Progress
<1>2. PoolIsOver => ChildLedger!Init /\ OutcomesComeLast /\ JoinedIsOver
  <2> SUFFICES ASSUME PoolIsOver
               PROVE  ChildLedger!Init /\ OutcomesComeLast /\ JoinedIsOver
    OBVIOUS
  <2>1. \A c \in Children : ChildStage(c) = "new" /\ promise[c] = "none"
    BY PoolAssumption DEF PoolIsOver, ChildStage
  <2>2. {c \in Children : Joined(Parent[c])} = {}
    BY DEF PoolIsOver, Joined, PoolOwners
  <2>3. OutcomesComeLast /\ JoinedIsOver
    BY DEF PoolIsOver, OutcomesComeLast, JoinedIsOver, Joined
  <2> QED BY <2>1, <2>2, <2>3 DEF PoolIsOver, ChildLedger!Init
<1> QED
  BY <1>1, <1>2, RootLedgerInit, ChildLedgerInit, JoinInitInv, BothPoolsInit
     DEF PoolsInit, JoinInv

\* Either pool keeps the promise of WorkLedger beside the other.
THEOREM PoolsKeepPromises == PoolsSpec => PoolsImplementLedger
<1>1. [PoolsNext]_<<vars, poolVars>> => [Next]_vars /\ [PoolNext]_poolVars
  BY DEF PoolsNext
<1>2. RootWorkInv /\ [Next]_vars => [RootLedger!Next]_RootLedger!ledger
  BY RootWorkRefines
<1>3. JoinInv /\ [PoolNext]_poolVars => [ChildLedger!Next]_ChildLedger!ledger
  BY PoolRefines
<1> QED
  BY <1>1, <1>2, <1>3, BothPoolsInit, BothLedgersInit, RootWorkStep, JoinStep, PTL
     DEF PoolsSpec, PoolsImplementLedger, RootLedger!Spec, ChildLedger!Spec

================================================================================
