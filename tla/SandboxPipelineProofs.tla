----------------------- MODULE SandboxPipelineProofs -----------------------
(***************************************************************************)
(* Theorems about SandboxPipeline, for any number of jobs, processes and   *)
(* faults.                                                                 *)
(***************************************************************************)
EXTENDS SandboxPipeline, FiniteSetTheorems, TLAPS

-----------------------------------------------------------------------------
(* Lemmas about single actions that the provers need help with             *)

\* EXCEPT on the record of sandboxWorker, spelled out.
LEMMA ReplyRecord ==
  ASSUME NEW r \in SandboxState
  PROVE  [r EXCEPT !.pc = "reply"] =
           [pc |-> "reply", job |-> r.job, status |-> r.status]
  BY DEF SandboxState

\* After AckResult the worker waits to reply about the same job.
LEMMA AckResultSandbox ==
  ASSUME TypeOK, NEW w \in Workers, AckResult(w)
  PROVE  sandbox' = [sandbox EXCEPT ![w] =
           [pc |-> "reply", job |-> sandbox[w].job, status |-> sandbox[w].status]]
  BY ReplyRecord DEF TypeOK, AckResult

\* What redisWorker and sandboxWorker hold between ack and SET: two at most.
LEMMA PendingAtMostTwo ==
  ASSUME NEW w \in Workers
  PROVE  IsFiniteSet(Pending(w)) /\ Cardinality(Pending(w)) <= 2
  <1> DEFINE one == {sandbox[w].job}
             two == one \cup {saving[w].id}
  <1>1. IsFiniteSet(two) /\ Cardinality(two) <= 2
    <2>1. IsFiniteSet(one) /\ Cardinality(one) = 1
      BY FS_Singleton
    <2> HIDE DEF one
    <2> QED
      BY <2>1, FS_AddElement
  <1>2. Pending(w) \subseteq two
    BY DEF Pending
  <1>3. IsFiniteSet(Pending(w)) /\ Cardinality(Pending(w)) <= Cardinality(two)
    BY <1>1, <1>2, FS_Subset
  <1>4. Cardinality(Pending(w)) \in Nat /\ Cardinality(two) \in Nat
    BY <1>1, <1>3, FS_CardinalityType
  <1> QED
    BY <1>1, <1>3, <1>4

-----------------------------------------------------------------------------
(* One lemma for each part of the inductive invariant                      *)

\* Every step keeps the variables in their types.
LEMMA TypeOKStep ==
  ASSUME TypeOK, Bookkeeping, [Next]_vars
  PROVE  TypeOK'
  <1> USE PipelineAssumption DEF TypeOK, brokerVars, memoryVars, saveVars, storeVars, runVars, faultVars
  <1>1. ASSUME NEW j \in Jobs, Publish(j)
        PROVE  TypeOK'
    BY <1>1 DEF Publish
  <1>2. ASSUME NEW j \in Jobs, ExpireMessage(j)
        PROVE  TypeOK'
    BY <1>2 DEF ExpireMessage, RejectTarget
  <1>3. ASSUME NEW j \in Jobs, ExpireRecord(j)
        PROVE  TypeOK'
    BY <1>3 DEF ExpireRecord
  <1>4. ASSUME NEW w \in Workers, Settle(w)
        PROVE  TypeOK'
    BY <1>4 DEF Settle, RejectTarget
  <1>5. ASSUME NEW w \in Workers, NEW j \in Jobs, Deliver(w, j)
        PROVE  TypeOK'
    BY <1>5 DEF Deliver
  <1>6. ASSUME BrokerRestart
        PROVE  TypeOK'
    BY <1>6 DEF BrokerRestart, ProcStates
  <1>7. ASSUME NEW w \in Workers, Declare(w)
        PROVE  TypeOK'
    BY <1>7 DEF Declare, ProcStates, QueueKinds
  <1>8. ASSUME NEW w \in Workers, Consume(w)
        PROVE  TypeOK'
    BY <1>8 DEF Consume, ProcStates
  <1>9. ASSUME NEW w \in Workers, Sever(w)
        PROVE  TypeOK'
    BY <1>9 DEF Sever, Requeue, ProcStates
  <1>10. ASSUME NEW w \in Workers, NoticeClosed(w)
         PROVE  TypeOK'
    <2>1. inbox' \in [Workers -> Jobs \cup {None}]
      BY <1>10 DEF NoticeClosed
    <2> QED
      BY <1>10, <2>1 DEF NoticeClosed, ProcStates
  <1>11. ASSUME NEW w \in Workers, Crash(w)
         PROVE  TypeOK'
    <2>1. wire' \in [Response -> Nat]
      BY <1>11 DEF Crash, GiveUp
    <2> QED
      BY <1>11, <2>1 DEF Crash, Requeue, SandboxState, Idle, ProcStates
  <1>12. ASSUME NEW w \in Workers, NackMalformed(w)
        PROVE  TypeOK'
    BY <1>12 DEF NackMalformed, SandboxIdle, Running
  <1>13. ASSUME NEW w \in Workers, StartExecution(w)
        PROVE  TypeOK'
    BY <1>13 DEF StartExecution, SandboxIdle, Running, SandboxState
  <1>14. ASSUME NEW w \in Workers, FinishExecution(w)
        PROVE  TypeOK'
    <2>1. PICK s \in Statuses : End(w, s)
      BY <1>14 DEF FinishExecution
    <2>2. sandbox[w].job \in Jobs
      BY <1>14 DEF FinishExecution, SandboxState, Bookkeeping, BusyWithJob
    <2>3. sandbox' \in [Workers -> SandboxState]
      BY <2>1, <2>2 DEF End, SandboxState
    <2>4. ended' \in [Jobs -> SUBSET Statuses]
      BY <2>1, <2>2 DEF End
    <2> QED
      BY <1>14, <2>1, <2>3, <2>4 DEF FinishExecution, End
  <1>15. ASSUME NEW w \in Workers, AckResult(w)
        PROVE  TypeOK'
    <2>1. sandbox[w].job \in Jobs \cup {None} /\ sandbox[w].status \in Statuses \cup {None}
      BY DEF SandboxState
    <2>2. sandbox' \in [Workers -> SandboxState]
      BY <1>15, <2>1, AckResultSandbox DEF SandboxState
    <2>3. frame' \in [Workers -> {"none", "ack", "nack"}]
      BY <1>15 DEF AckResult
    <2> QED
      BY <1>15, <2>2, <2>3 DEF AckResult
  <1>16. ASSUME NEW w \in Workers, AckFails(w)
        PROVE  TypeOK'
    BY <1>16 DEF AckFails, SandboxState, Idle
  <1>17. ASSUME NEW w \in Workers, Reply(w)
        PROVE  TypeOK'
    BY <1>17 DEF Reply, SandboxState, Idle, Response, Bookkeeping, BusyWithJob
  <1>18. ASSUME NEW w \in Workers, Save(w)
        PROVE  TypeOK'
    BY <1>18 DEF Save, Store, Response
  <1>19. ASSUME NEW w \in Workers, SaveAgain(w)
         PROVE  TypeOK'
    <2>1. saving[w] \in Response /\ tries[w] + 1 \in 0..MaxRetries
      BY <1>19 DEF SaveAgain
    <2>2. wire' \in [Response -> Nat]
      BY <1>19, <2>1 DEF SaveAgain, GiveUp
    <2>3. tries' \in [Workers -> 0..MaxRetries]
      BY <1>19, <2>1 DEF SaveAgain
    <2> QED
      BY <1>19, <2>2, <2>3 DEF SaveAgain
  <1>20. ASSUME NEW r \in Response, ApplyLate(r)
         PROVE  TypeOK'
    <2>1. wire[r] - 1 \in Nat
      BY <1>20 DEF ApplyLate
    <2>2. wire' \in [Response -> Nat]
      BY <1>20, <2>1 DEF ApplyLate
    <2>3. r.id \in Jobs /\ r.status \in Statuses
      BY DEF Response
    <2>4. rec' \in [Jobs -> Statuses \cup {"none"}] /\ writes' \in [Jobs -> Nat]
      BY <1>20, <2>3 DEF ApplyLate, Store
    <2> QED
      BY <1>20, <2>2, <2>4 DEF ApplyLate
  <1>21. CASE UNCHANGED vars
    BY <1>21 DEF vars
  <1> QED
    BY <1>1, <1>2, <1>3, <1>4, <1>5, <1>6, <1>7, <1>8, <1>9, <1>10,
       <1>11, <1>12, <1>13, <1>14, <1>15, <1>16, <1>17, <1>18, <1>19, <1>20,
       <1>21
    DEF Next, Broker, Process, SandboxWorker

\* Losing the connection in any way gives the delivery back to the broker.
LEMMA NoDebtOfflineStep ==
  ASSUME TypeOK, Bookkeeping, [Next]_vars
  PROVE  NoDebtOffline'
  <1> USE DEF TypeOK, Bookkeeping, NoDebtOffline, brokerVars, memoryVars, saveVars, storeVars, runVars, faultVars
  <1>1. ASSUME NEW j \in Jobs, Publish(j)
        PROVE  NoDebtOffline'
    BY <1>1 DEF Publish
  <1>2. ASSUME NEW j \in Jobs, ExpireMessage(j)
        PROVE  NoDebtOffline'
    BY <1>2 DEF ExpireMessage, RejectTarget
  <1>3. ASSUME NEW j \in Jobs, ExpireRecord(j)
        PROVE  NoDebtOffline'
    BY <1>3 DEF ExpireRecord
  <1>4. ASSUME NEW w \in Workers, Settle(w)
        PROVE  NoDebtOffline'
    BY <1>4 DEF Settle, RejectTarget
  <1>5. ASSUME NEW w \in Workers, NEW j \in Jobs, Deliver(w, j)
        PROVE  NoDebtOffline'
    BY <1>5 DEF Deliver
  <1>6. ASSUME BrokerRestart
        PROVE  NoDebtOffline'
    BY <1>6 DEF BrokerRestart
  <1>7. ASSUME NEW w \in Workers, Declare(w)
        PROVE  NoDebtOffline'
    BY <1>7 DEF Declare
  <1>8. ASSUME NEW w \in Workers, Consume(w)
        PROVE  NoDebtOffline'
    BY <1>8 DEF Consume
  <1>9. ASSUME NEW w \in Workers, Sever(w)
        PROVE  NoDebtOffline'
    BY <1>9 DEF Sever, Requeue
  <1>10. ASSUME NEW w \in Workers, NoticeClosed(w)
        PROVE  NoDebtOffline'
    BY <1>10 DEF NoticeClosed
  <1>11. ASSUME NEW w \in Workers, Crash(w)
        PROVE  NoDebtOffline'
    BY <1>11 DEF Crash, Requeue
  <1>12. ASSUME NEW w \in Workers, NackMalformed(w)
        PROVE  NoDebtOffline'
    BY <1>12 DEF NackMalformed, SandboxIdle, Running
  <1>13. ASSUME NEW w \in Workers, StartExecution(w)
        PROVE  NoDebtOffline'
    BY <1>13 DEF StartExecution, SandboxIdle, Running
  <1>14. ASSUME NEW w \in Workers, FinishExecution(w)
        PROVE  NoDebtOffline'
    BY <1>14 DEF FinishExecution, End
  <1>15. ASSUME NEW w \in Workers, AckResult(w)
        PROVE  NoDebtOffline'
    BY <1>15 DEF AckResult
  <1>16. ASSUME NEW w \in Workers, AckFails(w)
        PROVE  NoDebtOffline'
    BY <1>16 DEF AckFails
  <1>17. ASSUME NEW w \in Workers, Reply(w)
        PROVE  NoDebtOffline'
    BY <1>17 DEF Reply
  <1>18. ASSUME NEW w \in Workers, Save(w)
        PROVE  NoDebtOffline'
    BY <1>18 DEF Save, Store
  <1>19. ASSUME NEW w \in Workers, SaveAgain(w)
         PROVE  NoDebtOffline'
    BY <1>19 DEF SaveAgain, GiveUp
  <1>20. ASSUME NEW r \in Response, ApplyLate(r)
         PROVE  NoDebtOffline'
    BY <1>20 DEF ApplyLate, Store
  <1>21. CASE UNCHANGED vars
    BY <1>21 DEF vars
  <1> QED
    BY <1>1, <1>2, <1>3, <1>4, <1>5, <1>6, <1>7, <1>8, <1>9, <1>10,
       <1>11, <1>12, <1>13, <1>14, <1>15, <1>16, <1>17, <1>18, <1>19, <1>20,
       <1>21
    DEF Next, Broker, Process, SandboxWorker

\* Only a running process takes anything into its memory.
LEMMA EmptyBeforeConsumeStep ==
  ASSUME TypeOK, Bookkeeping, [Next]_vars
  PROVE  EmptyBeforeConsume'
  <1> USE DEF TypeOK, Bookkeeping, EmptyBeforeConsume, Running, brokerVars, memoryVars, saveVars, storeVars, runVars, faultVars
  <1>1. ASSUME NEW j \in Jobs, Publish(j)
        PROVE  EmptyBeforeConsume'
    BY <1>1 DEF Publish
  <1>2. ASSUME NEW j \in Jobs, ExpireMessage(j)
        PROVE  EmptyBeforeConsume'
    BY <1>2 DEF ExpireMessage, RejectTarget
  <1>3. ASSUME NEW j \in Jobs, ExpireRecord(j)
        PROVE  EmptyBeforeConsume'
    BY <1>3 DEF ExpireRecord
  <1>4. ASSUME NEW w \in Workers, Settle(w)
        PROVE  EmptyBeforeConsume'
    BY <1>4 DEF Settle, RejectTarget
  <1>5. ASSUME NEW w \in Workers, NEW j \in Jobs, Deliver(w, j)
        PROVE  EmptyBeforeConsume'
    BY <1>5 DEF Deliver
  <1>6. ASSUME BrokerRestart
        PROVE  EmptyBeforeConsume'
    BY <1>6 DEF BrokerRestart
  <1>7. ASSUME NEW w \in Workers, Declare(w)
        PROVE  EmptyBeforeConsume'
    BY <1>7 DEF Declare
  <1>8. ASSUME NEW w \in Workers, Consume(w)
        PROVE  EmptyBeforeConsume'
    BY <1>8 DEF Consume
  <1>9. ASSUME NEW w \in Workers, Sever(w)
        PROVE  EmptyBeforeConsume'
    BY <1>9 DEF Sever, Requeue
  <1>10. ASSUME NEW w \in Workers, NoticeClosed(w)
        PROVE  EmptyBeforeConsume'
    BY <1>10 DEF NoticeClosed
  <1>11. ASSUME NEW w \in Workers, Crash(w)
        PROVE  EmptyBeforeConsume'
    BY <1>11 DEF Crash, Requeue, Idle
  <1>12. ASSUME NEW w \in Workers, NackMalformed(w)
        PROVE  EmptyBeforeConsume'
    BY <1>12 DEF NackMalformed, SandboxIdle, Running, Idle
  <1>13. ASSUME NEW w \in Workers, StartExecution(w)
        PROVE  EmptyBeforeConsume'
    BY <1>13 DEF StartExecution, SandboxIdle, Running, Idle
  <1>14. ASSUME NEW w \in Workers, FinishExecution(w)
        PROVE  EmptyBeforeConsume'
    BY <1>14 DEF FinishExecution, End, Idle
  <1>15. ASSUME NEW w \in Workers, AckResult(w)
        PROVE  EmptyBeforeConsume'
    BY <1>15 DEF AckResult, Idle
  <1>16. ASSUME NEW w \in Workers, AckFails(w)
        PROVE  EmptyBeforeConsume'
    BY <1>16 DEF AckFails, Idle
  <1>17. ASSUME NEW w \in Workers, Reply(w)
        PROVE  EmptyBeforeConsume'
    BY <1>17 DEF Reply, Idle
  <1>18. ASSUME NEW w \in Workers, Save(w)
        PROVE  EmptyBeforeConsume'
    BY <1>18 DEF Save, Store
  <1>19. ASSUME NEW w \in Workers, SaveAgain(w)
         PROVE  EmptyBeforeConsume'
    BY <1>19 DEF SaveAgain, GiveUp
  <1>20. ASSUME NEW r \in Response, ApplyLate(r)
         PROVE  EmptyBeforeConsume'
    BY <1>20 DEF ApplyLate, Store
  <1>21. CASE UNCHANGED vars
    BY <1>21 DEF vars
  <1> QED
    BY <1>1, <1>2, <1>3, <1>4, <1>5, <1>6, <1>7, <1>8, <1>9, <1>10,
       <1>11, <1>12, <1>13, <1>14, <1>15, <1>16, <1>17, <1>18, <1>19, <1>20,
       <1>21
    DEF Next, Broker, Process, SandboxWorker

\* sandboxWorker's job and status are set before the states that use them.
LEMMA BusyWithJobStep ==
  ASSUME TypeOK, Bookkeeping, [Next]_vars
  PROVE  BusyWithJob'
  <1> USE DEF TypeOK, Bookkeeping, BusyWithJob, brokerVars, memoryVars, saveVars, storeVars, runVars, faultVars
  <1>1. ASSUME NEW j \in Jobs, Publish(j)
        PROVE  BusyWithJob'
    BY <1>1 DEF Publish
  <1>2. ASSUME NEW j \in Jobs, ExpireMessage(j)
        PROVE  BusyWithJob'
    BY <1>2 DEF ExpireMessage, RejectTarget
  <1>3. ASSUME NEW j \in Jobs, ExpireRecord(j)
        PROVE  BusyWithJob'
    BY <1>3 DEF ExpireRecord
  <1>4. ASSUME NEW w \in Workers, Settle(w)
        PROVE  BusyWithJob'
    BY <1>4 DEF Settle, RejectTarget
  <1>5. ASSUME NEW w \in Workers, NEW j \in Jobs, Deliver(w, j)
        PROVE  BusyWithJob'
    BY <1>5 DEF Deliver
  <1>6. ASSUME BrokerRestart
        PROVE  BusyWithJob'
    BY <1>6 DEF BrokerRestart
  <1>7. ASSUME NEW w \in Workers, Declare(w)
        PROVE  BusyWithJob'
    BY <1>7 DEF Declare
  <1>8. ASSUME NEW w \in Workers, Consume(w)
        PROVE  BusyWithJob'
    BY <1>8 DEF Consume
  <1>9. ASSUME NEW w \in Workers, Sever(w)
        PROVE  BusyWithJob'
    BY <1>9 DEF Sever, Requeue
  <1>10. ASSUME NEW w \in Workers, NoticeClosed(w)
        PROVE  BusyWithJob'
    BY <1>10 DEF NoticeClosed
  <1>11. ASSUME NEW w \in Workers, Crash(w)
        PROVE  BusyWithJob'
    BY <1>11 DEF Crash, Requeue, SandboxState, Idle
  <1>12. ASSUME NEW w \in Workers, NackMalformed(w)
        PROVE  BusyWithJob'
    BY <1>12 DEF NackMalformed, SandboxIdle, Running
  <1>13. ASSUME NEW w \in Workers, StartExecution(w)
         PROVE  BusyWithJob'
    BY <1>13, PipelineAssumption DEF StartExecution
  <1>14. ASSUME NEW w \in Workers, FinishExecution(w)
         PROVE  BusyWithJob'
    BY <1>14, PipelineAssumption DEF FinishExecution, End, SandboxState
  <1>15. ASSUME NEW w \in Workers, AckResult(w)
         PROVE  BusyWithJob'
    BY <1>15, AckResultSandbox DEF AckResult
  <1>16. ASSUME NEW w \in Workers, AckFails(w)
        PROVE  BusyWithJob'
    BY <1>16 DEF AckFails, SandboxState, Idle
  <1>17. ASSUME NEW w \in Workers, Reply(w)
        PROVE  BusyWithJob'
    BY <1>17 DEF Reply, SandboxState, Idle
  <1>18. ASSUME NEW w \in Workers, Save(w)
        PROVE  BusyWithJob'
    BY <1>18 DEF Save, Store
  <1>19. ASSUME NEW w \in Workers, SaveAgain(w)
         PROVE  BusyWithJob'
    BY <1>19 DEF SaveAgain, GiveUp
  <1>20. ASSUME NEW r \in Response, ApplyLate(r)
         PROVE  BusyWithJob'
    BY <1>20 DEF ApplyLate, Store
  <1>21. CASE UNCHANGED vars
    BY <1>21 DEF vars
  <1> QED
    BY <1>1, <1>2, <1>3, <1>4, <1>5, <1>6, <1>7, <1>8, <1>9, <1>10,
       <1>11, <1>12, <1>13, <1>14, <1>15, <1>16, <1>17, <1>18, <1>19, <1>20,
       <1>21
    DEF Next, Broker, Process, SandboxWorker

\* The delivery a live channel holds moves from consumer to sandboxWorker to
\* the settling frame, and the next one waits for the broker to settle it.
LEMMA WorksOnHeldStep ==
  ASSUME TypeOK, Bookkeeping, [Next]_vars
  PROVE  WorksOnHeld'
  <1> USE DEF TypeOK, Bookkeeping, WorksOnHeld, Attending, brokerVars, memoryVars, saveVars, storeVars, runVars, faultVars
  <1>1. ASSUME NEW j \in Jobs, Publish(j)
        PROVE  WorksOnHeld'
    BY <1>1 DEF Publish, NoDebtOffline, EmptyBeforeConsume, Running, Idle, OutIffHeld
  <1>2. ASSUME NEW j \in Jobs, ExpireMessage(j)
        PROVE  WorksOnHeld'
    BY <1>2 DEF ExpireMessage, RejectTarget, NoDebtOffline, EmptyBeforeConsume, Running, Idle, OutIffHeld
  <1>3. ASSUME NEW j \in Jobs, ExpireRecord(j)
        PROVE  WorksOnHeld'
    BY <1>3 DEF ExpireRecord, NoDebtOffline, EmptyBeforeConsume, Running, Idle, OutIffHeld
  <1>4. ASSUME NEW w \in Workers, Settle(w)
        PROVE  WorksOnHeld'
    BY <1>4 DEF Settle, RejectTarget, NoDebtOffline, EmptyBeforeConsume, Running, Idle, OutIffHeld
  <1>5. ASSUME NEW w \in Workers, NEW j \in Jobs, Deliver(w, j)
        PROVE  WorksOnHeld'
    BY <1>5 DEF Deliver, NoDebtOffline, EmptyBeforeConsume, Running, Idle, OutIffHeld
  <1>6. ASSUME BrokerRestart
        PROVE  WorksOnHeld'
    BY <1>6 DEF BrokerRestart, NoDebtOffline, EmptyBeforeConsume, Running, Idle, OutIffHeld
  <1>7. ASSUME NEW w \in Workers, Declare(w)
        PROVE  WorksOnHeld'
    BY <1>7 DEF Declare, NoDebtOffline, EmptyBeforeConsume, Running, Idle, OutIffHeld
  <1>8. ASSUME NEW w \in Workers, Consume(w)
        PROVE  WorksOnHeld'
    BY <1>8 DEF Consume, NoDebtOffline, EmptyBeforeConsume, Running, Idle, OutIffHeld
  <1>9. ASSUME NEW w \in Workers, Sever(w)
        PROVE  WorksOnHeld'
    BY <1>9 DEF Sever, Requeue, NoDebtOffline, EmptyBeforeConsume, Running, Idle, OutIffHeld
  <1>10. ASSUME NEW w \in Workers, NoticeClosed(w)
        PROVE  WorksOnHeld'
    BY <1>10 DEF NoticeClosed, NoDebtOffline, EmptyBeforeConsume, Running, Idle, OutIffHeld
  <1>11. ASSUME NEW w \in Workers, Crash(w)
        PROVE  WorksOnHeld'
    BY <1>11 DEF Crash, Requeue, NoDebtOffline, EmptyBeforeConsume, Running, Idle, OutIffHeld
  <1>12. ASSUME NEW w \in Workers, NackMalformed(w)
         PROVE  WorksOnHeld'
    BY <1>12, PipelineAssumption
    DEF NackMalformed, SandboxIdle, Running, NoDebtOffline
  <1>13. ASSUME NEW w \in Workers, StartExecution(w)
         PROVE  WorksOnHeld'
    BY <1>13, PipelineAssumption
    DEF StartExecution, SandboxIdle, Running, NoDebtOffline
  <1>14. ASSUME NEW w \in Workers, FinishExecution(w)
        PROVE  WorksOnHeld'
    BY <1>14 DEF FinishExecution, End, NoDebtOffline, EmptyBeforeConsume, Running, Idle, OutIffHeld
  <1>15. ASSUME NEW w \in Workers, AckResult(w)
         PROVE  WorksOnHeld'
    <2>1. CASE proc[w] = "up"
      <3>1. held[w] # None /\ inbox[w] = None /\ frame'[w] = "ack"
        BY <1>15, <2>1 DEF AckResult
      <3> QED
        BY <1>15, <2>1, <3>1, AckResultSandbox DEF AckResult
    <2>2. CASE proc[w] # "up"
      BY <1>15, <2>2, AckResultSandbox DEF AckResult, NoDebtOffline
    <2> QED
      BY <2>1, <2>2
  <1>16. ASSUME NEW w \in Workers, AckFails(w)
        PROVE  WorksOnHeld'
    BY <1>16 DEF AckFails, NoDebtOffline, EmptyBeforeConsume, Running, Idle, OutIffHeld
  <1>17. ASSUME NEW w \in Workers, Reply(w)
        PROVE  WorksOnHeld'
    BY <1>17 DEF Reply, NoDebtOffline, EmptyBeforeConsume, Running, Idle, OutIffHeld
  <1>18. ASSUME NEW w \in Workers, Save(w)
        PROVE  WorksOnHeld'
    BY <1>18 DEF Save, Store, NoDebtOffline, EmptyBeforeConsume, Running, Idle, OutIffHeld
  <1>19. ASSUME NEW w \in Workers, SaveAgain(w)
         PROVE  WorksOnHeld'
    BY <1>19 DEF SaveAgain, GiveUp, NoDebtOffline, EmptyBeforeConsume, Running, Idle, OutIffHeld
  <1>20. ASSUME NEW r \in Response, ApplyLate(r)
         PROVE  WorksOnHeld'
    BY <1>20 DEF ApplyLate, Store, NoDebtOffline, EmptyBeforeConsume, Running, Idle, OutIffHeld
  <1>21. CASE UNCHANGED vars
    BY <1>21 DEF vars
  <1> QED
    BY <1>1, <1>2, <1>3, <1>4, <1>5, <1>6, <1>7, <1>8, <1>9, <1>10,
       <1>11, <1>12, <1>13, <1>14, <1>15, <1>16, <1>17, <1>18, <1>19, <1>20,
       <1>21
    DEF Next, Broker, Process, SandboxWorker

\* The result of a job is handed on, stored, or still there when its ack is
\* handled.
LEMMA AckCoveredStep ==
  ASSUME TypeOK, Bookkeeping, [Next]_vars
  PROVE  AckCovered'
  <1> USE DEF TypeOK, Bookkeeping, AckCovered, Pending, brokerVars, memoryVars, saveVars, storeVars, runVars, faultVars
  <1>1. ASSUME NEW j \in Jobs, Publish(j)
        PROVE  AckCovered'
    BY <1>1 DEF Publish, NoDebtOffline, WorksOnHeld, Attending, SandboxState, Idle, Response, OutIffHeld
  <1>2. ASSUME NEW j \in Jobs, ExpireMessage(j)
        PROVE  AckCovered'
    BY <1>2 DEF ExpireMessage, RejectTarget, NoDebtOffline, WorksOnHeld, Attending, SandboxState, Idle, Response, OutIffHeld
  <1>3. ASSUME NEW j \in Jobs, ExpireRecord(j)
        PROVE  AckCovered'
    BY <1>3 DEF ExpireRecord, NoDebtOffline, WorksOnHeld, Attending, SandboxState, Idle, Response, OutIffHeld
  <1>4. ASSUME NEW w \in Workers, Settle(w)
        PROVE  AckCovered'
    BY <1>4 DEF Settle, RejectTarget, NoDebtOffline, WorksOnHeld, Attending, SandboxState, Idle, Response, OutIffHeld
  <1>5. ASSUME NEW w \in Workers, NEW j \in Jobs, Deliver(w, j)
        PROVE  AckCovered'
    BY <1>5 DEF Deliver, NoDebtOffline, WorksOnHeld, Attending, SandboxState, Idle, Response, OutIffHeld
  <1>6. ASSUME BrokerRestart
        PROVE  AckCovered'
    BY <1>6 DEF BrokerRestart, NoDebtOffline, WorksOnHeld, Attending, SandboxState, Idle, Response, OutIffHeld
  <1>7. ASSUME NEW w \in Workers, Declare(w)
        PROVE  AckCovered'
    BY <1>7 DEF Declare, NoDebtOffline, WorksOnHeld, Attending, SandboxState, Idle, Response, OutIffHeld
  <1>8. ASSUME NEW w \in Workers, Consume(w)
        PROVE  AckCovered'
    BY <1>8 DEF Consume, NoDebtOffline, WorksOnHeld, Attending, SandboxState, Idle, Response, OutIffHeld
  <1>9. ASSUME NEW w \in Workers, Sever(w)
        PROVE  AckCovered'
    BY <1>9 DEF Sever, Requeue, NoDebtOffline, WorksOnHeld, Attending, SandboxState, Idle, Response, OutIffHeld
  <1>10. ASSUME NEW w \in Workers, NoticeClosed(w)
        PROVE  AckCovered'
    BY <1>10 DEF NoticeClosed, NoDebtOffline, WorksOnHeld, Attending, SandboxState, Idle, Response, OutIffHeld
  <1>11. ASSUME NEW w \in Workers, Crash(w)
        PROVE  AckCovered'
    BY <1>11 DEF Crash, Requeue, NoDebtOffline, WorksOnHeld, Attending, SandboxState, Idle, Response, OutIffHeld
  <1>12. ASSUME NEW w \in Workers, NackMalformed(w)
        PROVE  AckCovered'
    BY <1>12 DEF NackMalformed, SandboxIdle, Running, NoDebtOffline, WorksOnHeld, Attending, SandboxState, Idle, Response, OutIffHeld
  <1>13. ASSUME NEW w \in Workers, StartExecution(w)
        PROVE  AckCovered'
    BY <1>13 DEF StartExecution, SandboxIdle, Running, NoDebtOffline, WorksOnHeld, Attending, SandboxState, Idle, Response, OutIffHeld
  <1>14. ASSUME NEW w \in Workers, FinishExecution(w)
        PROVE  AckCovered'
    BY <1>14 DEF FinishExecution, End, NoDebtOffline, WorksOnHeld, Attending, SandboxState, Idle, Response, OutIffHeld
  <1>15. ASSUME NEW w \in Workers, AckResult(w)
         PROVE  AckCovered'
    <2>1. proc[w] = "up" => held[w] \in Jobs /\ held[w] = sandbox[w].job
      BY <1>15 DEF AckResult, WorksOnHeld, Attending
    <2>2. proc[w] # "up" => frame'[w] = "none"
      BY <1>15 DEF AckResult, NoDebtOffline
    <2> QED
      BY <1>15, <2>1, <2>2, AckResultSandbox DEF AckResult
  <1>16. ASSUME NEW w \in Workers, AckFails(w)
        PROVE  AckCovered'
    BY <1>16 DEF AckFails, NoDebtOffline, WorksOnHeld, Attending, SandboxState, Idle, Response, OutIffHeld
  <1>17. ASSUME NEW w \in Workers, Reply(w)
         PROVE  AckCovered'
    <2>1. /\ saving'[w] # None
          /\ saving'[w] = [id |-> sandbox[w].job, status |-> sandbox[w].status]
      BY <1>17, PipelineAssumption DEF Reply, BusyWithJob, SandboxState, Response
    <2> QED
      BY <1>17, <2>1 DEF Reply
  <1>18. ASSUME NEW w \in Workers, Save(w)
        PROVE  AckCovered'
    BY <1>18 DEF Save, Store, NoDebtOffline, WorksOnHeld, Attending, SandboxState, Idle, Response, OutIffHeld
  <1>19. ASSUME NEW w \in Workers, SaveAgain(w)
         PROVE  AckCovered'
    BY <1>19 DEF SaveAgain, GiveUp, NoDebtOffline, WorksOnHeld, Attending, SandboxState, Idle, Response, OutIffHeld
  <1>20. ASSUME NEW r \in Response, ApplyLate(r)
         PROVE  AckCovered'
    BY <1>20 DEF ApplyLate, Store, NoDebtOffline, WorksOnHeld, Attending, SandboxState, Idle, Response, OutIffHeld
  <1>21. CASE UNCHANGED vars
    BY <1>21 DEF vars
  <1> QED
    BY <1>1, <1>2, <1>3, <1>4, <1>5, <1>6, <1>7, <1>8, <1>9, <1>10,
       <1>11, <1>12, <1>13, <1>14, <1>15, <1>16, <1>17, <1>18, <1>19, <1>20,
       <1>21
    DEF Next, Broker, Process, SandboxWorker

\* Delivering, settling and requeueing change the message and the channel
\* together.
LEMMA OutIffHeldStep ==
  ASSUME TypeOK, Bookkeeping, [Next]_vars
  PROVE  OutIffHeld'
  <1> USE PipelineAssumption DEF TypeOK, Bookkeeping, OutIffHeld, brokerVars, memoryVars, saveVars, storeVars, runVars, faultVars
  <1>1. ASSUME NEW j \in Jobs, Publish(j)
        PROVE  OutIffHeld'
    BY <1>1 DEF Publish
  <1>2. ASSUME NEW j \in Jobs, ExpireMessage(j)
        PROVE  OutIffHeld'
    BY <1>2 DEF ExpireMessage, RejectTarget
  <1>3. ASSUME NEW j \in Jobs, ExpireRecord(j)
        PROVE  OutIffHeld'
    BY <1>3 DEF ExpireRecord
  <1>4. ASSUME NEW w \in Workers, Settle(w)
        PROVE  OutIffHeld'
    BY <1>4 DEF Settle, RejectTarget, NoDebtOffline, WorksOnHeld
  <1>5. ASSUME NEW w \in Workers, NEW j \in Jobs, Deliver(w, j)
        PROVE  OutIffHeld'
    BY <1>5 DEF Deliver
  <1>6. ASSUME BrokerRestart
        PROVE  OutIffHeld'
    BY <1>6 DEF BrokerRestart
  <1>7. ASSUME NEW w \in Workers, Declare(w)
        PROVE  OutIffHeld'
    BY <1>7 DEF Declare
  <1>8. ASSUME NEW w \in Workers, Consume(w)
        PROVE  OutIffHeld'
    BY <1>8 DEF Consume
  <1>9. ASSUME NEW w \in Workers, Sever(w)
        PROVE  OutIffHeld'
    BY <1>9 DEF Sever, Requeue
  <1>10. ASSUME NEW w \in Workers, NoticeClosed(w)
        PROVE  OutIffHeld'
    BY <1>10 DEF NoticeClosed
  <1>11. ASSUME NEW w \in Workers, Crash(w)
        PROVE  OutIffHeld'
    BY <1>11 DEF Crash, Requeue
  <1>12. ASSUME NEW w \in Workers, NackMalformed(w)
        PROVE  OutIffHeld'
    BY <1>12 DEF NackMalformed, SandboxIdle, Running
  <1>13. ASSUME NEW w \in Workers, StartExecution(w)
        PROVE  OutIffHeld'
    BY <1>13 DEF StartExecution, SandboxIdle, Running
  <1>14. ASSUME NEW w \in Workers, FinishExecution(w)
        PROVE  OutIffHeld'
    BY <1>14 DEF FinishExecution, End
  <1>15. ASSUME NEW w \in Workers, AckResult(w)
        PROVE  OutIffHeld'
    BY <1>15 DEF AckResult
  <1>16. ASSUME NEW w \in Workers, AckFails(w)
        PROVE  OutIffHeld'
    BY <1>16 DEF AckFails
  <1>17. ASSUME NEW w \in Workers, Reply(w)
        PROVE  OutIffHeld'
    BY <1>17 DEF Reply
  <1>18. ASSUME NEW w \in Workers, Save(w)
        PROVE  OutIffHeld'
    BY <1>18 DEF Save, Store
  <1>19. ASSUME NEW w \in Workers, SaveAgain(w)
         PROVE  OutIffHeld'
    BY <1>19 DEF SaveAgain, GiveUp
  <1>20. ASSUME NEW r \in Response, ApplyLate(r)
         PROVE  OutIffHeld'
    BY <1>20 DEF ApplyLate, Store
  <1>21. CASE UNCHANGED vars
    BY <1>21 DEF vars
  <1> QED
    BY <1>1, <1>2, <1>3, <1>4, <1>5, <1>6, <1>7, <1>8, <1>9, <1>10,
       <1>11, <1>12, <1>13, <1>14, <1>15, <1>16, <1>17, <1>18, <1>19, <1>20,
       <1>21
    DEF Next, Broker, Process, SandboxWorker

-----------------------------------------------------------------------------
(* What the processes and the broker agree on                              *)

\* Nothing is published, delivered or running at first.
LEMMA InitInvariant == Init => TypeOK /\ Bookkeeping
  <1> SUFFICES ASSUME Init PROVE TypeOK /\ Bookkeeping
    OBVIOUS
  <1>1. TypeOK
    BY PipelineAssumption
    DEF Init, TypeOK, Idle, SandboxState, QueueKinds, ProcStates
  <1>2. Bookkeeping
    BY DEF Init, Idle, Running, Bookkeeping, NoDebtOffline, EmptyBeforeConsume,
           BusyWithJob, WorksOnHeld, AckCovered, OutIffHeld
  <1> QED
    BY <1>1, <1>2

\* In every reachable state the variables have their types, and what each
\* process holds agrees with what the broker thinks it delivered: the ack of
\* client.go:164 always settles the delivery being worked on.
THEOREM Invariance == Spec => [](TypeOK /\ Bookkeeping)
  <1>1. TypeOK /\ Bookkeeping /\ [Next]_vars => (TypeOK /\ Bookkeeping)'
    <2> SUFFICES ASSUME TypeOK, Bookkeeping, [Next]_vars
                 PROVE  TypeOK' /\ Bookkeeping'
      OBVIOUS
    <2>1. TypeOK'
      BY TypeOKStep
    <2>2. Bookkeeping'
      BY NoDebtOfflineStep, EmptyBeforeConsumeStep, BusyWithJobStep,
         WorksOnHeldStep, AckCoveredStep, OutIffHeldStep
      DEF Bookkeeping
    <2> QED
      BY <2>1, <2>2
  <1> QED
    BY <1>1, InitInvariant, PTL DEF Spec

\* The variables keep their types.
THEOREM TypeCorrect == Spec => []TypeOK
  BY Invariance, PTL

\* No message is left unacknowledged with nobody working on it, and none is on
\* two channels at once.
THEOREM EveryDeliveryIsOwned == Spec => []DeliveryOwned
  <1>1. TypeOK /\ Bookkeeping => DeliveryOwned
    <2> SUFFICES ASSUME TypeOK, Bookkeeping, NEW j \in Jobs, msg[j] = "out"
                 PROVE  \E w \in Workers :
                          /\ proc[w] = "up" /\ held[w] = j /\ Attending(w, j)
                          /\ \A v \in Workers \ {w} : held[v] # j
      BY DEF DeliveryOwned
    <2>1. PICK w \in Workers : held[w] = j
      BY DEF Bookkeeping, OutIffHeld
    <2>2. held[w] # None
      BY <2>1, PipelineAssumption
    <2>3. proc[w] = "up" /\ Attending(w, j)
      BY <2>1, <2>2 DEF Bookkeeping, NoDebtOffline, WorksOnHeld
    <2>4. \A v \in Workers \ {w} : held[v] # j
      BY <2>1, <2>2 DEF Bookkeeping, OutIffHeld
    <2> QED
      BY <2>1, <2>3, <2>4
  <1> QED
    BY <1>1, Invariance, PTL

-----------------------------------------------------------------------------
(* How much the early acknowledgement can lose                             *)

\* A step of a living process or of the broker loses nothing.
LEMMA NoLossWithoutDeath ==
  ASSUME TypeOK, Bookkeeping, [Next]_vars,
         \A w \in Workers : ~Crash(w)
  PROVE  Lost' \subseteq Lost /\ crashes' = crashes
  <1> USE DEF TypeOK, Lost, Pending, brokerVars, memoryVars, saveVars, storeVars, runVars, faultVars
  <1>1. ASSUME NEW j \in Jobs, Publish(j)
        PROVE  Lost' \subseteq Lost /\ crashes' = crashes
    BY <1>1 DEF Publish
  <1>2. ASSUME NEW j \in Jobs, ExpireMessage(j)
        PROVE  Lost' \subseteq Lost /\ crashes' = crashes
    BY <1>2 DEF ExpireMessage, RejectTarget
  <1>3. ASSUME NEW j \in Jobs, ExpireRecord(j)
        PROVE  Lost' \subseteq Lost /\ crashes' = crashes
    BY <1>3 DEF ExpireRecord
  <1>4. ASSUME NEW w \in Workers, Settle(w)
        PROVE  Lost' \subseteq Lost /\ crashes' = crashes
    BY <1>4 DEF Settle, RejectTarget, Bookkeeping, NoDebtOffline, WorksOnHeld, AckCovered
  <1>5. ASSUME NEW w \in Workers, NEW j \in Jobs, Deliver(w, j)
        PROVE  Lost' \subseteq Lost /\ crashes' = crashes
    BY <1>5 DEF Deliver
  <1>6. ASSUME BrokerRestart
        PROVE  Lost' \subseteq Lost /\ crashes' = crashes
    BY <1>6 DEF BrokerRestart
  <1>7. ASSUME NEW w \in Workers, Declare(w)
        PROVE  Lost' \subseteq Lost /\ crashes' = crashes
    BY <1>7 DEF Declare
  <1>8. ASSUME NEW w \in Workers, Consume(w)
        PROVE  Lost' \subseteq Lost /\ crashes' = crashes
    BY <1>8 DEF Consume
  <1>9. ASSUME NEW w \in Workers, Sever(w)
        PROVE  Lost' \subseteq Lost /\ crashes' = crashes
    BY <1>9 DEF Sever, Requeue
  <1>10. ASSUME NEW w \in Workers, NoticeClosed(w)
        PROVE  Lost' \subseteq Lost /\ crashes' = crashes
    BY <1>10 DEF NoticeClosed
  <1>11. ASSUME NEW w \in Workers, NackMalformed(w)
        PROVE  Lost' \subseteq Lost /\ crashes' = crashes
    BY <1>11 DEF NackMalformed, SandboxIdle, Running
  <1>12. ASSUME NEW w \in Workers, StartExecution(w)
        PROVE  Lost' \subseteq Lost /\ crashes' = crashes
    BY <1>12 DEF StartExecution, SandboxIdle, Running
  <1>13. ASSUME NEW w \in Workers, FinishExecution(w)
        PROVE  Lost' \subseteq Lost /\ crashes' = crashes
    BY <1>13 DEF FinishExecution, End, SandboxState
  <1>14. ASSUME NEW w \in Workers, AckResult(w)
        PROVE  Lost' \subseteq Lost /\ crashes' = crashes
    BY <1>14 DEF AckResult, SandboxState
  <1>15. ASSUME NEW w \in Workers, AckFails(w)
        PROVE  Lost' \subseteq Lost /\ crashes' = crashes
    BY <1>15 DEF AckFails, SandboxState
  <1>16. ASSUME NEW w \in Workers, Reply(w)
        PROVE  Lost' \subseteq Lost /\ crashes' = crashes
    <2>1. /\ saving'[w] # None
          /\ saving'[w] = [id |-> sandbox[w].job, status |-> sandbox[w].status]
      BY <1>16, PipelineAssumption
      DEF Reply, Bookkeeping, BusyWithJob, SandboxState, Response
    <2> QED
      BY <1>16, <2>1 DEF Reply
  <1>17. ASSUME NEW w \in Workers, Save(w)
        PROVE  Lost' \subseteq Lost /\ crashes' = crashes
    BY <1>17 DEF Save, Store, Response
  <1>18. ASSUME NEW w \in Workers, SaveAgain(w)
        PROVE  Lost' \subseteq Lost /\ crashes' = crashes
    BY <1>18 DEF SaveAgain
  <1>19. ASSUME NEW r \in Response, ApplyLate(r)
        PROVE  Lost' \subseteq Lost /\ crashes' = crashes
    BY <1>19 DEF ApplyLate, Store, Response
  <1>20. CASE UNCHANGED vars
    BY <1>20 DEF vars
  <1> QED
    BY <1>1, <1>2, <1>3, <1>4, <1>5, <1>6, <1>7, <1>8, <1>9, <1>10,
       <1>11, <1>12, <1>13, <1>14, <1>15, <1>16, <1>17, <1>18, <1>19, <1>20
    DEF Next, Broker, Process, SandboxWorker

\* A death loses what the dead process held between ack and SET, no more.
LEMMA LossAtDeath ==
  ASSUME TypeOK, Bookkeeping, NEW w \in Workers, Crash(w)
  PROVE  Lost' \subseteq Lost \cup Pending(w) /\ crashes' = crashes + 1
  <1>1. writes' = writes
    BY DEF Crash
  <1>2. \A j \in Jobs : msg'[j] = "settled" => msg[j] = "settled"
    BY DEF Crash, Requeue, TypeOK
  <1>3. \A v \in Workers \ {w} : Pending(v)' = Pending(v)
    BY DEF Crash, Pending, TypeOK
  <1> QED
    BY <1>1, <1>2, <1>3 DEF Crash, Lost

\* The union of two finite sets has at most as many elements as both.
LEMMA UnionAtMostSum ==
  ASSUME NEW S, NEW T, IsFiniteSet(S), IsFiniteSet(T)
  PROVE  /\ IsFiniteSet(S \cup T)
         /\ Cardinality(S \cup T) \in Nat
         /\ Cardinality(S \cup T) <= Cardinality(S) + Cardinality(T)
  <1>1. IsFiniteSet(S \cup T) /\ IsFiniteSet(S \cap T)
    BY FS_Union, FS_Intersection
  <1>2. /\ Cardinality(S) \in Nat /\ Cardinality(T) \in Nat
        /\ Cardinality(S \cap T) \in Nat /\ Cardinality(S \cup T) \in Nat
    BY <1>1, FS_CardinalityType
  <1>3. Cardinality(S \cup T) =
          Cardinality(S) + Cardinality(T) - Cardinality(S \cap T)
    BY FS_Union
  <1> QED
    BY <1>1, <1>2, <1>3

\* The bound on losses is inductive together with the bookkeeping.
LEMMA LossBoundStep ==
  ASSUME TypeOK, Bookkeeping, LossBound, [Next]_vars
  PROVE  LossBound'
  <1>1. crashes \in Nat
    BY DEF TypeOK
  <1>2. IsFiniteSet(Lost) /\ IsFiniteSet(Lost')
    <2>1. Lost \subseteq Jobs /\ Lost' \subseteq Jobs
      BY DEF Lost
    <2> QED
      BY <2>1, PipelineAssumption, FS_Subset
  <1>3. Cardinality(Lost) \in Nat /\ Cardinality(Lost') \in Nat
    BY <1>2, FS_CardinalityType
  <1>4. CASE \A w \in Workers : ~Crash(w)
    <2>1. Lost' \subseteq Lost /\ crashes' = crashes
      BY <1>4, NoLossWithoutDeath
    <2>2. Cardinality(Lost') <= Cardinality(Lost)
      BY <1>2, <2>1, FS_Subset
    <2> QED
      BY <1>1, <1>3, <2>1, <2>2 DEF LossBound
  <1>5. ASSUME NEW w \in Workers, Crash(w)
        PROVE  LossBound'
    <2>1. Lost' \subseteq Lost \cup Pending(w) /\ crashes' = crashes + 1
      BY <1>5, LossAtDeath
    <2>2. /\ IsFiniteSet(Pending(w)) /\ Cardinality(Pending(w)) \in Nat
          /\ Cardinality(Pending(w)) <= 2
      BY PendingAtMostTwo, FS_CardinalityType
    <2>3. /\ IsFiniteSet(Lost \cup Pending(w))
          /\ Cardinality(Lost \cup Pending(w)) \in Nat
          /\ Cardinality(Lost \cup Pending(w)) <= Cardinality(Lost) + 2
      BY <1>2, <1>3, <2>2, UnionAtMostSum
    <2>4. Cardinality(Lost') <= Cardinality(Lost \cup Pending(w))
      BY <2>1, <2>3, FS_Subset
    <2> QED
      BY <1>1, <1>3, <2>1, <2>3, <2>4 DEF LossBound
  <1> QED
    BY <1>4, <1>5

\* Acknowledging before the SET (client.go:164, 194) costs at most two results
\* for each process that dies, and nothing otherwise: not on lost connections,
\* broker restarts or redeliveries.
THEOREM LossIsBounded == Spec => []LossBound
  <1>1. Init => LossBound
    <2> SUFFICES ASSUME Init PROVE LossBound
      OBVIOUS
    <2>1. Lost = {}
      BY DEF Init, Lost
    <2> QED
      BY <2>1, FS_EmptySet DEF Init, LossBound
  <1>2. TypeOK /\ Bookkeeping /\ LossBound /\ [Next]_vars => LossBound'
    BY LossBoundStep
  <1> QED
    BY <1>1, <1>2, Invariance, PTL DEF Spec

=============================================================================
