---------------------- MODULE SandboxRefinementProofs ----------------------
(***************************************************************************)
(* SandboxPipeline implements AtLeastOnce: a program is started again only *)
(* on account of a fault, and its record is a status that one of its       *)
(* executions ended with, written at most Attempts times for each of them. *)
(***************************************************************************)
EXTENDS SandboxPipelineProofs

-----------------------------------------------------------------------------
(* Counting processes                                                      *)

\* Any set of processes can be counted, and the accounts are of numbers.
LEMMA ProcessCount ==
  ASSUME NEW S \in SUBSET Workers
  PROVE  IsFiniteSet(S) /\ Cardinality(S) \in Nat
  BY PipelineAssumption, FS_Subset, FS_CardinalityType

LEMMA FewerProcesses ==
  ASSUME NEW S \in SUBSET Workers, NEW T \in SUBSET S
  PROVE  Cardinality(T) <= Cardinality(S)
  BY ProcessCount, FS_Subset

LEMMA OneProcessMore ==
  ASSUME NEW S \in SUBSET Workers, NEW w \in Workers
  PROVE  Cardinality(S \cup {w}) <= Cardinality(S) + 1
  BY ProcessCount, FS_AddElement

LEMMA OneProcessLess ==
  ASSUME NEW S \in SUBSET Workers, NEW w \in S
  PROVE  Cardinality(S \ {w}) = Cardinality(S) - 1
  BY ProcessCount, FS_RemoveElement

LEMMA CountTypes ==
  ASSUME NEW j \in Jobs
  PROVE  /\ Cardinality(Copies(j)) \in Nat
         /\ Cardinality(Working(j)) \in Nat
  <1>1. Copies(j) \subseteq Workers /\ Working(j) \subseteq Workers
    BY DEF Copies, Working
  <1> QED
    BY <1>1, ProcessCount

LEMMA CountTypesNext ==
  ASSUME NEW j \in Jobs
  PROVE  /\ Cardinality(Copies(j)') \in Nat
         /\ Cardinality(Working(j)') \in Nat
  <1>1. Copies(j)' \subseteq Workers /\ Working(j)' \subseteq Workers
    BY DEF Copies, Working
  <1> QED
    BY <1>1, ProcessCount

-----------------------------------------------------------------------------
(* Every start is paid for                                                 *)

\* The number of faults is a number and never decreases.
LEMMA FaultsType ==
  ASSUME TypeOK
  PROVE  faults \in Nat
  BY DEF TypeOK, faults

LEMMA NatSum == \A m, n \in Nat : m + n \in Nat
  OBVIOUS

\* Nothing new is to be paid: no start, no message back in the queue, no copy.
OwesNothing ==
  /\ runs' = runs
  /\ faults' = faults
  /\ \A j \in Jobs : /\ Copies(j)' \subseteq Copies(j)
                     /\ msg'[j] \in {"new", "ready"} => msg[j] \in {"new", "ready"}
                     /\ msg'[j] = "new" => msg[j] = "new"

LEMMA NothingToPay ==
  ASSUME TypeOK, TypeOK', StartsPaid, OwesNothing
  PROVE  StartsPaid'
  <1> USE DEF OwesNothing
  <1> SUFFICES ASSUME NEW j \in Jobs
               PROVE  /\ runs'[j] + Cardinality(Copies(j)')
                           + (IF msg'[j] \in {"new", "ready"} THEN 1 ELSE 0)
                             <= 1 + faults'
                      /\ msg'[j] = "new" => Copies(j)' = {}
    BY DEF StartsPaid
  <1>1. Cardinality(Copies(j)') <= Cardinality(Copies(j))
    BY FewerProcesses DEF Copies
  <1>2. runs[j] \in Nat /\ faults \in Nat /\ faults' \in Nat
    <2>1. crashes' \in Nat /\ severs' \in Nat
      BY DEF TypeOK
    <2>2. faults' \in Nat
      BY <2>1, NatSum DEF faults
    <2> QED
      BY <2>2, FaultsType DEF TypeOK
  <1>3. runs[j] + Cardinality(Copies(j))
          + (IF msg[j] \in {"new", "ready"} THEN 1 ELSE 0) <= 1 + faults
    BY DEF StartsPaid
  <1>4. msg[j] = "new" => Copies(j) = {}
    BY DEF StartsPaid
  <1> HIDE DEF Copies, faults
  <1> QED
    BY <1>1, <1>2, <1>3, <1>4, CountTypes, CountTypesNext

\* A fault pays for one more start of every job.
PaysOne ==
  /\ runs' = runs
  /\ faults' = faults + 1
  /\ \A j \in Jobs : /\ Copies(j)' \subseteq Copies(j)
                     /\ msg'[j] = "new" => msg[j] = "new"

LEMMA FaultPays ==
  ASSUME TypeOK, TypeOK', StartsPaid, PaysOne
  PROVE  StartsPaid'
  <1> USE DEF PaysOne
  <1> SUFFICES ASSUME NEW j \in Jobs
               PROVE  /\ runs'[j] + Cardinality(Copies(j)')
                           + (IF msg'[j] \in {"new", "ready"} THEN 1 ELSE 0)
                             <= 1 + faults'
                      /\ msg'[j] = "new" => Copies(j)' = {}
    BY DEF StartsPaid
  <1>1. Cardinality(Copies(j)') <= Cardinality(Copies(j))
    BY FewerProcesses DEF Copies
  <1>2. runs[j] \in Nat /\ faults \in Nat
    BY FaultsType DEF TypeOK
  <1>3. runs[j] + Cardinality(Copies(j))
          + (IF msg[j] \in {"new", "ready"} THEN 1 ELSE 0) <= 1 + faults
    BY DEF StartsPaid
  <1>4. msg[j] = "new" => Copies(j) = {}
    BY DEF StartsPaid
  <1> HIDE DEF Copies, faults
  <1> QED
    BY <1>1, <1>2, <1>3, <1>4, CountTypes, CountTypesNext

\* A delivery turns the message in the queue into a copy in a process.
LEMMA DeliverPays ==
  ASSUME TypeOK, StartsPaid, NEW w \in Workers, NEW j \in Jobs, Deliver(w, j)
  PROVE  StartsPaid'
  <1> SUFFICES ASSUME NEW i \in Jobs
               PROVE  /\ runs'[i] + Cardinality(Copies(i)')
                           + (IF msg'[i] \in {"new", "ready"} THEN 1 ELSE 0)
                             <= 1 + faults'
                      /\ msg'[i] = "new" => Copies(i)' = {}
    BY DEF StartsPaid
  <1>1. runs' = runs /\ faults' = faults
    BY DEF Deliver, faults, runVars, faultVars
  <1>2. runs[i] \in Nat /\ faults \in Nat
    BY FaultsType DEF TypeOK
  <1>3. /\ runs[i] + Cardinality(Copies(i))
            + (IF msg[i] \in {"new", "ready"} THEN 1 ELSE 0) <= 1 + faults
        /\ msg[i] = "new" => Copies(i) = {}
    BY DEF StartsPaid
  <1>4. CASE i = j
    <2>1. Copies(i)' \subseteq Copies(i) \cup {w}
      BY <1>4 DEF Deliver, Copies, TypeOK
    <2>2. Cardinality(Copies(i)') <= Cardinality(Copies(i) \cup {w})
      BY <2>1, FewerProcesses DEF Copies
    <2>3. Cardinality(Copies(i) \cup {w}) <= Cardinality(Copies(i)) + 1
      BY OneProcessMore DEF Copies
    <2>4. Cardinality(Copies(i) \cup {w}) \in Nat
      BY ProcessCount DEF Copies
    <2>5. msg[i] = "ready" /\ msg'[i] = "out"
      BY <1>4 DEF Deliver, TypeOK
    <2> HIDE DEF Copies, faults
    <2> QED
      BY <1>1, <1>2, <1>3, <2>2, <2>3, <2>4, <2>5, CountTypes, CountTypesNext
  <1>5. CASE i # j
    <2>1. Copies(i)' \subseteq Copies(i) /\ msg'[i] = msg[i]
      BY <1>5 DEF Deliver, Copies, TypeOK
    <2>2. Cardinality(Copies(i)') <= Cardinality(Copies(i))
      BY <2>1, FewerProcesses DEF Copies
    <2> HIDE DEF Copies, faults
    <2> QED
      BY <1>1, <1>2, <1>3, <2>1, <2>2, CountTypes, CountTypesNext
  <1> QED
    BY <1>4, <1>5

\* A start uses up the copy it starts from.
LEMMA StartPays ==
  ASSUME TypeOK, StartsPaid, NEW w \in Workers, StartExecution(w)
  PROVE  StartsPaid'
  <1> SUFFICES ASSUME NEW i \in Jobs
               PROVE  /\ runs'[i] + Cardinality(Copies(i)')
                           + (IF msg'[i] \in {"new", "ready"} THEN 1 ELSE 0)
                             <= 1 + faults'
                      /\ msg'[i] = "new" => Copies(i)' = {}
    BY DEF StartsPaid
  <1>1. msg' = msg /\ faults' = faults
    BY DEF StartExecution, faults, brokerVars, faultVars
  <1>2. runs[i] \in Nat /\ faults \in Nat
    BY FaultsType DEF TypeOK
  <1>3. /\ runs[i] + Cardinality(Copies(i))
            + (IF msg[i] \in {"new", "ready"} THEN 1 ELSE 0) <= 1 + faults
        /\ msg[i] = "new" => Copies(i) = {}
    BY DEF StartsPaid
  <1>4. CASE i = inbox[w]
    <2>1. w \in Copies(i) /\ Copies(i)' \subseteq Copies(i) \ {w}
      BY <1>4, PipelineAssumption DEF StartExecution, Copies, TypeOK
    <2>2. Cardinality(Copies(i)') <= Cardinality(Copies(i) \ {w})
      BY <2>1, FewerProcesses DEF Copies
    <2>3. Cardinality(Copies(i) \ {w}) = Cardinality(Copies(i)) - 1
      BY <2>1, OneProcessLess DEF Copies
    <2>4. runs'[i] = runs[i] + 1
      BY <1>4 DEF StartExecution, TypeOK
    <2> HIDE DEF Copies, faults
    <2> QED
      BY <1>1, <1>2, <1>3, <2>1, <2>2, <2>3, <2>4, CountTypes, CountTypesNext
  <1>5. CASE i # inbox[w]
    <2>1. Copies(i)' \subseteq Copies(i) /\ runs'[i] = runs[i]
      BY <1>5, PipelineAssumption DEF StartExecution, Copies, TypeOK
    <2>2. Cardinality(Copies(i)') <= Cardinality(Copies(i))
      BY <2>1, FewerProcesses DEF Copies
    <2> HIDE DEF Copies, faults
    <2> QED
      BY <1>1, <1>2, <1>3, <2>1, <2>2, CountTypes, CountTypesNext
  <1> QED
    BY <1>4, <1>5

\* The accounts of starts balance after every step.
LEMMA StartsPaidStep ==
  ASSUME TypeOK, TypeOK', StartsPaid, [Next]_vars
  PROVE  StartsPaid'
  <1> USE DEF TypeOK, Copies, brokerVars, memoryVars, saveVars, storeVars, runVars,
              faultVars
  <1>1. ASSUME NEW j \in Jobs, Publish(j)
        PROVE  StartsPaid'
    <2>1. OwesNothing
      BY <1>1, PipelineAssumption DEF Publish, faults, OwesNothing
    <2> HIDE DEF TypeOK, Copies
    <2> QED
      BY <2>1, NothingToPay
  <1>2. ASSUME NEW j \in Jobs, ExpireMessage(j)
        PROVE  StartsPaid'
    <2>1. OwesNothing
      BY <1>2, PipelineAssumption DEF ExpireMessage, RejectTarget, faults, OwesNothing
    <2> HIDE DEF TypeOK, Copies
    <2> QED
      BY <2>1, NothingToPay
  <1>3. ASSUME NEW j \in Jobs, ExpireRecord(j)
        PROVE  StartsPaid'
    <2>1. OwesNothing
      BY <1>3, PipelineAssumption DEF ExpireRecord, faults, OwesNothing
    <2> HIDE DEF TypeOK, Copies
    <2> QED
      BY <2>1, NothingToPay
  <1>4. ASSUME NEW w \in Workers, Settle(w)
        PROVE  StartsPaid'
    <2>1. OwesNothing
      BY <1>4, PipelineAssumption DEF Settle, RejectTarget, faults, OwesNothing
    <2> HIDE DEF TypeOK, Copies
    <2> QED
      BY <2>1, NothingToPay
  <1>5. ASSUME NEW w \in Workers, NEW j \in Jobs, Deliver(w, j)
        PROVE  StartsPaid'
    BY <1>5, DeliverPays
  <1>6. ASSUME BrokerRestart
        PROVE  StartsPaid'
    <2>1. PaysOne
      BY <1>6 DEF BrokerRestart, faults, PaysOne
    <2> HIDE DEF TypeOK, Copies
    <2> QED
      BY <2>1, FaultPays
  <1>7. ASSUME NEW w \in Workers, Declare(w)
        PROVE  StartsPaid'
    <2>1. OwesNothing
      BY <1>7, PipelineAssumption DEF Declare, faults, OwesNothing
    <2> HIDE DEF TypeOK, Copies
    <2> QED
      BY <2>1, NothingToPay
  <1>8. ASSUME NEW w \in Workers, Consume(w)
        PROVE  StartsPaid'
    <2>1. OwesNothing
      BY <1>8, PipelineAssumption DEF Consume, faults, OwesNothing
    <2> HIDE DEF TypeOK, Copies
    <2> QED
      BY <2>1, NothingToPay
  <1>9. ASSUME NEW w \in Workers, Sever(w)
        PROVE  StartsPaid'
    <2>1. PaysOne
      BY <1>9 DEF Sever, Requeue, faults, PaysOne
    <2> HIDE DEF TypeOK, Copies
    <2> QED
      BY <2>1, FaultPays
  <1>10. ASSUME NEW w \in Workers, NoticeClosed(w)
         PROVE  StartsPaid'
    <2>1. OwesNothing
      BY <1>10, PipelineAssumption DEF NoticeClosed, faults, OwesNothing
    <2> HIDE DEF TypeOK, Copies
    <2> QED
      BY <2>1, NothingToPay
  <1>11. ASSUME NEW w \in Workers, Crash(w)
         PROVE  StartsPaid'
    <2>1. runs' = runs /\ faults' = faults + 1
      BY <1>11 DEF Crash, Requeue, faults
    <2>2. \A i \in Jobs : Copies(i)' \subseteq Copies(i)
      BY <1>11, PipelineAssumption DEF Crash, Requeue
    <2>3. \A i \in Jobs : msg'[i] = "new" => msg[i] = "new"
      BY <1>11 DEF Crash, Requeue
    <2> HIDE DEF TypeOK, Copies
    <2>4. PaysOne
      BY <2>1, <2>2, <2>3 DEF PaysOne
    <2> QED
      BY <2>4, FaultPays
  <1>12. ASSUME NEW w \in Workers, NackMalformed(w)
         PROVE  StartsPaid'
    <2>1. OwesNothing
      BY <1>12, PipelineAssumption DEF NackMalformed, SandboxIdle, Running, faults, OwesNothing
    <2> HIDE DEF TypeOK, Copies
    <2> QED
      BY <2>1, NothingToPay
  <1>13. ASSUME NEW w \in Workers, StartExecution(w)
         PROVE  StartsPaid'
    BY <1>13, StartPays
  <1>14. ASSUME NEW w \in Workers, FinishExecution(w)
         PROVE  StartsPaid'
    <2>1. OwesNothing
      BY <1>14, PipelineAssumption DEF FinishExecution, End, faults, OwesNothing
    <2> HIDE DEF TypeOK, Copies
    <2> QED
      BY <2>1, NothingToPay
  <1>15. ASSUME NEW w \in Workers, AckResult(w)
         PROVE  StartsPaid'
    <2>1. OwesNothing
      BY <1>15, PipelineAssumption DEF AckResult, faults, OwesNothing
    <2> HIDE DEF TypeOK, Copies
    <2> QED
      BY <2>1, NothingToPay
  <1>16. ASSUME NEW w \in Workers, AckFails(w)
         PROVE  StartsPaid'
    <2>1. OwesNothing
      BY <1>16, PipelineAssumption DEF AckFails, faults, OwesNothing
    <2> HIDE DEF TypeOK, Copies
    <2> QED
      BY <2>1, NothingToPay
  <1>17. ASSUME NEW w \in Workers, Reply(w)
         PROVE  StartsPaid'
    <2>1. OwesNothing
      BY <1>17, PipelineAssumption DEF Reply, faults, OwesNothing
    <2> HIDE DEF TypeOK, Copies
    <2> QED
      BY <2>1, NothingToPay
  <1>18. ASSUME NEW w \in Workers, Save(w)
         PROVE  StartsPaid'
    <2>1. OwesNothing
      BY <1>18, PipelineAssumption DEF Save, Store, faults, OwesNothing
    <2> HIDE DEF TypeOK, Copies
    <2> QED
      BY <2>1, NothingToPay
  <1>19. ASSUME NEW w \in Workers, SaveAgain(w)
         PROVE  StartsPaid'
    <2>1. OwesNothing
      BY <1>19, PipelineAssumption DEF SaveAgain, GiveUp, faults, OwesNothing
    <2> HIDE DEF TypeOK, Copies
    <2> QED
      BY <2>1, NothingToPay
  <1>20. ASSUME NEW r \in Response, ApplyLate(r)
         PROVE  StartsPaid'
    <2>1. OwesNothing
      BY <1>20, PipelineAssumption DEF ApplyLate, Store, faults, OwesNothing
    <2> HIDE DEF TypeOK, Copies
    <2> QED
      BY <2>1, NothingToPay
  <1>21. CASE UNCHANGED vars
    <2>1. OwesNothing
      BY <1>21 DEF vars, faults, OwesNothing
    <2> HIDE DEF TypeOK, Copies
    <2> QED
      BY <2>1, NothingToPay
  <1> QED
    BY <1>1, <1>2, <1>3, <1>4, <1>5, <1>6, <1>7, <1>8, <1>9, <1>10,
       <1>11, <1>12, <1>13, <1>14, <1>15, <1>16, <1>17, <1>18, <1>19, <1>20,
       <1>21
    DEF Next, Broker, Process, SandboxWorker

-----------------------------------------------------------------------------
(* Every write is earned by an execution                                   *)

\* Which SETs of a job may still be applied or sent are numbers.
LEMMA Numbers ==
  ASSUME TypeOK, NEW j \in Jobs
  PROVE  /\ OnWire(j) \in Nat
         /\ writes[j] \in Nat /\ runs[j] \in Nat
         /\ IsFiniteSet(ToSend(j)) /\ Cardinality(ToSend(j)) \in Nat
         /\ Attempts \in Nat
  <1>1. \A s \in Statuses : wire[[id |-> j, status |-> s]] \in Nat
    <2>1. \A s \in Statuses : [id |-> j, status |-> s] \in Response
      BY DEF Response
    <2> QED
      BY <2>1 DEF TypeOK
  <1>2. OnWire(j) \in Nat
    BY <1>1 DEF OnWire, Statuses
  <1>3. IsFiniteSet(Workers \X (0..MaxRetries))
    <2>1. IsFiniteSet(0..MaxRetries)
      BY PipelineAssumption, FS_Interval
    <2> QED
      BY <2>1, PipelineAssumption, FS_Product
  <1>4. ToSend(j) \subseteq Workers \X (0..MaxRetries)
    BY DEF ToSend
  <1>5. IsFiniteSet(ToSend(j)) /\ Cardinality(ToSend(j)) \in Nat
    BY <1>3, <1>4, FS_Subset, FS_CardinalityType
  <1> QED
    BY <1>2, <1>5, PipelineAssumption DEF TypeOK, Attempts

LEMMA NumbersNext ==
  ASSUME TypeOK', NEW j \in Jobs
  PROVE  /\ OnWire(j)' \in Nat
         /\ writes'[j] \in Nat /\ runs'[j] \in Nat
         /\ Cardinality(ToSend(j)') \in Nat
  <1>1. \A s \in Statuses : wire'[[id |-> j, status |-> s]] \in Nat
    <2>1. \A s \in Statuses : [id |-> j, status |-> s] \in Response
      BY DEF Response
    <2> QED
      BY <2>1 DEF TypeOK
  <1>2. OnWire(j)' \in Nat
    BY <1>1 DEF OnWire, Statuses
  <1>3. IsFiniteSet(Workers \X (0..MaxRetries))
    <2>1. IsFiniteSet(0..MaxRetries)
      BY PipelineAssumption, FS_Interval
    <2> QED
      BY <2>1, PipelineAssumption, FS_Product
  <1>4. ToSend(j)' \subseteq Workers \X (0..MaxRetries)
    BY DEF ToSend
  <1>5. Cardinality(ToSend(j)') \in Nat
    BY <1>3, <1>4, FS_Subset, FS_CardinalityType
  <1> QED
    BY <1>2, <1>5 DEF TypeOK

\* A SET given up adds at most one to those that may be applied late.
LEMMA GiveUpAdds ==
  ASSUME TypeOK, NEW r \in Response, GiveUp(r), NEW j \in Jobs
  PROVE  OnWire(j)' <= OnWire(j) + (IF j = r.id THEN 1 ELSE 0)
  <1>1. CASE UNCHANGED wire
    <2>1. OnWire(j)' = OnWire(j)
      BY <1>1 DEF OnWire
    <2> QED
      BY <2>1, Numbers
  <1>2. CASE wire' = [wire EXCEPT ![r] = @ + 1]
    <2>1. r.id \in Jobs /\ r.status \in Statuses
      BY DEF Response
    <2>2. \A s \in Statuses :
            /\ [id |-> j, status |-> s] \in Response
            /\ [id |-> j, status |-> s] = r => j = r.id /\ s = r.status
      BY DEF Response
    <2>3. \A s \in Statuses :
            /\ wire[[id |-> j, status |-> s]] \in Nat
            /\ wire'[[id |-> j, status |-> s]] <=
                 wire[[id |-> j, status |-> s]]
                   + (IF j = r.id /\ s = r.status THEN 1 ELSE 0)
      BY <1>2, <2>2 DEF TypeOK
    <2>4. \A s \in Statuses : wire'[[id |-> j, status |-> s]] \in Nat
      BY <1>2, <2>2 DEF TypeOK
    <2> QED
      BY <2>1, <2>3, <2>4 DEF OnWire, Statuses
  <1> QED
    BY <1>1, <1>2 DEF GiveUp

\* One that is applied late is a write, and no longer to be waited for.
LEMMA LateBalances ==
  ASSUME TypeOK, NEW r \in Response, ApplyLate(r), NEW j \in Jobs
  PROVE  writes'[j] + OnWire(j)' = writes[j] + OnWire(j)
  <1>1. r.id \in Jobs /\ r.status \in Statuses /\ wire[r] \in Nat
    BY DEF Response, TypeOK
  <1>2. writes'[j] = writes[j] + (IF j = r.id THEN 1 ELSE 0) /\ writes[j] \in Nat
    BY <1>1 DEF ApplyLate, Store, TypeOK
  <1>3. \A s \in Statuses :
          /\ [id |-> j, status |-> s] \in Response
          /\ [id |-> j, status |-> s] = r <=> j = r.id /\ s = r.status
    BY DEF Response
  <1>4. \A s \in Statuses :
          /\ wire[[id |-> j, status |-> s]] \in Nat
          /\ wire'[[id |-> j, status |-> s]] =
               wire[[id |-> j, status |-> s]]
                 - (IF j = r.id /\ s = r.status THEN 1 ELSE 0)
    BY <1>3 DEF ApplyLate, TypeOK
  <1>5. OnWire(j)' = OnWire(j) - (IF j = r.id THEN 1 ELSE 0) /\ OnWire(j) \in Nat
    BY <1>1, <1>4 DEF OnWire, Statuses
  <1> QED
    BY <1>2, <1>5

\* More executions earn more writes: products are monotone.
LEMMA TimesMonotone ==
  ASSUME NEW a \in Nat, NEW d \in Nat, NEW e \in Nat, d <= e
  PROVE  a * d <= a * e
  <1> DEFINE k == e - d
  <1>1. k \in Nat /\ e = d + k
    OBVIOUS
  <1>2. a * k \in Nat /\ a * d \in Nat
    BY <1>1
  <1>3. a * (d + k) = a * d + a * k
    BY <1>1
  <1> QED
    BY <1>1, <1>2, <1>3

LEMMA TimesNext ==
  ASSUME NEW a \in Nat, NEW d \in Nat
  PROVE  a * (d + 1) = a * d + a
  OBVIOUS

\* What job j has spent, and the executions that have earned it.
Spent(j) == writes[j] + OnWire(j) + Cardinality(ToSend(j))
Earning(j) == runs[j] - Cardinality(Working(j))

\* A job that spends no more and has as many executions stays in balance.
LEMMA StaysInBalance ==
  ASSUME TypeOK, TypeOK', WritesEarned, NEW j \in Jobs,
         Spent(j)' <= Spent(j), Earning(j) <= Earning(j)'
  PROVE  /\ Cardinality(Working(j)') <= runs'[j]
         /\ Spent(j)' <= Attempts * Earning(j)'
  <1>1. Cardinality(Working(j)) <= runs[j] /\ Spent(j) <= Attempts * Earning(j)
    BY DEF WritesEarned, Spent, Earning
  <1>2. Earning(j) \in Nat
    <2> HIDE DEF Working
    <2> QED
      BY <1>1, Numbers, CountTypes DEF Earning
  <1>3. Earning(j)' \in Nat /\ Cardinality(Working(j)') <= runs'[j]
    <2>1. /\ runs'[j] \in Nat /\ Cardinality(Working(j)') \in Nat
          /\ Earning(j)' = runs'[j] - Cardinality(Working(j)')
      BY NumbersNext, CountTypesNext DEF Earning
    <2> HIDE DEF Working, Earning
    <2> QED
      BY <1>2, <2>1
  <1>4. Spent(j) \in Nat /\ Spent(j)' \in Nat
    <2> HIDE DEF OnWire, ToSend
    <2> QED
      BY Numbers, NumbersNext DEF Spent
  <1>5. Attempts * Earning(j) <= Attempts * Earning(j)'
    <2> HIDE DEF Earning, Attempts
    <2> QED
      BY <1>2, <1>3, Numbers, TimesMonotone
  <1>6. Attempts * Earning(j) \in Nat /\ Attempts * Earning(j)' \in Nat
    <2> HIDE DEF Earning, Attempts
    <2> QED
      BY <1>2, <1>3, Numbers
  <1> HIDE DEF Spent, Earning, Attempts, Working
  <1> QED
    BY <1>1, <1>3, <1>4, <1>5, <1>6

\* Nothing is earned or spent: no start, no SET, no result taken on.
EarnsNothing ==
  /\ runs' = runs
  /\ \A j \in Jobs : /\ writes'[j] + OnWire(j)' = writes[j] + OnWire(j)
                     /\ Working(j)' \subseteq Working(j)
                     /\ ToSend(j)' \subseteq ToSend(j)

LEMMA NothingEarned ==
  ASSUME TypeOK, TypeOK', WritesEarned, EarnsNothing
  PROVE  WritesEarned'
  <1> SUFFICES ASSUME NEW j \in Jobs
               PROVE  /\ Cardinality(Working(j)') <= runs'[j]
                      /\ Spent(j)' <= Attempts * Earning(j)'
    BY DEF WritesEarned, Spent, Earning
  <1>1. Cardinality(Working(j)') <= Cardinality(Working(j))
    BY FewerProcesses DEF Working, EarnsNothing
  <1>2. Cardinality(ToSend(j)') <= Cardinality(ToSend(j))
    BY Numbers, FS_Subset DEF EarnsNothing
  <1>3. runs'[j] = runs[j] /\ writes'[j] + OnWire(j)' = writes[j] + OnWire(j)
    BY DEF EarnsNothing
  <1>4. Spent(j)' <= Spent(j)
    <2> HIDE DEF OnWire, ToSend
    <2> QED
      BY <1>2, <1>3, Numbers, NumbersNext DEF Spent
  <1>5. Earning(j) <= Earning(j)'
    <2> HIDE DEF Working
    <2> QED
      BY <1>1, <1>3, Numbers, CountTypes, CountTypesNext DEF Earning
  <1> QED
    BY <1>4, <1>5, StaysInBalance

\* A SET that is sent takes one of those the result still has.  When a process
\* dies all of them are gone.
SpendsOne(w) ==
  /\ saving[w] # None
  /\ runs' = runs
  /\ \A j \in Jobs :
       /\ writes'[j] + OnWire(j)'
            <= writes[j] + OnWire(j) + (IF j = saving[w].id THEN 1 ELSE 0)
       /\ Working(j)' \subseteq Working(j)
       /\ ToSend(j)' \subseteq ToSend(j) \ {<<w, tries[w]>>}

LEMMA SetSpends ==
  ASSUME TypeOK, TypeOK', WritesEarned, NEW w \in Workers, SpendsOne(w)
  PROVE  WritesEarned'
  <1> SUFFICES ASSUME NEW j \in Jobs
               PROVE  /\ Cardinality(Working(j)') <= runs'[j]
                      /\ Spent(j)' <= Attempts * Earning(j)'
    BY DEF WritesEarned, Spent, Earning
  <1> DEFINE left == ToSend(j) \ {<<w, tries[w]>>}
  <1>1. Cardinality(Working(j)') <= Cardinality(Working(j))
    BY FewerProcesses DEF Working, SpendsOne
  <1>2. /\ IsFiniteSet(left) /\ Cardinality(left) \in Nat
        /\ Cardinality(left) = IF <<w, tries[w]>> \in ToSend(j)
                               THEN Cardinality(ToSend(j)) - 1
                               ELSE Cardinality(ToSend(j))
    BY Numbers, FS_RemoveElement, FS_CardinalityType
  <1>3. Cardinality(ToSend(j)') <= Cardinality(left)
    BY <1>2, FS_Subset DEF SpendsOne
  <1>4. j = saving[w].id => <<w, tries[w]>> \in ToSend(j)
    BY DEF ToSend, SpendsOne, TypeOK
  <1>5. /\ runs'[j] = runs[j]
        /\ writes'[j] + OnWire(j)'
             <= writes[j] + OnWire(j) + (IF j = saving[w].id THEN 1 ELSE 0)
    BY DEF SpendsOne
  <1>6. Spent(j)' <= Spent(j)
    <2> HIDE DEF OnWire, ToSend, left
    <2> QED
      BY <1>2, <1>3, <1>4, <1>5, Numbers, NumbersNext DEF Spent
  <1>7. Earning(j) <= Earning(j)'
    <2> HIDE DEF Working
    <2> QED
      BY <1>1, <1>5, Numbers, CountTypes, CountTypesNext DEF Earning
  <1> QED
    BY <1>6, <1>7, StaysInBalance

\* A start earns nothing yet: its execution has to end and be replied.
LEMMA StartEarns ==
  ASSUME TypeOK, TypeOK', WritesEarned, NEW w \in Workers, StartExecution(w)
  PROVE  WritesEarned'
  <1> SUFFICES ASSUME NEW j \in Jobs
               PROVE  /\ Cardinality(Working(j)') <= runs'[j]
                      /\ Spent(j)' <= Attempts * Earning(j)'
    BY DEF WritesEarned, Spent, Earning
  <1>1. Spent(j)' <= Spent(j)
    <2>1. Spent(j)' = Spent(j)
      BY DEF StartExecution, storeVars, saveVars, Spent, OnWire, ToSend
    <2>2. Spent(j) \in Nat
      BY Numbers DEF Spent
    <2> QED
      BY <2>1, <2>2
  <1>2. CASE j = inbox[w]
    <2>1. runs'[j] = runs[j] + 1
      BY <1>2 DEF StartExecution, TypeOK
    <2>2. Working(j)' \subseteq Working(j) \cup {w}
      BY DEF StartExecution, Working, TypeOK
    <2>3. Cardinality(Working(j)') <= Cardinality(Working(j) \cup {w})
      BY <2>2, FewerProcesses DEF Working
    <2>4. Cardinality(Working(j) \cup {w}) <= Cardinality(Working(j)) + 1
      BY OneProcessMore DEF Working
    <2>5. Cardinality(Working(j) \cup {w}) \in Nat
      BY ProcessCount DEF Working
    <2>6. Earning(j) <= Earning(j)'
      <3> HIDE DEF Working
      <3> QED
        BY <2>1, <2>3, <2>4, <2>5, Numbers, CountTypes, CountTypesNext DEF Earning
    <2> QED
      BY <1>1, <2>6, StaysInBalance
  <1>3. CASE j # inbox[w]
    <2>1. runs'[j] = runs[j] /\ Working(j)' \subseteq Working(j)
      BY <1>3 DEF StartExecution, Working, TypeOK
    <2>2. Cardinality(Working(j)') <= Cardinality(Working(j))
      BY <2>1, FewerProcesses DEF Working
    <2>3. Earning(j) <= Earning(j)'
      <3> HIDE DEF Working
      <3> QED
        BY <2>1, <2>2, Numbers, CountTypes, CountTypesNext DEF Earning
    <2> QED
      BY <1>1, <2>3, StaysInBalance
  <1> QED
    BY <1>2, <1>3

\* A result that is taken on may be sent Attempts times.
LEMMA SetsOfAResult ==
  ASSUME NEW w \in Workers
  PROVE  /\ IsFiniteSet({w} \X (0..MaxRetries))
         /\ Cardinality({w} \X (0..MaxRetries)) = Attempts
  <1>1. IsFiniteSet({w}) /\ Cardinality({w}) = 1
    BY FS_Singleton
  <1>2. IsFiniteSet(0..MaxRetries) /\ Cardinality(0..MaxRetries) = Attempts
    BY PipelineAssumption, FS_Interval DEF Attempts
  <1>3. 1 * Attempts = Attempts
    BY PipelineAssumption DEF Attempts
  <1> QED
    BY <1>1, <1>2, <1>3, FS_Product

\* Replying ends the execution for the accounts: it pays for the SETs its
\* result may need.
LEMMA ReplyPasses ==
  ASSUME TypeOK, TypeOK', Bookkeeping, WritesEarned, NEW w \in Workers, Reply(w)
  PROVE  WritesEarned'
  <1> SUFFICES ASSUME NEW j \in Jobs
               PROVE  /\ Cardinality(Working(j)') <= runs'[j]
                      /\ Spent(j)' <= Attempts * Earning(j)'
    BY DEF WritesEarned, Spent, Earning
  <1>1. Cardinality(Working(j)) <= runs[j] /\ Spent(j) <= Attempts * Earning(j)
    BY DEF WritesEarned, Spent, Earning
  <1>2. runs'[j] = runs[j] /\ writes'[j] = writes[j] /\ OnWire(j)' = OnWire(j)
    BY DEF Reply, storeVars, runVars, OnWire
  <1>3. CASE j = sandbox[w].job
    <2> DEFINE new == {w} \X (0..MaxRetries)
    <2>1. w \in Working(j) /\ Working(j)' \subseteq Working(j) \ {w}
      BY <1>3 DEF Reply, Working, TypeOK, Idle
    <2>2. Cardinality(Working(j)') <= Cardinality(Working(j) \ {w})
      BY <2>1, FewerProcesses DEF Working
    <2>3. Cardinality(Working(j) \ {w}) = Cardinality(Working(j)) - 1
      BY <2>1, OneProcessLess DEF Working
    <2>4. ToSend(j)' \subseteq ToSend(j) \cup new
      BY DEF Reply, ToSend, TypeOK
    <2>5. /\ IsFiniteSet(ToSend(j) \cup new) /\ Cardinality(ToSend(j) \cup new) \in Nat
          /\ Cardinality(ToSend(j) \cup new) <= Cardinality(ToSend(j)) + Attempts
      <3> HIDE DEF new, ToSend, Attempts
      <3> QED
        BY Numbers, SetsOfAResult, UnionAtMostSum DEF new
    <2>6. Cardinality(ToSend(j)') <= Cardinality(ToSend(j)) + Attempts
      <3>1. Cardinality(ToSend(j)') <= Cardinality(ToSend(j) \cup new)
        BY <2>4, <2>5, FS_Subset
      <3> HIDE DEF new, ToSend, Attempts
      <3> QED
        BY <2>5, <3>1, Numbers, NumbersNext
    <2>7. Spent(j)' <= Spent(j) + Attempts /\ Spent(j) \in Nat /\ Spent(j)' \in Nat
      <3> HIDE DEF ToSend, OnWire, Attempts
      <3> QED
        BY <1>2, <2>6, Numbers, NumbersNext DEF Spent
    <2>8. /\ Earning(j) \in Nat /\ Earning(j)' \in Nat /\ Earning(j) + 1 <= Earning(j)'
          /\ Cardinality(Working(j)') <= runs'[j]
      <3> HIDE DEF Working
      <3> QED
        BY <1>1, <1>2, <2>2, <2>3, Numbers, CountTypes, CountTypesNext DEF Earning
    <2>9. Attempts * Earning(j) + Attempts <= Attempts * Earning(j)'
      <3> HIDE DEF Earning, Attempts
      <3>1. Attempts * (Earning(j) + 1) <= Attempts * Earning(j)'
        BY <2>8, Numbers, TimesMonotone
      <3> QED
        BY <2>8, <3>1, Numbers, TimesNext
    <2>10. Attempts * Earning(j) \in Nat /\ Attempts * Earning(j)' \in Nat
      <3> HIDE DEF Earning, Attempts
      <3> QED
        BY <2>8, Numbers
    <2> HIDE DEF Spent, Earning, Attempts, Working
    <2> QED
      BY <1>1, <2>7, <2>8, <2>9, <2>10, Numbers
  <1>4. CASE j # sandbox[w].job
    <2>1. Working(j)' \subseteq Working(j)
      BY DEF Reply, Working, TypeOK, Idle
    <2>2. ToSend(j)' \subseteq ToSend(j)
      BY <1>4 DEF Reply, ToSend, TypeOK
    <2>3. Cardinality(Working(j)') <= Cardinality(Working(j))
      BY <2>1, FewerProcesses DEF Working
    <2>4. Cardinality(ToSend(j)') <= Cardinality(ToSend(j))
      BY <2>2, Numbers, FS_Subset
    <2>5. Spent(j)' <= Spent(j)
      <3> HIDE DEF ToSend, OnWire
      <3> QED
        BY <1>2, <2>4, Numbers, NumbersNext DEF Spent
    <2>6. Earning(j) <= Earning(j)'
      <3> HIDE DEF Working
      <3> QED
        BY <1>2, <2>3, Numbers, CountTypes, CountTypesNext DEF Earning
    <2> QED
      BY <2>5, <2>6, StaysInBalance
  <1> QED
    BY <1>3, <1>4

\* A step that sends nothing and starts nothing.
SendsNothing ==
  /\ UNCHANGED <<saveVars, wire, writes, runs>>
  /\ \A j \in Jobs : Working(j)' \subseteq Working(j)

LEMMA NothingSent ==
  ASSUME TypeOK, SendsNothing
  PROVE  EarnsNothing
  BY DEF SendsNothing, EarnsNothing, saveVars, OnWire, ToSend

\* A SET given up spends one of the tries its result has, whether the result
\* is sent again or dies with the process.
LEMMA GivenUpSpends ==
  ASSUME TypeOK, NEW w \in Workers, saving[w] # None, GiveUp(saving[w]),
         UNCHANGED <<writes, runs>>,
         \A j \in Jobs : /\ Working(j)' \subseteq Working(j)
                         /\ ToSend(j)' \subseteq ToSend(j) \ {<<w, tries[w]>>}
  PROVE  SpendsOne(w)
  <1>1. saving[w] \in Response
    BY DEF TypeOK
  <1>2. ASSUME NEW j \in Jobs
        PROVE  writes'[j] + OnWire(j)'
                 <= writes[j] + OnWire(j) + (IF j = saving[w].id THEN 1 ELSE 0)
    <2>1. OnWire(j)' <= OnWire(j) + (IF j = saving[w].id THEN 1 ELSE 0)
      BY <1>1, GiveUpAdds
    <2>2. OnWire(j) \in Nat /\ OnWire(j)' \in Nat /\ writes[j] \in Nat
      <3>1. OnWire(j)' \in Nat
        <4>1. CASE UNCHANGED wire
          BY <4>1, Numbers DEF OnWire
        <4>2. CASE wire' = [wire EXCEPT ![saving[w]] = @ + 1]
          <5>1. wire' \in [Response -> Nat]
            BY <1>1, <4>2 DEF TypeOK
          <5>2. \A s \in Statuses : [id |-> j, status |-> s] \in Response
            BY DEF Response
          <5>3. \A s \in Statuses : wire'[[id |-> j, status |-> s]] \in Nat
            BY <5>1, <5>2
          <5> QED
            BY <5>3 DEF OnWire, Statuses
        <4> QED
          BY <4>1, <4>2 DEF GiveUp
      <3> QED
        BY <3>1, Numbers
    <2> HIDE DEF OnWire
    <2> QED
      BY <2>1, <2>2
  <1> HIDE DEF OnWire, ToSend, Working
  <1> QED
    BY <1>2 DEF SpendsOne

\* The accounts of writes balance after every step.
LEMMA WritesEarnedStep ==
  ASSUME TypeOK, TypeOK', Bookkeeping, WritesEarned, [Next]_vars
  PROVE  WritesEarned'
  <1> USE DEF TypeOK, Working, brokerVars, memoryVars, saveVars, storeVars,
              runVars, faultVars
  <1>1. ASSUME NEW j \in Jobs, Publish(j)
        PROVE  WritesEarned'
    <2>1. SendsNothing
      BY <1>1 DEF Publish, SendsNothing
    <2> HIDE DEF TypeOK, Working
    <2> QED
      BY <2>1, NothingSent, NothingEarned
  <1>2. ASSUME NEW j \in Jobs, ExpireMessage(j)
        PROVE  WritesEarned'
    <2>1. SendsNothing
      BY <1>2 DEF ExpireMessage, SendsNothing
    <2> HIDE DEF TypeOK, Working
    <2> QED
      BY <2>1, NothingSent, NothingEarned
  <1>3. ASSUME NEW j \in Jobs, ExpireRecord(j)
        PROVE  WritesEarned'
    <2>1. SendsNothing
      BY <1>3 DEF ExpireRecord, SendsNothing
    <2> HIDE DEF TypeOK, Working
    <2> QED
      BY <2>1, NothingSent, NothingEarned
  <1>4. ASSUME NEW w \in Workers, Settle(w)
        PROVE  WritesEarned'
    <2>1. SendsNothing
      BY <1>4 DEF Settle, SendsNothing
    <2> HIDE DEF TypeOK, Working
    <2> QED
      BY <2>1, NothingSent, NothingEarned
  <1>5. ASSUME NEW w \in Workers, NEW j \in Jobs, Deliver(w, j)
        PROVE  WritesEarned'
    <2>1. SendsNothing
      BY <1>5 DEF Deliver, SendsNothing
    <2> HIDE DEF TypeOK, Working
    <2> QED
      BY <2>1, NothingSent, NothingEarned
  <1>6. ASSUME BrokerRestart
        PROVE  WritesEarned'
    <2>1. SendsNothing
      BY <1>6 DEF BrokerRestart, SendsNothing
    <2> HIDE DEF TypeOK, Working
    <2> QED
      BY <2>1, NothingSent, NothingEarned
  <1>7. ASSUME NEW w \in Workers, Declare(w)
        PROVE  WritesEarned'
    <2>1. SendsNothing
      BY <1>7 DEF Declare, SendsNothing
    <2> HIDE DEF TypeOK, Working
    <2> QED
      BY <2>1, NothingSent, NothingEarned
  <1>8. ASSUME NEW w \in Workers, Consume(w)
        PROVE  WritesEarned'
    <2>1. SendsNothing
      BY <1>8 DEF Consume, SendsNothing
    <2> HIDE DEF TypeOK, Working
    <2> QED
      BY <2>1, NothingSent, NothingEarned
  <1>9. ASSUME NEW w \in Workers, Sever(w)
        PROVE  WritesEarned'
    <2>1. SendsNothing
      BY <1>9 DEF Sever, SendsNothing
    <2> HIDE DEF TypeOK, Working
    <2> QED
      BY <2>1, NothingSent, NothingEarned
  <1>10. ASSUME NEW w \in Workers, NoticeClosed(w)
         PROVE  WritesEarned'
    <2>1. SendsNothing
      BY <1>10 DEF NoticeClosed, SendsNothing
    <2> HIDE DEF TypeOK, Working
    <2> QED
      BY <2>1, NothingSent, NothingEarned
  <1>11. ASSUME NEW w \in Workers, NackMalformed(w)
         PROVE  WritesEarned'
    <2>1. SendsNothing
      BY <1>11 DEF NackMalformed, SendsNothing
    <2> HIDE DEF TypeOK, Working
    <2> QED
      BY <2>1, NothingSent, NothingEarned
  <1>12. ASSUME NEW w \in Workers, FinishExecution(w)
         PROVE  WritesEarned'
    <2>1. SendsNothing
      BY <1>12 DEF FinishExecution, End, SendsNothing
    <2> HIDE DEF TypeOK, Working
    <2> QED
      BY <2>1, NothingSent, NothingEarned
  <1>13. ASSUME NEW w \in Workers, AckResult(w)
         PROVE  WritesEarned'
    <2>1. SendsNothing
      BY <1>13 DEF AckResult, SendsNothing
    <2> HIDE DEF TypeOK, Working
    <2> QED
      BY <2>1, NothingSent, NothingEarned
  <1>14. ASSUME NEW w \in Workers, AckFails(w)
         PROVE  WritesEarned'
    <2>1. SendsNothing
      BY <1>14 DEF AckFails, Idle, SendsNothing
    <2> HIDE DEF TypeOK, Working
    <2> QED
      BY <2>1, NothingSent, NothingEarned
  <1>15. ASSUME NEW w \in Workers, StartExecution(w)
         PROVE  WritesEarned'
    BY <1>15, StartEarns
  <1>16. ASSUME NEW w \in Workers, Reply(w)
         PROVE  WritesEarned'
    BY <1>16, ReplyPasses
  <1>17. ASSUME NEW w \in Workers, Save(w)
         PROVE  WritesEarned'
    <2>1. saving[w] # None /\ runs' = runs /\ saving[w].id \in Jobs
      BY <1>17 DEF Save, Response
    <2>2. ASSUME NEW i \in Jobs
          PROVE  /\ Working(i)' \subseteq Working(i)
                 /\ ToSend(i)' \subseteq ToSend(i) \ {<<w, tries[w]>>}
                 /\ writes'[i] + OnWire(i)'
                      <= writes[i] + OnWire(i) + (IF i = saving[w].id THEN 1 ELSE 0)
      <3>1. Working(i)' \subseteq Working(i)
        BY <1>17 DEF Save
      <3>2. ToSend(i)' \subseteq ToSend(i) \ {<<w, tries[w]>>}
        BY <1>17 DEF Save, ToSend
      <3>3. OnWire(i)' = OnWire(i)
        BY <1>17 DEF Save, OnWire
      <3>4. writes'[i] = writes[i] + (IF i = saving[w].id THEN 1 ELSE 0)
        BY <1>17, <2>1 DEF Save, Store
      <3>5. OnWire(i) \in Nat /\ writes[i] \in Nat
        BY Numbers
      <3> QED
        BY <3>1, <3>2, <3>3, <3>4, <3>5
    <2> HIDE DEF TypeOK, Working
    <2>3. SpendsOne(w)
      BY <2>1, <2>2 DEF SpendsOne
    <2> QED
      BY <2>3, SetSpends
  <1>18. ASSUME NEW w \in Workers, SaveAgain(w)
         PROVE  WritesEarned'
    <2>1. /\ saving[w] # None /\ GiveUp(saving[w])
          /\ UNCHANGED <<writes, runs>>
      BY <1>18 DEF SaveAgain
    <2>2. ASSUME NEW i \in Jobs
          PROVE  /\ Working(i)' \subseteq Working(i)
                 /\ ToSend(i)' \subseteq ToSend(i) \ {<<w, tries[w]>>}
      BY <1>18 DEF SaveAgain, ToSend
    <2> HIDE DEF TypeOK, Working
    <2>3. SpendsOne(w)
      BY <2>1, <2>2, GivenUpSpends
    <2> QED
      BY <2>3, SetSpends
  <1>19. ASSUME NEW w \in Workers, Crash(w)
         PROVE  WritesEarned'
    <2>1. /\ UNCHANGED <<writes, runs>>
          /\ UNCHANGED wire \/ (saving[w] # None /\ GiveUp(saving[w]))
      BY <1>19 DEF Crash
    <2>2. ASSUME NEW i \in Jobs
          PROVE  /\ Working(i)' \subseteq Working(i)
                 /\ ToSend(i)' \subseteq ToSend(i) \ {<<w, tries[w]>>}
      BY <1>19 DEF Crash, Idle, ToSend
    <2>3. CASE UNCHANGED wire
      <3>1. EarnsNothing
        BY <2>1, <2>2, <2>3 DEF EarnsNothing, OnWire
      <3> HIDE DEF TypeOK, Working
      <3> QED
        BY <3>1, NothingEarned
    <2>4. CASE saving[w] # None /\ GiveUp(saving[w])
      <3> HIDE DEF TypeOK, Working
      <3>1. SpendsOne(w)
        BY <2>1, <2>2, <2>4, GivenUpSpends
      <3> QED
        BY <3>1, SetSpends
    <2> QED
      BY <2>1, <2>3, <2>4
  <1>20. ASSUME NEW r \in Response, ApplyLate(r)
         PROVE  WritesEarned'
    <2>1. runs' = runs
      BY <1>20 DEF ApplyLate
    <2>2. ASSUME NEW i \in Jobs
          PROVE  /\ Working(i)' \subseteq Working(i)
                 /\ ToSend(i)' \subseteq ToSend(i)
      BY <1>20 DEF ApplyLate, ToSend
    <2> HIDE DEF TypeOK, Working
    <2>3. EarnsNothing
      BY <1>20, <2>1, <2>2, LateBalances DEF EarnsNothing
    <2> QED
      BY <2>3, NothingEarned
  <1>21. CASE UNCHANGED vars
    <2>1. SendsNothing
      BY <1>21 DEF vars, SendsNothing
    <2> HIDE DEF TypeOK, Working
    <2> QED
      BY <2>1, NothingSent, NothingEarned
  <1> QED
    BY <1>1, <1>2, <1>3, <1>4, <1>5, <1>6, <1>7, <1>8, <1>9, <1>10,
       <1>11, <1>12, <1>13, <1>14, <1>15, <1>16, <1>17, <1>18, <1>19, <1>20,
       <1>21
    DEF Next, Broker, Process, SandboxWorker

-----------------------------------------------------------------------------
(* No status but those that executions ended with                          *)

\* A step that takes on, sends and stores nothing.
SaysNothing == UNCHANGED <<sandbox, saveVars, wire, rec, ended>>

LEMMA NothingSaid ==
  ASSUME StatusesEarned, SaysNothing
  PROVE  StatusesEarned'
  BY DEF StatusesEarned, SaysNothing, saveVars

\* A SET given up carries the status it was given up with.
LEMMA GivenUpIsEarned ==
  ASSUME TypeOK, StatusesEarned, NEW r \in Response, GiveUp(r), ended' = ended,
         r.status \in ended[r.id]
  PROVE  \A q \in Response : wire'[q] > 0 => q.status \in ended'[q.id]
  <1> SUFFICES ASSUME NEW q \in Response, wire'[q] > 0
               PROVE  q.status \in ended[q.id]
    OBVIOUS
  <1>1. q = r \/ wire'[q] = wire[q]
    BY DEF GiveUp, TypeOK
  <1> QED
    BY <1>1 DEF StatusesEarned

\* What Redis stores is what it was sent.
LEMMA StoredIsEarned ==
  ASSUME TypeOK, StatusesEarned, NEW r \in Response, Store(r), ended' = ended,
         r.status \in ended[r.id]
  PROVE  \A j \in Jobs : rec'[j] \in ended'[j] \cup {"none"}
  <1>1. r.id \in Jobs
    BY DEF Response
  <1>2. \A j \in Jobs : rec'[j] = IF j = r.id THEN r.status ELSE rec[j]
    BY <1>1 DEF Store, TypeOK
  <1> QED
    BY <1>2 DEF StatusesEarned

\* Statuses are passed on as they are, from the executor to the record.
LEMMA StatusesEarnedStep ==
  ASSUME TypeOK, Bookkeeping, StatusesEarned, [Next]_vars
  PROVE  StatusesEarned'
  <1> USE DEF brokerVars, memoryVars, saveVars, storeVars, runVars, faultVars
  <1>1. ASSUME NEW j \in Jobs, Publish(j)
        PROVE  StatusesEarned'
    BY <1>1, NothingSaid DEF Publish, SaysNothing
  <1>2. ASSUME NEW j \in Jobs, ExpireMessage(j)
        PROVE  StatusesEarned'
    BY <1>2, NothingSaid DEF ExpireMessage, SaysNothing
  <1>3. ASSUME NEW w \in Workers, Settle(w)
        PROVE  StatusesEarned'
    BY <1>3, NothingSaid DEF Settle, SaysNothing
  <1>4. ASSUME NEW w \in Workers, NEW j \in Jobs, Deliver(w, j)
        PROVE  StatusesEarned'
    BY <1>4, NothingSaid DEF Deliver, SaysNothing
  <1>5. ASSUME BrokerRestart
        PROVE  StatusesEarned'
    BY <1>5, NothingSaid DEF BrokerRestart, SaysNothing
  <1>6. ASSUME NEW w \in Workers, Declare(w)
        PROVE  StatusesEarned'
    BY <1>6, NothingSaid DEF Declare, SaysNothing
  <1>7. ASSUME NEW w \in Workers, Consume(w)
        PROVE  StatusesEarned'
    BY <1>7, NothingSaid DEF Consume, SaysNothing
  <1>8. ASSUME NEW w \in Workers, Sever(w)
        PROVE  StatusesEarned'
    BY <1>8, NothingSaid DEF Sever, SaysNothing
  <1>9. ASSUME NEW w \in Workers, NoticeClosed(w)
        PROVE  StatusesEarned'
    BY <1>9, NothingSaid DEF NoticeClosed, SaysNothing
  <1>10. ASSUME NEW w \in Workers, NackMalformed(w)
         PROVE  StatusesEarned'
    BY <1>10, NothingSaid DEF NackMalformed, SaysNothing
  <1>11. ASSUME NEW j \in Jobs, ExpireRecord(j)
         PROVE  StatusesEarned'
    BY <1>11 DEF ExpireRecord, StatusesEarned, TypeOK
  <1>12. ASSUME NEW w \in Workers, StartExecution(w)
         PROVE  StatusesEarned'
    BY <1>12 DEF StartExecution, StatusesEarned, TypeOK
  <1>13. ASSUME NEW w \in Workers, AckResult(w)
         PROVE  StatusesEarned'
    <2>1. \A v \in Workers :
            sandbox'[v].pc \in {"done", "reply"} =>
              /\ sandbox[v].pc \in {"done", "reply"}
              /\ sandbox'[v].job = sandbox[v].job
              /\ sandbox'[v].status = sandbox[v].status
      BY <1>13, AckResultSandbox DEF AckResult, TypeOK
    <2>2. UNCHANGED <<saveVars, wire, rec, ended>>
      BY <1>13 DEF AckResult
    <2> QED
      BY <2>1, <2>2 DEF StatusesEarned
  <1>14. ASSUME NEW w \in Workers, AckFails(w)
         PROVE  StatusesEarned'
    BY <1>14 DEF AckFails, Idle, StatusesEarned, TypeOK
  <1>15. ASSUME NEW w \in Workers, FinishExecution(w)
         PROVE  StatusesEarned'
    <2>1. PICK s \in Statuses : End(w, s)
      BY <1>15, PipelineAssumption DEF FinishExecution
    <2>2. sandbox[w].job \in Jobs
      BY <1>15 DEF FinishExecution, TypeOK, SandboxState, Bookkeeping, BusyWithJob
    <2>3. \A j \in Jobs : ended[j] \subseteq ended'[j]
      BY <2>1 DEF End, TypeOK
    <2>4. s \in ended'[sandbox[w].job]
      BY <2>1, <2>2 DEF End, TypeOK
    <2>5. sandbox'[w].job = sandbox[w].job /\ sandbox'[w].status = s
      BY <2>1 DEF End, TypeOK
    <2>6. \A v \in Workers \ {w} : sandbox'[v] = sandbox[v]
      BY <2>1 DEF End, TypeOK
    <2>7. \A v \in Workers :
            sandbox[v].pc \in {"done", "reply"} => sandbox[v].job \in Jobs
      BY DEF TypeOK, SandboxState, Bookkeeping, BusyWithJob
    <2>8. \A v \in Workers : saving[v] # None => saving[v].id \in Jobs
      BY DEF TypeOK, Response
    <2>9. \A r \in Response : r.id \in Jobs
      BY DEF Response
    <2>10. UNCHANGED <<saveVars, wire, rec>>
      BY <1>15 DEF FinishExecution
    <2> QED
      BY <2>3, <2>4, <2>5, <2>6, <2>7, <2>8, <2>9, <2>10 DEF StatusesEarned
  <1>16. ASSUME NEW w \in Workers, Reply(w)
         PROVE  StatusesEarned'
    <2>1. saving[w] = None /\ sandbox[w].status \in ended[sandbox[w].job]
      BY <1>16 DEF Reply, StatusesEarned
    <2>2. /\ saving'[w].id = sandbox[w].job /\ saving'[w].status = sandbox[w].status
          /\ sandbox'[w].pc = "idle"
      BY <1>16 DEF Reply, Idle, TypeOK
    <2>3. saving'[w] # None
      BY <1>16, PipelineAssumption
      DEF Reply, Bookkeeping, BusyWithJob, SandboxState, Response, TypeOK
    <2>4. \A v \in Workers \ {w} : saving'[v] = saving[v] /\ sandbox'[v] = sandbox[v]
      BY <1>16 DEF Reply, TypeOK
    <2>5. UNCHANGED <<tries, wire, rec, ended>>
      BY <1>16 DEF Reply
    <2> QED
      BY <2>1, <2>2, <2>3, <2>4, <2>5 DEF StatusesEarned
  <1>17. ASSUME NEW w \in Workers, Save(w)
         PROVE  StatusesEarned'
    <2>1. saving[w] \in Response /\ saving[w].status \in ended[saving[w].id]
      BY <1>17 DEF Save, StatusesEarned, TypeOK
    <2>2. \A j \in Jobs : rec'[j] \in ended'[j] \cup {"none"}
      BY <1>17, <2>1, StoredIsEarned DEF Save
    <2> QED
      BY <1>17, <2>2 DEF Save, StatusesEarned, TypeOK
  <1>18. ASSUME NEW w \in Workers, SaveAgain(w)
         PROVE  StatusesEarned'
    <2>1. saving[w] \in Response /\ saving[w].status \in ended[saving[w].id]
      BY <1>18 DEF SaveAgain, StatusesEarned, TypeOK
    <2>2. \A r \in Response : wire'[r] > 0 => r.status \in ended'[r.id]
      BY <1>18, <2>1, GivenUpIsEarned DEF SaveAgain
    <2> QED
      BY <1>18, <2>2 DEF SaveAgain, StatusesEarned, TypeOK
  <1>19. ASSUME NEW w \in Workers, Crash(w)
         PROVE  StatusesEarned'
    <2>1. saving[w] # None =>
            saving[w] \in Response /\ saving[w].status \in ended[saving[w].id]
      BY DEF StatusesEarned, TypeOK
    <2>2. \A r \in Response : wire'[r] > 0 => r.status \in ended'[r.id]
      <3>1. CASE UNCHANGED wire
        BY <1>19, <3>1 DEF Crash, StatusesEarned
      <3>2. CASE saving[w] # None /\ GiveUp(saving[w])
        BY <1>19, <2>1, <3>2, GivenUpIsEarned DEF Crash
      <3> QED
        BY <1>19, <3>1, <3>2 DEF Crash
    <2> QED
      BY <1>19, <2>2 DEF Crash, Idle, StatusesEarned, TypeOK
  <1>20. ASSUME NEW r \in Response, ApplyLate(r)
         PROVE  StatusesEarned'
    <2>1. wire[r] > 0 /\ r.status \in ended[r.id]
      BY <1>20 DEF ApplyLate, StatusesEarned
    <2>2. \A j \in Jobs : rec'[j] \in ended'[j] \cup {"none"}
      BY <1>20, <2>1, StoredIsEarned DEF ApplyLate
    <2>3. \A q \in Response : wire'[q] > 0 => q.status \in ended'[q.id]
      BY <1>20, <2>1 DEF ApplyLate, StatusesEarned, TypeOK
    <2> QED
      BY <1>20, <2>2, <2>3 DEF ApplyLate, StatusesEarned
  <1>21. CASE UNCHANGED vars
    BY <1>21, NothingSaid DEF vars, SaysNothing
  <1> QED
    BY <1>1, <1>2, <1>3, <1>4, <1>5, <1>6, <1>7, <1>8, <1>9, <1>10,
       <1>11, <1>12, <1>13, <1>14, <1>15, <1>16, <1>17, <1>18, <1>19, <1>20,
       <1>21
    DEF Next, Broker, Process, SandboxWorker

-----------------------------------------------------------------------------
(* The accounts as an invariant                                            *)

\* At the start there is nothing in memory and nothing on record.
LEMMA AccountsInit ==
  ASSUME Init
  PROVE  Accounts
  <1>1. TypeOK
    BY InitInvariant
  <1>2. StartsPaid
    <2>1. crashes = 0 /\ severs = 0 /\ faults = 0
      BY DEF Init, faults
    <2>2. \A j \in Jobs : Copies(j) = {} /\ runs[j] = 0
      BY PipelineAssumption DEF Init, Copies
    <2> QED
      BY <2>1, <2>2, FS_EmptySet DEF StartsPaid
  <1>3. WritesEarned
    <2> SUFFICES ASSUME NEW j \in Jobs
                 PROVE  /\ Cardinality(Working(j)) <= runs[j]
                        /\ Spent(j) <= Attempts * Earning(j)
      BY DEF WritesEarned, Spent, Earning
    <2>1. Working(j) = {} /\ ToSend(j) = {} /\ runs[j] = 0 /\ writes[j] = 0
      BY DEF Init, Working, ToSend, Idle
    <2>2. OnWire(j) = 0
      <3>1. \A s \in Statuses : wire[[id |-> j, status |-> s]] = 0
        <4>1. \A s \in Statuses : [id |-> j, status |-> s] \in Response
          BY DEF Response
        <4> QED
          BY <4>1 DEF Init
      <3> QED
        BY <3>1 DEF OnWire, Statuses
    <2>3. Cardinality(Working(j)) = 0 /\ Cardinality(ToSend(j)) = 0
      BY <2>1, FS_EmptySet
    <2>4. Spent(j) = 0 /\ Earning(j) = 0
      <3> HIDE DEF OnWire, ToSend, Working
      <3> QED
        BY <2>1, <2>2, <2>3 DEF Spent, Earning
    <2>5. Attempts * 0 = 0
      BY PipelineAssumption DEF Attempts
    <2> HIDE DEF Spent, Earning, Attempts, Working
    <2> QED
      BY <2>1, <2>3, <2>4, <2>5
  <1>4. StatusesEarned
    BY DEF Init, Idle, StatusesEarned
  <1> QED
    BY <1>2, <1>3, <1>4 DEF Accounts

\* In every state each start of a program has been paid for by its publication
\* or a fault; its SETs, those still on the wire included, are at most Attempts
\* for each execution; and no status is stored or on its way that no execution
\* ended with (client.go: Ack before the SET, redelivery of what was not
\* acknowledged, go-redis sending a SET again when its reply does not come).
THEOREM AccountsBalance == Spec => []Accounts
  <1>1. Init => Accounts
    BY AccountsInit
  <1>2. TypeOK /\ TypeOK' /\ Bookkeeping /\ Accounts /\ [Next]_vars => Accounts'
    BY StartsPaidStep, WritesEarnedStep, StatusesEarnedStep DEF Accounts
  <1> QED
    BY <1>1, <1>2, Invariance, TypeCorrect, PTL DEF Spec

-----------------------------------------------------------------------------
(* The refinement                                                          *)

\* The jobs AtLeastOnce calls published.
Published == {j \in Jobs : msg[j] # "new"}

\* What AtLeastOnce does not see.
Unseen ==
  /\ Published' = Published
  /\ UNCHANGED <<runs, ended, writes, rec>>
  /\ faults' = faults

LEMMA UnseenStutters ==
  ASSUME Unseen
  PROVE  UNCHANGED Promise!vars
  BY DEF Unseen, Published, Promise!vars

\* A start has been paid for by an earlier publication or a fault.
LEMMA StartMaps ==
  ASSUME TypeOK, StartsPaid, NEW w \in Workers, StartExecution(w)
  PROVE  Promise!Start(inbox[w])
  <1>1. inbox[w] \in Jobs /\ w \in Copies(inbox[w])
    BY DEF StartExecution, Copies
  <1>2. /\ runs[inbox[w]] + Cardinality(Copies(inbox[w])) <= 1 + faults
        /\ msg[inbox[w]] # "new"
    <2> DEFINE j == inbox[w]
    <2>1. /\ runs[j] + Cardinality(Copies(j))
              + (IF msg[j] \in {"new", "ready"} THEN 1 ELSE 0) <= 1 + faults
          /\ msg[j] = "new" => Copies(j) = {}
      BY <1>1 DEF StartsPaid
    <2>2. runs[j] \in Nat /\ Cardinality(Copies(j)) \in Nat /\ faults \in Nat
      BY <1>1, CountTypes, FaultsType DEF TypeOK
    <2> HIDE DEF j, Copies
    <2> QED
      BY <1>1, <2>1, <2>2 DEF j
  <1>3. Cardinality(Copies(inbox[w]) \ {w}) = Cardinality(Copies(inbox[w])) - 1
    BY <1>1, OneProcessLess DEF Copies
  <1>4. /\ Cardinality(Copies(inbox[w]) \ {w}) \in Nat
        /\ Cardinality(Copies(inbox[w])) \in Nat
    BY <1>1, CountTypes, ProcessCount DEF Copies
  <1>5. runs[inbox[w]] <= faults
    BY <1>1, <1>2, <1>3, <1>4, FaultsType DEF TypeOK
  <1>6. /\ runs' = [runs EXCEPT ![inbox[w]] = @ + 1]
        /\ msg' = msg /\ UNCHANGED <<ended, writes, rec>> /\ faults' = faults
    BY DEF StartExecution, brokerVars, storeVars, faultVars, faults
  <1> QED
    BY <1>1, <1>2, <1>5, <1>6 DEF Promise!Start

\* An execution that ends is one that was started.
LEMMA EndMaps ==
  ASSUME TypeOK, Bookkeeping, WritesEarned, NEW w \in Workers, FinishExecution(w)
  PROVE  \E j \in Jobs : Promise!End(j)
  <1>1. PICK s \in Statuses : End(w, s)
    BY PipelineAssumption DEF FinishExecution
  <1> DEFINE j == sandbox[w].job
  <1>2. j \in Jobs /\ w \in Working(j)
    BY DEF FinishExecution, TypeOK, SandboxState, Bookkeeping, BusyWithJob, Working
  <1>3. runs[j] > 0
    <2>1. Cardinality(Working(j)) <= runs[j]
      BY <1>2 DEF WritesEarned
    <2>2. /\ Cardinality(Working(j) \ {w}) = Cardinality(Working(j)) - 1
          /\ Cardinality(Working(j) \ {w}) \in Nat
      BY <1>2, OneProcessLess, ProcessCount DEF Working
    <2> HIDE DEF Working, j
    <2> QED
      BY <1>2, <2>1, <2>2, Numbers, CountTypes
  <1>4. /\ ended' = [ended EXCEPT ![j] = @ \cup {s}] /\ runs' = runs
        /\ msg' = msg /\ UNCHANGED <<writes, rec>> /\ faults' = faults
    BY <1>1 DEF FinishExecution, End, brokerVars, storeVars, faultVars, faults
  <1> HIDE DEF j
  <1> QED
    BY <1>2, <1>3, <1>4 DEF Promise!End

\* A SET that is applied is one of those an execution has paid for, and carries
\* the status of one.
LEMMA WriteMaps ==
  ASSUME TypeOK, Accounts, NEW r \in Response, Store(r), r.status \in ended[r.id],
         writes[r.id] < Spent(r.id), UNCHANGED <<msg, runs, ended, faults>>
  PROVE  Promise!Write(r.id)
  <1>1. r.id \in Jobs /\ r.status \in Statuses
    BY DEF Response
  <1>2. writes[r.id] < Attempts * runs[r.id]
    <2> DEFINE j == r.id
    <2>1. Cardinality(Working(j)) <= runs[j] /\ Spent(j) <= Attempts * Earning(j)
      BY <1>1 DEF Accounts, WritesEarned, Spent, Earning
    <2>2. Earning(j) \in Nat /\ runs[j] \in Nat /\ Earning(j) <= runs[j]
      <3> HIDE DEF Working, j
      <3> QED
        BY <1>1, <2>1, Numbers, CountTypes DEF Earning, j
    <2>3. Attempts * Earning(j) <= Attempts * runs[j]
      <3> HIDE DEF Earning, Attempts, j
      <3> QED
        BY <1>1, <2>2, Numbers, TimesMonotone DEF j
    <2>4. /\ Attempts * Earning(j) \in Nat /\ Attempts * runs[j] \in Nat
          /\ writes[j] \in Nat /\ Spent(j) \in Nat
      <3>1. Attempts * Earning(j) \in Nat /\ Attempts * runs[j] \in Nat
        <4> HIDE DEF Earning, Attempts, j
        <4> QED
          BY <1>1, <2>2, Numbers DEF j
      <3>2. writes[j] \in Nat /\ Spent(j) \in Nat
        BY <1>1, Numbers DEF Spent
      <3> QED
        BY <3>1, <3>2
    <2>5. writes[j] < Spent(j)
      OBVIOUS
    <2> HIDE DEF Spent, Earning, Attempts, Working, j
    <2>6. writes[j] < Attempts * runs[j]
      BY <2>1, <2>3, <2>4, <2>5
    <2> QED
      BY <2>6 DEF j
  <1>3. /\ rec' = [rec EXCEPT ![r.id] = r.status]
        /\ writes' = [writes EXCEPT ![r.id] = @ + 1]
    BY DEF Store
  <1> HIDE DEF Attempts
  <1> QED
    BY <1>1, <1>2, <1>3 DEF Promise!Write

\* So does a SET that is answered,
LEMMA SaveMaps ==
  ASSUME TypeOK, Accounts, NEW w \in Workers, Save(w)
  PROVE  \E j \in Jobs : Promise!Write(j)
  <1>1. /\ saving[w] \in Response /\ saving[w].id \in Jobs
        /\ saving[w].status \in ended[saving[w].id]
    BY DEF Save, TypeOK, Response, Accounts, StatusesEarned
  <1>2. UNCHANGED <<msg, runs, ended, faults>>
    BY DEF Save, brokerVars, runVars, faultVars, faults
  <1>3. writes[saving[w].id] < Spent(saving[w].id)
    <2> DEFINE j == saving[w].id
    <2>1. <<w, tries[w]>> \in ToSend(j)
      BY DEF Save, ToSend, TypeOK
    <2>2. /\ Cardinality(ToSend(j) \ {<<w, tries[w]>>}) = Cardinality(ToSend(j)) - 1
          /\ Cardinality(ToSend(j) \ {<<w, tries[w]>>}) \in Nat
      BY <1>1, <2>1, Numbers, FS_RemoveElement, FS_CardinalityType
    <2>3. /\ OnWire(j) \in Nat /\ writes[j] \in Nat
          /\ Cardinality(ToSend(j)) \in Nat
      BY <1>1, Numbers
    <2> HIDE DEF OnWire, ToSend, j
    <2>4. writes[j] < Spent(j)
      BY <2>2, <2>3 DEF Spent
    <2> QED
      BY <2>4 DEF j
  <1>4. Promise!Write(saving[w].id)
    BY <1>1, <1>2, <1>3, WriteMaps DEF Save
  <1> QED
    BY <1>1, <1>4

\* and one that is applied after its sender gave it up.
LEMMA LateMaps ==
  ASSUME TypeOK, Accounts, NEW r \in Response, ApplyLate(r)
  PROVE  \E j \in Jobs : Promise!Write(j)
  <1>1. r.id \in Jobs /\ r.status \in Statuses /\ r.status \in ended[r.id]
    BY DEF ApplyLate, Response, Accounts, StatusesEarned
  <1>2. UNCHANGED <<msg, runs, ended, faults>>
    BY DEF ApplyLate, brokerVars, runVars, faultVars, faults
  <1>3. writes[r.id] < Spent(r.id)
    <2>1. \A s \in Statuses :
            /\ [id |-> r.id, status |-> s] \in Response
            /\ s = r.status => [id |-> r.id, status |-> s] = r
      BY <1>1 DEF Response
    <2>2. \A s \in Statuses :
            /\ wire[[id |-> r.id, status |-> s]] \in Nat
            /\ s = r.status => wire[[id |-> r.id, status |-> s]] > 0
      BY <2>1 DEF TypeOK, ApplyLate
    <2>3. OnWire(r.id) > 0
      BY <1>1, <2>2 DEF OnWire, Statuses
    <2>4. /\ OnWire(r.id) \in Nat /\ writes[r.id] \in Nat
          /\ Cardinality(ToSend(r.id)) \in Nat
      BY <1>1, Numbers
    <2> HIDE DEF OnWire, ToSend
    <2> QED
      BY <2>3, <2>4 DEF Spent
  <1>4. Promise!Write(r.id)
    BY <1>1, <1>2, <1>3, WriteMaps DEF ApplyLate
  <1> QED
    BY <1>1, <1>4

\* A fault leaves alone what has been published.
LEMMA FaultMaps ==
  ASSUME Published' = Published, faults' = faults + 1,
         UNCHANGED <<runs, ended, writes, rec>>
  PROVE  Promise!Fault
  BY DEF Published, Promise!Fault

\* What is put back into the queue has been published before.
LEMMA RequeueKeeps ==
  ASSUME TypeOK, OutIffHeld, NEW w \in Workers, Requeue(w)
  PROVE  Published' = Published
  <1>1. ASSUME NEW j \in Jobs
        PROVE  msg'[j] = "new" <=> msg[j] = "new"
    <2>1. CASE held[w] = j
      <3>1. msg[j] = "out"
        BY <2>1, PipelineAssumption DEF OutIffHeld
      <3>2. msg'[j] = "ready"
        BY <2>1 DEF Requeue
      <3> QED
        BY <3>1, <3>2
    <2>2. CASE held[w] # j
      BY <2>2 DEF Requeue
    <2> QED
      BY <2>1, <2>2
  <1> QED
    BY <1>1 DEF Published

\* Every step of the pipeline is a step of AtLeastOnce or is not seen by it.
LEMMA StepMaps ==
  ASSUME TypeOK, Bookkeeping, Accounts, [Next]_vars
  PROVE  [Promise!Next]_(Promise!vars)
  <1> USE DEF brokerVars, memoryVars, saveVars, storeVars, runVars, faultVars
  <1>1. ASSUME NEW j \in Jobs, Publish(j)
        PROVE  [Promise!Next]_(Promise!vars)
    <2>1. Promise!Submit(j)
      BY <1>1 DEF Publish, Promise!Submit, TypeOK, faults
    <2> QED
      BY <2>1 DEF Promise!Next
  <1>2. ASSUME NEW w \in Workers, StartExecution(w)
        PROVE  [Promise!Next]_(Promise!vars)
    <2>1. inbox[w] \in Jobs /\ Promise!Start(inbox[w])
      BY <1>2, StartMaps DEF Accounts, StartExecution
    <2> QED
      BY <2>1 DEF Promise!Next
  <1>3. ASSUME NEW w \in Workers, Save(w)
        PROVE  [Promise!Next]_(Promise!vars)
    BY <1>3, SaveMaps DEF Promise!Next
  <1>4. ASSUME NEW j \in Jobs, ExpireRecord(j)
        PROVE  [Promise!Next]_(Promise!vars)
    <2>1. Promise!Forget(j)
      BY <1>4 DEF ExpireRecord, Promise!Forget, faults
    <2> QED
      BY <2>1 DEF Promise!Next
  <1>5. ASSUME BrokerRestart
        PROVE  [Promise!Next]_(Promise!vars)
    <2>1. Published' = Published
      BY <1>5 DEF BrokerRestart, Published, TypeOK
    <2>2. faults' = faults + 1
      BY <1>5 DEF BrokerRestart, faults, TypeOK
    <2>3. UNCHANGED <<runs, ended, writes, rec>>
      BY <1>5 DEF BrokerRestart
    <2> QED
      BY <2>1, <2>2, <2>3, FaultMaps DEF Promise!Next
  <1>6. ASSUME NEW w \in Workers, Sever(w)
        PROVE  [Promise!Next]_(Promise!vars)
    <2>1. Published' = Published
      BY <1>6, RequeueKeeps DEF Sever, Bookkeeping
    <2>2. faults' = faults + 1
      BY <1>6 DEF Sever, faults, TypeOK
    <2>3. UNCHANGED <<runs, ended, writes, rec>>
      BY <1>6 DEF Sever
    <2> QED
      BY <2>1, <2>2, <2>3, FaultMaps DEF Promise!Next
  <1>7. ASSUME NEW w \in Workers, Crash(w)
        PROVE  [Promise!Next]_(Promise!vars)
    <2>1. Published' = Published
      BY <1>7, RequeueKeeps DEF Crash, Bookkeeping
    <2>2. faults' = faults + 1
      BY <1>7 DEF Crash, faults, TypeOK
    <2>3. UNCHANGED <<runs, ended, writes, rec>>
      BY <1>7 DEF Crash
    <2> QED
      BY <2>1, <2>2, <2>3, FaultMaps DEF Promise!Next
  <1>8. ASSUME NEW r \in Response, ApplyLate(r)
        PROVE  [Promise!Next]_(Promise!vars)
    BY <1>8, LateMaps DEF Promise!Next
  <1>9. ASSUME NEW j \in Jobs, ExpireMessage(j)
        PROVE  [Promise!Next]_(Promise!vars)
    <2>1. Unseen
      BY <1>9 DEF ExpireMessage, RejectTarget, Unseen, Published, faults, TypeOK
    <2> QED
      BY <2>1, UnseenStutters
  <1>10. ASSUME NEW w \in Workers, Settle(w)
         PROVE  [Promise!Next]_(Promise!vars)
    <2>1. Unseen
      BY <1>10 DEF Settle, RejectTarget, Unseen, Published, faults, TypeOK, Bookkeeping, OutIffHeld, WorksOnHeld
    <2> QED
      BY <2>1, UnseenStutters
  <1>11. ASSUME NEW w \in Workers, NEW j \in Jobs, Deliver(w, j)
         PROVE  [Promise!Next]_(Promise!vars)
    <2>1. Unseen
      BY <1>11 DEF Deliver, Unseen, Published, faults, TypeOK
    <2> QED
      BY <2>1, UnseenStutters
  <1>12. ASSUME NEW w \in Workers, Declare(w)
         PROVE  [Promise!Next]_(Promise!vars)
    <2>1. Unseen
      BY <1>12 DEF Declare, Unseen, Published, faults
    <2> QED
      BY <2>1, UnseenStutters
  <1>13. ASSUME NEW w \in Workers, Consume(w)
         PROVE  [Promise!Next]_(Promise!vars)
    <2>1. Unseen
      BY <1>13 DEF Consume, Unseen, Published, faults
    <2> QED
      BY <2>1, UnseenStutters
  <1>14. ASSUME NEW w \in Workers, NoticeClosed(w)
         PROVE  [Promise!Next]_(Promise!vars)
    <2>1. Unseen
      BY <1>14 DEF NoticeClosed, Unseen, Published, faults
    <2> QED
      BY <2>1, UnseenStutters
  <1>15. ASSUME NEW w \in Workers, NackMalformed(w)
         PROVE  [Promise!Next]_(Promise!vars)
    <2>1. Unseen
      BY <1>15 DEF NackMalformed, Unseen, Published, faults
    <2> QED
      BY <2>1, UnseenStutters
  <1>16. ASSUME NEW w \in Workers, FinishExecution(w)
         PROVE  [Promise!Next]_(Promise!vars)
    BY <1>16, EndMaps DEF Accounts, Promise!Next
  <1>17. ASSUME NEW w \in Workers, AckResult(w)
         PROVE  [Promise!Next]_(Promise!vars)
    <2>1. Unseen
      BY <1>17 DEF AckResult, Unseen, Published, faults
    <2> QED
      BY <2>1, UnseenStutters
  <1>18. ASSUME NEW w \in Workers, AckFails(w)
         PROVE  [Promise!Next]_(Promise!vars)
    <2>1. Unseen
      BY <1>18 DEF AckFails, Unseen, Published, faults
    <2> QED
      BY <2>1, UnseenStutters
  <1>19. ASSUME NEW w \in Workers, Reply(w)
         PROVE  [Promise!Next]_(Promise!vars)
    <2>1. Unseen
      BY <1>19 DEF Reply, Unseen, Published, faults
    <2> QED
      BY <2>1, UnseenStutters
  <1>20. ASSUME NEW w \in Workers, SaveAgain(w)
         PROVE  [Promise!Next]_(Promise!vars)
    <2>1. Unseen
      BY <1>20 DEF SaveAgain, Unseen, Published, faults
    <2> QED
      BY <2>1, UnseenStutters
  <1>21. CASE UNCHANGED vars
    <2>1. Unseen
      BY <1>21 DEF vars, Unseen, Published, faults
    <2> QED
      BY <2>1, UnseenStutters
  <1> QED
    BY <1>1, <1>2, <1>3, <1>4, <1>5, <1>6, <1>7, <1>8, <1>9, <1>10,
       <1>11, <1>12, <1>13, <1>14, <1>15, <1>16, <1>17, <1>18, <1>19, <1>20,
       <1>21
    DEF Next, Broker, Process, SandboxWorker

\* The pipeline implements AtLeastOnce: however deliveries are repeated and
\* SETs sent again or applied late, a program runs again only on account of a
\* fault, and its record is the status of one of its executions, written at most
\* Attempts times for each.  Not promised, because not true: that a result is
\* written once, or that the record is that of the last execution.
THEOREM PipelineImplementsAtLeastOnce == Spec => ImplementsAtLeastOnce
  <1>1. Init => Promise!Init
    BY DEF Init, Promise!Init, faults
  <1>2. TypeOK /\ Bookkeeping /\ Accounts /\ [Next]_vars
          => [Promise!Next]_(Promise!vars)
    BY StepMaps
  <1> QED
    BY <1>1, <1>2, Invariance, AccountsBalance, PTL
    DEF Spec, ImplementsAtLeastOnce, Promise!Spec

-----------------------------------------------------------------------------
(* What the abstraction is good for                                        *)

\* A start earns Attempts writes, and a write is one that was earned.
LEMMA PromisedStart ==
  ASSUME Promise!TypeOK, Promise!RecordsTell, NEW j \in Jobs, Promise!Start(j)
  PROVE  Promise!TypeOK' /\ Promise!RecordsTell'
  <1> USE DEF Promise!TypeOK, Promise!RecordsTell
  <1>1. ASSUME NEW i \in Jobs
        PROVE  Attempts * runs[i] <= Attempts * runs'[i]
    <2>1. runs[i] \in Nat /\ runs'[i] \in Nat /\ runs[i] <= runs'[i]
      BY DEF Promise!Start
    <2> QED
      BY <2>1, PipelineAssumption, TimesMonotone DEF Attempts
  <1>2. \A i \in Jobs : writes'[i] <= Attempts * runs'[i]
    <2> SUFFICES ASSUME NEW i \in Jobs PROVE writes'[i] <= Attempts * runs'[i]
      OBVIOUS
    <2>1. writes'[i] = writes[i] /\ writes[i] \in Nat /\ writes[i] <= Attempts * runs[i]
      BY DEF Promise!Start
    <2>2. Attempts * runs[i] \in Nat /\ Attempts * runs'[i] \in Nat
      <3>1. runs[i] \in Nat /\ runs'[i] \in Nat /\ Attempts \in Nat
        BY PipelineAssumption DEF Promise!Start, Attempts
      <3> HIDE DEF Attempts
      <3> QED
        BY <3>1
    <2> HIDE DEF Attempts
    <2> QED
      BY <1>1, <2>1, <2>2
  <1> HIDE DEF Attempts
  <1> QED
    BY <1>2 DEF Promise!Start

LEMMA PromisedWrite ==
  ASSUME Promise!TypeOK, Promise!RecordsTell, NEW j \in Jobs, Promise!Write(j)
  PROVE  Promise!TypeOK' /\ Promise!RecordsTell'
  <1> USE DEF Promise!TypeOK, Promise!RecordsTell
  <1>1. \A i \in Jobs : writes'[i] <= Attempts * runs'[i]
    <2> SUFFICES ASSUME NEW i \in Jobs PROVE writes'[i] <= Attempts * runs'[i]
      OBVIOUS
    <2>1. Attempts * runs[i] \in Nat
      <3>1. runs[i] \in Nat /\ Attempts \in Nat
        BY PipelineAssumption DEF Attempts
      <3> HIDE DEF Attempts
      <3> QED
        BY <3>1
    <2>2. /\ runs'[i] = runs[i] /\ writes[i] \in Nat
          /\ writes'[i] = IF i = j THEN writes[i] + 1 ELSE writes[i]
          /\ i = j => writes[i] < Attempts * runs[i]
          /\ writes[i] <= Attempts * runs[i]
      BY DEF Promise!Write
    <2> HIDE DEF Attempts
    <2> QED
      BY <2>1, <2>2
  <1> HIDE DEF Attempts
  <1> QED
    BY <1>1 DEF Promise!Write

\* Every step of AtLeastOnce keeps its records honest.
LEMMA RecordsTellStep ==
  ASSUME Promise!TypeOK, Promise!RecordsTell, [Promise!Next]_(Promise!vars)
  PROVE  Promise!TypeOK' /\ Promise!RecordsTell'
  <1> USE DEF Promise!TypeOK, Promise!RecordsTell
  <1>1. ASSUME NEW j \in Jobs, Promise!Submit(j)
        PROVE  Promise!TypeOK' /\ Promise!RecordsTell'
    BY <1>1 DEF Promise!Submit
  <1>2. ASSUME NEW j \in Jobs, Promise!Start(j)
        PROVE  Promise!TypeOK' /\ Promise!RecordsTell'
    BY <1>2, PromisedStart
  <1>3. ASSUME NEW j \in Jobs, Promise!Write(j)
        PROVE  Promise!TypeOK' /\ Promise!RecordsTell'
    BY <1>3, PromisedWrite
  <1>4. ASSUME NEW j \in Jobs, Promise!Forget(j)
        PROVE  Promise!TypeOK' /\ Promise!RecordsTell'
    BY <1>4 DEF Promise!Forget
  <1>5. CASE Promise!Fault
    BY <1>5 DEF Promise!Fault
  <1>6. CASE UNCHANGED Promise!vars
    BY <1>6 DEF Promise!vars
  <1>7. ASSUME NEW j \in Jobs, Promise!End(j)
        PROVE  Promise!TypeOK' /\ Promise!RecordsTell'
    BY <1>7 DEF Promise!End
  <1> QED
    BY <1>1, <1>2, <1>3, <1>4, <1>5, <1>6, <1>7 DEF Promise!Next

\* So the pipeline's are: a status that a reader finds is one that an execution
\* of the program ended with, the program was handed in, and it was started once
\* more than there were faults at most, however often it was delivered and its
\* result sent (proved of AtLeastOnce and carried over by the refinement).
THEOREM RecordsTellOfRuns == Spec => []Promise!RecordsTell
  <1>1. Promise!Init => Promise!TypeOK /\ Promise!RecordsTell
    <2>1. Attempts * 0 = 0
      BY PipelineAssumption DEF Attempts
    <2> HIDE DEF Attempts
    <2> QED
      BY <2>1 DEF Promise!Init, Promise!TypeOK, Promise!RecordsTell
  <1>2. Promise!TypeOK /\ Promise!RecordsTell /\ [Promise!Next]_(Promise!vars)
          => (Promise!TypeOK /\ Promise!RecordsTell)'
    BY RecordsTellStep
  <1>3. Promise!Spec => []Promise!RecordsTell
    BY <1>1, <1>2, PTL DEF Promise!Spec
  <1> QED
    BY <1>3, PipelineImplementsAtLeastOnce, PTL DEF ImplementsAtLeastOnce

=============================================================================
