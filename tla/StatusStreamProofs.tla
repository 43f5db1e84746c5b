-------------------------- MODULE StatusStreamProofs --------------------------
(***************************************************************************)
(* Theorems about StatusStream, for any requests and any records.          *)
(***************************************************************************)
EXTENDS StatusStream, TLAPS

\* A lookup always has a status to give.
LEMMA LookupType == ASSUME NEW v PROVE Lookup(v) \in Statuses
  <1>1. ASSUME v \in ScopedRecord
        PROVE  ParseStatus(v) \in Statuses
    BY <1>1 DEF ScopedRecord, ParseStatus, Statuses, TerminalStatuses
  <1> QED
    BY <1>1 DEF Lookup, Statuses, TerminalStatuses

\* Statuses proper are told from the absent one.
LEMMA NoneIsNoStatus == "none" \notin Statuses
  BY DEF Statuses, TerminalStatuses

\* A request that has its answer is a request.
LEMMA AnsweringType ==
  ASSUME TypeOK, NEW q \in Requests, NEW s \in Statuses, Answering(q, s)
  PROVE  /\ request' \in [Requests -> RequestState]
         /\ request'[q].pc = "send" /\ request'[q].answer = s
         /\ \A p \in Requests \ {q} : request'[p] = request[p]
  BY DEF TypeOK, Answering, RequestState

\* Every step keeps the variables in their types.
LEMMA TypeOKStep ==
  ASSUME TypeOK, [Next]_vars
  PROVE  TypeOK'
  <1> USE StreamAssumption DEF TypeOK, RequestState
  <1>1. ASSUME NEW r \in Records, Write(r)
        PROVE  TypeOK'
    BY <1>1, LookupType DEF Write
  <1>2. CASE Expire
    BY <1>2 DEF Expire, Statuses
  <1>3. ASSUME NEW q \in Requests, BeginLookup(q)
        PROVE  TypeOK'
    BY <1>3, LookupType DEF BeginLookup
  <1>4. ASSUME NEW q \in Requests, RefuseKey(q)
        PROVE  TypeOK'
    BY <1>4, AnsweringType DEF RefuseKey, Statuses
  <1>5. ASSUME NEW q \in Requests, ReadRecord(q)
        PROVE  TypeOK'
    BY <1>5, LookupType, AnsweringType DEF ReadRecord
  <1>6. ASSUME NEW q \in Requests, ReadFails(q)
        PROVE  TypeOK'
    BY <1>6, AnsweringType DEF ReadFails, Statuses
  <1>7. ASSUME NEW q \in Requests, Send(q)
        PROVE  TypeOK'
    BY <1>7 DEF Send
  <1>8. ASSUME NEW q \in Requests, Disconnect(q)
        PROVE  TypeOK'
    BY <1>8 DEF Disconnect
  <1>9. CASE UNCHANGED vars
    BY <1>9 DEF vars
  <1> QED
    BY <1>1, <1>2, <1>3, <1>4, <1>5, <1>6, <1>7, <1>8, <1>9 DEF Next, Serve

\* The variables of a polling server keep their types, whatever is stored.
THEOREM TypeCorrectness == Spec => []TypeOK
  <1>1. Init => TypeOK
    BY StreamAssumption DEF Init, TypeOK, RequestState
  <1>2. TypeOK /\ [Next]_vars => TypeOK'
    BY TypeOKStep
  <1> QED
    BY <1>1, <1>2, PTL DEF Spec

\* A result is reported as it was stored, and no sign of failure reads as
\* success, for every record there can be (main.go:75-92).
THEOREM EveryResultReadsBack == Spec => []ResultsReadBack
  <1>1. ASSUME TypeOK, record # None
        PROVE  record \in SandboxRecord => Lookup(record) = record.status
    BY <1>1 DEF SandboxRecord, ScopedRecord, TerminalStatuses, Lookup, ParseStatus
  <1>2. ASSUME record # None, record \in ScopedRecord, Lookup(record) = "completed"
        PROVE  \/ record.status = "completed"
               \/ ~record.timedOut /\ ~record.timeout /\ record.exitCode # "nonzero"
                    /\ record.succeeded # "false"
    <2>1. record.timedOut \in BOOLEAN /\ record.timeout \in BOOLEAN
      BY <1>2 DEF ScopedRecord
    <2>2. ParseStatus(record) = "completed"
      BY <1>2 DEF Lookup
    <2> QED
      BY <2>1, <2>2 DEF ParseStatus
  <1>3. TypeOK => ResultsReadBack
    BY <1>1, <1>2 DEF ResultsReadBack
  <1> QED
    BY <1>3, TypeCorrectness, PTL

-----------------------------------------------------------------------------
(* The final event                                                         *)

\* A request that has given a final answer is done with.
FinalIsDone ==
  \A q \in Requests :
    Final(last[q]) /\ last[q] # "none" => request[q].pc = "done"

\* What is about to be answered was true, and is a status.
SendsTruth ==
  /\ AnswersWereTrue
  /\ \A q \in Requests :
       /\ request[q].pc = "send" => request[q].answer # "none"
       /\ request[q].pc = "lookup" => Lookup(record) \in truths[q]

\* Both are inductive: the request is done as its final answer goes out, and
\* the truths of a lookup keep up with the record.
LEMMA TruthStep ==
  ASSUME TypeOK, FinalIsDone, SendsTruth, [Next]_vars
  PROVE  FinalIsDone' /\ SendsTruth'
  <1> USE NoneIsNoStatus
      DEF TypeOK, RequestState, FinalIsDone, SendsTruth, AnswersWereTrue, Final
  <1>1. ASSUME NEW r \in Records, Write(r)
        PROVE  FinalIsDone' /\ SendsTruth'
    BY <1>1 DEF Write
  <1>2. CASE Expire
    BY <1>2 DEF Expire, Lookup
  <1>3. ASSUME NEW q \in Requests, BeginLookup(q)
        PROVE  FinalIsDone' /\ SendsTruth'
    BY <1>3 DEF BeginLookup
  <1>4. ASSUME NEW q \in Requests, RefuseKey(q)
        PROVE  FinalIsDone' /\ SendsTruth'
    BY <1>4, AnsweringType DEF RefuseKey, Statuses
  <1>5. ASSUME NEW q \in Requests, ReadRecord(q)
        PROVE  FinalIsDone' /\ SendsTruth'
    <2>1. /\ request'[q].pc = "send" /\ request'[q].answer = Lookup(record)
          /\ \A p \in Requests \ {q} : request'[p] = request[p]
      BY <1>5, LookupType, AnsweringType DEF ReadRecord
    <2>2. Lookup(record) \in truths[q] /\ Lookup(record) # "none"
      BY <1>5, LookupType DEF ReadRecord
    <2> QED
      BY <1>5, <2>1, <2>2 DEF ReadRecord
  <1>6. ASSUME NEW q \in Requests, ReadFails(q)
        PROVE  FinalIsDone' /\ SendsTruth'
    BY <1>6, AnsweringType DEF ReadFails, Statuses
  <1>7. ASSUME NEW q \in Requests, Send(q)
        PROVE  FinalIsDone' /\ SendsTruth'
    BY <1>7 DEF Send
  <1>8. ASSUME NEW q \in Requests, Disconnect(q)
        PROVE  FinalIsDone' /\ SendsTruth'
    BY <1>8 DEF Disconnect
  <1>9. CASE UNCHANGED vars
    BY <1>9 DEF vars
  <1> QED
    BY <1>1, <1>2, <1>3, <1>4, <1>5, <1>6, <1>7, <1>8, <1>9 DEF Next, Serve

LEMMA TruthInvariance == Spec => [](TypeOK /\ FinalIsDone /\ SendsTruth)
  <1>1. Init => FinalIsDone /\ SendsTruth
    BY DEF Init, FinalIsDone, SendsTruth, AnswersWereTrue, RequestState
  <1> QED
    BY <1>1, TruthStep, TypeCorrectness, PTL DEF Spec

\* Every answer of the polling server was true of the record at some time
\* since its lookup was begun (main.go:104-147, 188-205).
THEOREM EveryAnswerWasTrue == Spec => []AnswersWereTrue
  <1>1. SendsTruth => AnswersWereTrue
    BY DEF SendsTruth
  <1> QED
    BY <1>1, TruthInvariance, PTL

\* No event follows a terminal or failed one on a stream (main.go:192-198).
THEOREM NothingAfterTheFinal == Spec => FinalIsLast
  <1>1. TypeOK /\ FinalIsDone /\ [Next]_vars =>
          [\A q \in Requests :
             Final(last[q]) /\ last[q] # "none" => last'[q] = last[q]]_vars
    BY DEF TypeOK, FinalIsDone, Next, Serve, Write, Expire, BeginLookup,
           RefuseKey, ReadRecord, ReadFails, Send, Disconnect, vars
  <1> QED
    BY <1>1, TruthInvariance, PTL DEF Spec, FinalIsLast

=============================================================================
