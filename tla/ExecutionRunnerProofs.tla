------------------------- MODULE ExecutionRunnerProofs -------------------------
(***************************************************************************)
(* Theorems about ExecutionRunner, for any executions, any number of poll  *)
(* loops, of watches and submits, and of failures of the network.          *)
(***************************************************************************)
EXTENDS ExecutionRunner, TLAPS

-----------------------------------------------------------------------------
(* Statuses and loops                                                      *)

\* An outcome is told from every status on the way to it.
LEMMA OutcomeFacts ==
  /\ Outcomes \subseteq TerminalStatuses
  /\ {"none", "queued", "backend_unavailable", "idle", "submitting"} \cap Outcomes = {}
  /\ \A s \in ExecutionStatuses \cup {"none", "idle", "submitting"} :
       IsTerminal(s) <=> s \in Outcomes
  BY RunnerAssumption DEF TerminalStatuses, ExecutionStatuses, IsTerminal

\* A lookup finds an outcome that is stored, or "queued".
LEMMA LookupFacts ==
  ASSUME TypeOK, NEW e \in Executions
  PROVE  /\ Lookup(e) \in Outcomes \cup {"queued"}
         /\ Lookup(e) # "none"
         /\ Lookup(e) \in Outcomes => stored[e] = Lookup(e) /\ stored[e] # "none"
  BY OutcomeFacts DEF TypeOK, Lookup

\* Clearing the timer ends its loop and leaves the others.
LEMMA ClearedFacts ==
  ASSUME TypeOK
  PROVE  /\ TimerCleared \in [Loops -> LoopState]
         /\ \A l \in Loops : TimerCleared[l] \in {loop[l], Off}
  BY DEF TypeOK, TimerCleared, LoopState, Off

\* What FallBack makes of the loops.
LEMMA FallBackFacts ==
  ASSUME TypeOK, NEW l \in Loops, source # None, FallBack(l)
  PROVE  /\ source' = None
         /\ loop' \in [Loops -> LoopState]
         /\ \A k \in Loops :
              loop'[k] \in {loop[k], Off, [at |-> "asked", id |-> source.id, answer |-> "none"]}
         /\ pollTimer' \in {pollTimer, None}
         /\ pollingEnabled' = ~IsTerminal(status)
         /\ ~IsTerminal(status) => pollTimer' = None
         /\ streamState' = IF IsTerminal(status) THEN "stopped" ELSE "polling"
         /\ UNCHANGED <<issued, stored, answers, status, active, history, submits,
                        tracking, watches>>
  <1>1. source.id \in Executions
    BY DEF TypeOK, Source
  <1>2. CASE IsTerminal(status)
    BY <1>2 DEF FallBack, TypeOK, serverVars
  <1>3. CASE ~IsTerminal(status)
    <2>1. loop' = [TimerCleared EXCEPT ![l] =
                     [at |-> "asked", id |-> source.id, answer |-> "none"]]
      BY <1>3 DEF FallBack, Off
    <2>2. [at |-> "asked", id |-> source.id, answer |-> "none"] \in LoopState
      BY <1>1 DEF LoopState
    <2>3. \A k \in Loops :
            loop'[k] \in {loop[k], Off, [at |-> "asked", id |-> source.id, answer |-> "none"]}
      BY <2>1, ClearedFacts
    <2>4. loop' \in [Loops -> LoopState]
      BY <2>1, <2>2, ClearedFacts
    <2> QED
      BY <1>3, <2>3, <2>4 DEF FallBack, serverVars
  <1> QED
    BY <1>2, <1>3

-----------------------------------------------------------------------------
(* Types                                                                   *)

\* What is watched, asked about or listed is an execution the API has given
\* out, and an answered request carries an answer.
Known ==
  /\ source # None => source.id \in issued
  /\ \A l \in Loops : /\ loop[l].at # "off" => loop[l].id \in issued
                      /\ loop[l].at = "answered" => loop[l].answer # "none"
  /\ \A e \in Executions : history[e] # "none" => e \in issued

\* TypeOK in four parts.
ServerTyped ==
  /\ issued \subseteq Executions
  /\ stored \in [Executions -> Outcomes \cup {"none"}]
  /\ answers \in [Executions -> SUBSET Outcomes]

TransportTyped ==
  /\ source \in Source \cup {None}
  /\ pollingEnabled \in BOOLEAN
  /\ pollTimer \in Loops \cup {None}
  /\ loop \in [Loops -> LoopState]

ShownTyped ==
  /\ status \in ExecutionStatuses \cup {"idle", "submitting"}
  /\ streamState \in StreamStates
  /\ active \in Executions \cup {None}
  /\ history \in [Executions -> ExecutionStatuses \cup {"none"}]
  /\ tracking \in Executions \cup {None}

Counted ==
  /\ submits \in 0..MaxSubmits
  /\ watches \in 0..MaxWatches
  /\ failures \in 0..MaxFailures

\* A state is typed when its four parts are.
LEMMA TypeOKParts == TypeOK <=> ServerTyped /\ TransportTyped /\ ShownTyped /\ Counted
  BY DEF TypeOK, ServerTyped, TransportTyped, ShownTyped, Counted

\* The server keeps ids, records and answers.
LEMMA ServerTypedStep ==
  ASSUME ServerTyped, [Next]_vars
  PROVE  ServerTyped'
  <1> USE DEF ServerTyped, serverVars
  <1>1. ASSUME NEW e \in Executions, NEW s \in Outcomes, Store(e, s)
        PROVE  ServerTyped'
    BY <1>1 DEF Store
  <1>2. ASSUME NEW e \in Executions, Expire(e)
        PROVE  ServerTyped'
    BY <1>2 DEF Expire, Fail
  <1>3. ASSUME NEW e \in Executions, SubmitAccepted(e)
        PROVE  ServerTyped'
    BY <1>3 DEF SubmitAccepted
  <1>4. CASE UNCHANGED serverVars
    BY <1>4
  <1> QED
    BY <1>1, <1>2, <1>3, <1>4
    DEF Next, User, Server, Stream, Polling, ServeStatus, ServeUnavailable,
        AnswerPoll, RunExecution, SubmitRejected, WatchExecution,
        StopWatching, ClearHistory, Reload, StreamOpens, StreamEvent,
        StreamBreaks, StreamEnds, PollAnswered, PollFails, TimerFires, vars,
        FallBack

\* No bound is exceeded.
LEMMA CountedStep ==
  ASSUME Counted, [Next]_vars
  PROVE  Counted'
  <1> USE RunnerAssumption DEF Counted, countVars
  <1>1. ASSUME NEW e \in Executions, Expire(e)
        PROVE  Counted'
    BY <1>1 DEF Expire, Fail
  <1>2. CASE ServeUnavailable
    BY <1>2 DEF ServeUnavailable, Fail
  <1>3. CASE RunExecution
    BY <1>3 DEF RunExecution
  <1>4. CASE SubmitRejected
    BY <1>4 DEF SubmitRejected
  <1>5. ASSUME NEW e \in Executions, SubmitAccepted(e)
        PROVE  Counted'
    BY <1>5 DEF SubmitAccepted, BeginWatch
  <1>6. ASSUME NEW e \in Executions, WatchExecution(e)
        PROVE  Counted'
    BY <1>6 DEF WatchExecution, BeginWatch
  <1>7. CASE Reload
    BY <1>7 DEF Reload
  <1>8. ASSUME NEW l \in Loops, StreamBreaks(l)
        PROVE  Counted'
    BY <1>8 DEF StreamBreaks, FallBack, Fail
  <1>9. ASSUME NEW l \in Loops, PollFails(l)
        PROVE  Counted'
    BY <1>9 DEF PollFails, FetchFails, Fail
  <1>10. CASE UNCHANGED <<submits, watches, failures>>
    BY <1>10
  <1> QED
    BY <1>1, <1>2, <1>3, <1>4, <1>5, <1>6, <1>7, <1>8, <1>9, <1>10
    DEF Next, User, Server, Stream, Polling, Store, ServeStatus, AnswerPoll,
        StopWatching, ClearHistory, StreamOpens, StreamEvent, StreamEnds,
        PollAnswered, TimerFires, vars, FallBack

\* Stream, timer and loops: a request that is out is about an execution, and
\* what arrives about it is a status.
LEMMA TransportTypedStep ==
  ASSUME TypeOK, Known, [Next]_vars
  PROVE  TransportTyped'
  <1> USE DEF TransportTyped, transportVars
  <1>1. CASE ServeStatus
    <2>1. source \in Source /\ Lookup(source.id) \in ExecutionStatuses
      BY <1>1, LookupFacts DEF ServeStatus, TypeOK, Source, ExecutionStatuses
    <2>2. source' = [id |-> source.id, open |-> source.open,
                     ended |-> IsTerminal(Lookup(source.id)),
                     event |-> Lookup(source.id)]
      BY <1>1, <2>1 DEF ServeStatus, Source
    <2>3. IsTerminal(Lookup(source.id)) \in BOOLEAN
      BY DEF IsTerminal
    <2>4. source' \in Source
      BY <2>1, <2>2, <2>3 DEF Source
    <2> QED
      BY <1>1, <2>4 DEF ServeStatus, TypeOK
  <1>2. CASE ServeUnavailable
    <2>1. source \in Source
      BY <1>2 DEF ServeUnavailable, TypeOK
    <2> QED
      BY <1>2, <2>1 DEF ServeUnavailable, TypeOK, Source, ExecutionStatuses
  <1>3. ASSUME NEW l \in Loops, AnswerPoll(l)
        PROVE  TransportTyped'
    <2>1. Lookup(loop[l].id) \in Outcomes \cup {"queued"}
      BY <1>3, LookupFacts DEF AnswerPoll, Known, TypeOK
    <2> QED
      BY <1>3, <2>1 DEF AnswerPoll, TypeOK, LoopState
  <1>4. ASSUME NEW e \in Executions, SubmitAccepted(e)
        PROVE  TransportTyped'
    BY <1>4, ClearedFacts
    DEF SubmitAccepted, BeginWatch, StopPolling, Source, ExecutionStatuses
  <1>5. ASSUME NEW e \in Executions, WatchExecution(e)
        PROVE  TransportTyped'
    BY <1>5, ClearedFacts
    DEF WatchExecution, BeginWatch, StopPolling, TypeOK, Source, ExecutionStatuses
  <1>6. CASE StopWatching
    BY <1>6, ClearedFacts DEF StopWatching, StopWatcher, StopPolling
  <1>7. CASE Reload
    BY <1>7 DEF Reload, Mounted, LoopState, Off
  <1>8. CASE StreamOpens
    BY <1>8 DEF StreamOpens, TypeOK, Source
  <1>9. CASE StreamEvent
    <2>1. CASE IsTerminal(source.event)
      BY <1>9, <2>1, ClearedFacts DEF StreamEvent, StopWatcher, StopPolling
    <2>2. CASE ~IsTerminal(source.event)
      BY <1>9, <2>2 DEF StreamEvent, TypeOK, Source
    <2> QED
      BY <2>1, <2>2
  <1>10. ASSUME NEW l \in Loops, StreamBreaks(l)
        PROVE  TransportTyped'
    BY <1>10, FallBackFacts DEF StreamBreaks, TypeOK, IsTerminal
  <1>11. ASSUME NEW l \in Loops, StreamEnds(l)
        PROVE  TransportTyped'
    BY <1>11, FallBackFacts DEF StreamEnds, TypeOK, IsTerminal
  <1>12. ASSUME NEW l \in Loops, PollAnswered(l)
        PROVE  TransportTyped'
    <2>1. CASE IsTerminal(loop[l].answer)
      <3>1. Off \in LoopState
        BY DEF Off, LoopState
      <3> QED
        BY <1>12, <2>1, <3>1, ClearedFacts DEF PollAnswered, StopPolling
    <2>2. CASE ~IsTerminal(loop[l].answer)
      BY <1>12, <2>2 DEF PollAnswered, Continue, TypeOK, LoopState, Off
    <2> QED
      BY <2>1, <2>2
  <1>13. ASSUME NEW l \in Loops, PollFails(l)
        PROVE  TransportTyped'
    BY <1>13 DEF PollFails, Continue, TypeOK, LoopState, Off
  <1>14. ASSUME NEW l \in Loops, TimerFires(l)
        PROVE  TransportTyped'
    BY <1>14 DEF TimerFires, TypeOK, LoopState, Off
  <1>15. CASE UNCHANGED transportVars
    BY <1>15, TypeOKParts
  <1> QED
    BY <1>1, <1>2, <1>3, <1>4, <1>5, <1>6, <1>7, <1>8, <1>9, <1>10, <1>11,
       <1>12, <1>13, <1>14, <1>15
    DEF Next, User, Server, Stream, Polling, Store, Expire, RunExecution,
        SubmitRejected, ClearHistory, vars

\* What is shown and listed is a status.
LEMMA ShownTypedStep ==
  ASSUME TypeOK, Known, [Next]_vars
  PROVE  ShownTyped'
  <1> USE DEF ShownTyped, shownVars
  <1>1. CASE RunExecution
    BY <1>1 DEF RunExecution, TypeOK, StreamStates
  <1>2. CASE SubmitRejected
    BY <1>2 DEF SubmitRejected, TypeOK, StreamStates
  <1>3. ASSUME NEW e \in Executions, SubmitAccepted(e)
        PROVE  ShownTyped'
    BY <1>3 DEF SubmitAccepted, BeginWatch, TypeOK, StreamStates, ExecutionStatuses
  <1>4. ASSUME NEW e \in Executions, WatchExecution(e)
        PROVE  ShownTyped'
    BY <1>4 DEF WatchExecution, BeginWatch, TypeOK, StreamStates, ExecutionStatuses
  <1>5. CASE StopWatching
    BY <1>5 DEF StopWatching, StopWatcher, TypeOK, StreamStates
  <1>6. CASE ClearHistory
    BY <1>6 DEF ClearHistory, TypeOK
  <1>7. CASE Reload
    BY <1>7 DEF Reload, Mounted, TypeOK, StreamStates
  <1>8. CASE StreamOpens
    BY <1>8 DEF StreamOpens, TypeOK, StreamStates
  <1>9. CASE StreamEvent
    <2>1. source.id \in Executions /\ source.event \in ExecutionStatuses
      BY <1>9 DEF StreamEvent, TypeOK, Source
    <2>2. streamState' \in StreamStates
      BY <1>9 DEF StreamEvent, StopWatcher, TypeOK, StreamStates
    <2> QED
      BY <1>9, <2>1, <2>2 DEF StreamEvent, Show, TypeOK
  <1>10. ASSUME NEW l \in Loops, StreamBreaks(l)
        PROVE  ShownTyped'
    BY <1>10, FallBackFacts DEF StreamBreaks, TypeOK, StreamStates
  <1>11. ASSUME NEW l \in Loops, StreamEnds(l)
        PROVE  ShownTyped'
    BY <1>11, FallBackFacts DEF StreamEnds, TypeOK, StreamStates
  <1>12. ASSUME NEW l \in Loops, PollAnswered(l)
        PROVE  ShownTyped'
    <2>1. loop[l].id \in Executions /\ loop[l].answer \in ExecutionStatuses
      BY <1>12 DEF PollAnswered, Known, TypeOK, LoopState, ExecutionStatuses
    <2>2. streamState' \in StreamStates
      BY <1>12 DEF PollAnswered, StreamStates
    <2> QED
      BY <1>12, <2>1, <2>2 DEF PollAnswered, Show, TypeOK
  <1>13. ASSUME NEW l \in Loops, PollFails(l)
        PROVE  ShownTyped'
    BY <1>13 DEF PollFails, TypeOK, StreamStates
  <1>14. CASE UNCHANGED <<shownVars, tracking>>
    BY <1>14, TypeOKParts
  <1> QED
    BY <1>1, <1>2, <1>3, <1>4, <1>5, <1>6, <1>7, <1>8, <1>9, <1>10, <1>11,
       <1>12, <1>13, <1>14
    DEF Next, User, Server, Stream, Polling, Store, Expire, ServeStatus,
        ServeUnavailable, AnswerPoll, TimerFires, vars

\* Every step keeps the variables in their types.
LEMMA TypeOKStep ==
  ASSUME TypeOK, Known, [Next]_vars
  PROVE  TypeOK'
  <1>1. ServerTyped /\ TransportTyped /\ ShownTyped /\ Counted
    BY TypeOKParts
  <1>2. ServerTyped' /\ TransportTyped' /\ ShownTyped' /\ Counted'
    BY <1>1, ServerTypedStep, TransportTypedStep, ShownTypedStep, CountedStep
  <1> QED
    BY <1>2 DEF TypeOK, ServerTyped, TransportTyped, ShownTyped, Counted

-----------------------------------------------------------------------------
(* Invariants                                                              *)

\* Ids are never taken back.
LEMMA KnownStep ==
  ASSUME TypeOK, Known, [Next]_vars
  PROVE  Known'
  <1> USE ClearedFacts DEF Known, TypeOK
  <1>1. CASE ServeStatus
    BY <1>1 DEF ServeStatus, Source, serverVars, shownVars
  <1>2. CASE ServeUnavailable
    BY <1>2 DEF ServeUnavailable, Source, serverVars, shownVars
  <1>3. ASSUME NEW l \in Loops, AnswerPoll(l)
        PROVE  Known'
    <2>1. Lookup(loop[l].id) # "none"
      BY <1>3, LookupFacts DEF AnswerPoll
    <2> QED
      BY <1>3, <2>1 DEF AnswerPoll, LoopState, serverVars, shownVars
  <1>4. ASSUME NEW e \in Executions, SubmitAccepted(e)
        PROVE  Known'
    BY <1>4 DEF SubmitAccepted, BeginWatch, StopPolling, Off
  <1>5. ASSUME NEW e \in Executions, WatchExecution(e)
        PROVE  Known'
    BY <1>5 DEF WatchExecution, BeginWatch, StopPolling, Off, serverVars
  <1>6. CASE StopWatching
    BY <1>6 DEF StopWatching, StopWatcher, StopPolling, Off, serverVars
  <1>7. CASE ClearHistory
    BY <1>7 DEF ClearHistory, serverVars, transportVars
  <1>8. CASE Reload
    BY <1>8 DEF Reload, Mounted, Off, serverVars
  <1>9. CASE StreamOpens
    BY <1>9 DEF StreamOpens, Source, serverVars
  <1>10. CASE StreamEvent
    <2>1. history' = [history EXCEPT ![source.id] = source.event]
      BY <1>10 DEF StreamEvent, Show
    <2>2. CASE IsTerminal(source.event)
      BY <1>10, <2>1, <2>2 DEF StreamEvent, StopWatcher, StopPolling, Off, serverVars
    <2>3. CASE ~IsTerminal(source.event)
      BY <1>10, <2>1, <2>3 DEF StreamEvent, Source, serverVars
    <2> QED
      BY <2>2, <2>3
  <1>11. ASSUME NEW l \in Loops, StreamBreaks(l)
        PROVE  Known'
    BY <1>11, FallBackFacts DEF StreamBreaks, Off
  <1>12. ASSUME NEW l \in Loops, StreamEnds(l)
        PROVE  Known'
    BY <1>12, FallBackFacts DEF StreamEnds, Off
  <1>13. ASSUME NEW l \in Loops, PollAnswered(l)
        PROVE  Known'
    <2>1. history' = [history EXCEPT ![loop[l].id] = loop[l].answer]
      BY <1>13 DEF PollAnswered, Show
    <2>2. CASE IsTerminal(loop[l].answer)
      BY <1>13, <2>1, <2>2 DEF PollAnswered, StopPolling, Off, serverVars
    <2>3. CASE ~IsTerminal(loop[l].answer)
      BY <1>13, <2>1, <2>3 DEF PollAnswered, Continue, LoopState, Off, serverVars
    <2> QED
      BY <2>2, <2>3
  <1>14. ASSUME NEW l \in Loops, PollFails(l)
        PROVE  Known'
    BY <1>14 DEF PollFails, FetchFails, Continue, LoopState, Off, serverVars
  <1>15. ASSUME NEW l \in Loops, TimerFires(l)
        PROVE  Known'
    BY <1>15 DEF TimerFires, LoopState, Off, serverVars, shownVars
  <1>16. CASE UNCHANGED <<issued, source, loop, history>>
    BY <1>16
  <1> QED
    BY <1>1, <1>2, <1>3, <1>4, <1>5, <1>6, <1>7, <1>8, <1>9, <1>10, <1>11,
       <1>12, <1>13, <1>14, <1>15, <1>16
    DEF Next, User, Server, Stream, Polling, Store, Expire, RunExecution,
        SubmitRejected, vars,
        serverVars, transportVars, shownVars, countVars

\* An outcome that is stored, on its way or listed is one the record has had.
Reported ==
  /\ \A e \in Executions : stored[e] # "none" => stored[e] \in answers[e]
  /\ source # None /\ source.event \in Outcomes => source.event \in answers[source.id]
  /\ \A l \in Loops :
       loop[l].answer \in Outcomes => loop[l].answer \in answers[loop[l].id]
  /\ HistoryTruthful

\* What is looked up is stored, and what is handled was looked up.
LEMMA ReportedStep ==
  ASSUME TypeOK, Known, Reported, [Next]_vars
  PROVE  Reported'
  <1> USE OutcomeFacts, ClearedFacts DEF Reported, HistoryTruthful, Known, TypeOK
  <1>1. ASSUME NEW e \in Executions, NEW s \in Outcomes, Store(e, s)
        PROVE  Reported'
    BY <1>1 DEF Store, transportVars, shownVars, Source, LoopState
  <1>2. ASSUME NEW e \in Executions, Expire(e)
        PROVE  Reported'
    BY <1>2 DEF Expire, transportVars, shownVars
  <1>3. CASE ServeStatus
    <2>1. source.id \in Executions
      BY <1>3 DEF ServeStatus
    <2>2. Lookup(source.id) \in Outcomes => Lookup(source.id) \in answers[source.id]
      BY <2>1, LookupFacts
    <2> QED
      BY <1>3, <2>2 DEF ServeStatus, Source, serverVars, shownVars
  <1>4. CASE ServeUnavailable
    BY <1>4 DEF ServeUnavailable, Source, serverVars, shownVars
  <1>5. ASSUME NEW l \in Loops, AnswerPoll(l)
        PROVE  Reported'
    <2>1. loop[l].id \in Executions
      BY <1>5 DEF AnswerPoll
    <2>2. Lookup(loop[l].id) \in Outcomes => Lookup(loop[l].id) \in answers[loop[l].id]
      BY <2>1, LookupFacts
    <2> QED
      BY <1>5, <2>2 DEF AnswerPoll, LoopState, serverVars, shownVars
  <1>6. ASSUME NEW e \in Executions, SubmitAccepted(e)
        PROVE  Reported'
    BY <1>6 DEF SubmitAccepted, BeginWatch, StopPolling, Off
  <1>7. ASSUME NEW e \in Executions, WatchExecution(e)
        PROVE  Reported'
    BY <1>7 DEF WatchExecution, BeginWatch, StopPolling, Off, serverVars
  <1>8. CASE StopWatching
    BY <1>8 DEF StopWatching, StopWatcher, StopPolling, Off, serverVars
  <1>9. CASE ClearHistory
    BY <1>9 DEF ClearHistory, serverVars, transportVars
  <1>10. CASE Reload
    BY <1>10 DEF Reload, Mounted, Off, serverVars
  <1>11. CASE StreamOpens
    BY <1>11 DEF StreamOpens, Source, serverVars
  <1>12. CASE StreamEvent
    <2>1. history' = [history EXCEPT ![source.id] = source.event]
      BY <1>12 DEF StreamEvent, Show
    <2>2. CASE IsTerminal(source.event)
      BY <1>12, <2>1, <2>2 DEF StreamEvent, StopWatcher, StopPolling, Off, serverVars
    <2>3. CASE ~IsTerminal(source.event)
      BY <1>12, <2>1, <2>3 DEF StreamEvent, Source, serverVars
    <2> QED
      BY <2>2, <2>3
  <1>13. ASSUME NEW l \in Loops, StreamBreaks(l)
        PROVE  Reported'
    BY <1>13, FallBackFacts DEF StreamBreaks, Off
  <1>14. ASSUME NEW l \in Loops, StreamEnds(l)
        PROVE  Reported'
    BY <1>14, FallBackFacts DEF StreamEnds, Off
  <1>15. ASSUME NEW l \in Loops, PollAnswered(l)
        PROVE  Reported'
    <2>1. history' = [history EXCEPT ![loop[l].id] = loop[l].answer]
      BY <1>15 DEF PollAnswered, Show
    <2>2. CASE IsTerminal(loop[l].answer)
      BY <1>15, <2>1, <2>2 DEF PollAnswered, StopPolling, Off, serverVars
    <2>3. CASE ~IsTerminal(loop[l].answer)
      BY <1>15, <2>1, <2>3 DEF PollAnswered, Continue, LoopState, Off, serverVars
    <2> QED
      BY <2>2, <2>3
  <1>16. ASSUME NEW l \in Loops, PollFails(l)
        PROVE  Reported'
    BY <1>16 DEF PollFails, FetchFails, Continue, LoopState, Off, serverVars
  <1>17. ASSUME NEW l \in Loops, TimerFires(l)
        PROVE  Reported'
    BY <1>17 DEF TimerFires, LoopState, Off, serverVars, shownVars
  <1>18. CASE UNCHANGED <<stored, answers, source, loop, history>>
    BY <1>18
  <1> QED
    BY <1>1, <1>2, <1>3, <1>4, <1>5, <1>6, <1>7, <1>8, <1>9, <1>10, <1>11,
       <1>12, <1>13, <1>14, <1>15, <1>16, <1>17, <1>18
    DEF Next, User, Server, Stream, Polling, RunExecution, SubmitRejected, vars,
        serverVars, transportVars, shownVars, countVars

\* A stream is given up before polling begins, and both at a final status.
LEMMA OneTransportStep ==
  ASSUME TypeOK, Known, OneTransport, [Next]_vars
  PROVE  OneTransport'
  <1> USE OutcomeFacts, ClearedFacts, NoneIsNoSource DEF OneTransport, TypeOK
  <1>1. CASE ServeStatus
    BY <1>1 DEF ServeStatus, shownVars
  <1>2. CASE ServeUnavailable
    BY <1>2 DEF ServeUnavailable, shownVars
  <1>3. ASSUME NEW l \in Loops, AnswerPoll(l)
        PROVE  OneTransport'
    BY <1>3 DEF AnswerPoll, shownVars
  <1>4. CASE RunExecution
    BY <1>4 DEF RunExecution, transportVars
  <1>5. CASE SubmitRejected
    BY <1>5 DEF SubmitRejected, transportVars
  <1>6. ASSUME NEW e \in Executions, SubmitAccepted(e)
        PROVE  OneTransport'
    BY <1>6 DEF SubmitAccepted, BeginWatch, StopPolling, ExecutionStatuses
  <1>7. ASSUME NEW e \in Executions, WatchExecution(e)
        PROVE  OneTransport'
    BY <1>7 DEF WatchExecution, BeginWatch, StopPolling, ExecutionStatuses
  <1>8. CASE StopWatching
    BY <1>8 DEF StopWatching, StopWatcher, StopPolling
  <1>9. CASE Reload
    BY <1>9 DEF Reload, Mounted
  <1>10. CASE StreamOpens
    BY <1>10 DEF StreamOpens
  <1>11. CASE StreamEvent
    BY <1>11 DEF StreamEvent, Show, StopWatcher, StopPolling
  <1>12. ASSUME NEW l \in Loops, StreamBreaks(l)
        PROVE  OneTransport'
    BY <1>12, FallBackFacts DEF StreamBreaks
  <1>13. ASSUME NEW l \in Loops, StreamEnds(l)
        PROVE  OneTransport'
    BY <1>13, FallBackFacts DEF StreamEnds
  <1>14. ASSUME NEW l \in Loops, PollAnswered(l)
        PROVE  OneTransport'
    <2>1. CASE IsTerminal(loop[l].answer)
      BY <1>14, <2>1 DEF PollAnswered, StopPolling
    <2>2. CASE ~IsTerminal(loop[l].answer)
      BY <1>14, <2>2 DEF PollAnswered, Show, Continue, Off
    <2> QED
      BY <2>1, <2>2
  <1>15. ASSUME NEW l \in Loops, PollFails(l)
        PROVE  OneTransport'
    BY <1>15 DEF PollFails, Continue, Off
  <1>16. ASSUME NEW l \in Loops, TimerFires(l)
        PROVE  OneTransport'
    BY <1>16 DEF TimerFires, Off, shownVars
  <1>17. CASE UNCHANGED <<source, pollingEnabled, status, pollTimer, loop>>
    BY <1>17
  <1> QED
    BY <1>1, <1>2, <1>3, <1>4, <1>5, <1>6, <1>7, <1>8, <1>9, <1>10, <1>11,
       <1>12, <1>13, <1>14, <1>15, <1>16, <1>17
    DEF Next, User, Server, Stream, Polling, Store, Expire, ClearHistory, vars,
        serverVars, transportVars, shownVars, countVars

\* Whoever changes the transport sets the indicator with it.
LEMMA IndicatorStep ==
  ASSUME TypeOK, OneTransport, IndicatorTruthful, [Next]_vars
  PROVE  IndicatorTruthful'
  <1> USE NoneIsNoSource DEF IndicatorTruthful, TypeOK
  <1>1. CASE ServeStatus
    <2>1. /\ source \in Source
          /\ Lookup(source.id) \in ExecutionStatuses
          /\ IsTerminal(Lookup(source.id)) \in BOOLEAN
      BY <1>1, LookupFacts DEF ServeStatus, Source, ExecutionStatuses, IsTerminal
    <2>2. source' = [id |-> source.id, open |-> source.open,
                     ended |-> IsTerminal(Lookup(source.id)),
                     event |-> Lookup(source.id)]
      BY <1>1, <2>1 DEF ServeStatus, Source
    <2>3. source' \in Source /\ source'.open = source.open
      BY <2>1, <2>2 DEF Source
    <2> QED
      BY <1>1, <2>3 DEF ServeStatus, shownVars
  <1>2. CASE ServeUnavailable
    <2>1. source \in Source
      BY <1>2 DEF ServeUnavailable
    <2>2. source' \in Source /\ source'.open = source.open
      BY <1>2, <2>1 DEF ServeUnavailable, Source, ExecutionStatuses
    <2> QED
      BY <1>2, <2>2 DEF ServeUnavailable, shownVars
  <1>3. CASE RunExecution
    BY <1>3, RunnerAssumption DEF RunExecution
  <1>4. CASE SubmitRejected
    BY <1>4 DEF SubmitRejected
  <1>5. ASSUME NEW e \in Executions, SubmitAccepted(e)
        PROVE  IndicatorTruthful'
    <2>1. source' \in Source /\ ~source'.open
      BY <1>5 DEF SubmitAccepted, BeginWatch, Source, ExecutionStatuses
    <2> QED
      BY <1>5, <2>1 DEF SubmitAccepted, BeginWatch
  <1>6. ASSUME NEW e \in Executions, WatchExecution(e)
        PROVE  IndicatorTruthful'
    <2>1. source' \in Source /\ ~source'.open
      BY <1>6 DEF WatchExecution, BeginWatch, Source, ExecutionStatuses
    <2> QED
      BY <1>6, <2>1 DEF WatchExecution, BeginWatch
  <1>7. CASE StopWatching
    BY <1>7 DEF StopWatching, StopWatcher, StopPolling
  <1>8. CASE Reload
    BY <1>8 DEF Reload, Mounted
  <1>9. CASE StreamOpens
    BY <1>9 DEF StreamOpens, Source
  <1>10. CASE StreamEvent
    <2>1. CASE IsTerminal(source.event)
      BY <1>10, <2>1 DEF StreamEvent, StopWatcher, StopPolling
    <2>2. CASE ~IsTerminal(source.event)
      BY <1>10, <2>2 DEF StreamEvent, Source
    <2> QED
      BY <2>1, <2>2
  <1>11. ASSUME NEW l \in Loops, StreamBreaks(l)
        PROVE  IndicatorTruthful'
    BY <1>11, FallBackFacts DEF StreamBreaks
  <1>12. ASSUME NEW l \in Loops, StreamEnds(l)
        PROVE  IndicatorTruthful'
    BY <1>12, FallBackFacts DEF StreamEnds
  <1>13. ASSUME NEW l \in Loops, PollAnswered(l)
        PROVE  IndicatorTruthful'
    BY <1>13 DEF PollAnswered, StopPolling
  <1>14. ASSUME NEW l \in Loops, PollFails(l)
        PROVE  IndicatorTruthful'
    BY <1>14 DEF PollFails
  <1>15. CASE UNCHANGED <<source, pollingEnabled, streamState, submits>>
    BY <1>15
  <1> QED
    BY <1>1, <1>2, <1>3, <1>4, <1>5, <1>6, <1>7, <1>8, <1>9, <1>10, <1>11,
       <1>12, <1>13, <1>14, <1>15
    DEF Next, User, Server, Stream, Polling, Store, Expire, AnswerPoll,
        ClearHistory, TimerFires, vars,
        serverVars, transportVars, shownVars, countVars

\* The inductive invariant.
RunnerInv == TypeOK /\ Known /\ Reported /\ OneTransport /\ IndicatorTruthful

\* A hook that has just mounted satisfies it.
LEMMA RunnerInit == Init => RunnerInv
  <1> SUFFICES ASSUME Init
               PROVE  RunnerInv
    OBVIOUS
  <1> USE OutcomeFacts DEF Init, Mounted, Off
  <1>1. Counted
    BY RunnerAssumption DEF Counted
  <1>2. ServerTyped /\ TransportTyped /\ ShownTyped
    BY DEF ServerTyped, TransportTyped, ShownTyped, LoopState, StreamStates
  <1>3. TypeOK
    BY <1>1, <1>2, TypeOKParts
  <1>4. Known /\ Reported
    BY DEF Known, Reported, HistoryTruthful
  <1>5. OneTransport /\ IndicatorTruthful
    BY DEF OneTransport, IndicatorTruthful, ExecutionStatuses
  <1> QED
    BY <1>3, <1>4, <1>5 DEF RunnerInv

\* Every step keeps it.
LEMMA RunnerStep == RunnerInv /\ [Next]_vars => RunnerInv'
  BY TypeOKStep, KnownStep, ReportedStep, OneTransportStep, IndicatorStep DEF RunnerInv

\* Whatever the user, the server and the network do, the hook's refs, loops and
\* indicator stay consistent, and every outcome on its way was once stored.
THEOREM RunnerInvariance == Spec => []RunnerInv
  BY RunnerInit, RunnerStep, PTL DEF Spec

\* The variables of the hook keep their types.
THEOREM RunnerTypeCorrect == Spec => []TypeOK
  <1>1. RunnerInv => TypeOK
    BY DEF RunnerInv
  <1> QED
    BY <1>1, RunnerInvariance, PTL

\* However many poll loops answer late, the page never streams and polls at
\* once, and does neither once a final status is shown (the hook's lines
\* 184-186, 205-213, 246-255).
THEOREM OnlyOneTransport == Spec => []OneTransport
  <1>1. RunnerInv => OneTransport
    BY DEF RunnerInv
  <1> QED
    BY <1>1, RunnerInvariance, PTL

\* "stopped", "connecting" and "streaming" are true whenever they are shown.
THEOREM IndicatorTellsTheTruth == Spec => []IndicatorTruthful
  <1>1. RunnerInv => IndicatorTruthful
    BY DEF RunnerInv
  <1> QED
    BY <1>1, RunnerInvariance, PTL

\* No outcome is listed that its execution did not have.
THEOREM HistoryTellsTheTruth == Spec => []HistoryTruthful
  <1>1. RunnerInv => HistoryTruthful
    BY DEF RunnerInv, Reported
  <1> QED
    BY <1>1, RunnerInvariance, PTL

-----------------------------------------------------------------------------
(* Who is attended                                                         *)

\* Attention lost by one step, with nothing to blame for it.
Neglected(e) ==
  /\ tracking' = e
  /\ ~Attended(e)'
  /\ tracking = e => Attended(e)
  /\ \A l \in Loops :
       ~(PollAnswered(l) /\ loop[l].id # e /\ IsTerminal(loop[l].answer))

\* A stream that is given up leaves a poll loop about its execution.
LEMMA FallBackAttends ==
  ASSUME TypeOK, OneTransport, NEW l \in Loops, source # None, FallBack(l),
         NEW e \in Executions, Attended(e)
  PROVE  Attended(e)'
  <1>1. ~IsTerminal(status) /\ source.id = e
    BY DEF OneTransport, Attended
  <1>2. loop' = [TimerCleared EXCEPT ![l] =
                   [at |-> "asked", id |-> source.id, answer |-> "none"]]
    BY <1>1 DEF FallBack, Off
  <1>3. loop'[l].at = "asked" /\ loop'[l].id = e
    BY <1>1, <1>2, ClearedFacts
  <1>4. pollingEnabled'
    BY <1>1, FallBackFacts
  <1> QED
    BY <1>3, <1>4 DEF Attended

\* A poll loop that goes on is still about its execution.
LEMMA ContinueAttends ==
  ASSUME TypeOK, NEW l \in Loops, NEW s, ~IsTerminal(s), loop[l].at # "off",
         Continue(l, s), UNCHANGED <<source, pollingEnabled>>,
         NEW e \in Executions, Attended(e)
  PROVE  Attended(e)'
  <1>1. CASE ~pollingEnabled
    BY <1>1 DEF Attended
  <1>2. CASE pollingEnabled
    <2>1. loop' = [loop EXCEPT ![l].at = "timer", ![l].answer = "none"]
      BY <1>2 DEF Continue
    <2>2. \A k \in Loops :
            loop'[k].id = loop[k].id /\ (loop[k].at # "off" => loop'[k].at # "off")
      BY <2>1 DEF TypeOK, LoopState
    <2> QED
      BY <1>2, <2>2 DEF Attended
  <1> QED
    BY <1>1, <1>2

\* No step neglects the execution that is tracked.
LEMMA NobodyNeglected ==
  ASSUME TypeOK, OneTransport, [Next]_vars, NEW e \in Executions, Neglected(e)
  PROVE  FALSE
  <1> USE NoneIsNoSource, RunnerAssumption DEF Neglected
  <1>1. CASE UNCHANGED <<source, pollingEnabled, loop, tracking>>
    BY <1>1 DEF Attended
  <1>2. CASE ServeStatus
    <2>1. source' # None /\ source'.id = source.id
      <3>1. /\ source \in Source
            /\ Lookup(source.id) \in ExecutionStatuses
            /\ IsTerminal(Lookup(source.id)) \in BOOLEAN
        BY <1>2, LookupFacts DEF ServeStatus, TypeOK, Source, ExecutionStatuses, IsTerminal
      <3>2. source' = [id |-> source.id, open |-> source.open,
                       ended |-> IsTerminal(Lookup(source.id)),
                       event |-> Lookup(source.id)]
        BY <1>2, <3>1 DEF ServeStatus, Source
      <3> QED
        BY <3>1, <3>2 DEF Source
    <2> QED
      BY <1>2, <2>1 DEF ServeStatus, Attended
  <1>3. CASE ServeUnavailable
    <2>1. source \in Source
      BY <1>3 DEF ServeUnavailable, TypeOK
    <2>2. source' \in Source /\ source'.id = source.id
      BY <1>3, <2>1 DEF ServeUnavailable, Source, ExecutionStatuses
    <2> QED
      BY <1>3, <2>2 DEF ServeUnavailable, Attended
  <1>4. ASSUME NEW l \in Loops, AnswerPoll(l)
        PROVE  FALSE
    <2>1. \A k \in Loops :
            loop'[k].id = loop[k].id /\ (loop[k].at # "off" => loop'[k].at # "off")
      BY <1>4 DEF AnswerPoll, TypeOK, LoopState
    <2> QED
      BY <1>4, <2>1 DEF AnswerPoll, Attended
  <1>5. ASSUME NEW f \in Executions, BeginWatch(f)
        PROVE  FALSE
    <2>1. source' \in Source /\ source'.id = f
      BY <1>5 DEF BeginWatch, Source, ExecutionStatuses
    <2> QED
      BY <1>5, <2>1 DEF BeginWatch, Attended
  <1>6. CASE StopWatching \/ Reload
    BY <1>6 DEF StopWatching, Reload
  <1>7. CASE StreamOpens
    <2>1. Attended(e) => Attended(e)'
      BY <1>7 DEF StreamOpens, Attended, TypeOK, Source
    <2> QED
      BY <1>7, <2>1 DEF StreamOpens
  <1>8. CASE StreamEvent
    <2>1. CASE IsTerminal(source.event)
      <3>1. tracking' = e => tracking = e /\ e # source.id
        BY <1>8, <2>1 DEF StreamEvent, Show
      <3>2. ~pollingEnabled /\ source # None
        BY <1>8 DEF StreamEvent, OneTransport
      <3> QED
        BY <3>1, <3>2 DEF Attended
    <2>2. CASE ~IsTerminal(source.event)
      <3>1. source' # None /\ source'.id = source.id
        BY <1>8, <2>2 DEF StreamEvent, TypeOK, Source
      <3> QED
        BY <1>8, <2>2, <3>1 DEF StreamEvent, Show, Attended
    <2> QED
      BY <2>1, <2>2
  <1>9. ASSUME NEW l \in Loops, StreamBreaks(l) \/ StreamEnds(l)
        PROVE  FALSE
    <2>1. source # None /\ FallBack(l) /\ tracking' = tracking
      BY <1>9 DEF StreamBreaks, StreamEnds, FallBack
    <2> QED
      BY <2>1, FallBackAttends
  <1>10. ASSUME NEW l \in Loops, PollAnswered(l)
         PROVE  FALSE
    <2>1. CASE IsTerminal(loop[l].answer)
      BY <1>10, <2>1 DEF PollAnswered, Show
    <2>2. CASE ~IsTerminal(loop[l].answer)
      <3>1. /\ Continue(l, loop[l].answer) /\ loop[l].at # "off"
            /\ UNCHANGED <<source, pollingEnabled, tracking>>
        BY <1>10, <2>2 DEF PollAnswered, Show
      <3> QED
        BY <2>2, <3>1, ContinueAttends
    <2> QED
      BY <2>1, <2>2
  <1>11. ASSUME NEW l \in Loops, PollFails(l)
         PROVE  FALSE
    <2>1. /\ Continue(l, status) /\ loop[l].at # "off"
          /\ UNCHANGED <<source, pollingEnabled, tracking>>
      BY <1>11 DEF PollFails, FetchFails
    <2>2. CASE IsTerminal(status)
      BY <2>1, <2>2 DEF OneTransport, Attended
    <2>3. CASE ~IsTerminal(status)
      BY <2>1, <2>3, ContinueAttends
    <2> QED
      BY <2>2, <2>3
  <1>12. ASSUME NEW l \in Loops, TimerFires(l)
         PROVE  FALSE
    <2>1. UNCHANGED <<source, pollingEnabled, tracking>>
      BY <1>12 DEF TimerFires
    <2>2. pollingEnabled =>
            \A k \in Loops :
              loop'[k].id = loop[k].id /\ (loop[k].at # "off" => loop'[k].at # "off")
      BY <1>12 DEF TimerFires, TypeOK, LoopState
    <2> QED
      BY <2>1, <2>2 DEF Attended
  <1> QED
    BY <1>1, <1>2, <1>3, <1>4, <1>5, <1>6, <1>7, <1>8, <1>9, <1>10, <1>11, <1>12
    DEF Next, User, Server, Stream, Polling, Store, Expire, RunExecution,
        SubmitRejected, SubmitAccepted, WatchExecution, ClearHistory, vars,
        transportVars

\* Whatever the network does, the execution the user waits for keeps a stream
\* or a poll loop, unless a late final answer about another one takes it away
\* (the hook's lines 184-186, 189-226 and 246-255).
THEOREM OnlyLateAnswersNeglect == Spec => StaysAttended
  <1>1. ASSUME RunnerInv, [Next]_vars
        PROVE  [\A e \in Executions :
                  tracking' = e /\ ~Attended(e)' =>
                    \/ tracking = e /\ ~Attended(e)
                    \/ \E l \in Loops :
                         PollAnswered(l) /\ loop[l].id # e /\ IsTerminal(loop[l].answer)]_vars
    BY <1>1, NobodyNeglected DEF RunnerInv, Neglected
  <1>2. RunnerInv /\ [Next]_vars =>
          [\A e \in Executions :
             tracking' = e /\ ~Attended(e)' =>
               \/ tracking = e /\ ~Attended(e)
               \/ \E l \in Loops :
                    PollAnswered(l) /\ loop[l].id # e /\ IsTerminal(loop[l].answer)]_vars
    BY <1>1
  <1> QED
    BY <1>2, RunnerInvariance, PTL DEF Spec, StaysAttended

=============================================================================
