--------------------------- MODULE ExecutionRunner ---------------------------
(***************************************************************************)
(* The web client's useExecutionRunner hook: it submits programs, follows  *)
(* one execution over a server-sent-event stream and falls back to polling *)
(* when the stream breaks.                                                 *)
(*                                                                         *)
(* Handlers run one at a time, but a status request answers whenever the   *)
(* network lets it, to a hook whose refs may meanwhile belong to another   *)
(* execution.  A poll loop is one chain of requests and timers started by  *)
(* startPollingFallback; nothing cancels a chain whose request is out.     *)
(*                                                                         *)
(* The polling server is modelled by its answers: the status of a record   *)
(* at the time it is read, or no service.                                  *)
(***************************************************************************)
EXTENDS Naturals, FiniteSets

CONSTANTS
  Executions,   \* execution ids
  Outcomes,     \* the terminal statuses in use
  Loops,        \* bound: poll loops alive at once
  MaxWatches,   \* bound: executions begun to be watched
  MaxSubmits,   \* bound: submit requests in flight at once
  MaxFailures,  \* bound: dropped streams, failed requests, expired records
  None

TerminalStatuses == {"completed", "failed", "timeout"}

ASSUME RunnerAssumption ==
  /\ Outcomes \subseteq TerminalStatuses
  /\ MaxWatches \in Nat
  /\ MaxSubmits \in Nat
  /\ MaxFailures \in Nat
  /\ None \notin Executions \cup Loops

ExecutionStatuses == Outcomes \cup {"queued", "backend_unavailable"}

VARIABLES
  issued,          \* ids the API has given out, to this page or to others
  stored,          \* the record of each execution in Redis
  answers,         \* history: the outcomes a record ever had
  source,          \* eventSourceRef, with the stream behind it
  pollingEnabled,  \* pollingEnabledRef
  pollTimer,       \* pollTimerRef: the loop whose timer it can clear
  loop,            \* the poll loops
  status,          \* latestStatusRef and the status shown
  streamState,     \* the transport indicator shown
  active,          \* activeExecutionIDRef
  history,         \* status of each execution in the stored run history
  submits,         \* submitExecution requests in flight
  tracking,        \* history: the execution the user is waiting for
  watches,         \* history: executions begun to be watched
  failures         \* history: failures of the network and of Redis

serverVars == <<issued, stored, answers>>
transportVars == <<source, pollingEnabled, pollTimer, loop>>
shownVars == <<status, streamState, active, history>>
countVars == <<watches, failures>>
vars == <<serverVars, transportVars, shownVars, submits, tracking, countVars>>

\* `event' is the status the server has sent and the page has not handled.
Source == [id : Executions, open : BOOLEAN, ended : BOOLEAN,
           event : ExecutionStatuses \cup {"none"}]

ASSUME NoneIsNoSource == None \notin Source

\* asked: the request is out; answered: its answer is on the way back;
\* timer: window.setTimeout is set.
Off == [at |-> "off", id |-> None, answer |-> "none"]

LoopState == [at : {"off", "asked", "answered", "timer"},
              id : Executions \cup {None},
              answer : Outcomes \cup {"queued", "none"}]

StreamStates == {"stopped", "connecting", "streaming", "polling", "disconnected"}

TypeOK ==
  /\ issued \subseteq Executions
  /\ stored \in [Executions -> Outcomes \cup {"none"}]
  /\ answers \in [Executions -> SUBSET Outcomes]
  /\ source \in Source \cup {None}
  /\ pollingEnabled \in BOOLEAN
  /\ pollTimer \in Loops \cup {None}
  /\ loop \in [Loops -> LoopState]
  /\ status \in ExecutionStatuses \cup {"idle", "submitting"}
  /\ streamState \in StreamStates
  /\ active \in Executions \cup {None}
  /\ history \in [Executions -> ExecutionStatuses \cup {"none"}]
  /\ submits \in 0..MaxSubmits
  /\ tracking \in Executions \cup {None}
  /\ watches \in 0..MaxWatches
  /\ failures \in 0..MaxFailures

\* The hook as it mounts, and as the page is loaded again.
Mounted ==
  [source |-> None, pollingEnabled |-> FALSE, pollTimer |-> None,
   loop |-> [l \in Loops |-> Off], status |-> "idle", streamState |-> "stopped",
   active |-> None]

Init ==
  /\ issued \in SUBSET Executions
  /\ stored = [e \in Executions |-> "none"]
  /\ answers = [e \in Executions |-> {}]
  /\ source = Mounted.source
  /\ pollingEnabled = Mounted.pollingEnabled
  /\ pollTimer = Mounted.pollTimer
  /\ loop = Mounted.loop
  /\ status = Mounted.status
  /\ streamState = Mounted.streamState
  /\ active = Mounted.active
  /\ history = [e \in Executions |-> "none"]
  /\ submits = 0
  /\ tracking = None
  /\ watches = 0
  /\ failures = 0

IsTerminal(s) == s \in TerminalStatuses

-----------------------------------------------------------------------------
(* The server side                                                         *)

\* A sandbox stores a result; a redelivered job may store another.
Store(e, s) ==
  /\ e \in issued
  /\ stored[e] # s
  /\ s \notin answers[e]
  /\ stored' = [stored EXCEPT ![e] = s]
  /\ answers' = [answers EXCEPT ![e] = @ \cup {s}]
  /\ UNCHANGED <<issued, transportVars, shownVars, submits, tracking, countVars>>

Fail == failures < MaxFailures /\ failures' = failures + 1

Expire(e) ==
  /\ stored[e] # "none"
  /\ Fail
  /\ stored' = [stored EXCEPT ![e] = "none"]
  /\ UNCHANGED <<issued, answers, transportVars, shownVars, submits, tracking,
                 watches>>

\* Mutant: a missing record is reported as it is.
LookupRaw(e) == stored[e]

\* lookupExecutionStatus: an execution without a record counts as queued.
Lookup(e) == IF stored[e] = "none" THEN "queued" ELSE stored[e]

\* An iteration of the stream's loop that finds Redis answering.  A terminal
\* status is the last event.
ServeStatus ==
  /\ source # None
  /\ ~source.ended
  /\ source.event = "none"
  /\ source' = [source EXCEPT !.event = Lookup(source.id),
                              !.ended = IsTerminal(Lookup(source.id))]
  /\ UNCHANGED <<serverVars, pollingEnabled, pollTimer, loop, shownVars,
                 submits, tracking, countVars>>

\* One that does not: the stream ends after saying so.
ServeUnavailable ==
  /\ source # None
  /\ ~source.ended
  /\ source.event = "none"
  /\ Fail
  /\ source' = [source EXCEPT !.event = "backend_unavailable", !.ended = TRUE]
  /\ UNCHANGED <<serverVars, pollingEnabled, pollTimer, loop, shownVars,
                 submits, tracking, watches>>

\* GET /consumer is answered.
AnswerPoll(l) ==
  /\ loop[l].at = "asked"
  /\ loop' = [loop EXCEPT ![l] = [at |-> "answered", id |-> @.id,
                                  answer |-> Lookup(@.id)]]
  /\ UNCHANGED <<serverVars, source, pollingEnabled, pollTimer, shownVars,
                 submits, tracking, countVars>>

-----------------------------------------------------------------------------
(* Shared pieces of the handlers                                           *)

\* clearTimeout on pollTimerRef.
TimerCleared ==
  [l \in Loops |->
     IF l = pollTimer /\ loop[l].at = "timer" THEN Off ELSE loop[l]]

\* stopPolling, with what the handler then makes of the loops.
StopPolling(loops) ==
  /\ pollingEnabled' = FALSE
  /\ pollTimer' = None
  /\ loop' = loops

\* Mutant: the stream is left open.
StopWatcherNotStream(state) ==
  /\ StopPolling(TimerCleared)
  /\ source' = source
  /\ streamState' = state

StopWatcher(state) ==
  /\ StopPolling(TimerCleared)
  /\ source' = None
  /\ streamState' = state

\* Mutant: a status is filed under the execution watched by now.
ShowActive(e, s) ==
  /\ status' = s
  /\ history' = [history EXCEPT ![active] = s]
  /\ tracking' = IF tracking = e /\ IsTerminal(s) THEN None ELSE tracking

\* The part of applyStatusPayload about what is shown and kept.
Show(e, s) ==
  /\ status' = s
  /\ history' = [history EXCEPT ![e] = s]
  /\ tracking' = IF tracking = e /\ IsTerminal(s) THEN None ELSE tracking

\* beginExecutionWatch and startStreaming.
BeginWatch(e) ==
  /\ watches < MaxWatches
  /\ watches' = watches + 1
  /\ active' = e
  /\ status' = "queued"
  /\ history' = [history EXCEPT ![e] = "queued"]
  /\ StopPolling(TimerCleared)
  /\ source' = [id |-> e, open |-> FALSE, ended |-> FALSE, event |-> "none"]
  /\ streamState' = "connecting"
  /\ tracking' = e

-----------------------------------------------------------------------------
(* The user                                                                *)

\* runExecution up to its await.  The Run button is disabled while a submit
\* is in flight, the editor's keyboard command is not.  The previous watcher
\* is left running.
RunExecution ==
  /\ submits < MaxSubmits
  /\ submits' = submits + 1
  /\ status' = "submitting"
  /\ streamState' = "connecting"
  /\ UNCHANGED <<serverVars, transportVars, active, history, tracking, countVars>>

\* The execution is accepted, under an id of its own.
SubmitAccepted(e) ==
  /\ submits > 0
  /\ submits' = submits - 1
  /\ e \notin issued
  /\ issued' = issued \cup {e}
  /\ BeginWatch(e)
  /\ UNCHANGED <<stored, answers, failures>>

SubmitRejected ==
  /\ submits > 0
  /\ submits' = submits - 1
  /\ status' = "idle"
  /\ streamState' = "disconnected"
  /\ UNCHANGED <<serverVars, transportVars, active, history, tracking, countVars>>

\* watchExecutionByID, from the history or with an id typed in.
WatchExecution(e) ==
  /\ e \in issued
  /\ BeginWatch(e)
  /\ UNCHANGED <<serverVars, submits, failures>>

StopWatching ==
  /\ StopWatcher("stopped")
  /\ tracking' = None
  /\ UNCHANGED <<serverVars, status, active, history, submits, countVars>>

ClearHistory ==
  /\ history' = [e \in Executions |-> "none"]
  /\ UNCHANGED <<serverVars, transportVars, status, streamState, active,
                 submits, tracking, countVars>>

\* The page is loaded again; only the history survives.
Reload ==
  /\ active # None
  /\ source' = Mounted.source
  /\ pollingEnabled' = Mounted.pollingEnabled
  /\ pollTimer' = Mounted.pollTimer
  /\ loop' = Mounted.loop
  /\ status' = Mounted.status
  /\ streamState' = Mounted.streamState
  /\ active' = Mounted.active
  /\ submits' = 0
  /\ tracking' = None
  /\ UNCHANGED <<serverVars, history, countVars>>

-----------------------------------------------------------------------------
(* The stream                                                              *)

\* onopen: the response headers come with the first event.
StreamOpens ==
  /\ source # None
  /\ ~source.open
  /\ source.event # "none"
  /\ source' = [source EXCEPT !.open = TRUE]
  /\ streamState' = "streaming"
  /\ UNCHANGED <<serverVars, pollingEnabled, pollTimer, loop, status, active,
                 history, submits, tracking, countVars>>

\* The status listener: applyStatusPayload.
StreamEvent ==
  /\ source # None
  /\ source.open
  /\ source.event # "none"
  /\ Show(source.id, source.event)
  /\ IF IsTerminal(source.event)
     THEN StopWatcher("stopped")
     ELSE /\ source' = [source EXCEPT !.event = "none"]
          /\ UNCHANGED <<pollingEnabled, pollTimer, loop, streamState>>
  /\ UNCHANGED <<serverVars, active, submits, countVars>>

\* Mutant: the browser's own reconnection is left running beside the polling.
FallBackBeside(l) ==
  LET give_up == IsTerminal(status)
  IN  /\ TimerCleared[l] = Off
      /\ source' = [source EXCEPT !.open = FALSE, !.ended = FALSE, !.event = "none"]
      /\ pollingEnabled' = ~give_up
      /\ IF give_up
         THEN UNCHANGED <<pollTimer, loop>>
         ELSE /\ pollTimer' = None
              /\ loop' = [TimerCleared EXCEPT ![l] =
                            [Off EXCEPT !.at = "asked", !.id = source.id]]
      /\ streamState' = IF give_up THEN "stopped" ELSE "polling"
      /\ UNCHANGED <<serverVars, status, active, history, submits, tracking,
                     watches>>

\* Mutant: the stream is given up and nothing takes its place.
FallBackToNothing(l) ==
  /\ source' = None
  /\ streamState' = "disconnected"
  /\ UNCHANGED <<serverVars, pollingEnabled, pollTimer, loop, status, active,
                 history, submits, tracking, watches>>

\* onerror: the stream is given up, and unless a terminal status is shown a
\* new poll loop sends its first request.
FallBack(l) ==
  LET give_up == IsTerminal(status)
  IN  /\ TimerCleared[l] = Off
      /\ source' = None
      /\ pollingEnabled' = ~give_up
      /\ IF give_up
         THEN UNCHANGED <<pollTimer, loop>>
         ELSE /\ pollTimer' = None
              /\ loop' = [TimerCleared EXCEPT ![l] =
                            [Off EXCEPT !.at = "asked", !.id = source.id]]
      /\ streamState' = IF give_up THEN "stopped" ELSE "polling"
      /\ UNCHANGED <<serverVars, status, active, history, submits, tracking,
                     watches>>

\* The connection breaks, and an event on its way is lost.
StreamBreaks(l) ==
  /\ source # None
  /\ Fail
  /\ FallBack(l)

\* The server has ended the stream and the page has handled every event.
StreamEnds(l) ==
  /\ source # None
  /\ source.ended
  /\ source.event = "none"
  /\ FallBack(l)
  /\ UNCHANGED failures

-----------------------------------------------------------------------------
(* Polling                                                                 *)

\* What pollStatus does after its try block: the loop ends, or sets its timer
\* and takes over pollTimerRef.
Continue(l, shown) ==
  IF ~pollingEnabled \/ IsTerminal(shown)
  THEN /\ loop' = [loop EXCEPT ![l] = Off]
       /\ UNCHANGED pollTimer
  ELSE /\ loop' = [loop EXCEPT ![l].at = "timer", ![l].answer = "none"]
       /\ pollTimer' = l

\* Mutant: a final answer closes the stream only, and its loop goes on.
PollAnsweredOn(l) ==
  LET s == loop[l].answer
  IN  /\ loop[l].at = "answered"
      /\ Show(loop[l].id, s)
      /\ source' = IF IsTerminal(s) THEN None ELSE source
      /\ streamState' = "polling"
      /\ Continue(l, "queued")
      /\ UNCHANGED <<serverVars, pollingEnabled, active, submits, countVars>>

\* A status arrives and is applied, whichever execution is watched by now.  A
\* terminal one stops whatever watcher there is.
PollAnswered(l) ==
  LET s == loop[l].answer
  IN  /\ loop[l].at = "answered"
      /\ Show(loop[l].id, s)
      /\ IF IsTerminal(s)
         THEN /\ StopPolling([TimerCleared EXCEPT ![l] = Off])
              /\ source' = None
              /\ streamState' = "stopped"
         ELSE /\ streamState' = "polling"
              /\ Continue(l, s)
              /\ UNCHANGED <<source, pollingEnabled>>
      /\ UNCHANGED <<serverVars, active, submits, countVars>>

\* fetchExecutionStatus throws: the network fails, or the answer is a 503.
FetchFails(l) ==
  /\ loop[l].at \in {"asked", "answered"}
  /\ Fail

\* Mutant: a failed request ends the loop.
PollFailsForGood(l) ==
  /\ loop[l].at \in {"asked", "answered"}
  /\ Fail
  /\ streamState' = "disconnected"
  /\ loop' = [loop EXCEPT ![l] = Off]
  /\ UNCHANGED <<serverVars, source, pollingEnabled, pollTimer, status, active,
                 history, submits, tracking, watches>>

\* pollStatus catches what fetchExecutionStatus throws.
PollFails(l) ==
  /\ FetchFails(l)
  /\ streamState' = "disconnected"
  /\ Continue(l, status)
  /\ UNCHANGED <<serverVars, source, pollingEnabled, status, active, history,
                 submits, tracking, watches>>

\* Mutant: setInterval for setTimeout, so that a timer outlives its call.
TimerRepeats(l) ==
  /\ loop[l].at = "timer"
  /\ loop' = [loop EXCEPT ![l].at = IF pollingEnabled THEN "asked" ELSE "timer"]
  /\ UNCHANGED <<serverVars, source, pollingEnabled, pollTimer, shownVars,
                 submits, tracking, countVars>>

\* The timer calls pollStatus, which asks again if polling is still enabled.
TimerFires(l) ==
  /\ loop[l].at = "timer"
  /\ loop' = [loop EXCEPT ![l] =
                IF pollingEnabled THEN [@ EXCEPT !.at = "asked"] ELSE Off]
  /\ UNCHANGED <<serverVars, source, pollingEnabled, pollTimer, shownVars,
                 submits, tracking, countVars>>

-----------------------------------------------------------------------------
User ==
  \/ RunExecution \/ SubmitRejected
  \/ \E e \in Executions : SubmitAccepted(e) \/ WatchExecution(e)
  \/ StopWatching \/ ClearHistory \/ Reload

Server ==
  \/ \E e \in Executions : Expire(e) \/ \E s \in Outcomes : Store(e, s)
  \/ ServeStatus \/ ServeUnavailable
  \/ \E l \in Loops : AnswerPoll(l)

Stream ==
  \/ StreamOpens \/ StreamEvent
  \/ \E l \in Loops : StreamBreaks(l) \/ StreamEnds(l)

Polling == \E l \in Loops : PollAnswered(l) \/ PollFails(l) \/ TimerFires(l)

Next == User \/ Server \/ Stream \/ Polling

Spec == Init /\ [][Next]_vars

\* The browser runs its handlers and the polling server answers.  The network
\* fails MaxFailures times at most.  Nothing is fair about the user, about
\* submits or about results being stored.
Fairness ==
  /\ WF_vars(ServeStatus)
  /\ WF_vars(StreamOpens \/ StreamEvent)
  /\ WF_vars(\E l \in Loops : StreamEnds(l))
  /\ \A l \in Loops : WF_vars(AnswerPoll(l) \/ PollAnswered(l) \/ TimerFires(l))

FairSpec == Spec /\ Fairness

-----------------------------------------------------------------------------
(* Properties                                                              *)

\* The page never listens to a stream and polls at once, and once a terminal
\* status is shown it does neither, however late answers and broken streams
\* interleave; a timer the ref can clear is armed only while polling.
OneTransport ==
  /\ ~(source # None /\ pollingEnabled)
  /\ IsTerminal(status) => source = None /\ ~pollingEnabled
  /\ pollTimer # None /\ loop[pollTimer].at = "timer" => pollingEnabled

\* The transport indicator tells the truth (utils/status.ts:131-150):
\* "stopped" means no subscription, "connecting" a submit or a stream not yet
\* open, "streaming" an open stream.
IndicatorTruthful ==
  /\ streamState = "stopped" => source = None /\ ~pollingEnabled
  /\ streamState = "connecting" =>
       submits > 0 \/ (source # None /\ ~source.open)
  /\ streamState = "streaming" => source # None /\ source.open

\* "polling" means polling (utils/status.ts:151-155).
PollingIsTruthful == streamState = "polling" => pollingEnabled

\* A late answer about one execution is never filed under another: an outcome
\* in the run history is one the execution really had.
HistoryTruthful ==
  \A e \in Executions : history[e] \in Outcomes => history[e] \in answers[e]

\* A stream or a poll loop is there to tell of an execution.
Attended(e) ==
  \/ source # None /\ source.id = e
  \/ pollingEnabled /\ \E l \in Loops : loop[l].at # "off" /\ loop[l].id = e

\* Between a stream and the polling that replaces it, through dropped
\* connections, failed requests and cleared timers, the execution the user
\* waits for stays attended.  One thing alone leaves it to nobody: a late final
\* answer about another execution, which stops whatever watcher there is.
StaysAttended ==
  [][\A e \in Executions :
       tracking' = e /\ ~Attended(e)' =>
         \/ tracking = e /\ ~Attended(e)
         \/ \E l \in Loops :
              PollAnswered(l) /\ loop[l].id # e /\ IsTerminal(loop[l].answer)]_vars

\* Following an execution whose record is there to stay comes to its end: its
\* outcome is shown, or the user turns to something else.
Followed ==
  \A e \in Executions :
    <>[](stored[e] # "none") => (tracking = e ~> tracking # e)

\* Poll loops that nobody wants any more run dry, even those whose timer the
\* page can no longer clear.
StrayLoopsEnd ==
  ~pollingEnabled ~> pollingEnabled \/ \A l \in Loops : loop[l] = Off

=============================================================================
