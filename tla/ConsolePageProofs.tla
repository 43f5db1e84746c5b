-------------------------- MODULE ConsolePageProofs --------------------------
(***************************************************************************)
(* Theorems about ConsolePage, for any executions, languages and programs, *)
(* and any number of poll loops, submits and failures.                     *)
(***************************************************************************)
EXTENDS ConsolePage, ExecutionRunnerProofs

-----------------------------------------------------------------------------
(* The page around the hook                                                *)

\* A step of the page is a step of the hook or none.
LEMMA PageStepIsHookStep == [PageNext]_allVars => [Next]_vars
  BY DEF PageNext, SelectLanguage, Edit, LoadStarterTemplate, ClearEditor, ClickRun,
         PressShortcut, Submit, Accepted, Rejected, WatchTyped, WatchListed, Watch,
         RefuseWatch, StopTracking, ClearRuns, ReloadPage, StreamConnects,
         StreamAnswers, PollAnswers, PollInterrupted, Unseen, Next, User, Stream,
         Polling, allVars

\* The page drives the hook as ExecutionRunner says it is driven.
THEOREM PageRunsHook == PageSpec => Spec
  <1>1. PageInit => Init
    BY DEF PageInit
  <1> QED
    BY <1>1, PageStepIsHookStep, PTL DEF PageSpec, Spec

\* What ExecutionRunnerProofs shows of the hook holds on the page.
LEMMA PageHasRunnerInv == PageSpec => []RunnerInv
  BY PageRunsHook, RunnerInvariance, PTL

\* The cases of a step of the page.
LEMMA PageCases ==
  ASSUME language \in Languages, code \in Codes, [PageNext]_allVars
  PROVE  \/ UNCHANGED allVars
         \/ \E l \in Languages : SelectLanguage(l)
         \/ \E c \in Codes : Edit(c)
         \/ \E p \in Programs : Submit(p)
         \/ \E p \in Programs : Rejected(p)
         \/ \E p \in Programs : \E e \in Executions : Accepted(p, e)
         \/ \E e \in Executions : Watch(e)
         \/ RefuseWatch \/ StopTracking \/ ClearRuns \/ ReloadPage
         \/ StreamConnects \/ StreamAnswers
         \/ \E l \in Loops : PollAnswers(l)
         \/ \E l \in Loops : PollInterrupted(l)
         \/ Unseen
  <1> USE PageAssumption DEF Codes
  <1>1. CASE LoadStarterTemplate \/ ClearEditor \/ \E c \in Typed : Edit(c)
    BY <1>1 DEF LoadStarterTemplate, ClearEditor
  <1>2. CASE ClickRun \/ PressShortcut
    BY <1>2 DEF ClickRun, PressShortcut, Programs
  <1>3. CASE \E e \in Executions : WatchTyped(e) \/ WatchListed(e)
    BY <1>3 DEF WatchTyped, WatchListed
  <1>4. CASE \E p \in Programs : Rejected(p) \/ \E e \in Executions : Accepted(p, e)
    BY <1>4
  <1>5. CASE \E l \in Loops : PollAnswers(l) \/ PollInterrupted(l)
    BY <1>5
  <1> QED
    BY <1>1, <1>2, <1>3, <1>4, <1>5 DEF PageNext

\* What the page does not see changes neither the page nor what the hook shows,
\* and takes no outcome back.
LEMMA UnseenFacts ==
  ASSUME TypeOK, Unseen
  PROVE  /\ UNCHANGED pageVars
         /\ UNCHANGED <<issued, status, history, submits, active, watches>>
         /\ \A e \in Executions : answers[e] \subseteq answers'[e]
  <1>1. CASE Server
    <2>1. /\ UNCHANGED <<issued, status, history, submits, active, watches>>
          /\ \A e \in Executions : answers[e] \subseteq answers'[e]
      BY <1>1 DEF TypeOK, Server, Expire, Store, ServeStatus, ServeUnavailable,
                  AnswerPoll, shownVars, serverVars, countVars
    <2> QED
      BY <2>1 DEF Unseen
  <1>2. CASE \E l \in Loops : StreamBreaks(l) \/ StreamEnds(l) \/ TimerFires(l)
    BY <1>2 DEF Unseen, StreamBreaks, StreamEnds, FallBack, TimerFires, shownVars,
                serverVars, countVars
  <1> QED
    BY <1>1, <1>2 DEF Unseen

-----------------------------------------------------------------------------
(* Types                                                                   *)

\* The executions about which an answer may still come.
Watched ==
  {e \in Executions : \/ source # None /\ source.id = e
                      \/ \E l \in Loops : loop[l].at # "off" /\ loop[l].id = e}

\* The stream and the loops ask about what they asked about, or about nothing.
Narrower ==
  /\ source' # None => source # None /\ source'.id = source.id
  /\ \A l \in Loops :
       loop'[l].at # "off" => loop[l].at # "off" /\ loop'[l].id = loop[l].id

\* Only a watch that begins and a stream that is given up do anything else.
LEMMA NarrowerSteps ==
  ASSUME TypeOK,
         \/ Server \/ StreamOpens \/ StreamEvent \/ StopWatching
         \/ \E l \in Loops : PollAnswered(l) \/ PollFails(l) \/ TimerFires(l)
  PROVE  Narrower
  <1>1. CASE UNCHANGED loop /\ (source # None => source' = None \/ source'.id = source.id)
                            /\ (source = None => source' = None)
    BY <1>1 DEF Narrower
  <1>2. CASE /\ source' \in {source, None}
             /\ \A k \in Loops : \/ loop'[k] \in {loop[k], Off}
                                 \/ loop'[k].id = loop[k].id /\ loop[k].at # "off"
    BY <1>2 DEF Narrower, Off
  <1>3. CASE ServeStatus \/ ServeUnavailable \/ StreamOpens
    BY <1>1, <1>3 DEF ServeStatus, ServeUnavailable, StreamOpens, TypeOK, Source
  <1>4. CASE \E e \in Executions : Expire(e) \/ \E s \in Outcomes : Store(e, s)
    BY <1>1, <1>4 DEF Expire, Store, transportVars
  <1>5. ASSUME NEW l \in Loops, AnswerPoll(l) \/ TimerFires(l)
        PROVE  Narrower
    BY <1>2, <1>5 DEF AnswerPoll, TimerFires, TypeOK, LoopState
  <1>6. CASE StreamEvent
    <2>1. CASE IsTerminal(source.event)
      BY <1>2, <1>6, <2>1, ClearedFacts DEF StreamEvent, StopWatcher, StopPolling
    <2>2. CASE ~IsTerminal(source.event)
      BY <1>1, <1>6, <2>2 DEF StreamEvent, TypeOK, Source
    <2> QED
      BY <2>1, <2>2
  <1>7. CASE StopWatching
    BY <1>2, <1>7, ClearedFacts DEF StopWatching, StopWatcher, StopPolling
  <1>8. ASSUME NEW l \in Loops, NEW shown, loop[l].at # "off", Continue(l, shown),
               UNCHANGED source
        PROVE  Narrower
    <2>1. \A k \in Loops : \/ loop'[k] \in {loop[k], Off}
                           \/ loop'[k].id = loop[k].id /\ loop[k].at # "off"
      BY <1>8 DEF Continue, TypeOK, LoopState
    <2> QED
      BY <1>2, <1>8, <2>1
  <1>9. ASSUME NEW l \in Loops, PollAnswered(l)
        PROVE  Narrower
    <2>1. CASE IsTerminal(loop[l].answer)
      <3>1. source' = None /\ loop' = [TimerCleared EXCEPT ![l] = Off]
        BY <1>9, <2>1 DEF PollAnswered, StopPolling
      <3>2. \A k \in Loops : loop'[k] \in {loop[k], Off}
        BY <3>1, ClearedFacts
      <3> QED
        BY <1>2, <3>1, <3>2
    <2>2. CASE ~IsTerminal(loop[l].answer)
      <3>1. loop[l].at # "off" /\ Continue(l, loop[l].answer) /\ UNCHANGED source
        BY <1>9, <2>2 DEF PollAnswered
      <3> QED
        BY <1>8, <3>1
    <2> QED
      BY <2>1, <2>2
  <1>10. ASSUME NEW l \in Loops, PollFails(l)
         PROVE  Narrower
    <2>1. loop[l].at # "off" /\ Continue(l, status) /\ UNCHANGED source
      BY <1>10 DEF PollFails, FetchFails
    <2> QED
      BY <1>8, <2>1
  <1> QED
    BY <1>3, <1>4, <1>5, <1>6, <1>7, <1>9, <1>10 DEF Server

\* Executions are added to those watched by BeginWatch alone.
LEMMA WatchedShrinks ==
  ASSUME TypeOK,
         \/ Unseen \/ StreamOpens \/ StreamEvent \/ StopWatching
         \/ \E l \in Loops : PollAnswered(l) \/ PollFails(l)
  PROVE  Watched' \subseteq Watched
  <1>1. CASE Narrower
    BY <1>1 DEF Narrower, Watched
  <1>2. ASSUME NEW l \in Loops, StreamBreaks(l) \/ StreamEnds(l)
        PROVE  Watched' \subseteq Watched
    BY <1>2, FallBackFacts DEF StreamBreaks, StreamEnds, Watched, Off
  <1> QED
    BY <1>1, <1>2, NarrowerSteps DEF Unseen

\* Which adds the one that is watched from then on.
LEMMA WatchedGrows ==
  ASSUME TypeOK, NEW e \in Executions, BeginWatch(e)
  PROVE  Watched' \subseteq Watched \cup {e}
  BY ClearedFacts DEF TypeOK, Watched, BeginWatch, StopPolling, Off

\* PageTypeOK in three parts.
EditorTyped ==
  /\ language \in Languages
  /\ code \in Codes
  /\ isSubmitting \in BOOLEAN
  /\ inFlight \in [Programs -> Nat]

AnswerTyped ==
  /\ failureKind \in FailureKinds
  /\ errorMessage \in {"", "id", "submit", "poll"}
  /\ output \in Progress \cup {"", "plain", "diagnostic", "unavailable"}

\* And whatever may be answered has a language.
LanguagesTyped ==
  /\ languageOf \in [Executions -> Languages \cup {None}]
  /\ listed \in [Executions -> Languages \cup {None}]
  /\ \A e \in Executions : listed[e] = None <=> history[e] = "none"
  /\ again \subseteq Executions
  /\ \A e \in Watched : languageOf[e] # None

\* The editor holds a program.
LEMMA EditorTypedStep ==
  ASSUME EditorTyped, [PageNext]_allVars
  PROVE  EditorTyped'
  <1> USE DEF EditorTyped, editorVars, submitVars, pageVars
  <1>1. CASE UNCHANGED allVars
    BY <1>1 DEF allVars
  <1>2. ASSUME NEW l \in Languages, SelectLanguage(l)
        PROVE  EditorTyped'
    BY <1>2 DEF SelectLanguage
  <1>3. ASSUME NEW c \in Codes, Edit(c)
        PROVE  EditorTyped'
    BY <1>3 DEF Edit
  <1>4. ASSUME NEW p \in Programs, Submit(p)
        PROVE  EditorTyped'
    <2>1. inFlight' = [inFlight EXCEPT ![p] = @ + 1]
      BY <1>4 DEF Submit
    <2>2. inFlight' \in [Programs -> Nat]
      BY <1>4, <2>1
    <2> QED
      BY <1>4, <2>2 DEF Submit
  <1>5. ASSUME NEW p \in Programs, Rejected(p)
        PROVE  EditorTyped'
    <2>1. inFlight' \in [Programs -> Nat]
      BY <1>5 DEF Rejected, Settle
    <2> QED
      BY <1>5, <2>1 DEF Rejected, Settle
  <1>6. ASSUME NEW p \in Programs, NEW e \in Executions, Accepted(p, e)
        PROVE  EditorTyped'
    <2>1. inFlight' \in [Programs -> Nat]
      BY <1>6 DEF Accepted, Settle
    <2> QED
      BY <1>6, <2>1 DEF Accepted, Settle
  <1>7. ASSUME NEW e \in Executions, Watch(e)
        PROVE  EditorTyped'
    BY <1>7 DEF Watch
  <1>8. CASE RefuseWatch
    BY <1>8 DEF RefuseWatch
  <1>9. CASE StopTracking
    BY <1>9 DEF StopTracking
  <1>10. CASE ClearRuns
    BY <1>10 DEF ClearRuns
  <1>11. CASE ReloadPage
    BY <1>11, PageAssumption DEF ReloadPage, Codes
  <1>12. CASE StreamConnects
    BY <1>12 DEF StreamConnects
  <1>13. CASE StreamAnswers
    BY <1>13 DEF StreamAnswers
  <1>14. ASSUME NEW l \in Loops, PollAnswers(l)
         PROVE  EditorTyped'
    BY <1>14 DEF PollAnswers
  <1>15. ASSUME NEW l \in Loops, PollInterrupted(l)
         PROVE  EditorTyped'
    BY <1>15 DEF PollInterrupted
  <1>16. CASE Unseen
    BY <1>16 DEF Unseen
  <1> QED
    BY PageCases, <1>1, <1>2, <1>3, <1>4, <1>5, <1>6, <1>7, <1>8, <1>9, <1>10,
       <1>11, <1>12, <1>13, <1>14, <1>15, <1>16

\* What is shown of a status is one of the kinds and texts.
LEMMA PresentFacts ==
  ASSUME NEW s \in ExecutionStatuses, NEW e, NEW l
  PROVE  /\ OutputOf(e, s) \in {"", "plain", "diagnostic", "unavailable"}
         /\ Classify(s, l, OutputOf(e, s)) \in FailureKinds
  BY DEF OutputOf, Classify, FailureKinds

\* What is shown is one of them.
LEMMA AnswerTypedStep ==
  ASSUME language \in Languages, code \in Codes, TypeOK, Known,
         AnswerTyped, [PageNext]_allVars
  PROVE  AnswerTyped'
  <1> USE DEF AnswerTyped, answerVars, pageVars, FailureKinds, Progress
  <1>1. CASE UNCHANGED allVars
    BY <1>1 DEF allVars
  <1>2. ASSUME NEW l \in Languages, SelectLanguage(l)
        PROVE  AnswerTyped'
    BY <1>2 DEF SelectLanguage
  <1>3. ASSUME NEW c \in Codes, Edit(c)
        PROVE  AnswerTyped'
    BY <1>3 DEF Edit
  <1>4. ASSUME NEW p \in Programs, Submit(p)
        PROVE  AnswerTyped'
    BY <1>4 DEF Submit
  <1>5. ASSUME NEW p \in Programs, Rejected(p)
        PROVE  AnswerTyped'
    BY <1>5 DEF Rejected
  <1>6. ASSUME NEW p \in Programs, NEW e \in Executions, Accepted(p, e)
        PROVE  AnswerTyped'
    BY <1>6 DEF Accepted, BeginView
  <1>7. ASSUME NEW e \in Executions, Watch(e)
        PROVE  AnswerTyped'
    BY <1>7 DEF Watch, BeginView
  <1>8. CASE RefuseWatch
    BY <1>8 DEF RefuseWatch
  <1>9. CASE StopTracking
    BY <1>9 DEF StopTracking
  <1>10. CASE ClearRuns
    BY <1>10 DEF ClearRuns
  <1>11. CASE ReloadPage
    BY <1>11 DEF ReloadPage
  <1>12. CASE StreamConnects
    BY <1>12 DEF StreamConnects
  <1>13. CASE StreamAnswers
    <2>1. source.event \in ExecutionStatuses
      BY <1>13 DEF StreamAnswers, StreamEvent, TypeOK, Source
    <2> QED
      BY <1>13, <2>1, PresentFacts DEF StreamAnswers, Present
  <1>14. ASSUME NEW l \in Loops, PollAnswers(l)
         PROVE  AnswerTyped'
    <2>1. loop[l].answer \in ExecutionStatuses
      BY <1>14 DEF PollAnswers, PollAnswered, Known, TypeOK, LoopState, ExecutionStatuses
    <2> QED
      BY <1>14, <2>1, PresentFacts DEF PollAnswers, Present
  <1>15. ASSUME NEW l \in Loops, PollInterrupted(l)
         PROVE  AnswerTyped'
    BY <1>15 DEF PollInterrupted
  <1>16. CASE Unseen
    BY <1>16 DEF Unseen
  <1> QED
    BY PageCases, <1>1, <1>2, <1>3, <1>4, <1>5, <1>6, <1>7, <1>8, <1>9, <1>10,
       <1>11, <1>12, <1>13, <1>14, <1>15, <1>16

\* An execution gets its language before anything can be answered about it.
LEMMA LanguagesTypedStep ==
  ASSUME language \in Languages, code \in Codes, TypeOK, Known,
         LanguagesTyped, [PageNext]_allVars
  PROVE  LanguagesTyped'
  <1> USE PageAssumption DEF LanguagesTyped, languageVars, pageVars
  <1>1. CASE UNCHANGED allVars
    BY <1>1 DEF allVars, vars, transportVars, shownVars, Watched
  <1>2. ASSUME NEW l \in Languages, SelectLanguage(l)
        PROVE  LanguagesTyped'
    BY <1>2 DEF SelectLanguage, vars, transportVars, shownVars, Watched
  <1>3. ASSUME NEW c \in Codes, Edit(c)
        PROVE  LanguagesTyped'
    BY <1>3 DEF Edit, vars, transportVars, shownVars, Watched
  <1>4. ASSUME NEW p \in Programs, Submit(p)
        PROVE  LanguagesTyped'
    BY <1>4 DEF Submit, RunExecution, transportVars, Watched
  <1>5. ASSUME NEW p \in Programs, Rejected(p)
        PROVE  LanguagesTyped'
    BY <1>5 DEF Rejected, SubmitRejected, transportVars, Watched
  <1>6. ASSUME NEW p \in Programs, NEW e \in Executions, Accepted(p, e)
        PROVE  LanguagesTyped'
    <2>1. BeginWatch(e) /\ p.language \in Languages
      BY <1>6 DEF Accepted, SubmitAccepted, Programs
    <2>2. Watched' \subseteq Watched \cup {e}
      BY <2>1, WatchedGrows
    <2>3. history' = [history EXCEPT ![e] = "queued"]
      BY <2>1 DEF BeginWatch
    <2> QED
      BY <1>6, <2>1, <2>2, <2>3 DEF Accepted, BeginView, Listing, TypeOK, Watched
  <1>7. ASSUME NEW e \in Executions, Watch(e)
        PROVE  LanguagesTyped'
    <2>1. BeginWatch(e) /\ WatchLanguage(e) \in Languages
      BY <1>7 DEF Watch, WatchExecution, WatchLanguage
    <2>2. Watched' \subseteq Watched \cup {e}
      BY <2>1, WatchedGrows
    <2>3. history' = [history EXCEPT ![e] = "queued"]
      BY <2>1 DEF BeginWatch
    <2> QED
      BY <1>7, <2>1, <2>2, <2>3 DEF Watch, BeginView, Listing, TypeOK, Watched
  <1>8. CASE RefuseWatch
    BY <1>8 DEF RefuseWatch, vars, transportVars, shownVars, Watched
  <1>9. CASE StopTracking
    <2>1. Watched' \subseteq Watched
      BY <1>9, WatchedShrinks DEF StopTracking
    <2> QED
      BY <1>9, <2>1 DEF StopTracking, StopWatching
  <1>10. CASE ClearRuns
    BY <1>10 DEF ClearRuns, ClearHistory, transportVars, Watched
  <1>11. CASE ReloadPage
    BY <1>11 DEF ReloadPage, Reload, Mounted, Off, Watched
  <1>12. CASE StreamConnects
    <2>1. Watched' \subseteq Watched
      BY <1>12, WatchedShrinks DEF StreamConnects
    <2> QED
      BY <1>12, <2>1 DEF StreamConnects, StreamOpens
  <1>13. CASE StreamAnswers
    <2>1. Watched' \subseteq Watched
      BY <1>13, WatchedShrinks DEF StreamAnswers
    <2>2. /\ source.id \in Watched
          /\ source.event # "none"
          /\ history' = [history EXCEPT ![source.id] = source.event]
      BY <1>13 DEF StreamAnswers, StreamEvent, Show, TypeOK, Source, Watched
    <2> QED
      BY <1>13, <2>1, <2>2 DEF StreamAnswers, Present, Listing, TypeOK, Watched
  <1>14. ASSUME NEW l \in Loops, PollAnswers(l)
         PROVE  LanguagesTyped'
    <2>1. Watched' \subseteq Watched
      BY <1>14, WatchedShrinks DEF PollAnswers
    <2>2. /\ loop[l].id \in Watched
          /\ loop[l].answer # "none"
          /\ history' = [history EXCEPT ![loop[l].id] = loop[l].answer]
      BY <1>14 DEF PollAnswers, PollAnswered, Show, TypeOK, Known, Watched
    <2> QED
      BY <1>14, <2>1, <2>2 DEF PollAnswers, Present, Listing, TypeOK, Watched
  <1>15. ASSUME NEW l \in Loops, PollInterrupted(l)
         PROVE  LanguagesTyped'
    <2>1. Watched' \subseteq Watched
      BY <1>15, WatchedShrinks DEF PollInterrupted
    <2> QED
      BY <1>15, <2>1 DEF PollInterrupted, PollFails
  <1>16. CASE Unseen
    <2>1. Watched' \subseteq Watched
      BY <1>16, WatchedShrinks
    <2> QED
      BY <1>16, <2>1, UnseenFacts
  <1> QED
    BY PageCases, <1>1, <1>2, <1>3, <1>4, <1>5, <1>6, <1>7, <1>8, <1>9, <1>10,
       <1>11, <1>12, <1>13, <1>14, <1>15, <1>16

-----------------------------------------------------------------------------
(* The Run button                                                          *)

\* The button is disabled with a submit sent, and enabled with any answered.
LEMMA ButtonStep ==
  ASSUME language \in Languages, code \in Codes, TypeOK,
         ButtonComesBack, [PageNext]_allVars
  PROVE  ButtonComesBack'
  <1> USE DEF ButtonComesBack, submitVars, pageVars
  <1>1. CASE UNCHANGED allVars
    BY <1>1 DEF allVars, vars
  <1>2. ASSUME NEW l \in Languages, SelectLanguage(l)
        PROVE  ButtonComesBack'
    BY <1>2 DEF SelectLanguage, vars
  <1>3. ASSUME NEW c \in Codes, Edit(c)
        PROVE  ButtonComesBack'
    BY <1>3 DEF Edit, vars
  <1>4. ASSUME NEW p \in Programs, Submit(p)
        PROVE  ButtonComesBack'
    <2>1. submits \in Nat
      BY DEF TypeOK
    <2>2. submits' = submits + 1
      BY <1>4 DEF Submit, RunExecution
    <2>3. submits' > 0
      BY <2>1, <2>2
    <2> QED
      BY <2>3
  <1>5. ASSUME NEW p \in Programs, Rejected(p)
        PROVE  ButtonComesBack'
    BY <1>5 DEF Rejected, Settle
  <1>6. ASSUME NEW p \in Programs, NEW e \in Executions, Accepted(p, e)
        PROVE  ButtonComesBack'
    BY <1>6 DEF Accepted, Settle
  <1>7. ASSUME NEW e \in Executions, Watch(e)
        PROVE  ButtonComesBack'
    BY <1>7 DEF Watch, WatchExecution
  <1>8. CASE RefuseWatch
    BY <1>8 DEF RefuseWatch, vars
  <1>9. CASE StopTracking
    BY <1>9 DEF StopTracking, StopWatching
  <1>10. CASE ClearRuns
    BY <1>10 DEF ClearRuns, ClearHistory
  <1>11. CASE ReloadPage
    BY <1>11 DEF ReloadPage
  <1>12. CASE StreamConnects
    BY <1>12 DEF StreamConnects, StreamOpens
  <1>13. CASE StreamAnswers
    BY <1>13 DEF StreamAnswers, StreamEvent
  <1>14. ASSUME NEW l \in Loops, PollAnswers(l)
         PROVE  ButtonComesBack'
    BY <1>14 DEF PollAnswers, PollAnswered
  <1>15. ASSUME NEW l \in Loops, PollInterrupted(l)
         PROVE  ButtonComesBack'
    BY <1>15 DEF PollInterrupted, PollFails
  <1>16. CASE Unseen
    BY <1>16, UnseenFacts
  <1> QED
    BY PageCases, <1>1, <1>2, <1>3, <1>4, <1>5, <1>6, <1>7, <1>8, <1>9, <1>10,
       <1>11, <1>12, <1>13, <1>14, <1>15, <1>16

-----------------------------------------------------------------------------
(* Languages                                                               *)

\* A new entry of the history takes the execution's language, and an execution
\* that is listed is watched again in the language listed.
LEMMA LanguagesStep ==
  ASSUME language \in Languages, code \in Codes, TypeOK,
         listed \in [Executions -> Languages \cup {None}],
         languageOf \in [Executions -> Languages \cup {None}],
         Known, LanguagesAgree, [PageNext]_allVars
  PROVE  LanguagesAgree'
  <1> USE DEF LanguagesAgree, TypeOK, languageVars, pageVars
  <1>1. CASE UNCHANGED allVars
    BY <1>1 DEF allVars, vars, shownVars
  <1>2. ASSUME NEW l \in Languages, SelectLanguage(l)
        PROVE  LanguagesAgree'
    BY <1>2 DEF SelectLanguage, vars, shownVars
  <1>3. ASSUME NEW c \in Codes, Edit(c)
        PROVE  LanguagesAgree'
    BY <1>3 DEF Edit, vars, shownVars
  <1>4. ASSUME NEW p \in Programs, Submit(p)
        PROVE  LanguagesAgree'
    BY <1>4 DEF Submit, RunExecution
  <1>5. ASSUME NEW p \in Programs, Rejected(p)
        PROVE  LanguagesAgree'
    BY <1>5 DEF Rejected, SubmitRejected
  <1>6. ASSUME NEW p \in Programs, NEW e \in Executions, Accepted(p, e)
        PROVE  LanguagesAgree'
    <2>1. history[e] = "none"
      BY <1>6 DEF Accepted, SubmitAccepted, Known
    <2> QED
      BY <1>6, <2>1 DEF Accepted, SubmitAccepted, BeginWatch, BeginView, Listing
  <1>7. ASSUME NEW e \in Executions, Watch(e)
        PROVE  LanguagesAgree'
    BY <1>7 DEF Watch, WatchExecution, BeginWatch, BeginView, Listing, WatchLanguage
  <1>8. CASE RefuseWatch
    BY <1>8 DEF RefuseWatch, vars, shownVars
  <1>9. CASE StopTracking
    BY <1>9 DEF StopTracking, StopWatching
  <1>10. CASE ClearRuns
    BY <1>10 DEF ClearRuns, ClearHistory
  <1>11. CASE ReloadPage
    BY <1>11 DEF ReloadPage, Reload
  <1>12. CASE StreamConnects
    BY <1>12 DEF StreamConnects, StreamOpens
  <1>13. CASE StreamAnswers
    BY <1>13 DEF StreamAnswers, StreamEvent, Show, Present, Listing
  <1>14. ASSUME NEW l \in Loops, PollAnswers(l)
         PROVE  LanguagesAgree'
    BY <1>14 DEF PollAnswers, PollAnswered, Show, Present, Listing
  <1>15. ASSUME NEW l \in Loops, PollInterrupted(l)
         PROVE  LanguagesAgree'
    BY <1>15 DEF PollInterrupted, PollFails
  <1>16. CASE Unseen
    BY <1>16, UnseenFacts
  <1> QED
    BY PageCases, <1>1, <1>2, <1>3, <1>4, <1>5, <1>6, <1>7, <1>8, <1>9, <1>10,
       <1>11, <1>12, <1>13, <1>14, <1>15, <1>16

-----------------------------------------------------------------------------
(* What is shown together                                                  *)

\* Each handler that sets one of the four sets those that must fit it.
Fits ==
  /\ IsTerminal(status) =>
       \E e \in Executions :
         /\ status \in answers[e]
         /\ output = OutputOf(e, status)
         /\ errorMessage = "" => failureKind = Classify(status, languageOf[e], output)
  /\ status = "backend_unavailable" => output = "unavailable"
  /\ errorMessage = "submit" => status = "idle"
  /\ errorMessage = "poll" /\ IsTerminal(status) => watches > 1
  /\ errorMessage # "" => failureKind \in {"invalid_request", "network_disconnected"}
  /\ failureKind \in {"timeout", "backend_unavailable"} => status = failureKind

\* No poll loop is left.
Silence == \A l \in Loops : loop[l].at = "off"

\* A watch that is the only one asks through its stream or through one poll
\* loop, and through neither once an outcome is shown.
OneWatch ==
  watches <= 1 =>
    /\ watches = 0 => source = None /\ Silence
    /\ source # None \/ IsTerminal(status) => Silence
    /\ \A k, l \in Loops : loop[k].at # "off" /\ loop[l].at # "off" => k = l

\* A step after which less is asked keeps it, as long as the status is none that
\* ends the watch.
LEMMA NarrowerKeepsOneWatch ==
  ASSUME OneWatch, Narrower, UNCHANGED watches,
         IsTerminal(status') => IsTerminal(status) \/ Silence'
  PROVE  OneWatch'
  BY DEF OneWatch, Silence, Narrower

\* The last answer of a watch that is the only one leaves no poll loop.
LEMMA LastAnswerSilences ==
  ASSUME TypeOK, OneWatch, watches <= 1,
         \/ StreamEvent /\ IsTerminal(source.event)
         \/ \E l \in Loops : PollAnswered(l) /\ IsTerminal(loop[l].answer)
  PROVE  Silence'
  <1>1. CASE StreamEvent /\ IsTerminal(source.event)
    <2>1. Silence /\ \A l \in Loops : loop'[l] \in {loop[l], Off}
      BY <1>1, ClearedFacts DEF OneWatch, StreamEvent, StopWatcher, StopPolling
    <2> QED
      BY <2>1 DEF Silence, Off
  <1>2. ASSUME NEW l \in Loops, PollAnswered(l), IsTerminal(loop[l].answer)
        PROVE  Silence'
    <2>1. loop[l].at # "off" /\ loop' = [TimerCleared EXCEPT ![l] = Off]
      BY <1>2 DEF PollAnswered, StopPolling
    <2>2. \A k \in Loops \ {l} : loop[k].at = "off"
      BY <2>1 DEF OneWatch
    <2>3. loop'[l] = Off /\ \A k \in Loops : loop'[k] \in {loop[k], Off}
      BY <2>1, ClearedFacts
    <2> QED
      BY <2>2, <2>3 DEF Silence, Off
  <1> QED
    BY <1>1, <1>2

\* The first watch begins in silence.
LEMMA BeginKeepsOneWatch ==
  ASSUME TypeOK, OneWatch, NEW e \in Executions, BeginWatch(e)
  PROVE  OneWatch'
  <1>1. /\ watches \in Nat
        /\ watches' = watches + 1
        /\ status' = "queued"
        /\ \A l \in Loops : loop'[l] \in {loop[l], Off}
    BY ClearedFacts DEF TypeOK, BeginWatch, StopPolling
  <1>2. ASSUME watches' <= 1
        PROVE  watches = 0
    BY <1>1, <1>2
  <1>3. ASSUME watches' <= 1
        PROVE  Silence'
    <2>1. Silence
      BY <1>2, <1>3 DEF OneWatch
    <2> QED
      BY <1>1, <2>1 DEF Silence, Off
  <1>4. watches' # 0
    BY <1>1
  <1> QED
    BY <1>3, <1>4 DEF OneWatch, Silence

\* A stream that is given up hands its watch to one loop at most.
LEMMA FallBackKeepsOneWatch ==
  ASSUME TypeOK, OneWatch, NEW l \in Loops, source # None, FallBack(l)
  PROVE  OneWatch'
  <1>1. source' = None /\ UNCHANGED <<status, watches>>
    BY DEF FallBack
  <1>2. CASE IsTerminal(status)
    BY <1>1, <1>2 DEF FallBack, OneWatch, Silence
  <1>3. CASE ~IsTerminal(status)
    <2>1. loop' = [TimerCleared EXCEPT ![l] = [Off EXCEPT !.at = "asked", !.id = source.id]]
      BY <1>3 DEF FallBack
    <2>2. \A k \in Loops \ {l} : loop'[k] \in {loop[k], Off}
      BY <2>1, ClearedFacts
    <2>3. watches <= 1 => \A k \in Loops \ {l} : loop'[k].at = "off"
      BY <2>2 DEF OneWatch, Silence, Off
    <2>4. watches # 0 \/ ~(watches <= 1)
      BY DEF OneWatch
    <2> QED
      BY <1>1, <1>3, <2>3, <2>4 DEF OneWatch
  <1> QED
    BY <1>2, <1>3

\* The steps of the page keep it.
LEMMA OneWatchStep ==
  ASSUME language \in Languages, code \in Codes, TypeOK, OneWatch, [PageNext]_allVars
  PROVE  OneWatch'
  <1>1. ASSUME UNCHANGED <<source, loop, watches>>,
               IsTerminal(status') => IsTerminal(status)
        PROVE  OneWatch'
    BY <1>1 DEF OneWatch, Silence
  <1>2. CASE \/ UNCHANGED allVars \/ RefuseWatch
             \/ \E l \in Languages : SelectLanguage(l)
             \/ \E c \in Codes : Edit(c)
    BY <1>1, <1>2 DEF RefuseWatch, SelectLanguage, Edit, allVars, vars, transportVars,
                      shownVars, countVars
  <1>3. CASE (\E p \in Programs : Submit(p) \/ Rejected(p)) \/ ClearRuns
    BY <1>1, <1>3 DEF Submit, RunExecution, Rejected, SubmitRejected, ClearRuns,
                      ClearHistory, transportVars, countVars, IsTerminal, TerminalStatuses
  <1>4. ASSUME NEW p \in Programs, NEW e \in Executions, Accepted(p, e)
        PROVE  OneWatch'
    BY <1>4, BeginKeepsOneWatch DEF Accepted, SubmitAccepted
  <1>5. ASSUME NEW e \in Executions, Watch(e)
        PROVE  OneWatch'
    BY <1>5, BeginKeepsOneWatch DEF Watch, WatchExecution
  <1>6. CASE ReloadPage
    <2>1. source' = None /\ loop' = [l \in Loops |-> Off] /\ UNCHANGED watches
      BY <1>6 DEF ReloadPage, Reload, Mounted, countVars
    <2> QED
      BY <2>1 DEF OneWatch, Silence, Off
  <1>7. CASE StopTracking \/ StreamConnects \/ \E l \in Loops : PollInterrupted(l)
    <2>1. \/ StreamOpens \/ StopWatching
          \/ \E l \in Loops : PollFails(l)
      BY <1>7 DEF StopTracking, StreamConnects, PollInterrupted
    <2>2. UNCHANGED <<status, watches>>
      BY <2>1 DEF StreamOpens, StopWatching, PollFails, countVars
    <2> QED
      BY <2>1, <2>2, NarrowerSteps, NarrowerKeepsOneWatch
  <1>8. CASE StreamAnswers
    <2>1. StreamEvent /\ status' = source.event /\ UNCHANGED watches
      BY <1>8 DEF StreamAnswers, StreamEvent, Show, countVars
    <2>2. CASE watches <= 1
      BY <2>1, <2>2, NarrowerSteps, NarrowerKeepsOneWatch, LastAnswerSilences
    <2>3. CASE ~(watches <= 1)
      BY <2>1, <2>3 DEF OneWatch
    <2> QED
      BY <2>2, <2>3
  <1>9. ASSUME NEW l \in Loops, PollAnswers(l)
        PROVE  OneWatch'
    <2>1. PollAnswered(l) /\ status' = loop[l].answer /\ UNCHANGED watches
      BY <1>9 DEF PollAnswers, PollAnswered, Show, countVars
    <2>2. CASE watches <= 1
      BY <2>1, <2>2, NarrowerSteps, NarrowerKeepsOneWatch, LastAnswerSilences
    <2>3. CASE ~(watches <= 1)
      BY <2>1, <2>3 DEF OneWatch
    <2> QED
      BY <2>2, <2>3
  <1>10. CASE Unseen
    <2>1. UNCHANGED <<status, watches>>
      BY <1>10, UnseenFacts
    <2>2. CASE Server \/ \E l \in Loops : TimerFires(l)
      BY <2>1, <2>2, NarrowerSteps, NarrowerKeepsOneWatch
    <2>3. ASSUME NEW l \in Loops, StreamBreaks(l) \/ StreamEnds(l)
          PROVE  OneWatch'
      BY <2>3, FallBackKeepsOneWatch DEF StreamBreaks, StreamEnds
    <2> QED
      BY <1>10, <2>2, <2>3 DEF Unseen
  <1> QED
    BY PageCases, <1>2, <1>3, <1>4, <1>5, <1>6, <1>7, <1>8, <1>9, <1>10

\* applyStatusPayload sets all of them, to an outcome the execution has had.
LEMMA PresentFits ==
  ASSUME NEW e \in Executions, NEW s \in ExecutionStatuses,
         s \in Outcomes => s \in answers[e],
         Show(e, s), Present(e, s), UNCHANGED answers
  PROVE  Fits'
  <1>1. /\ status' = s /\ output' = OutputOf(e, s) /\ errorMessage' = ""
        /\ failureKind' = Classify(s, languageOf[e], OutputOf(e, s))
        /\ UNCHANGED <<languageOf, answers>>
    BY DEF Show, Present
  <1>2. IsTerminal(s) => s \in Outcomes
    BY OutcomeFacts
  <1>3. s = "backend_unavailable" => OutputOf(e, s) = "unavailable"
    BY DEF OutputOf
  <1>4. ASSUME Classify(s, languageOf[e], OutputOf(e, s)) \in {"timeout", "backend_unavailable"}
        PROVE  s = Classify(s, languageOf[e], OutputOf(e, s))
    BY <1>4 DEF Classify
  <1> QED
    BY <1>1, <1>2, <1>3, <1>4 DEF Fits

\* And every other handler keeps what it does not set.
LEMMA FitsStep ==
  ASSUME language \in Languages, code \in Codes, TypeOK,
         Known, Reported, OneTransport, OneWatch, Fits, [PageNext]_allVars
  PROVE  Fits'
  <1> USE DEF pageVars, answerVars, languageVars
  <1>1. CASE UNCHANGED allVars
    BY <1>1 DEF Fits, allVars, vars, shownVars, serverVars, countVars
  <1>2. ASSUME NEW l \in Languages, SelectLanguage(l)
        PROVE  Fits'
    BY <1>2 DEF Fits, SelectLanguage, vars, shownVars, serverVars, countVars
  <1>3. ASSUME NEW c \in Codes, Edit(c)
        PROVE  Fits'
    BY <1>3 DEF Fits, Edit, vars, shownVars, serverVars, countVars
  <1>4. ASSUME NEW p \in Programs, Submit(p)
        PROVE  Fits'
    BY <1>4 DEF Fits, Submit, RunExecution, IsTerminal, TerminalStatuses
  <1>5. ASSUME NEW p \in Programs, Rejected(p)
        PROVE  Fits'
    BY <1>5 DEF Fits, Rejected, SubmitRejected, IsTerminal, TerminalStatuses
  <1>6. ASSUME NEW p \in Programs, NEW e \in Executions, Accepted(p, e)
        PROVE  Fits'
    BY <1>6 DEF Fits, Accepted, SubmitAccepted, BeginWatch, BeginView, IsTerminal,
                TerminalStatuses
  <1>7. ASSUME NEW e \in Executions, Watch(e)
        PROVE  Fits'
    BY <1>7 DEF Fits, Watch, WatchExecution, BeginWatch, BeginView, IsTerminal,
                TerminalStatuses
  <1>8. CASE RefuseWatch
    BY <1>8 DEF Fits, RefuseWatch, vars, shownVars, serverVars, countVars
  <1>9. CASE StopTracking
    BY <1>9 DEF Fits, StopTracking, StopWatching, serverVars, countVars
  <1>10. CASE ClearRuns
    BY <1>10 DEF Fits, ClearRuns, ClearHistory, serverVars, countVars
  <1>11. CASE ReloadPage
    BY <1>11 DEF Fits, ReloadPage, Reload, Mounted, IsTerminal, TerminalStatuses
  <1>12. CASE StreamConnects
    BY <1>12 DEF Fits, OneTransport, StreamConnects, StreamOpens, serverVars, countVars
  <1>13. CASE StreamAnswers
    <2>1. /\ source.id \in Executions
          /\ source.event \in ExecutionStatuses
          /\ source.event \in Outcomes => source.event \in answers[source.id]
      BY <1>13 DEF StreamAnswers, StreamEvent, TypeOK, Source, Reported
    <2>2. Show(source.id, source.event) /\ UNCHANGED answers
      BY <1>13 DEF StreamAnswers, StreamEvent, serverVars, countVars
    <2> QED
      BY <1>13, <2>1, <2>2, PresentFits DEF StreamAnswers
  <1>14. ASSUME NEW l \in Loops, PollAnswers(l)
         PROVE  Fits'
    <2>1. /\ loop[l].id \in Executions
          /\ loop[l].answer \in ExecutionStatuses
          /\ loop[l].answer \in Outcomes => loop[l].answer \in answers[loop[l].id]
      BY <1>14 DEF PollAnswers, PollAnswered, Known, TypeOK, LoopState, ExecutionStatuses,
                  Reported
    <2>2. Show(loop[l].id, loop[l].answer) /\ UNCHANGED answers
      BY <1>14 DEF PollAnswers, PollAnswered, serverVars, countVars
    <2> QED
      BY <1>14, <2>1, <2>2, PresentFits DEF PollAnswers
  <1>15. ASSUME NEW l \in Loops, PollInterrupted(l)
         PROVE  Fits'
    <2>1. /\ UNCHANGED <<status, answers, watches, output, languageOf>>
          /\ errorMessage' = "poll"
          /\ failureKind' = "network_disconnected"
          /\ loop[l].at # "off"
      BY <1>15 DEF PollInterrupted, PollFails, FetchFails, serverVars
    <2>2. IsTerminal(status) => ~(watches <= 1)
      BY <2>1 DEF OneWatch, Silence
    <2>3. IsTerminal(status) => watches > 1
      BY <2>2 DEF TypeOK
    <2> QED
      BY <2>1, <2>3 DEF Fits
  <1>16. CASE Unseen
    <2>1. UNCHANGED <<status, output, failureKind, errorMessage, languageOf, watches>>
      BY <1>16, UnseenFacts
    <2>2. \A e \in Executions : answers[e] \subseteq answers'[e]
      BY <1>16, UnseenFacts
    <2> QED
      BY <2>1, <2>2, PageAssumption DEF Fits
  <1> QED
    BY PageCases, <1>1, <1>2, <1>3, <1>4, <1>5, <1>6, <1>7, <1>8, <1>9, <1>10,
       <1>11, <1>12, <1>13, <1>14, <1>15, <1>16

-----------------------------------------------------------------------------
(* Outcomes                                                                *)

\* Poll loop l asks about execution e.
AsksAbout(l, e) == loop[l].at # "off" /\ loop[l].id = e

\* An execution watched once is asked about by its stream or by one poll loop.
Sole ==
  \A e \in Executions \ again :
    /\ source # None /\ source.id = e => \A l \in Loops : ~AsksAbout(l, e)
    /\ \A k, l \in Loops : AsksAbout(k, e) /\ AsksAbout(l, e) => k = l

\* And once its outcome is listed by none: no answer about it is on its way.
Over == \A e \in Executions \ again : IsTerminal(history[e]) => e \notin Watched

\* A step after which less is asked keeps Sole.
LEMMA NarrowerKeepsSole ==
  ASSUME Sole, Narrower, UNCHANGED again
  PROVE  Sole'
  BY DEF Sole, Narrower, AsksAbout

\* And a stream that is given up hands its execution to one loop at most.
LEMMA FallBackKeepsSole ==
  ASSUME TypeOK, Sole, NEW l \in Loops, source # None, FallBack(l), UNCHANGED again
  PROVE  Sole'
  <1>1. source.id \in Executions /\ source' = None
    BY DEF TypeOK, Source, FallBack
  <1>2. CASE IsTerminal(status)
    BY <1>1, <1>2, NarrowerKeepsSole DEF FallBack, Narrower
  <1>3. CASE ~IsTerminal(status)
    <2>1. loop' = [TimerCleared EXCEPT ![l] = [Off EXCEPT !.at = "asked", !.id = source.id]]
      BY <1>3 DEF FallBack
    <2>2. \A k \in Loops \ {l} : loop'[k] \in {loop[k], Off}
      BY <2>1, ClearedFacts
    <2>3. loop'[l].id = source.id
      BY <2>1, ClearedFacts DEF Off
    <2>4. ASSUME NEW e \in Executions \ again, NEW k \in Loops \ {l}, AsksAbout(k, e)'
          PROVE  AsksAbout(k, e) /\ e # source.id
      <3>1. AsksAbout(k, e)
        BY <2>2, <2>4 DEF AsksAbout, Off
      <3> QED
        BY <3>1 DEF Sole
    <2>5. ASSUME NEW e \in Executions \ again, NEW j \in Loops, NEW k \in Loops,
                 AsksAbout(j, e)', AsksAbout(k, e)'
          PROVE  j = k
      <3>1. CASE j # l /\ k # l
        BY <2>4, <2>5, <3>1 DEF Sole
      <3>2. CASE j = l \/ k = l
        BY <2>3, <2>4, <2>5, <3>2 DEF AsksAbout
      <3> QED
        BY <3>1, <3>2
    <2> QED
      BY <1>1, <2>5 DEF Sole
  <1> QED
    BY <1>2, <1>3

\* So does whatever begins no watch.
LEMMA SoleKept ==
  ASSUME TypeOK, Sole, UNCHANGED again,
         \/ Unseen \/ StreamOpens \/ StreamEvent \/ StopWatching
         \/ \E l \in Loops : PollAnswered(l) \/ PollFails(l)
  PROVE  Sole'
  <1>1. CASE Narrower
    BY <1>1, NarrowerKeepsSole
  <1>2. ASSUME NEW l \in Loops, StreamBreaks(l) \/ StreamEnds(l)
        PROVE  Sole'
    BY <1>2, FallBackKeepsSole DEF StreamBreaks, StreamEnds
  <1> QED
    BY <1>1, <1>2, NarrowerSteps DEF Unseen

\* An outcome listed is kept, or cleared, unless its execution is watched again.
OutcomesKept ==
  \A e \in Executions :
    IsTerminal(history[e]) /\ e \notin again' => history'[e] \in {history[e], "none"}

\* A watch that begins leaves the other executions alone, and its own, if it is
\* the first, is asked about by the new stream only.
LEMMA BeginOutcomes ==
  ASSUME TypeOK, LanguagesTyped, LanguagesAgree, Sole, Over,
         NEW e \in Executions, NEW l, NEW text, BeginWatch(e), BeginView(e, l, text)
  PROVE  Sole' /\ Over' /\ OutcomesKept
  <1>1. /\ again \subseteq again'
        /\ e \notin again' => languageOf[e] = None
    BY DEF BeginView
  <1>2. e \notin again' => e \notin Watched /\ history[e] = "none"
    BY <1>1 DEF LanguagesTyped, LanguagesAgree
  <1>3. /\ history' = [history EXCEPT ![e] = "queued"]
        /\ source'.id = e
        /\ \A k \in Loops : loop'[k] \in {loop[k], Off}
    BY ClearedFacts DEF BeginWatch, StopPolling
  <1>4. \A f \in Executions, k \in Loops : AsksAbout(k, f)' => AsksAbout(k, f)
    BY <1>3 DEF AsksAbout, Off
  <1>5. Sole'
    <2>1. e \notin again' => \A k \in Loops : ~AsksAbout(k, e)
      BY <1>2 DEF Watched, AsksAbout
    <2> QED
      BY <1>1, <1>3, <1>4, <2>1 DEF Sole
  <1>6. ~IsTerminal("queued") /\ ~IsTerminal("none")
    BY DEF IsTerminal, TerminalStatuses
  <1>7. Over'
    BY <1>1, <1>3, <1>6, WatchedGrows DEF Over, TypeOK
  <1>8. OutcomesKept
    BY <1>2, <1>3, <1>6 DEF OutcomesKept, TypeOK
  <1> QED
    BY <1>5, <1>7, <1>8

\* A step that lists nothing new and asks about nothing new.
LEMMA QuietOutcomes ==
  ASSUME Over, UNCHANGED <<history, again>>, Watched' \subseteq Watched
  PROVE  Over' /\ OutcomesKept
  BY DEF Over, OutcomesKept

\* An answer about an execution that is asked about, the last if it is final.
LEMMA AnswerOutcomes ==
  ASSUME TypeOK, Over, UNCHANGED again, Watched' \subseteq Watched,
         NEW e \in Watched, NEW s, history' = [history EXCEPT ![e] = s],
         IsTerminal(s) /\ e \notin again => e \notin Watched'
  PROVE  Over' /\ OutcomesKept
  BY DEF Over, OutcomesKept, TypeOK, Watched

\* The steps of the page keep the outcomes, and what keeps them.
LEMMA OutcomesStep ==
  ASSUME language \in Languages, code \in Codes, TypeOK, Known, LanguagesTyped,
         LanguagesAgree, Sole, Over, [PageNext]_allVars
  PROVE  Sole' /\ Over' /\ OutcomesKept
  <1> USE DEF pageVars
  <1>1. ASSUME UNCHANGED <<source, loop, history, again>>
        PROVE  Sole' /\ Over' /\ OutcomesKept
    <2>1. Narrower /\ Watched' \subseteq Watched
      BY <1>1 DEF Narrower, Watched
    <2> QED
      BY <1>1, <2>1, NarrowerKeepsSole, QuietOutcomes
  <1>2. CASE UNCHANGED allVars \/ RefuseWatch
    BY <1>1, <1>2 DEF allVars, RefuseWatch, vars, transportVars, shownVars
  <1>3. CASE (\E l \in Languages : SelectLanguage(l)) \/ (\E c \in Codes : Edit(c))
    BY <1>1, <1>3 DEF SelectLanguage, Edit, vars, transportVars, shownVars
  <1>4. CASE \E p \in Programs : Submit(p) \/ Rejected(p)
    BY <1>1, <1>4 DEF Submit, RunExecution, Rejected, SubmitRejected, transportVars
  <1>5. ASSUME NEW p \in Programs, NEW e \in Executions, Accepted(p, e)
        PROVE  Sole' /\ Over' /\ OutcomesKept
    BY <1>5, BeginOutcomes DEF Accepted, SubmitAccepted
  <1>6. ASSUME NEW e \in Executions, Watch(e)
        PROVE  Sole' /\ Over' /\ OutcomesKept
    BY <1>6, BeginOutcomes DEF Watch, WatchExecution
  <1>7. CASE ClearRuns
    <2>1. /\ history' = [e \in Executions |-> "none"]
          /\ UNCHANGED <<source, loop, again>>
      BY <1>7 DEF ClearRuns, ClearHistory, transportVars
    <2>2. Narrower
      BY <2>1 DEF Narrower
    <2> QED
      BY <2>1, <2>2, NarrowerKeepsSole DEF Over, OutcomesKept, IsTerminal, TerminalStatuses
  <1>8. CASE ReloadPage
    <2>1. /\ UNCHANGED history
          /\ source' = None
          /\ loop' = [l \in Loops |-> Off]
      BY <1>8 DEF ReloadPage, Reload, Mounted
    <2> QED
      BY <2>1 DEF Sole, Over, OutcomesKept, AsksAbout, Watched, Off
  <1>9. CASE \/ StopTracking \/ StreamConnects \/ Unseen
             \/ \E l \in Loops : PollInterrupted(l)
    <2>1. UNCHANGED <<history, again>>
      BY <1>9, UnseenFacts DEF StopTracking, StopWatching, StreamConnects, StreamOpens,
                               PollInterrupted, PollFails
    <2>2. \/ Unseen \/ StreamOpens \/ StopWatching
          \/ \E l \in Loops : PollFails(l)
      BY <1>9 DEF StopTracking, StreamConnects, PollInterrupted
    <2> QED
      BY <2>1, <2>2, SoleKept, WatchedShrinks, QuietOutcomes
  <1>10. CASE StreamAnswers
    <2>1. StreamEvent /\ UNCHANGED again
      BY <1>10 DEF StreamAnswers
    <2>2. /\ source.id \in Watched
          /\ history' = [history EXCEPT ![source.id] = source.event]
      BY <2>1 DEF StreamEvent, Show, TypeOK, Source, Watched
    <2>3. ASSUME IsTerminal(source.event), source.id \notin again
          PROVE  source.id \notin Watched'
      <3>1. source' = None /\ \A l \in Loops : loop'[l] \in {loop[l], Off}
        BY <2>1, <2>3, ClearedFacts DEF StreamEvent, StopWatcher, StopPolling
      <3>2. \A l \in Loops : ~AsksAbout(l, source.id)
        BY <2>1, <2>2, <2>3 DEF Sole, StreamEvent, Watched
      <3> QED
        BY <3>1, <3>2 DEF Watched, AsksAbout, Off
    <2> QED
      BY <2>1, <2>2, <2>3, SoleKept, WatchedShrinks, AnswerOutcomes
  <1>11. ASSUME NEW l \in Loops, PollAnswers(l)
         PROVE  Sole' /\ Over' /\ OutcomesKept
    <2>1. PollAnswered(l) /\ UNCHANGED again
      BY <1>11 DEF PollAnswers
    <2>2. /\ loop[l].id \in Watched
          /\ AsksAbout(l, loop[l].id)
          /\ history' = [history EXCEPT ![loop[l].id] = loop[l].answer]
      BY <1>11 DEF PollAnswers, PollAnswered, Show, Known, TypeOK, Watched, AsksAbout
    <2>3. ASSUME IsTerminal(loop[l].answer), loop[l].id \notin again
          PROVE  loop[l].id \notin Watched'
      <3>1. source' = None /\ loop' = [TimerCleared EXCEPT ![l] = Off]
        BY <2>1, <2>3 DEF PollAnswered, StopPolling
      <3>2. loop'[l] = Off /\ \A k \in Loops : loop'[k] \in {loop[k], Off}
        BY <3>1, ClearedFacts
      <3>3. \A k \in Loops : AsksAbout(k, loop[l].id) => k = l
        BY <2>2, <2>3 DEF Sole, Watched
      <3> QED
        BY <3>1, <3>2, <3>3 DEF Watched, AsksAbout, Off
    <2> QED
      BY <2>1, <2>2, <2>3, SoleKept, WatchedShrinks, AnswerOutcomes
  <1> QED
    BY PageCases, <1>2, <1>3, <1>4, <1>5, <1>6, <1>7, <1>8, <1>9, <1>10, <1>11

-----------------------------------------------------------------------------
(* Theorems                                                                *)

\* The inductive invariant.
PageInv ==
  /\ RunnerInv
  /\ EditorTyped /\ AnswerTyped /\ LanguagesTyped
  /\ ButtonComesBack
  /\ LanguagesAgree
  /\ OneWatch /\ Fits
  /\ Sole /\ Over

\* A page that has just been loaded satisfies it.
LEMMA PageInitially == PageInit => PageInv
  <1> SUFFICES ASSUME PageInit
               PROVE  PageInv
    OBVIOUS
  <1>1. RunnerInv
    BY RunnerInit DEF PageInit
  <1>2. EditorTyped
    BY PageAssumption DEF PageInit, EditorTyped, Codes
  <1>3. AnswerTyped
    BY DEF PageInit, AnswerTyped, FailureKinds
  <1>4. LanguagesTyped
    BY DEF PageInit, Init, Mounted, Off, LanguagesTyped, Watched
  <1>5. ButtonComesBack /\ LanguagesAgree
    BY DEF PageInit, Init, ButtonComesBack, LanguagesAgree
  <1>6. Fits
    BY DEF PageInit, Init, Mounted, Fits, IsTerminal, TerminalStatuses
  <1>7. OneWatch
    BY DEF PageInit, Init, Mounted, Off, OneWatch, Silence
  <1>8. Sole /\ Over
    BY DEF PageInit, Init, Mounted, Sole, Over, AsksAbout, Watched, Off
  <1> QED
    BY <1>1, <1>2, <1>3, <1>4, <1>5, <1>6, <1>7, <1>8 DEF PageInv

\* Every step of the page keeps it.
LEMMA PageStep == PageInv /\ [PageNext]_allVars => PageInv'
  <1> SUFFICES ASSUME PageInv, [PageNext]_allVars
               PROVE  PageInv'
    OBVIOUS
  <1>1. /\ TypeOK /\ Known /\ Reported /\ OneTransport
        /\ language \in Languages /\ code \in Codes
        /\ EditorTyped /\ AnswerTyped /\ LanguagesTyped
        /\ listed \in [Executions -> Languages \cup {None}]
        /\ languageOf \in [Executions -> Languages \cup {None}]
        /\ ButtonComesBack /\ LanguagesAgree /\ OneWatch /\ Fits /\ Sole /\ Over
    BY DEF PageInv, RunnerInv, EditorTyped, LanguagesTyped
  <1>2. RunnerInv'
    BY RunnerStep, PageStepIsHookStep DEF PageInv
  <1>3. EditorTyped' /\ AnswerTyped' /\ LanguagesTyped'
    BY <1>1, EditorTypedStep, AnswerTypedStep, LanguagesTypedStep
  <1>4. ButtonComesBack' /\ LanguagesAgree' /\ OneWatch' /\ Fits'
    BY <1>1, ButtonStep, LanguagesStep, OneWatchStep, FitsStep
  <1>5. Sole' /\ Over'
    BY <1>1, OutcomesStep
  <1> QED
    BY <1>2, <1>3, <1>4, <1>5 DEF PageInv

\* The page's own state and the hook's stay consistent, whatever the user does
\* while answers are on their way.
THEOREM PageInvariance == PageSpec => []PageInv
  BY PageInitially, PageStep, PTL DEF PageSpec

\* The variables of the page keep their types; an entry of the history has a
\* language if and only if it is there.
THEOREM PageTypeCorrect == PageSpec => []PageTypeOK
  <1>1. PageInv => PageTypeOK
    BY DEF PageInv, EditorTyped, AnswerTyped, LanguagesTyped, PageTypeOK
  <1> QED
    BY <1>1, PageInvariance, PTL

\* The Run button is never left disabled without a submit to wait for (the
\* finally block at the hook's lines 311-313).
THEOREM ButtonIsEnabledAgain == PageSpec => []ButtonComesBack
  <1>1. PageInv => ButtonComesBack
    BY DEF PageInv
  <1> QED
    BY <1>1, PageInvariance, PTL

\* The ref and the history agree on the language of every listed execution.
THEOREM LanguagesAlwaysAgree == PageSpec => []LanguagesAgree
  <1>1. PageInv => LanguagesAgree
    BY DEF PageInv
  <1> QED
    BY <1>1, PageInvariance, PTL

\* No step changes the language of an execution that is listed.
THEOREM LanguagesAreKept == PageSpec => LanguageKept
  <1>1. ASSUME PageInv, [PageNext]_allVars
        PROVE  \A e \in Executions : history[e] # "none" => languageOf'[e] = languageOf[e]
    <2>1. /\ language \in Languages /\ code \in Codes
          /\ languageOf \in [Executions -> Languages \cup {None}]
          /\ \A e \in Executions : history[e] # "none" => e \in issued
          /\ \A e \in Executions : history[e] # "none" => languageOf[e] = listed[e]
      BY <1>1 DEF PageInv, RunnerInv, Known, EditorTyped, LanguagesTyped, LanguagesAgree
    <2>2. ASSUME NEW p \in Programs, NEW e \in Executions, Accepted(p, e)
          PROVE  \A f \in Executions : history[f] # "none" => languageOf'[f] = languageOf[f]
      BY <2>1, <2>2 DEF Accepted, SubmitAccepted, BeginView
    <2>3. ASSUME NEW e \in Executions, Watch(e)
          PROVE  \A f \in Executions : history[f] # "none" => languageOf'[f] = languageOf[f]
      BY <2>1, <2>3 DEF Watch, WatchLanguage, BeginView
    <2>4. CASE ReloadPage
      BY <2>1, <2>4 DEF ReloadPage
    <2>5. CASE UNCHANGED languageOf
      BY <2>5
    <2>6. CASE \/ UNCHANGED allVars \/ RefuseWatch \/ StopTracking \/ ClearRuns
               \/ StreamConnects \/ StreamAnswers \/ Unseen
      BY <2>5, <2>6 DEF allVars, pageVars, languageVars, RefuseWatch, StopTracking,
                        ClearRuns, StreamConnects, StreamAnswers, Present, Unseen
    <2>7. CASE \/ \E l \in Languages : SelectLanguage(l)
               \/ \E c \in Codes : Edit(c)
               \/ \E p \in Programs : Submit(p) \/ Rejected(p)
               \/ \E l \in Loops : PollAnswers(l) \/ PollInterrupted(l)
      BY <2>5, <2>7 DEF languageVars, SelectLanguage, Edit, Submit, Rejected,
                        PollAnswers, Present, PollInterrupted
    <2>8. [PageNext]_allVars
      BY <1>1
    <2> QED
      BY <2>1, <2>2, <2>3, <2>4, <2>6, <2>7, <2>8, PageCases
  <1> QED
    BY <1>1, PageInvariance, PTL DEF PageSpec, LanguageKept

\* An outcome in the run history is not taken back by an answer that was on its
\* way (applyStatusPayload at the hook's lines 166-188): the first outcome of an
\* execution watched once is the last answer about it.
THEOREM OutcomesAreKept == PageSpec => OutcomeStays
  <1>1. ASSUME PageInv, [PageNext]_allVars
        PROVE  OutcomesKept
    BY <1>1, OutcomesStep DEF PageInv, RunnerInv, EditorTyped
  <1>2. OutcomesKept => \A e \in Executions :
                          IsTerminal(history[e]) /\ e \notin again' =>
                            history'[e] \in {history[e], "none"}
    BY DEF OutcomesKept
  <1> QED
    BY <1>1, <1>2, PageInvariance, PTL DEF PageSpec, OutcomeStays

\* An outcome shown is one that some execution had and printed so, classified by
\* its language and output unless an alert stands beside it; a failed submit's
\* alert never does, and a failed poll's only after an earlier watch (the hook's
\* lines 166-213, 258-273 and 287-329).
THEOREM PageTellsOneStory == PageSpec => []ShownTogether
  <1>1. ASSUME PageInv
        PROVE  ShownTogether
    <2>1. TypeOK /\ Fits /\ AnswerTyped
      BY <1>1 DEF PageInv, RunnerInv
    <2>2. status \in Outcomes \cup {"queued", "backend_unavailable", "idle", "submitting"}
      BY <2>1 DEF TypeOK, ExecutionStatuses
    <2>3. status \in {"completed", "failed", "timeout", "queued", "backend_unavailable",
                      "idle", "submitting"}
      BY <2>2, RunnerAssumption DEF TerminalStatuses
    <2>4. ASSUME Label(status, failureKind)
                   \in {"Completed", "Compile Error", "Runtime Error", "Timed Out"}
          PROVE  status \in TerminalStatuses
      BY <2>3, <2>4 DEF Label, TerminalStatuses
    <2>5. ASSUME OutputText = "nothing returned"
          PROVE  Label(status, failureKind) = "Completed"
      <3>1. output = "" /\ status \notin {"idle", "submitting", "queued"}
        BY <2>1, <2>5 DEF OutputText, AnswerTyped, Progress
      <3>2. status \in TerminalStatuses
        BY <2>1, <2>3, <3>1 DEF Fits, TerminalStatuses
      <3>3. PICK e \in Executions : output = OutputOf(e, status)
        BY <2>1, <3>2 DEF Fits, IsTerminal
      <3>4. status = "completed"
        BY <2>3, <3>1, <3>3 DEF OutputOf
      <3> QED
        BY <3>4 DEF Label
    <2>6. Label("idle", failureKind) = "Ready"
      BY DEF Label
    <2>7. /\ Console.runStatus = Label(status, failureKind)
          /\ Console.terminal = OutputText
          /\ Console.alert = errorMessage
      BY DEF Console
    <2> QED
      BY <2>1, <2>4, <2>5, <2>6, <2>7 DEF Fits, ShownTogether, IsTerminal
  <1> QED
    BY <1>1, PageInvariance, PTL

=============================================================================
