------------------------------ MODULE ConsolePage ------------------------------
(***************************************************************************)
(* The web client's page: the editor, the run history's languages and what *)
(* is shown of an execution, around the useExecutionRunner hook whose      *)
(* streams, polls and timers ExecutionRunner specifies.                    *)
(*                                                                         *)
(* Each action joins one of ExecutionRunner's with what the same callback  *)
(* does to the page's own state.  React renders between callbacks, so the  *)
(* handlers of a button see the state shown; a handler registered once     *)
(* sees the state it was registered in.                                    *)
(***************************************************************************)
EXTENDS ExecutionRunner

CONSTANTS
  Languages,        \* the languages in use
  Compiled,         \* those of them that are compiled
  StarterTemplates, \* the program that each language offers to begin with
  FirstLanguage,    \* the language selected when the page is loaded
  Typed,            \* what the user may write into the editor
  Diagnosed,        \* executions that fail with output like a compiler's
  Silent            \* executions that complete without output

ASSUME PageAssumption ==
  /\ Compiled \subseteq Languages
  /\ FirstLanguage \in Languages
  /\ DOMAIN StarterTemplates = Languages
  /\ Diagnosed \cup Silent \subseteq Executions
  /\ None \notin Languages

\* The texts that the editor can hold.
Codes == {StarterTemplates[l] : l \in Languages} \cup Typed \cup {"blank"}

Programs == [language : Languages, code : Codes]

\* codeValidationMessage is not null.
Invalid(c) == c \in {"blank", "tooLong"}

VARIABLES
  language,      \* the language selected
  code,          \* the editor's text
  isSubmitting,
  inFlight,      \* programs in the submits out
  failureKind,
  errorMessage,  \* what the alert is about, or ""
  output,
  languageOf,    \* executionLanguageRef
  listed,        \* the language of each entry of the run history
  again          \* history: executions this page knew when it began to watch

editorVars == <<language, code>>
submitVars == <<isSubmitting, inFlight>>
answerVars == <<failureKind, errorMessage, output>>
languageVars == <<languageOf, listed>>
pageVars == <<editorVars, submitVars, answerVars, languageVars, again>>
allVars == <<vars, pageVars>>

FailureKinds == {"none", "compile_error", "runtime_error", "timeout",
                 "invalid_request", "backend_unavailable", "network_disconnected"}

Progress == {"submitting", "accepted", "watching"}

PageTypeOK ==
  /\ language \in Languages
  /\ code \in Codes
  /\ isSubmitting \in BOOLEAN
  /\ inFlight \in [Programs -> Nat]
  /\ failureKind \in FailureKinds
  /\ errorMessage \in {"", "id", "submit", "poll"}
  /\ output \in Progress \cup {"", "plain", "diagnostic", "unavailable"}
  /\ languageOf \in [Executions -> Languages \cup {None}]
  /\ listed \in [Executions -> Languages \cup {None}]
  /\ \A e \in Executions : listed[e] = None <=> history[e] = "none"
  /\ again \subseteq Executions

PageInit ==
  /\ Init
  /\ language = FirstLanguage
  /\ code = StarterTemplates[FirstLanguage]
  /\ isSubmitting = FALSE
  /\ inFlight = [p \in Programs |-> 0]
  /\ failureKind = "none"
  /\ errorMessage = ""
  /\ output = ""
  /\ languageOf = [e \in Executions |-> None]
  /\ listed = [e \in Executions |-> None]
  /\ again = {}

-----------------------------------------------------------------------------
(* What is shown of an answer                                              *)

\* Mutant: the body, or undefined.
OutputOfRaw(e, s) ==
  CASE s = "queued" -> "undefined"
    [] s = "backend_unavailable" -> "unavailable"
    [] s = "failed" /\ e \in Diagnosed -> "diagnostic"
    [] s = "completed" /\ e \in Silent -> ""
    [] OTHER -> "plain"

\* getOutputFromPayload of what the polling server sends with a status.
OutputOf(e, s) ==
  CASE s = "queued" -> ""
    [] s = "backend_unavailable" -> "unavailable"
    [] s = "failed" /\ e \in Diagnosed -> "diagnostic"
    [] s = "completed" /\ e \in Silent -> ""
    [] OTHER -> "plain"

\* classifyFailureKind as applyStatusPayload calls it.
Classify(s, l, text) ==
  CASE s \in {"timeout", "backend_unavailable"} -> s
    [] s = "failed" ->
         IF l \in Compiled /\ text = "diagnostic" THEN "compile_error"
                                                  ELSE "runtime_error"
    [] OTHER -> "none"

\* The label of getExecutionStatusPresentation for what can be shown.
Label(s, kind) ==
  CASE s = "idle" -> "Ready"
    [] s = "submitting" -> "Submitting"
    [] s = "queued" -> "Queued"
    [] s = "completed" -> "Completed"
    [] s = "failed" ->
         IF kind = "compile_error" THEN "Compile Error" ELSE "Runtime Error"
    [] s = "timeout" -> "Timed Out"
    [] s = "backend_unavailable" -> "Backend Unavailable"

\* The label of getStreamStatePresentation.
TransportLabel(s) ==
  CASE s = "stopped" -> "Stopped"
    [] s = "connecting" -> "Connecting"
    [] s = "streaming" -> "Streaming"
    [] s = "polling" -> "Polling Fallback"
    [] s = "disconnected" -> "Disconnected"

\* The text of the terminal panel: the output, or words in its place.
OutputText ==
  CASE output # "" -> output
    [] status = "idle" -> "hint"
    [] status \in {"submitting", "queued"} -> "waiting"
    [] OTHER -> "nothing returned"

\* The Run button is disabled during a submit and beside invalid code.
RunEnabled == ~isSubmitting /\ ~Invalid(code)

\* The rows of the run history, whose labels know no kind of failure.
Rows ==
  [e \in {f \in Executions : history[f] # "none"} |->
     [language |-> listed[e], label |-> Label(history[e], "none")]]

\* What the page shows.
Console ==
  [run |-> RunEnabled,
   terminal |-> OutputText,
   runStatus |-> Label(status, failureKind),
   transport |-> TransportLabel(streamState),
   alert |-> errorMessage,
   rows |-> Rows]

\* updateHistoryForExecution: an entry keeps the language it has.
Listing(e, l) ==
  listed' = [listed EXCEPT ![e] = IF history[e] = "none" THEN l ELSE @]

\* applyStatusPayload, beside Show.
Present(e, s) ==
  /\ failureKind' = Classify(s, languageOf[e], OutputOf(e, s))
  /\ errorMessage' = ""
  /\ output' = OutputOf(e, s)
  /\ Listing(e, languageOf[e])
  /\ UNCHANGED languageOf

\* Mutant: the failure of the execution before is kept.
BeginViewFailed(e, l, text) ==
  /\ UNCHANGED failureKind
  /\ errorMessage' = ""
  /\ output' = text
  /\ languageOf' = [languageOf EXCEPT ![e] = l]
  /\ Listing(e, l)
  /\ again' = IF languageOf[e] = None THEN again ELSE again \cup {e}

\* Mutant: the language is set for executions not seen before only.
BeginViewOnce(e, l, text) ==
  /\ failureKind' = "none"
  /\ errorMessage' = ""
  /\ output' = text
  /\ languageOf' = [languageOf EXCEPT ![e] = IF @ = None THEN l ELSE @]
  /\ Listing(e, l)
  /\ again' = IF languageOf[e] = None THEN again ELSE again \cup {e}

\* beginExecutionWatch, beside BeginWatch.
BeginView(e, l, text) ==
  /\ failureKind' = "none"
  /\ errorMessage' = ""
  /\ output' = text
  /\ languageOf' = [languageOf EXCEPT ![e] = l]
  /\ Listing(e, l)
  /\ again' = IF languageOf[e] = None THEN again ELSE again \cup {e}

-----------------------------------------------------------------------------
(* The editor                                                              *)

SelectLanguage(l) ==
  /\ language' = l
  /\ UNCHANGED <<vars, code, submitVars, answerVars, languageVars, again>>

Edit(c) ==
  /\ code' = c
  /\ UNCHANGED <<vars, language, submitVars, answerVars, languageVars, again>>

LoadStarterTemplate == Edit(StarterTemplates[language])

ClearEditor == Edit("blank")

\* runExecution up to its await, by a handler that knows program p.
Submit(p) ==
  /\ ~Invalid(p.code)
  /\ RunExecution
  /\ isSubmitting' = TRUE
  /\ inFlight' = [inFlight EXCEPT ![p] = @ + 1]
  /\ failureKind' = "none"
  /\ errorMessage' = ""
  /\ output' = "submitting"
  /\ UNCHANGED <<editorVars, languageVars, again>>

ClickRun ==
  /\ Console.run
  /\ Submit([language |-> language, code |-> code])

\* Ctrl/Cmd + Enter: the command that the editor got when it was mounted calls
\* the onRun of that render, with its language, code and validation.
PressShortcut ==
  Submit([language |-> FirstLanguage, code |-> StarterTemplates[FirstLanguage]])

\* Mutant: the finally block re-enables the button of a failed submit only.
SettleRejected(p, accepted) ==
  /\ inFlight[p] > 0
  /\ inFlight' = [inFlight EXCEPT ![p] = @ - 1]
  /\ isSubmitting' = (isSubmitting /\ accepted)

\* The submit of p is answered: its finally block.
Settle(p, accepted) ==
  /\ inFlight[p] > 0
  /\ inFlight' = [inFlight EXCEPT ![p] = @ - 1]
  /\ isSubmitting' = FALSE

Accepted(p, e) ==
  /\ Settle(p, TRUE)
  /\ SubmitAccepted(e)
  /\ BeginView(e, p.language, "accepted")
  /\ UNCHANGED editorVars

Rejected(p) ==
  /\ Settle(p, FALSE)
  /\ SubmitRejected
  /\ failureKind' = "network_disconnected"
  /\ errorMessage' = "submit"
  /\ UNCHANGED <<editorVars, output, languageVars, again>>

-----------------------------------------------------------------------------
(* Watching                                                                *)

\* Mutant: the language selected by now, whatever the history says.
WatchAs(e) == language

\* The language of the history's entry, or the one selected.
WatchLanguage(e) == IF history[e] = "none" THEN language ELSE listed[e]

\* watchExecutionByID with a well-formed id.
Watch(e) ==
  /\ WatchExecution(e)
  /\ BeginView(e, WatchLanguage(e), "watching")
  /\ UNCHANGED <<editorVars, submitVars>>

\* The id is typed in; Enter works while the button is disabled.
WatchTyped(e) == Watch(e)

\* A row of the run history is clicked.
WatchListed(e) == e \in DOMAIN Rows /\ Watch(e)

\* With an id that is empty or malformed.
RefuseWatch ==
  /\ failureKind' = "invalid_request"
  /\ errorMessage' = "id"
  /\ UNCHANGED <<vars, editorVars, submitVars, output, languageVars, again>>

StopTracking == StopWatching /\ UNCHANGED pageVars

ClearRuns ==
  /\ DOMAIN Rows # {}
  /\ ClearHistory
  /\ listed' = [e \in Executions |-> None]
  /\ UNCHANGED <<editorVars, submitVars, answerVars, languageOf, again>>

\* The page is loaded again; initialHistory fills executionLanguageRef.
ReloadPage ==
  /\ Reload
  /\ language' = FirstLanguage
  /\ code' = StarterTemplates[FirstLanguage]
  /\ isSubmitting' = FALSE
  /\ inFlight' = [p \in Programs |-> 0]
  /\ failureKind' = "none"
  /\ errorMessage' = ""
  /\ output' = ""
  /\ languageOf' = listed
  /\ again' = {}
  /\ UNCHANGED listed

-----------------------------------------------------------------------------
(* Answers                                                                 *)

StreamConnects ==
  /\ StreamOpens
  /\ errorMessage' = ""
  /\ UNCHANGED <<editorVars, submitVars, failureKind, output, languageVars, again>>

StreamAnswers ==
  /\ StreamEvent
  /\ Present(source.id, source.event)
  /\ UNCHANGED <<editorVars, submitVars, again>>

PollAnswers(l) ==
  /\ PollAnswered(l)
  /\ Present(loop[l].id, loop[l].answer)
  /\ UNCHANGED <<editorVars, submitVars, again>>

PollInterrupted(l) ==
  /\ PollFails(l)
  /\ failureKind' = "network_disconnected"
  /\ errorMessage' = "poll"
  /\ UNCHANGED <<editorVars, submitVars, output, languageVars, again>>

\* What shows only in the transport indicator, or not at all.
Unseen ==
  /\ Server
     \/ \E l \in Loops : StreamBreaks(l) \/ StreamEnds(l) \/ TimerFires(l)
  /\ UNCHANGED pageVars

-----------------------------------------------------------------------------
PageNext ==
  \/ \E l \in Languages : SelectLanguage(l)
  \/ \E c \in Typed : Edit(c)
  \/ LoadStarterTemplate \/ ClearEditor \/ ClickRun \/ PressShortcut
  \/ \E p \in Programs : Rejected(p) \/ \E e \in Executions : Accepted(p, e)
  \/ \E e \in Executions : WatchTyped(e) \/ WatchListed(e)
  \/ RefuseWatch \/ StopTracking \/ ClearRuns \/ ReloadPage
  \/ StreamConnects \/ StreamAnswers
  \/ \E l \in Loops : PollAnswers(l) \/ PollInterrupted(l)
  \/ Unseen

PageSpec == PageInit /\ [][PageNext]_allVars

\* The fairness of ExecutionRunner.
PageFairness ==
  /\ WF_allVars(ServeStatus /\ UNCHANGED pageVars)
  /\ WF_allVars(StreamConnects \/ StreamAnswers)
  /\ WF_allVars((\E l \in Loops : StreamEnds(l)) /\ UNCHANGED pageVars)
  /\ \A l \in Loops :
       WF_allVars(PollAnswers(l) \/
                  ((AnswerPoll(l) \/ TimerFires(l)) /\ UNCHANGED pageVars))

PageFairSpec == PageSpec /\ PageFairness

-----------------------------------------------------------------------------
(* Properties                                                              *)

\* A dozen handlers set the status, the kind of failure, the alert and the
\* output, one after another.  An outcome shown is one that some execution had,
\* beside what that execution printed and, unless an alert stands there too,
\* under the kind of failure that its language and its output make of it.  Only
\* a completed execution is said to have returned nothing.  The alert of a failed
\* submit never stands beside an outcome, that of a failed poll only if there
\* was an earlier watch to leave its poll out.  Such a late alert, and that of an
\* id refused, takes the kind of failure over: what did not compile is then
\* labelled "Runtime Error" beside it.
ShownTogether ==
  /\ Console.runStatus \in {"Completed", "Compile Error", "Runtime Error", "Timed Out"} =>
       \E e \in Executions :
         /\ status \in answers[e]
         /\ output = OutputOf(e, status)
         /\ Console.alert = "" => failureKind = Classify(status, languageOf[e], output)
  /\ Console.terminal = "nothing returned" => Console.runStatus = "Completed"
  /\ Console.alert = "submit" => Console.runStatus = "Ready"
  /\ Console.alert = "poll" /\ IsTerminal(status) => watches > 1
  /\ Console.alert # "" => failureKind \in {"invalid_request", "network_disconnected"}
  /\ failureKind \in {"timeout", "backend_unavailable"} => status = failureKind

\* The Run button disabled by a submit is enabled again: there is one to wait
\* for as long as it is not.
ButtonComesBack == isSubmitting => submits > 0

\* The language under which an answer is classified is the one its entry in
\* the run history shows.
LanguagesAgree ==
  \A e \in Executions : history[e] # "none" => languageOf[e] = listed[e]

\* While an execution is listed its language does not change: neither by
\* turning the editor to another one, nor by watching it again, nor by loading
\* the page again.
LanguageKept ==
  [][\A e \in Executions :
       history[e] # "none" => languageOf'[e] = languageOf[e]]_allVars

\* An outcome in the run history is not taken back by an answer that was on
\* its way, if nobody has asked for the execution a second time.
OutcomeStays ==
  [][\A e \in Executions :
       IsTerminal(history[e]) /\ e \notin again' =>
         history'[e] \in {history[e], "none"}]_allVars

\* Every way of submitting, Ctrl/Cmd + Enter included, submits what the editor
\* shows (components/EditorWorkspace.tsx:56).
SubmitsWhatIsShown ==
  [][\A p \in Programs :
       inFlight'[p] > inFlight[p] => p = [language |-> language, code |-> code]]_allVars

=============================================================================
