--------------------------- MODULE SandboxExecutor ---------------------------
(***************************************************************************)
(* executeCode of the four sandboxes (src/sandboxes/{node,python,c,cpp}),  *)
(* which SandboxPipeline takes as one step: a command, or a compiler and   *)
(* the program it makes, each run by CombinedOutput under a time limit of  *)
(* its own.                                                                *)
(*                                                                         *)
(* CombinedOutput (os/exec, without WaitDelay) returns when the child has  *)
(* been waited for and every holder of its output pipe has let go.  The    *)
(* end of the time limit kills the child, and nothing but the child.       *)
(***************************************************************************)
EXTENDS Naturals, Sequences

CONSTANTS
  MaxHolders,  \* bound: descendants that hold the pipe at a time
  MaxCalls     \* bound: calls of executeCode

ASSUME ExecutorAssumption == MaxHolders \in Nat /\ MaxCalls \in Nat

VARIABLES
  commands,   \* what this sandbox runs for a job
  pc,         \* where executeCode is; "idle" when it has returned
  stage,      \* the command it is at, 0 before the first
  tmpDirs,    \* how many workspaces there are in the temporary directory
  child,      \* the child process, and how it ended
  holders,    \* descendants holding its output pipe, each with all it has forked
  expired,    \* the deadline of the command's context has passed
  status,     \* the status returned last
  calls,
  undeleted,  \* history: how many of them RemoveAll has failed on
  ended,      \* history: how CombinedOutput saw each command of this call end
  late        \* history: the commands of this call whose time limit ran out

workspaceVars == <<tmpDirs, undeleted>>
vars == <<commands, pc, stage, workspaceVars, child, holders, expired, status,
          calls, ended, late>>

NodeSandbox == <<"node">>

\* The check for an interpreter always passes: main panics without one.
PythonSandbox == <<"python">>

CSandbox == <<"gcc", "program">>

CppSandbox == <<"g++", "program">>

Sandboxes == {NodeSandbox, PythonSandbox, CSandbox, CppSandbox}

Last == Len(commands)

Compiled == Last = 2

Ends == {"ok", "error", "killed"}

TypeOK ==
  /\ commands \in Sandboxes
  /\ pc \in {"idle", "mkdir", "source", "launch", "command", "decide"}
  /\ stage \in 0..Last
  /\ tmpDirs \in 0..MaxCalls
  /\ child \in Ends \cup {"none", "running"}
  /\ holders \in 0..MaxHolders
  /\ expired \in BOOLEAN
  /\ status \in {"none", "completed", "failed", "timeout"}
  /\ calls \in 0..MaxCalls
  /\ undeleted \in 0..MaxCalls
  /\ ended \in [1..2 -> Ends \cup {"none"}]
  /\ late \in SUBSET (1..2)

Init ==
  /\ commands \in Sandboxes
  /\ pc = "idle"
  /\ stage = 0
  /\ tmpDirs = 0
  /\ child = "none"
  /\ holders = 0
  /\ expired = FALSE
  /\ status = "none"
  /\ calls = 0
  /\ undeleted = 0
  /\ ended = [i \in 1..2 |-> "none"]
  /\ late = {}

-----------------------------------------------------------------------------
(* executeCode                                                             *)

Call ==
  /\ pc = "idle"
  /\ calls < MaxCalls
  /\ calls' = calls + 1
  /\ IF Compiled THEN pc' = "mkdir" /\ stage' = 0
                 ELSE pc' = "launch" /\ stage' = 1
  /\ status' = "none"
  /\ ended' = [i \in 1..2 |-> "none"]
  /\ late' = {}
  /\ UNCHANGED <<commands, workspaceVars, child, holders, expired>>

\* Mutant: the workspace is removed when a job fails, not deferred.
ReturnUncleaned(result) ==
  /\ status' = result
  /\ pc' = "idle"
  /\ tmpDirs' = IF result = "completed" THEN tmpDirs ELSE undeleted
  /\ UNCHANGED undeleted

\* The deferred RemoveAll runs on every way out.  Its error is ignored: it may
\* fail, as on directories the program has closed to it, or on files that a
\* descendant which lives on goes on making.
Return(result) ==
  /\ status' = result
  /\ pc' = "idle"
  /\ \/ tmpDirs' = undeleted /\ UNCHANGED undeleted
     \/ tmpDirs > undeleted /\ undeleted' = undeleted + 1 /\ UNCHANGED tmpDirs

\* MkdirTemp takes a name that is not in use.
MakeWorkspace ==
  /\ pc = "mkdir"
  /\ \/ /\ pc' = "source"
        /\ tmpDirs' = tmpDirs + 1
        /\ UNCHANGED <<undeleted, status>>
     \/ Return("failed")
  /\ UNCHANGED <<commands, stage, child, holders, expired, calls, ended, late>>

WriteSource ==
  /\ pc = "source"
  /\ \/ /\ pc' = "launch"
        /\ stage' = 1
        /\ UNCHANGED <<workspaceVars, status>>
     \/ Return("failed") /\ UNCHANGED stage
  /\ UNCHANGED <<commands, child, holders, expired, calls, ended, late>>

\* A context with a deadline is made, and the command started or not found.
Launch ==
  /\ pc = "launch"
  /\ expired' = FALSE
  /\ \/ pc' = "command" /\ child' = "running" /\ UNCHANGED ended
     \/ pc' = "decide" /\ child' = "none" /\ ended' = [ended EXCEPT ![stage] = "error"]
  /\ UNCHANGED <<commands, stage, workspaceVars, holders, status, calls, late>>

\* CombinedOutput returns.
Collect ==
  /\ pc = "command"
  /\ child # "running"
  /\ holders = 0
  /\ pc' = "decide"
  /\ ended' = [ended EXCEPT ![stage] = child]
  /\ UNCHANGED <<commands, stage, workspaceVars, child, holders, expired, status,
                 calls, late>>

TimedOut == expired /\ Return("timeout") /\ UNCHANGED stage

Failed == ~expired /\ ended[stage] # "ok" /\ Return("failed") /\ UNCHANGED stage

Succeeded ==
  /\ ~expired
  /\ ended[stage] = "ok"
  /\ IF stage < Last
     THEN pc' = "launch" /\ stage' = stage + 1 /\ UNCHANGED <<workspaceVars, status>>
     ELSE Return("completed") /\ UNCHANGED stage

\* Mutant: err is looked at before ctx.Err().
DecideErrorFirst ==
  /\ pc = "decide"
  /\ \/ ended[stage] # "ok" /\ Return("failed") /\ UNCHANGED stage
     \/ ended[stage] = "ok" /\ (TimedOut \/ Succeeded)
  /\ UNCHANGED <<commands, child, holders, expired, calls, ended, late>>

\* Mutant: whether the compiler succeeded is not looked at.
DecideUncompiled ==
  /\ pc = "decide"
  /\ \/ TimedOut
     \/ Failed /\ stage = Last
     \/ ~expired /\ stage < Last /\ pc' = "launch" /\ stage' = stage + 1
        /\ UNCHANGED <<workspaceVars, status>>
     \/ Succeeded /\ stage = Last
  /\ UNCHANGED <<commands, child, holders, expired, calls, ended, late>>

\* Mutant: a command is looked for after the last.
DecideBeyond ==
  /\ pc = "decide"
  /\ \/ TimedOut
     \/ Failed
     \/ ~expired /\ ended[stage] = "ok" /\ pc' = "launch" /\ stage' = stage + 1
        /\ UNCHANGED <<workspaceVars, status>>
  /\ UNCHANGED <<commands, child, holders, expired, calls, ended, late>>

\* ctx.Err() is looked at before err.
Decide ==
  /\ pc = "decide"
  /\ TimedOut \/ Failed \/ Succeeded
  /\ UNCHANGED <<commands, child, holders, expired, calls, ended, late>>

-----------------------------------------------------------------------------
(* The operating system, and what the code of a job does                   *)

\* Mutant: only the compiler has a time limit.
ExpireCompiler ==
  /\ pc \in {"command", "decide"}
  /\ ~expired
  /\ stage = 1
  /\ expired' = TRUE
  /\ late' = late \cup {stage}
  /\ UNCHANGED <<commands, pc, stage, workspaceVars, child, holders, status, calls,
                 ended>>

\* The deadline may pass between the return of CombinedOutput and ctx.Err().
Expire ==
  /\ pc \in {"command", "decide"}
  /\ ~expired
  /\ expired' = TRUE
  /\ late' = late \cup {stage}
  /\ UNCHANGED <<commands, pc, stage, workspaceVars, child, holders, status, calls,
                 ended>>

\* The goroutine that watches the context kills the child.
Kill ==
  /\ pc = "command"
  /\ expired
  /\ child = "running"
  /\ child' = "killed"
  /\ UNCHANGED <<commands, pc, stage, workspaceVars, holders, expired, status, calls,
                 ended, late>>

ChildEnds ==
  /\ child = "running"
  /\ child' \in {"ok", "error"}
  /\ UNCHANGED <<commands, pc, stage, workspaceVars, holders, expired, status, calls,
                 ended, late>>

Fork ==
  /\ child = "running"
  /\ holders < MaxHolders
  /\ holders' = holders + 1
  /\ UNCHANGED <<commands, pc, stage, workspaceVars, child, expired, status, calls,
                 ended, late>>

\* A descendant ends, or closes its output and lives on.
LetGo ==
  /\ holders > 0
  /\ holders' = holders - 1
  /\ UNCHANGED <<commands, pc, stage, workspaceVars, child, expired, status, calls,
                 ended, late>>

-----------------------------------------------------------------------------
ExecuteCode == MakeWorkspace \/ WriteSource \/ Launch \/ Collect \/ Decide

Next == Call \/ ExecuteCode \/ Expire \/ Kill \/ ChildEnds \/ Fork \/ LetGo

Spec == Init /\ [][Next]_vars

\* The worker runs, time passes and signals are delivered; a child may run for
\* ever, and so may its descendants.
LimitSpec == Spec /\ WF_vars(ExecuteCode) /\ WF_vars(Expire) /\ WF_vars(Kill)

\* As LimitSpec, for jobs whose descendants let go of the pipe.
FairSpec == LimitSpec /\ WF_vars(LetGo)

-----------------------------------------------------------------------------
(* Properties                                                              *)

\* The status a job is given is what happened to it: completed when each command
\* succeeded within its limit; timeout when the last one it came to ran out of
\* time, however it ended; failed when that one ended badly in time, or the
\* workspace could not be made.
StatusTruthful ==
  /\ status = "completed" => late = {} /\ \A i \in 1..Last : ended[i] = "ok"
  /\ status = "timeout" => stage \in late
  /\ status = "failed" => stage = 0 \/ (stage \notin late /\ ended[stage] = "error")

\* Only a program that its compiler has made in time is run, and only a command
\* whose time has run out is killed.
OnlyCompiledRuns ==
  /\ stage = 2 => ended[1] = "ok" /\ 1 \notin late
  /\ \A i \in 1..2 : ended[i] = "killed" => i \in late

\* Whichever way executeCode returns, it has tried to remove its workspace, so
\* that over any number of jobs the directories left are those RemoveAll itself
\* failed on; no child runs, and nobody writes to a pipe that nobody reads.
CleanReturn ==
  pc = "idle" => tmpDirs = undeleted /\ child # "running" /\ holders = 0

\* executeCode returns, if the descendants of what it starts let go of the pipe.
Returns == pc # "idle" ~> pc = "idle"

\* "Executes code in language runtime with timeout (`2s`)" (README.md:178) and
\* "runtime timeout -> `timeout` status" (README.md:560): a command whose time is
\* over does not keep executeCode.
TimeLimitEnds == pc = "command" /\ expired ~> pc # "command"

=============================================================================
