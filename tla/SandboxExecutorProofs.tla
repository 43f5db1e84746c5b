------------------------ MODULE SandboxExecutorProofs ------------------------
(***************************************************************************)
(* Theorems about SandboxExecutor, for any number of descendants and jobs. *)
(***************************************************************************)
EXTENDS SandboxExecutor, TLAPS

\* Nothing of a command is left when its CombinedOutput has returned.
Quiet ==
  /\ pc # "command" => child # "running" /\ holders = 0
  /\ pc = "command" => child # "none"

\* Each call makes a workspace at most, and on all others RemoveAll has failed.
WorkspacesFit ==
  /\ pc \in {"idle", "mkdir"} => tmpDirs = undeleted
  /\ tmpDirs \in {undeleted, undeleted + 1}
  /\ undeleted + (IF pc = "idle" THEN 0 ELSE 1) <= calls

\* Where executeCode is determines the command it is at.
StageFits ==
  /\ pc \in {"mkdir", "source"} => stage = 0 /\ Last = 2
  /\ pc \in {"launch", "command", "decide"} => stage \in 1..Last
  /\ pc # "idle" => status = "none"

\* The history says nothing of commands that executeCode has not come to, and
\* that those it has left ended well and in time.
HistoryFits ==
  /\ \A i \in 1..2 : i > stage => ended[i] = "none" /\ i \notin late
  /\ stage = 2 => ended[1] = "ok" /\ 1 \notin late
  /\ pc = "launch" => ended[stage] = "none" /\ stage \notin late
  /\ pc = "command" => ended[stage] = "none" /\ (child = "killed" => stage \in late)
  /\ pc = "decide" => ended[stage] # "none"
  /\ pc \in {"command", "decide"} => (expired <=> stage \in late)

IInv ==
  /\ TypeOK /\ Quiet /\ WorkspacesFit /\ StageFits /\ HistoryFits
  /\ StatusTruthful /\ OnlyCompiledRuns

\* A sandbox runs one command or two, always the same.
LEMMA CommandCount ==
  ASSUME TypeOK
  PROVE  Last \in 1..2 /\ ([Next]_vars => Last' = Last)
  <1>1. Last \in 1..2
    BY DEF TypeOK, Last, Sandboxes, NodeSandbox, PythonSandbox, CSandbox, CppSandbox
  <1>2. [Next]_vars => commands' = commands
    BY DEF Next, ExecuteCode, Call, MakeWorkspace, WriteSource, Launch, Collect, Decide,
           Expire, Kill, ChildEnds, Fork, LetGo, vars
  <1> QED
    BY <1>1, <1>2 DEF Last

LEMMA InitInv == Init => IInv
  <1> SUFFICES ASSUME Init
               PROVE  IInv
    OBVIOUS
  <1>1. TypeOK
    <2>1. commands \in Sandboxes /\ stage \in 0..Last
      BY DEF Init, Last, Sandboxes, NodeSandbox, PythonSandbox, CSandbox, CppSandbox
    <2>2. /\ holders \in 0..MaxHolders /\ calls \in 0..MaxCalls
          /\ tmpDirs \in 0..MaxCalls /\ undeleted \in 0..MaxCalls
      BY ExecutorAssumption DEF Init
    <2> QED
      BY <2>1, <2>2 DEF Init, TypeOK, Ends
  <1> QED
    BY <1>1 DEF Init, IInv, Quiet, WorkspacesFit, StageFits, HistoryFits,
                StatusTruthful, OnlyCompiledRuns

\* Returning leaves no more workspaces than calls.
LEMMA ReturnTypes ==
  ASSUME TypeOK, WorkspacesFit, pc # "idle", NEW result, Return(result)
  PROVE  tmpDirs' \in 0..MaxCalls /\ undeleted' \in 0..MaxCalls
  BY ExecutorAssumption DEF TypeOK, WorkspacesFit, Return

\* The operating system and the job's own code.
Outside == Expire \/ Kill \/ ChildEnds \/ Fork \/ LetGo

LEMMA TypeOKStep ==
  ASSUME IInv, [Next]_vars
  PROVE  TypeOK'
  <1> USE ExecutorAssumption DEF IInv, TypeOK, Ends, workspaceVars
  <1>0. Last \in 1..2 /\ Last' = Last
    BY CommandCount DEF IInv
  <1>1. CASE Call
    <2>1. calls' \in 0..MaxCalls /\ stage' \in 0..Last'
      BY <1>0, <1>1 DEF Call
    <2> QED
      BY <1>0, <1>1, <2>1 DEF Call
  <1>2. CASE MakeWorkspace
    <2>1. tmpDirs' \in 0..MaxCalls /\ undeleted' \in 0..MaxCalls
      BY <1>2, ReturnTypes DEF MakeWorkspace, WorkspacesFit
    <2> QED
      BY <1>0, <1>2, <2>1 DEF MakeWorkspace, Return
  <1>3. CASE WriteSource
    <2>1. stage' \in 0..Last'
      BY <1>0, <1>3 DEF WriteSource, Return
    <2>2. tmpDirs' \in 0..MaxCalls /\ undeleted' \in 0..MaxCalls
      BY <1>3, ReturnTypes DEF WriteSource, workspaceVars
    <2> QED
      BY <1>3, <2>1, <2>2 DEF WriteSource, Return
  <1>4. CASE Launch
    BY <1>0, <1>4 DEF Launch
  <1>5. CASE Collect
    BY <1>0, <1>5 DEF Collect
  <1>6. CASE Decide
    <2>1. stage' \in 0..Last'
      BY <1>0, <1>6 DEF Decide, TimedOut, Failed, Succeeded, Return
    <2>2. tmpDirs' \in 0..MaxCalls /\ undeleted' \in 0..MaxCalls
      BY <1>6, ReturnTypes DEF Decide, TimedOut, Failed, Succeeded, workspaceVars
    <2> QED
      BY <1>0, <1>6, <2>1, <2>2 DEF Decide, TimedOut, Failed, Succeeded, Return
  <1>7. CASE Expire
    <2>1. stage \in 1..2
      BY <1>0, <1>7 DEF Expire, StageFits
    <2> QED
      BY <1>0, <1>7, <2>1 DEF Expire
  <1>8. CASE Kill
    BY <1>0, <1>8 DEF Kill
  <1>9. CASE ChildEnds
    BY <1>0, <1>9 DEF ChildEnds
  <1>10. CASE Fork
    BY <1>0, <1>10 DEF Fork
  <1>11. CASE LetGo
    BY <1>0, <1>11 DEF LetGo
  <1>12. CASE UNCHANGED vars
    BY <1>0, <1>12 DEF vars
  <1> QED
    BY <1>1, <1>2, <1>3, <1>4, <1>5, <1>6, <1>7, <1>8, <1>9, <1>10, <1>11, <1>12
    DEF Next, ExecuteCode

LEMMA QuietStep ==
  ASSUME IInv, [Next]_vars
  PROVE  Quiet'
  <1> USE DEF IInv, TypeOK, Quiet
  <1>1. CASE Call
    BY <1>1 DEF Call
  <1>2. CASE ExecuteCode
    BY <1>2 DEF ExecuteCode, MakeWorkspace, WriteSource, Launch, Collect, Decide,
                TimedOut, Failed, Succeeded, Return
  <1>3. CASE Outside
    BY <1>3 DEF Outside, Expire, Kill, ChildEnds, Fork, LetGo
  <1>4. CASE UNCHANGED vars
    BY <1>4 DEF vars
  <1> QED
    BY <1>1, <1>2, <1>3, <1>4 DEF Next, Outside

LEMMA WorkspacesFitStep ==
  ASSUME IInv, [Next]_vars
  PROVE  WorkspacesFit'
  <1> USE DEF IInv, TypeOK, WorkspacesFit, workspaceVars
  <1>1. CASE Call
    BY <1>1 DEF Call
  <1>2. CASE MakeWorkspace \/ WriteSource
    BY <1>2 DEF MakeWorkspace, WriteSource, Return
  <1>3. CASE Launch \/ Collect
    BY <1>3 DEF Launch, Collect
  <1>4. CASE Decide
    BY <1>4 DEF Decide, TimedOut, Failed, Succeeded, Return
  <1>5. CASE Outside
    BY <1>5 DEF Outside, Expire, Kill, ChildEnds, Fork, LetGo
  <1>6. CASE UNCHANGED vars
    BY <1>6 DEF vars
  <1> QED
    BY <1>1, <1>2, <1>3, <1>4, <1>5, <1>6 DEF Next, ExecuteCode, Outside

LEMMA StageFitsStep ==
  ASSUME IInv, [Next]_vars
  PROVE  StageFits'
  <1> USE DEF IInv, TypeOK, StageFits
  <1>0. Last \in 1..2 /\ Last' = Last
    BY CommandCount DEF IInv
  <1>1. CASE Call
    BY <1>0, <1>1 DEF Call, Compiled
  <1>2. CASE MakeWorkspace \/ WriteSource \/ Launch \/ Collect
    BY <1>0, <1>2 DEF MakeWorkspace, WriteSource, Launch, Collect, Return
  <1>3. CASE Decide
    BY <1>0, <1>3 DEF Decide, TimedOut, Failed, Succeeded, Return
  <1>4. CASE Outside
    BY <1>0, <1>4 DEF Outside, Expire, Kill, ChildEnds, Fork, LetGo
  <1>5. CASE UNCHANGED vars
    BY <1>0, <1>5 DEF vars
  <1> QED
    BY <1>1, <1>2, <1>3, <1>4, <1>5 DEF Next, ExecuteCode, Outside

LEMMA HistoryFitsStep ==
  ASSUME IInv, [Next]_vars
  PROVE  HistoryFits'
  <1> USE DEF IInv, TypeOK, StageFits, HistoryFits, Ends
  <1>0. Last \in 1..2 /\ Last' = Last
    BY CommandCount DEF IInv
  <1>1. CASE Call
    BY <1>0, <1>1 DEF Call
  <1>2. CASE MakeWorkspace \/ WriteSource
    BY <1>0, <1>2 DEF MakeWorkspace, WriteSource, Return
  <1>3. CASE Launch
    BY <1>0, <1>3 DEF Launch
  <1>4. CASE Collect
    <2>1. child \in Ends \cup {"none"}
      BY <1>0, <1>4 DEF Collect
    <2>2. child # "none"
      BY <1>0, <1>4 DEF Collect, Quiet
    <2> QED
      BY <1>0, <1>4, <2>1, <2>2 DEF Collect
  <1>5. CASE Decide
    BY <1>0, <1>5 DEF Decide, TimedOut, Failed, Succeeded, Return
  <1>6. CASE Expire
    BY <1>0, <1>6 DEF Expire
  <1>7. CASE Kill \/ ChildEnds \/ Fork \/ LetGo
    BY <1>0, <1>7 DEF Kill, ChildEnds, Fork, LetGo
  <1>8. CASE UNCHANGED vars
    BY <1>0, <1>8 DEF vars
  <1> QED
    BY <1>1, <1>2, <1>3, <1>4, <1>5, <1>6, <1>7, <1>8 DEF Next, ExecuteCode

\* Only the steps that return set the status, and only they need HistoryFits.
LEMMA StatusTruthfulStep ==
  ASSUME IInv, [Next]_vars
  PROVE  StatusTruthful'
  <1> USE DEF IInv, TypeOK, StageFits, HistoryFits, StatusTruthful, Ends
  <1>0. Last \in 1..2 /\ Last' = Last
    BY CommandCount DEF IInv
  <1>1. CASE Call
    BY <1>0, <1>1 DEF Call
  <1>2. CASE MakeWorkspace \/ WriteSource
    BY <1>0, <1>2 DEF MakeWorkspace, WriteSource, Return
  <1>3. CASE Launch \/ Collect
    BY <1>0, <1>3 DEF Launch, Collect
  <1>4. CASE Decide
    <2>1. CASE TimedOut
      BY <1>0, <1>4, <2>1 DEF Decide, TimedOut, Return
    <2>2. CASE Failed
      BY <1>0, <1>4, <2>2 DEF Decide, Failed, Return, OnlyCompiledRuns
    <2>3. CASE Succeeded
      BY <1>0, <1>4, <2>3 DEF Decide, Succeeded, Return
    <2> QED
      BY <1>0, <1>4, <2>1, <2>2, <2>3 DEF Decide
  <1>5. CASE Outside
    BY <1>0, <1>5 DEF Outside, Expire, Kill, ChildEnds, Fork, LetGo, Quiet
  <1>6. CASE UNCHANGED vars
    BY <1>0, <1>6 DEF vars
  <1> QED
    BY <1>1, <1>2, <1>3, <1>4, <1>5, <1>6 DEF Next, ExecuteCode, Outside

LEMMA OnlyCompiledRunsStep ==
  ASSUME IInv, [Next]_vars
  PROVE  OnlyCompiledRuns'
  <1> USE DEF IInv, TypeOK, StageFits, HistoryFits, OnlyCompiledRuns, Ends
  <1>0. Last \in 1..2 /\ Last' = Last
    BY CommandCount DEF IInv
  <1>1. CASE Call
    BY <1>0, <1>1 DEF Call
  <1>2. CASE MakeWorkspace \/ WriteSource
    BY <1>0, <1>2 DEF MakeWorkspace, WriteSource, Return
  <1>3. CASE Launch
    BY <1>0, <1>3 DEF Launch
  <1>4. CASE Collect
    BY <1>0, <1>4 DEF Collect
  <1>5. CASE Decide
    BY <1>0, <1>5 DEF Decide, TimedOut, Failed, Succeeded, Return
  <1>6. CASE Outside
    BY <1>0, <1>6 DEF Outside, Expire, Kill, ChildEnds, Fork, LetGo
  <1>7. CASE UNCHANGED vars
    BY <1>0, <1>7 DEF vars
  <1> QED
    BY <1>1, <1>2, <1>3, <1>4, <1>5, <1>6, <1>7 DEF Next, ExecuteCode, Outside

\* The inductive invariant.
LEMMA ExecutorInvariant == Spec => []IInv
  <1>1. IInv /\ [Next]_vars => IInv'
    BY TypeOKStep, QuietStep, WorkspacesFitStep, StageFitsStep, HistoryFitsStep,
       StatusTruthfulStep, OnlyCompiledRunsStep DEF IInv
  <1> QED
    BY <1>1, InitInv, PTL DEF Spec

\* The variables keep their types; the command executeCode is at exists.
THEOREM ExecutorTypeCorrect == Spec => []TypeOK
  <1>1. IInv => TypeOK
    BY DEF IInv
  <1> QED
    BY <1>1, ExecutorInvariant, PTL

\* However the deadline, the exit of the child and the descendants interleave, the
\* status executeCode returns is what happened.
THEOREM StatusIsTrue == Spec => []StatusTruthful
  <1>1. IInv => StatusTruthful
    BY DEF IInv
  <1> QED
    BY <1>1, ExecutorInvariant, PTL

\* Nothing runs that was not compiled in time, and nothing in time is killed.
THEOREM RunsWhatCompiled == Spec => []OnlyCompiledRuns
  <1>1. IInv => OnlyCompiledRuns
    BY DEF IInv
  <1> QED
    BY <1>1, ExecutorInvariant, PTL

\* Every way out of executeCode waits for its child and for all that hold its
\* pipe, and leaves a workspace only where RemoveAll has failed on it: over any
\* number of jobs there are as many of these as there are directories left.
THEOREM ReturnsClean == Spec => []CleanReturn
  <1>1. IInv => CleanReturn
    BY DEF IInv, Quiet, WorkspacesFit, CleanReturn
  <1> QED
    BY <1>1, ExecutorInvariant, PTL

=============================================================================
