---------------------------- MODULE AtLeastOnce ----------------------------
(***************************************************************************)
(* What the execution pipeline promises of a job, whatever happens to      *)
(* processes, connections and SETs: a program is started again only on     *)
(* account of a fault, and its record is the status one of its executions  *)
(* ended with.  The record may go back to that of an earlier execution,    *)
(* and is written up to Attempts times for each of them.                   *)
(* Nothing is promised about a job ever being started or answered.         *)
(***************************************************************************)
EXTENDS Naturals

CONSTANTS Jobs, Statuses, NoRecord, Attempts

VARIABLES
  published,  \* jobs handed to the queue
  runs,       \* how often each program was started
  ended,      \* the statuses its executions ended with
  writes,     \* how often its record was written
  rec,        \* the record
  faults      \* crashes and lost connections

vars == <<published, runs, ended, writes, rec, faults>>

TypeOK ==
  /\ published \subseteq Jobs
  /\ runs \in [Jobs -> Nat]
  /\ ended \in [Jobs -> SUBSET Statuses]
  /\ writes \in [Jobs -> Nat]
  /\ rec \in [Jobs -> Statuses \cup {NoRecord}]
  /\ faults \in Nat

Init ==
  /\ published = {}
  /\ runs = [j \in Jobs |-> 0]
  /\ ended = [j \in Jobs |-> {}]
  /\ writes = [j \in Jobs |-> 0]
  /\ rec = [j \in Jobs |-> NoRecord]
  /\ faults = 0

Submit(j) ==
  /\ j \notin published
  /\ published' = published \cup {j}
  /\ UNCHANGED <<runs, ended, writes, rec, faults>>

Start(j) ==
  /\ j \in published
  /\ runs[j] <= faults
  /\ runs' = [runs EXCEPT ![j] = @ + 1]
  /\ UNCHANGED <<published, ended, writes, rec, faults>>

End(j) ==
  /\ runs[j] > 0
  /\ \E s \in Statuses : ended' = [ended EXCEPT ![j] = @ \cup {s}]
  /\ UNCHANGED <<published, runs, writes, rec, faults>>

Write(j) ==
  /\ writes[j] < Attempts * runs[j]
  /\ writes' = [writes EXCEPT ![j] = @ + 1]
  /\ \E s \in ended[j] : rec' = [rec EXCEPT ![j] = s]
  /\ UNCHANGED <<published, runs, ended, faults>>

Forget(j) ==
  /\ rec' = [rec EXCEPT ![j] = NoRecord]
  /\ UNCHANGED <<published, runs, ended, writes, faults>>

Fault ==
  /\ faults' = faults + 1
  /\ UNCHANGED <<published, runs, ended, writes, rec>>

Next ==
  \/ \E j \in Jobs : Submit(j) \/ Start(j) \/ End(j) \/ Write(j) \/ Forget(j)
  \/ Fault

Spec == Init /\ [][Next]_vars

-----------------------------------------------------------------------------
\* What a reader of records can conclude: a record tells how a program that was
\* handed in and started once ended, it was written for an execution of that
\* program, and a program that was started twice met a fault.
RecordsTell ==
  \A j \in Jobs :
    /\ runs[j] > 0 => j \in published
    /\ runs[j] <= 1 + faults
    /\ writes[j] <= Attempts * runs[j]
    /\ rec[j] # NoRecord => rec[j] \in ended[j]
    /\ ended[j] # {} => runs[j] > 0

=============================================================================
