------------------------------ MODULE RunHistory ------------------------------
(***************************************************************************)
(* The list of recent runs that useExecutionRunner keeps and stores in the *)
(* browser (client/src/utils/storage.ts), around ExecutionRunner, whose    *)
(* `history' is the status last filed under each execution.                *)
(*                                                                         *)
(* The list is cut at a limit, an execution filed again moves to its       *)
(* front, and every tab of the browser writes its whole list over what the *)
(* others stored.                                                          *)
(***************************************************************************)
EXTENDS ExecutionRunner, Sequences, FiniteSets

CONSTANTS
  HistoryLimit,
  StoredLists  \* bound: lists stored by earlier visits and other tabs

VARIABLES
  entries,  \* the list of recent runs
  storage,  \* what the browser stores
  full,     \* whether the browser refuses to store more
  recency,  \* history: the executions filed, the latest first, never cut
  ours      \* history: what is stored is what this page stored last

listVars == <<entries, storage, full, recency, ours>>
runVars == <<vars, listVars>>

Entry(e, s) == [id |-> e, status |-> s]

\* Something in the storage that isRunHistoryEntry rejects.
Junk == Entry(None, "none")

Entries == [id : Executions, status : ExecutionStatuses]

\* Every tab files an execution once.
WellFormed(list) ==
  /\ list \in Seq(Entries \cup {Junk})
  /\ \A i, j \in DOMAIN list : list[i].id = list[j].id /\ list[i] # Junk => i = j

ASSUME HistoryAssumption ==
  /\ HistoryLimit \in Nat \ {0}
  /\ \A list \in StoredLists : WellFormed(list)

Cut(list) ==
  SubSeq(list, 1, IF Len(list) < HistoryLimit THEN Len(list) ELSE HistoryLimit)

IsRunHistoryEntry(entry) == entry # Junk

\* Array.filter: the elements at some positions, in order.
Filtered(list, kept) ==
  LET Nth(n) == CHOOSE i \in kept : Cardinality({j \in kept : j <= i}) = n
  IN  [n \in 1..Cardinality(kept) |-> list[Nth(n)]]

\* The stored entries that isRunHistoryEntry accepts.
Readable(list) ==
  Filtered(list, {i \in DOMAIN list : IsRunHistoryEntry(list[i])})

\* loadRunHistory.
Load(list) == Cut(Readable(list))

\* Mutant: an entry is replaced where it stands.
UpsertInPlace(list, entry) ==
  IF \E i \in DOMAIN list : list[i].id = entry.id
  THEN [i \in DOMAIN list |-> IF list[i].id = entry.id THEN entry ELSE list[i]]
  ELSE Cut(<<entry>> \o list)

\* upsertHistoryEntry.
Upsert(list, entry) ==
  Cut(<<entry>> \o Filtered(list, {i \in DOMAIN list : list[i].id # entry.id}))

Ids(list) == [i \in DOMAIN list |-> list[i].id]

\* What is stored of an execution is what its record has been.
StoredTruly(list) ==
  \A i \in DOMAIN list : IsRunHistoryEntry(list[i]) =>
    /\ list[i].id \in issued
    /\ list[i].status \in Outcomes => list[i].status \in answers[list[i].id]

RunInit ==
  /\ Init
  /\ storage \in {list \in StoredLists : StoredTruly(list)}
  /\ entries = Load(storage)
  /\ full \in BOOLEAN
  /\ recency = Ids(Readable(storage))
  /\ ours = FALSE

-----------------------------------------------------------------------------
\* Mutant: the list before the update is stored.
SaveStale(list) ==
  /\ entries' = list
  /\ storage' = IF full THEN storage ELSE entries
  /\ ours' = ~full
  /\ UNCHANGED full

\* persistHistory and saveRunHistory, which ignores that the storage is full.
Save(list) ==
  /\ entries' = list
  /\ storage' = IF full THEN storage ELSE Cut(list)
  /\ ours' = ~full
  /\ UNCHANGED full

\* updateHistoryForExecution.
File(e, s) ==
  /\ Save(Upsert(entries, Entry(e, s)))
  /\ recency' = <<e>> \o Filtered(recency, {i \in DOMAIN recency : recency[i] # e})

Begin(e) ==
  /\ SubmitAccepted(e) \/ WatchExecution(e)
  /\ File(e, "queued")

FileStreamEvent ==
  /\ StreamEvent
  /\ File(source.id, source.event)

FilePollAnswer(l) ==
  /\ PollAnswered(l)
  /\ File(loop[l].id, loop[l].answer)

Clear ==
  /\ ClearHistory
  /\ Save(<<>>)
  /\ recency' = <<>>

\* initialHistory is read when the page is loaded.
LoadPage ==
  /\ Reload
  /\ entries' = Load(storage)
  /\ recency' = Ids(Readable(storage))
  /\ UNCHANGED <<storage, full, ours>>

\* Another tab files or clears, and stores its list.
OtherTabSaves ==
  /\ ~full
  /\ ours
  /\ storage' \in {list \in StoredLists : StoredTruly(list) /\ list = Load(list)}
  /\ ours' = FALSE
  /\ UNCHANGED <<vars, entries, full, recency>>

\* Everything that files nothing.
Elsewhere ==
  /\ RunExecution \/ SubmitRejected \/ StopWatching \/ Server \/ StreamOpens
     \/ \E l \in Loops : StreamBreaks(l) \/ StreamEnds(l) \/ PollFails(l)
                         \/ TimerFires(l)
  /\ UNCHANGED listVars

RunNext ==
  \/ \E e \in Executions : Begin(e)
  \/ FileStreamEvent
  \/ \E l \in Loops : FilePollAnswer(l)
  \/ Clear \/ LoadPage \/ OtherTabSaves \/ Elsewhere

RunSpec == RunInit /\ [][RunNext]_runVars

-----------------------------------------------------------------------------
(* Properties                                                              *)

\* Cutting the list at every update loses nothing that cutting it once would
\* keep: the page lists the executions filed last, each once, the latest
\* first, one that had fallen out and is filed again included; and an outcome
\* it lists is one the execution had.
RecentRuns ==
  /\ Ids(entries) = Cut(recency)
  /\ \A i \in DOMAIN entries :
       entries[i].status \in Outcomes => entries[i].status \in answers[entries[i].id]

\* What the page lists is what it would list after being loaded again, until
\* another tab stores its own list or the browser stores no more.
ShownIsStored == ours => Load(storage) = entries

=============================================================================
