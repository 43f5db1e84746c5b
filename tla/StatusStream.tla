---------------------------- MODULE StatusStream ----------------------------
(***************************************************************************)
(* The polling server (polling-server/main.go): GET /consumer answers with *)
(* the status of an execution's Redis record, GET /consumer/stream repeats *)
(* the lookup every second until it has something final to say.            *)
(*                                                                         *)
(* The record is written, overwritten and expired by others while requests *)
(* are between their lookup and their answer.                              *)
(***************************************************************************)
EXTENDS Naturals

CONSTANTS
  Requests,   \* requests for the status of one execution
  Records,    \* what other programs may store under its key
  MaxOutages, \* bound: lookups that fail
  None

TerminalStatuses == {"completed", "failed", "timeout"}

\* redisExecutionRecord under the schema executionSchemaV1.  "" stands for a
\* status outside the four known ones, absent ones included; exitCode and
\* succeeded are pointers and may be nil.
ScopedRecord ==
  [schema : {"v1"},
   status : TerminalStatuses \cup {"queued", ""},
   timedOut : BOOLEAN, timeout : BOOLEAN,
   exitCode : {"nil", "zero", "nonzero"}, succeeded : {"nil", "true", "false"}]

\* Anything else: raw output of older sandboxes, JSON without the schema.
LegacyRecord == [schema : {"none"}]

\* client.go's redisExecutionRecord has a schema, a status and a body only.
SandboxRecord ==
  {r \in ScopedRecord : /\ r.status \in TerminalStatuses
                        /\ ~r.timedOut /\ ~r.timeout
                        /\ r.exitCode = "nil" /\ r.succeeded = "nil"}

ASSUME StreamAssumption ==
  /\ Records \subseteq ScopedRecord \cup LegacyRecord
  /\ MaxOutages \in Nat
  /\ None \notin Records

VARIABLES
  record,   \* the value of the key, None when it is not there
  request,  \* where each request is, and what it is about to answer
  last,     \* the last answer or event of each request
  truths,   \* history: what the record said since the lookup was begun
  outages   \* history: lookups that failed

vars == <<record, request, last, truths, outages>>

Statuses ==
  TerminalStatuses \cup {"queued", "invalid_request", "backend_unavailable"}

\* new, then lookup -> send -> wait -> lookup ..., and done.
RequestState == [kind : {"consumer", "stream"}, keyed : BOOLEAN,
                 pc : {"new", "lookup", "send", "wait", "done"},
                 answer : Statuses \cup {"none"}]

TypeOK ==
  /\ record \in Records \cup {None}
  /\ request \in [Requests -> RequestState]
  /\ last \in [Requests -> Statuses \cup {"none"}]
  /\ truths \in [Requests -> SUBSET Statuses]
  /\ outages \in 0..MaxOutages

Init ==
  /\ record = None
  /\ request \in [Requests -> {r \in RequestState : r.pc = "new" /\ r.answer = "none"}]
  /\ last = [q \in Requests |-> "none"]
  /\ truths = [q \in Requests |-> {}]
  /\ outages = 0

-----------------------------------------------------------------------------
(* parseStoredExecutionRecord and lookupExecutionStatus                    *)

\* Mutant: the stored status is passed on, whatever it is.
ParseStatusRaw(r) == r.status

\* Mutant: succeeded is not looked at.
ParseStatusUnflagged(r) ==
  CASE r.status # "" -> r.status
    [] r.status = "" /\ (r.timedOut \/ r.timeout) -> "timeout"
    [] r.status = "" /\ ~(r.timedOut \/ r.timeout) /\ r.exitCode = "nonzero" -> "failed"
    [] OTHER -> "completed"

\* The status of a scoped record; an unknown one is derived from the fields.
ParseStatus(r) ==
  CASE r.status # "" -> r.status
    [] r.status = "" /\ (r.timedOut \/ r.timeout) -> "timeout"
    [] r.status = "" /\ ~(r.timedOut \/ r.timeout)
         /\ (r.exitCode = "nonzero" \/ r.succeeded = "false") -> "failed"
    [] OTHER -> "completed"

\* What a lookup that Redis answers makes of the key.
Lookup(v) ==
  CASE v = None -> "queued"
    [] v # None /\ v \in ScopedRecord -> ParseStatus(v)
    [] OTHER -> "completed"

-----------------------------------------------------------------------------
(* Redis                                                                   *)

\* A record is stored, over another perhaps; what is being looked up
\* meanwhile may see either.
Write(r) ==
  /\ record # r
  /\ record' = r
  /\ truths' = [q \in Requests |->
                  IF request[q].pc = "lookup" THEN truths[q] \cup {Lookup(r)}
                                              ELSE truths[q]]
  /\ UNCHANGED <<request, last, outages>>

Expire ==
  /\ record # None
  /\ record' = None
  /\ truths' = [q \in Requests |->
                  IF request[q].pc = "lookup" THEN truths[q] \cup {"queued"}
                                              ELSE truths[q]]
  /\ UNCHANGED <<request, last, outages>>

-----------------------------------------------------------------------------
(* A request                                                               *)

\* lookupExecutionStatus is called: by the handler, or by the next turn of
\* the stream's loop after time.After(1 * time.Second).
BeginLookup(q) ==
  /\ request[q].pc \in {"new", "wait"}
  /\ request' = [request EXCEPT ![q].pc = "lookup"]
  /\ truths' = [truths EXCEPT ![q] = {Lookup(record)}]
  /\ UNCHANGED <<record, last, outages>>

Answering(q, status) ==
  request' = [request EXCEPT ![q] =
                [kind |-> @.kind, keyed |-> @.keyed, pc |-> "send",
                 answer |-> status]]

\* The empty key is refused before Redis is asked.
RefuseKey(q) ==
  /\ request[q].pc = "lookup"
  /\ ~request[q].keyed
  /\ Answering(q, "invalid_request")
  /\ UNCHANGED <<record, last, truths, outages>>

\* Mutant: the first answer of a request is kept for its later turns.
ReadRecordOnce(q) ==
  /\ request[q].pc = "lookup"
  /\ request[q].keyed
  /\ Answering(q, IF last[q] = "none" THEN Lookup(record) ELSE last[q])
  /\ UNCHANGED <<record, last, truths, outages>>

ReadRecord(q) ==
  /\ request[q].pc = "lookup"
  /\ request[q].keyed
  /\ Answering(q, Lookup(record))
  /\ UNCHANGED <<record, last, truths, outages>>

\* Redis answers with an error, or not within three seconds.
ReadFails(q) ==
  /\ request[q].pc = "lookup"
  /\ request[q].keyed
  /\ outages < MaxOutages
  /\ outages' = outages + 1
  /\ Answering(q, "backend_unavailable")
  /\ UNCHANGED <<record, last, truths>>

\* Mutant: a failed execution is not taken for a terminal one.
FinalUnlessFailed(status) == status \notin {"queued", "failed"}

\* The statuses after which the stream returns: those not sent with 200 OK,
\* and the terminal ones.
Final(status) == status # "queued"

\* Mutant: only errors end the stream.
SendUntilError(q) ==
  LET r == request[q]
  IN  /\ r.pc = "send"
      /\ last' = [last EXCEPT ![q] = r.answer]
      /\ request' = [request EXCEPT ![q].pc =
                       IF \/ r.kind = "consumer"
                          \/ r.answer \in {"invalid_request", "backend_unavailable"}
                       THEN "done" ELSE "wait"]
      /\ UNCHANGED <<record, truths, outages>>

\* c.JSON, or sendStatus and the decision whether to go on.
Send(q) ==
  LET r == request[q]
  IN  /\ r.pc = "send"
      /\ last' = [last EXCEPT ![q] = r.answer]
      /\ request' = [request EXCEPT ![q].pc =
                       IF r.kind = "consumer" \/ Final(r.answer) THEN "done"
                                                                 ELSE "wait"]
      /\ UNCHANGED <<record, truths, outages>>

\* The client goes away, which the loop notices between two lookups.  During
\* a lookup it makes the lookup fail: its answer reaches nobody.
Disconnect(q) ==
  /\ request[q].pc \in {"lookup", "wait"}
  /\ request' = [request EXCEPT ![q].pc = "done"]
  /\ UNCHANGED <<record, last, truths, outages>>

Serve(q) ==
  BeginLookup(q) \/ RefuseKey(q) \/ ReadRecord(q) \/ ReadFails(q) \/ Send(q)

Next ==
  \/ \E r \in Records : Write(r)
  \/ Expire
  \/ \E q \in Requests : Serve(q) \/ Disconnect(q)

Spec == Init /\ [][Next]_vars

\* The server runs its handlers and Redis answers or the three seconds pass.
FairSpec == Spec /\ \A q \in Requests : WF_vars(Serve(q))

-----------------------------------------------------------------------------
(* Properties                                                              *)

\* A result is reported as the sandbox stored it, and a record that carries
\* any sign of failure is never taken for a success unless it says it is one.
ResultsReadBack ==
  record # None =>
    /\ record \in SandboxRecord => Lookup(record) = record.status
    /\ (record \in ScopedRecord /\ Lookup(record) = "completed") =>
         \/ record.status = "completed"
         \/ ~record.timedOut /\ ~record.timeout /\ record.exitCode # "nonzero"
              /\ record.succeeded # "false"

\* An answer may be stale when it arrives, but it was true of the record at
\* some time since its own lookup was begun; nothing is carried over from an
\* earlier turn of the loop.
AnswersWereTrue ==
  \A q \in Requests :
    request[q].pc = "send" =>
      request[q].answer \in truths[q] \cup {"invalid_request", "backend_unavailable"}

\* After its final event a stream says nothing more, and it never contradicts
\* one: no "queued" after "completed", whatever happens to the record.
FinalIsLast ==
  [][\A q \in Requests : Final(last[q]) /\ last[q] # "none" => last'[q] = last[q]]_vars

\* A stream ends once its execution has a result that stays, or is refused.
StreamsEnd ==
  \A q \in Requests :
    <>[](record # None /\ Lookup(record) # "queued") =>
      (request[q].pc = "lookup" ~> request[q].pc = "done")

=============================================================================
