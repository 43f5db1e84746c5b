--------------------------- MODULE SandboxPipeline ---------------------------
(***************************************************************************)
(* The path of an execution from the language queue to its Redis record:   *)
(* one RabbitMQ queue, the sandbox processes that consume it               *)
(* (sandboxes/client/client.go) and the keys they write.                   *)
(*                                                                         *)
(* A sandbox process is three goroutines joined by two unbuffered          *)
(* channels: consumer --ds--> sandboxWorker --responses--> redisWorker.    *)
(* The delivery is acknowledged between the two channels, so the result of *)
(* an acknowledged job lives only in the memory of the process until       *)
(* redisWorker's SET; the broker meanwhile delivers the next job.          *)
(*                                                                         *)
(* The broker and Redis are not in the repository.  They are modelled from *)
(* how client.go and producer.ts use them: prefetch 1, manual ack, a       *)
(* per-message TTL, transient messages, an optional dead-letter exchange.  *)
(* The Redis client is go-redis (go.mod: v9.0.5) with its default options: *)
(* a SET that times out or whose connection ends is sent again, and the    *)
(* one given up may still be applied, even after others.                   *)
(***************************************************************************)
EXTENDS Naturals, FiniteSets

CONSTANTS
  Jobs,          \* correlation ids; randomUUID makes each a job of its own
  Malformed,     \* jobs whose body json.Unmarshal rejects
  Hanging,       \* programs that may outlive their time limit (see Fairness)
  Workers,       \* sandbox processes consuming this language queue
  InitialQueue,  \* how the queue is declared at the broker at the start
  MaxRetries,    \* how often go-redis sends a SET again (by default 3)
  Outcomes,      \* the statuses that executions end with
  MaxFaults,     \* bound: crashes and lost connections together
  MaxLate,       \* bound: SETs of a job that may be applied late, at a time
  None

Statuses == {"completed", "failed", "timeout"}

\* utils.Response; ReplyTo is never read and Body goes with the status.
Response == [id : Jobs, status : Statuses]

QueueKinds == {"absent", "plain", "dlx"}

ASSUME PipelineAssumption ==
  /\ IsFiniteSet(Jobs)
  /\ IsFiniteSet(Workers)
  /\ Malformed \subseteq Jobs
  /\ Hanging \subseteq Jobs
  /\ InitialQueue \in QueueKinds
  /\ MaxRetries \in Nat
  /\ Outcomes \subseteq Statuses
  /\ MaxFaults \in Nat
  /\ MaxLate \in Nat
  /\ None \notin Jobs \cup Statuses
  /\ None \notin Response

VARIABLES
  queue,    \* the declaration of the queue at the broker
  msg,      \* the broker's view of each job's message
  held,     \* the one unacknowledged delivery on a process's channel
  frame,    \* an ack or nack written to the socket, not yet handled
  proc,     \* life of the process and of its connection
  inbox,    \* a delivery the consumer goroutine is passing to ds
  sandbox,  \* sandboxWorker: where it is, its job and its result
  saving,   \* the response redisWorker is writing
  tries,    \* how often its SET has been sent and given up
  wire,     \* SETs given up that Redis may yet apply, and how many of each
  rec,      \* the Redis record of a job
  runs,     \* history: how often the job's program was started
  ended,    \* history: the statuses that executions of the job ended with
  writes,   \* history: how often the job's record was written
  crashes,  \* history: processes that died
  severs    \* history: connections lost, broker restarts included

brokerVars == <<queue, msg, held, frame>>
saveVars == <<saving, tries>>
memoryVars == <<inbox, sandbox, saveVars>>
storeVars == <<wire, rec, writes>>
runVars == <<runs, ended>>
faultVars == <<crashes, severs>>
vars == <<brokerVars, proc, memoryVars, storeVars, runVars, faultVars>>

\* "severed": the broker has dropped the connection and the process does
\* not know yet.  "stalled": it knows; consumer has left its range loop,
\* nobody closes ds, and the other two goroutines block for ever.
ProcStates == {"down", "declared", "up", "severed", "stalled"}

Idle == [pc |-> "idle", job |-> None, status |-> None]

SandboxState == [pc : {"idle", "exec", "done", "reply"},
                 job : Jobs \cup {None},
                 status : Statuses \cup {None}]

TypeOK ==
  /\ queue \in QueueKinds
  /\ msg \in [Jobs -> {"new", "ready", "out", "settled", "dead", "dropped"}]
  /\ held \in [Workers -> Jobs \cup {None}]
  /\ frame \in [Workers -> {"none", "ack", "nack"}]
  /\ proc \in [Workers -> ProcStates]
  /\ inbox \in [Workers -> Jobs \cup {None}]
  /\ sandbox \in [Workers -> SandboxState]
  /\ saving \in [Workers -> Response \cup {None}]
  /\ tries \in [Workers -> 0..MaxRetries]
  /\ wire \in [Response -> Nat]
  /\ rec \in [Jobs -> Statuses \cup {"none"}]
  /\ runs \in [Jobs -> Nat]
  /\ ended \in [Jobs -> SUBSET Statuses]
  /\ writes \in [Jobs -> Nat]
  /\ crashes \in Nat
  /\ severs \in Nat

Init ==
  /\ queue = InitialQueue
  /\ msg = [j \in Jobs |-> "new"]
  /\ held = [w \in Workers |-> None]
  /\ frame = [w \in Workers |-> "none"]
  /\ proc = [w \in Workers |-> "down"]
  /\ inbox = [w \in Workers |-> None]
  /\ sandbox = [w \in Workers |-> Idle]
  /\ saving = [w \in Workers |-> None]
  /\ tries = [w \in Workers |-> 0]
  /\ wire = [r \in Response |-> 0]
  /\ rec = [j \in Jobs |-> "none"]
  /\ runs = [j \in Jobs |-> 0]
  /\ ended = [j \in Jobs |-> {}]
  /\ writes = [j \in Jobs |-> 0]
  /\ crashes = 0
  /\ severs = 0

faults == crashes + severs

Running(w) == proc[w] \in {"up", "severed", "stalled"}

-----------------------------------------------------------------------------
(* The broker                                                              *)

\* produceMessage's sendToQueue: the default exchange drops a message for a
\* queue nobody has declared, and the API has answered 202 all the same.
Publish(j) ==
  /\ msg[j] = "new"
  /\ msg' = [msg EXCEPT ![j] = IF queue = "absent" THEN "dropped" ELSE "ready"]
  /\ UNCHANGED <<queue, held, frame, proc, memoryVars, storeVars, runVars,
                 faultVars>>

\* Where an expired or rejected message goes.
RejectTarget == IF queue = "dlx" THEN "dead" ELSE "dropped"

\* The 30 s expiration of a message that is waiting in the queue.
ExpireMessage(j) ==
  /\ msg[j] = "ready"
  /\ msg' = [msg EXCEPT ![j] = RejectTarget]
  /\ UNCHANGED <<queue, held, frame, proc, memoryVars, storeVars, runVars,
                 faultVars>>

\* ch.Qos(1, 0, false): a channel gets a delivery only when it owes no ack.
\* Any ready message may be next: requeues reorder the queue.
Deliver(w, j) ==
  /\ proc[w] = "up"
  /\ held[w] = None
  /\ msg[j] = "ready"
  /\ msg' = [msg EXCEPT ![j] = "out"]
  /\ held' = [held EXCEPT ![w] = j]
  /\ inbox' = [inbox EXCEPT ![w] = j]
  /\ UNCHANGED <<queue, frame, proc, sandbox, saveVars, storeVars, runVars,
                 faultVars>>

\* The broker handles the ack or nack in flight.
Settle(w) ==
  /\ proc[w] = "up"
  /\ frame[w] # "none"
  /\ msg' = [msg EXCEPT ![held[w]] =
                IF frame[w] = "ack" THEN "settled" ELSE RejectTarget]
  /\ held' = [held EXCEPT ![w] = None]
  /\ frame' = [frame EXCEPT ![w] = "none"]
  /\ UNCHANGED <<queue, proc, memoryVars, storeVars, runVars, faultVars>>

\* What the broker does when the connection of w ends: the unacknowledged
\* delivery is requeued and frames in flight are void.
Requeue(w) ==
  /\ msg' = [j \in Jobs |-> IF held[w] = j THEN "ready" ELSE msg[j]]
  /\ held' = [held EXCEPT ![w] = None]
  /\ frame' = [frame EXCEPT ![w] = "none"]

\* A connection is lost; the broker sees it first.
Sever(w) ==
  /\ faults < MaxFaults
  /\ proc[w] = "up"
  /\ Requeue(w)
  /\ proc' = [proc EXCEPT ![w] = "severed"]
  /\ severs' = severs + 1
  /\ UNCHANGED <<queue, memoryVars, storeVars, runVars, crashes>>

\* The broker restarts.  Queues are durable; sendToQueue leaves `persistent'
\* unset, so no message survives.  Starting processes die in FailOnError.
BrokerRestart ==
  /\ faults < MaxFaults
  /\ msg' = [j \in Jobs |->
               IF msg[j] \in {"ready", "out", "dead"} THEN "dropped" ELSE msg[j]]
  /\ held' = [w \in Workers |-> None]
  /\ frame' = [w \in Workers |-> "none"]
  /\ proc' = [w \in Workers |->
                CASE proc[w] = "up" -> "severed"
                  [] proc[w] = "declared" -> "down"
                  [] OTHER -> proc[w]]
  /\ severs' = severs + 1
  /\ UNCHANGED <<queue, memoryVars, storeVars, runVars, crashes>>

\* The 10 minute TTL of a record.
ExpireRecord(j) ==
  /\ rec[j] # "none"
  /\ rec' = [rec EXCEPT ![j] = "none"]
  /\ UNCHANGED <<brokerVars, proc, memoryVars, wire, writes, runVars,
                 faultVars>>

-----------------------------------------------------------------------------
(* A sandbox process: start, loss of the connection, death                 *)

\* Initialize and the declarations of consumer.  A queue that exists without
\* dead-letter arguments answers 406 and is consumed as it is.
Declare(w) ==
  /\ proc[w] = "down"
  /\ proc' = [proc EXCEPT ![w] = "declared"]
  /\ queue' = IF queue = "absent" THEN "dlx" ELSE queue
  /\ UNCHANGED <<msg, held, frame, memoryVars, storeVars, runVars, faultVars>>

\* Qos and Consume succeed: consumer ranges over _ds.
Consume(w) ==
  /\ proc[w] = "declared"
  /\ proc' = [proc EXCEPT ![w] = "up"]
  /\ UNCHANGED <<brokerVars, memoryVars, storeVars, runVars, faultVars>>

\* The client library closes _ds.  A delivery the consumer goroutine already
\* holds is still passed on; one in the library's buffer is dropped.
NoticeClosed(w) ==
  /\ proc[w] = "severed"
  /\ proc' = [proc EXCEPT ![w] = "stalled"]
  /\ inbox' \in {inbox, [inbox EXCEPT ![w] = None]}
  /\ UNCHANGED <<brokerVars, sandbox, saveVars, storeVars, runVars, faultVars>>

\* How many SETs of job j may be applied late.
OnWire(j) ==
  LET sets(s) == wire[[id |-> j, status |-> s]]
  IN  sets("completed") + sets("failed") + sets("timeout")

\* A SET of r that is given up never reaches Redis, or has yet to be applied.
GiveUp(r) ==
  \/ UNCHANGED wire
  \/ OnWire(r.id) < MaxLate /\ wire' = [wire EXCEPT ![r] = @ + 1]

\* The process is killed, stopped, or panics in FailOnError: while it starts,
\* or because the last try of a SET failed.  Its memory is gone, its connection
\* ends, and a SET that is out may still be applied.
Crash(w) ==
  /\ faults < MaxFaults
  /\ proc[w] # "down"
  /\ Requeue(w)
  /\ proc' = [proc EXCEPT ![w] = "down"]
  /\ inbox' = [inbox EXCEPT ![w] = None]
  /\ sandbox' = [sandbox EXCEPT ![w] = Idle]
  /\ saving' = [saving EXCEPT ![w] = None]
  /\ tries' = [tries EXCEPT ![w] = 0]
  /\ UNCHANGED wire \/ (saving[w] # None /\ GiveUp(saving[w]))
  /\ crashes' = crashes + 1
  /\ UNCHANGED <<queue, rec, writes, runVars, severs>>

-----------------------------------------------------------------------------
(* sandboxWorker and redisWorker                                           *)

SandboxIdle(w) == Running(w) /\ sandbox[w].pc = "idle"

\* Mutant: a malformed message is skipped without a nack.
NackMalformedForgotten(w) ==
  /\ SandboxIdle(w)
  /\ inbox[w] \in Malformed
  /\ inbox' = [inbox EXCEPT ![w] = None]
  /\ UNCHANGED <<brokerVars, proc, sandbox, saveVars, storeVars, runVars, faultVars>>

\* A body that does not decode is rejected without requeue.  On a closed
\* channel the Nack fails and is only logged.
NackMalformed(w) ==
  /\ SandboxIdle(w)
  /\ inbox[w] \in Malformed
  /\ inbox' = [inbox EXCEPT ![w] = None]
  /\ frame' = IF proc[w] = "up" THEN [frame EXCEPT ![w] = "nack"] ELSE frame
  /\ UNCHANGED <<queue, msg, held, proc, sandbox, saveVars, storeVars, runVars,
                 faultVars>>

\* Mutant: the delivery is acknowledged as soon as it is received.
StartExecutionAcked(w) ==
  /\ SandboxIdle(w)
  /\ inbox[w] \in Jobs \ Malformed
  /\ sandbox' = [sandbox EXCEPT ![w] =
                   [pc |-> "exec", job |-> inbox[w], status |-> None]]
  /\ inbox' = [inbox EXCEPT ![w] = None]
  /\ frame' = IF proc[w] = "up" THEN [frame EXCEPT ![w] = "ack"] ELSE frame
  /\ runs' = [runs EXCEPT ![inbox[w]] = @ + 1]
  /\ UNCHANGED <<ended, queue, msg, held, proc, saveVars, storeVars, faultVars>>

\* executeCode starts.
StartExecution(w) ==
  /\ SandboxIdle(w)
  /\ inbox[w] \in Jobs \ Malformed
  /\ sandbox' = [sandbox EXCEPT ![w] =
                   [pc |-> "exec", job |-> inbox[w], status |-> None]]
  /\ inbox' = [inbox EXCEPT ![w] = None]
  /\ runs' = [runs EXCEPT ![inbox[w]] = @ + 1]
  /\ UNCHANGED <<ended, brokerVars, proc, saveVars, storeVars, faultVars>>

\* The execution ends with status s.
End(w, s) ==
  /\ sandbox' = [sandbox EXCEPT ![w] = [pc |-> "done", job |-> @.job, status |-> s]]
  /\ ended' = [ended EXCEPT ![sandbox[w].job] = @ \cup {s}]
  /\ UNCHANGED runs

\* Mutant: a program that fails is run once more.
FinishExecutionRetried(w) ==
  /\ sandbox[w].pc = "exec"
  /\ \/ \E s \in Outcomes : End(w, s)
     \/ /\ runs' = [runs EXCEPT ![sandbox[w].job] = @ + 1]
        /\ UNCHANGED <<sandbox, ended>>
  /\ UNCHANGED <<brokerVars, proc, inbox, saveVars, storeVars, faultVars>>

\* executeCode returns.  Every executor sets the status, so the worker's
\* default for an empty one is never taken.
FinishExecution(w) ==
  /\ sandbox[w].pc = "exec"
  /\ \E s \in Outcomes : End(w, s)
  /\ UNCHANGED <<brokerVars, proc, inbox, saveVars, storeVars, faultVars>>

\* Mutant: only programs that completed are acknowledged.
AckCompletedOnly(w) ==
  /\ sandbox[w].pc = "done"
  /\ proc[w] \in {"up", "severed"}
  /\ frame' = IF proc[w] = "up" /\ sandbox[w].status = "completed"
              THEN [frame EXCEPT ![w] = "ack"] ELSE frame
  /\ sandbox' = [sandbox EXCEPT ![w].pc = "reply"]
  /\ UNCHANGED <<queue, msg, held, proc, inbox, saveVars, storeVars, runVars,
                 faultVars>>

\* d.Ack returns nil once the frame is written, whether or not the broker
\* is still there to read it.
AckResult(w) ==
  /\ sandbox[w].pc = "done"
  /\ proc[w] \in {"up", "severed"}
  /\ frame' = IF proc[w] = "up" THEN [frame EXCEPT ![w] = "ack"] ELSE frame
  /\ sandbox' = [sandbox EXCEPT ![w].pc = "reply"]
  /\ UNCHANGED <<queue, msg, held, proc, inbox, saveVars, storeVars, runVars,
                 faultVars>>

\* On a channel known to be closed Ack fails and the result is discarded.
AckFails(w) ==
  /\ sandbox[w].pc = "done"
  /\ proc[w] = "stalled"
  /\ sandbox' = [sandbox EXCEPT ![w] = Idle]
  /\ UNCHANGED <<brokerVars, proc, inbox, saveVars, storeVars, runVars, faultVars>>

\* Mutant: the response is addressed by the delivery that came next.
ReplyMisaddressed(w) ==
  /\ sandbox[w].pc = "reply"
  /\ saving[w] = None
  /\ saving' = [saving EXCEPT ![w] = [id |-> inbox[w], status |-> sandbox[w].status]]
  /\ sandbox' = [sandbox EXCEPT ![w] = Idle]
  /\ UNCHANGED <<brokerVars, proc, inbox, tries, storeVars, runVars, faultVars>>

\* Mutant: a response redisWorker is too busy to take is dropped.
ReplyOrDrop(w) ==
  /\ sandbox[w].pc = "reply"
  /\ saving' = IF saving[w] # None THEN saving
               ELSE [saving EXCEPT ![w] = [id |-> sandbox[w].job,
                                           status |-> sandbox[w].status]]
  /\ sandbox' = [sandbox EXCEPT ![w] = Idle]
  /\ UNCHANGED <<brokerVars, proc, inbox, tries, storeVars, runVars, faultVars>>

\* Mutant: the status of the response is the worker's default.
ReplyByDefault(w) ==
  /\ sandbox[w].pc = "reply"
  /\ saving[w] = None
  /\ saving' = [saving EXCEPT ![w] = [id |-> sandbox[w].job, status |-> "completed"]]
  /\ sandbox' = [sandbox EXCEPT ![w] = Idle]
  /\ UNCHANGED <<brokerVars, proc, inbox, tries, storeVars, runVars, faultVars>>

\* responses <- response meets redisWorker's range.
Reply(w) ==
  /\ sandbox[w].pc = "reply"
  /\ saving[w] = None
  /\ saving' = [saving EXCEPT ![w] =
                  [id |-> sandbox[w].job, status |-> sandbox[w].status]]
  /\ sandbox' = [sandbox EXCEPT ![w] = Idle]
  /\ UNCHANGED <<brokerVars, proc, inbox, tries, storeVars, runVars, faultVars>>

\* Redis applies a SET of r: over any earlier record.
Store(r) ==
  /\ rec' = [rec EXCEPT ![r.id] = r.status]
  /\ writes' = [writes EXCEPT ![r.id] = @ + 1]

\* A SET is applied and its reply arrives.
Save(w) ==
  /\ saving[w] # None
  /\ Store(saving[w])
  /\ saving' = [saving EXCEPT ![w] = None]
  /\ tries' = [tries EXCEPT ![w] = 0]
  /\ UNCHANGED <<brokerVars, proc, inbox, sandbox, wire, runVars, faultVars>>

\* A SET times out or its connection ends; the client library sends it again.
\* When the last try fails Set returns the error: see Crash.
SaveAgain(w) ==
  /\ saving[w] # None
  /\ tries[w] < MaxRetries
  /\ tries' = [tries EXCEPT ![w] = @ + 1]
  /\ GiveUp(saving[w])
  /\ UNCHANGED <<brokerVars, proc, inbox, sandbox, saving, rec, writes, runVars,
                 faultVars>>

\* Redis gets to a SET that its sender has given up.
ApplyLate(r) ==
  /\ wire[r] > 0
  /\ Store(r)
  /\ wire' = [wire EXCEPT ![r] = @ - 1]
  /\ UNCHANGED <<brokerVars, proc, memoryVars, runVars, faultVars>>

-----------------------------------------------------------------------------
SandboxWorker(w) ==
  \/ NackMalformed(w)
  \/ StartExecution(w)
  \/ FinishExecution(w)
  \/ AckResult(w)
  \/ AckFails(w)
  \/ Reply(w)

Broker ==
  \/ \E j \in Jobs : Publish(j) \/ ExpireMessage(j) \/ ExpireRecord(j)
  \/ \E w \in Workers : Settle(w) \/ \E j \in Jobs : Deliver(w, j)
  \/ BrokerRestart
  \/ \E r \in Response : ApplyLate(r)

Process(w) ==
  \/ Declare(w)
  \/ Consume(w)
  \/ Sever(w)
  \/ NoticeClosed(w)
  \/ Crash(w)
  \/ SandboxWorker(w)
  \/ Save(w)
  \/ SaveAgain(w)

Next == Broker \/ \E w \in Workers : Process(w)

Spec == Init /\ [][Next]_vars

\* The goroutines are scheduled, Redis answers, the broker reads its sockets
\* and expires what waits too long.  executeCode ends at its time limit unless
\* the program leaves a descendant holding the output pipe CombinedOutput
\* reads: then nothing bounds the wait.  Nothing is fair about publishing,
\* starting a process, delivering, losing a connection or crashing.
Fairness ==
  /\ \A w \in Workers :
       /\ WF_vars(NackMalformed(w) \/ StartExecution(w))
       /\ WF_vars(sandbox[w].job \notin Hanging /\ FinishExecution(w))
       /\ WF_vars(AckResult(w) \/ AckFails(w) \/ Reply(w))
       /\ WF_vars(Save(w))
       /\ WF_vars(Settle(w))
  /\ \A j \in Jobs : WF_vars(ExpireMessage(j))

FairSpec == Spec /\ Fairness

-----------------------------------------------------------------------------
(* Properties                                                              *)

\* Results a process has acknowledged, or tried to, and not yet stored.
Pending(w) ==
  {j \in Jobs : \/ sandbox[w].pc = "reply" /\ sandbox[w].job = j
                \/ saving[w] # None /\ saving[w].id = j}

\* Acknowledged jobs without a record that no process will ever write.
Lost ==
  {j \in Jobs : /\ msg[j] = "settled"
                /\ writes[j] = 0
                /\ \A w \in Workers : j \notin Pending(w)}

\* The process w is on its way to settle its delivery of j: the consumer
\* goroutine has it, or sandboxWorker does, or the settling frame is out.
Attending(w, j) ==
  LET free == sandbox[w].pc \in {"idle", "reply"}
  IN  \/ inbox[w] = j /\ free /\ frame[w] = "none"
      \/ inbox[w] = None /\ ~free /\ sandbox[w].job = j /\ frame[w] = "none"
      \/ inbox[w] = None /\ free /\ frame[w] # "none"

\* A message the broker counts as delivered is on exactly one live channel,
\* and the process behind it still has the delivery in hand: consumer,
\* sandboxWorker or its settling frame.  No job hangs unacknowledged with
\* nobody working on it, however connections and processes come and go.
DeliveryOwned ==
  \A j \in Jobs :
    msg[j] = "out" =>
      \E w \in Workers : /\ proc[w] = "up" /\ held[w] = j /\ Attending(w, j)
                         /\ \A v \in Workers \ {w} : held[v] # j

\* Acknowledging before the SET can lose results, but only by the death of a
\* process, and a death loses at most two: the one redisWorker is writing and
\* the one sandboxWorker is blocked on handing over.
LossBound == Cardinality(Lost) <= 2 * crashes

\* The bookkeeping behind both, the inductive part of the argument.
\* A process without a connection has nothing at the broker.
NoDebtOffline ==
  \A w \in Workers : proc[w] # "up" => held[w] = None /\ frame[w] = "none"

\* A process that has not begun to consume holds nothing at all.
EmptyBeforeConsume ==
  \A w \in Workers :
    ~Running(w) => inbox[w] = None /\ sandbox[w] = Idle /\ saving[w] = None

\* sandboxWorker has a job while it is busy, and a status once it is done.
BusyWithJob ==
  \A w \in Workers :
    /\ sandbox[w].pc # "idle" => sandbox[w].job # None
    /\ sandbox[w].pc \in {"done", "reply"} => sandbox[w].status # None

\* On a live channel the process works on the delivery it holds, no other.
WorksOnHeld ==
  \A w \in Workers :
    /\ proc[w] = "up" /\ held[w] = None =>
         /\ inbox[w] = None
         /\ sandbox[w].pc \in {"idle", "reply"}
         /\ frame[w] = "none"
    /\ held[w] # None => Attending(w, held[w])

\* What is being acknowledged is not lost while the process lives.
AckCovered ==
  \A w \in Workers :
    frame[w] = "ack" => held[w] \in Pending(w) \/ writes[held[w]] > 0

\* A message is delivered exactly when one channel holds it.
OutIffHeld ==
  /\ \A w \in Workers : held[w] # None => msg[held[w]] = "out"
  /\ \A v, w \in Workers : held[v] = held[w] /\ held[w] # None => v = w
  /\ \A j \in Jobs : msg[j] = "out" => \E w \in Workers : held[w] = j

Bookkeeping ==
  /\ NoDebtOffline
  /\ EmptyBeforeConsume
  /\ BusyWithJob
  /\ WorksOnHeld
  /\ AckCovered
  /\ OutIffHeld

\* A message that has been published is settled for good one way or another:
\* its record is written, the broker discards it, or its result is lost with
\* the process that had acknowledged it.  A hanging program holds up only
\* itself: no other job waits for it for ever.
Resolved(j) == writes[j] > 0 \/ msg[j] \in {"dead", "dropped"} \/ j \in Lost

NoLimbo == \A j \in Jobs \ Hanging : msg[j] = "ready" ~> Resolved(j)

\* The accounts behind ImplementsAtLeastOnce.  Every start of a job is paid
\* for: the first by its publication, each further one by a fault; a copy that
\* waits in a process and a message in the queue have paid already.
Copies(j) == {w \in Workers : inbox[w] = j}

StartsPaid ==
  \A j \in Jobs :
    /\ runs[j] + Cardinality(Copies(j))
         + (IF msg[j] \in {"new", "ready"} THEN 1 ELSE 0) <= 1 + faults
    /\ msg[j] = "new" => Copies(j) = {}

\* Every execution pays for as many SETs as the client library may send, and
\* so will those pay that run or wait to be saved.
Attempts == MaxRetries + 1

Working(j) == {w \in Workers : sandbox[w].pc # "idle" /\ sandbox[w].job = j}

ToSend(j) ==
  {t \in Workers \X (0..MaxRetries) :
     saving[t[1]] # None /\ saving[t[1]].id = j /\ tries[t[1]] <= t[2]}

WritesEarned ==
  \A j \in Jobs :
    /\ Cardinality(Working(j)) <= runs[j]
    /\ writes[j] + OnWire(j) + Cardinality(ToSend(j))
         <= Attempts * (runs[j] - Cardinality(Working(j)))

\* No status is handed on, on its way or stored that is not one an execution of
\* the job has ended with.
StatusesEarned ==
  /\ \A w \in Workers :
       /\ sandbox[w].pc \in {"done", "reply"} => sandbox[w].status \in ended[sandbox[w].job]
       /\ saving[w] # None => saving[w].status \in ended[saving[w].id]
       /\ saving[w] = None => tries[w] = 0
  /\ \A r \in Response : wire[r] > 0 => r.status \in ended[r.id]
  /\ \A j \in Jobs : rec[j] \in ended[j] \cup {"none"}

Accounts == StartsPaid /\ WritesEarned /\ StatusesEarned

\* Seen from outside, the queue, the processes and the store behave as
\* AtLeastOnce: a program runs again only on account of a lost connection or a
\* crash, and its record is one of its executions' statuses, written at most
\* as often for each as its SET is tried, although a SET that was given up may
\* be applied after later ones.
Promise == INSTANCE AtLeastOnce WITH
             published <- {j \in Jobs : msg[j] # "new"},
             faults <- faults,
             NoRecord <- "none"

ImplementsAtLeastOnce == Promise!Spec

=============================================================================
