# OpenCodeLab: TLA+ specifications

OpenCodeLab runs programs for its users: a web page submits code to an API, the
API puts it on a RabbitMQ queue, a sandbox process runs it and writes the result
to Redis, and a polling server reports the result to the page, over server-sent
events or plain polling. This directory holds specifications of the parts in
which order, failure and concurrency matter, TLC models of them and TLAPS proofs
of their main properties.

## 1. The system

```
 web client ──POST /producer──► API server ──publish──► RabbitMQ queue (per language)
     ▲                                                       │ deliver, prefetch 1
     │ SSE / polling                                         ▼
 polling server ◄──GET key── Redis ◄──SET key── sandbox process
```

| Component | State | Operations | Talks to |
|---|---|---|---|
| API server (`src/src`) | one `RabbitMQClient`: connection, channels, `isInitialized`, `initializationPromise` | `POST /producer` parses, routes, validates, initializes the client if need be, publishes | RabbitMQ (publish, 30 s expiration, transient) |
| Sandbox process (`src/sandboxes/client`) | one delivery at a time per goroutine; channels `ds`, `responses` | `consumer`, `sandboxWorker`, `redisWorker` | RabbitMQ (consume, ack, nack), Redis (SET, 10 min) |
| Executors (`src/sandboxes/{python,node,c,cpp}`) | a child process and its deadline | `executeCode` | the operating system |
| Polling server (`src/polling-server`) | none between requests; a loop per stream | `GET /consumer`, `GET /consumer/stream` | Redis (GET) |
| Web client (`src/client`) | refs and state of `useExecutionRunner`; run history in `localStorage`; the editor's text and language | edit, run, watch, stop, clear, stream and poll handlers | API server, polling server |
| Test client (`src/public`) | one watcher | submit and watch | API server, polling server |

The parts share no memory. They meet in the queue (API server and sandboxes), in
the Redis key of an execution (sandboxes and polling server), and over HTTP.

### What is hard about each part

*Sandbox process.* The delivery is acknowledged before the result is stored
(`client.go:164-169`, `194`), so the result of an acknowledged job lives only in
memory, and because the broker delivers the next job meanwhile, two results can
be at stake. When the connection ends, `consumer` leaves its loop but nobody
closes `ds`: the process stays up and idle for ever (`123-126`, `141`, `214`).
A redelivered job runs again and its record is written again. The Redis client is
go-redis with its default options (`174-178`): a SET that times out or loses its
connection is sent again, up to three times, whether it was applied or not, and
one that was given up may be applied later, over a newer record. When the last
try fails the process goes down (`194-195`). It is correct if every delivery is
in somebody's hands, no job is held up by another, losses are bounded, no
program runs again without a fault, and a record is the status of an execution of
its job.

*Polling server.* Records change between a lookup and its answer, expire during
a stream, and come in three formats. It is correct if no answer is one that was
never true, nothing follows a final answer, streams end, and failures never read
as successes.

*Web client.* Handlers are serialized, but each works on refs that may have been
handed to another execution since the request it answers was sent
(`useExecutionRunner.ts:196-211`). It is correct if there is one transport at a
time, the indicator is truthful, results are filed under the right execution, and
an execution that ends is seen to end. Around the hook, a dozen handlers set the
status, the kind of failure, the alert and the output, and an outcome must be shown
with what its execution printed and with its kind of failure; the language of an execution is kept in a ref and in the history, which must
agree; every tab stores its whole history over the others'; and a handler that
was registered once (`EditorWorkspace.tsx:46`) sees the first render for ever.

*API server.* Concurrent requests share one initialization (`client.ts:44-68`);
`isInitialized` outlives the connection (`71`). It is correct if there is one
connection, each waiting request is answered, and a failed initialization can be
tried again. The server listens before it knows its database and exits when it
cannot reach it (`database.ts:12`); an error must find its way from an async
handler to an answer (`catchAsync.ts:5`); and an answer can be lost after the
message is out, so that the user submits again. It is correct if what a client
hears is so, and if repeated submits make no more executions than they must.

*Executors.* The deadline kills the child, but `CombinedOutput` waits for the pipe
(`python/sandbox.go:57`); the exit of the child, its descendants and the deadline
come in any order. The workspace is removed on every way out, but the error of
the removal is ignored (`c/sandbox.go:26`). It is correct if the status it returns
is what happened, it leaves behind no process that it waited for and no workspace
but those it could not remove, and it returns.

## 2. The modules

### SandboxPipeline

One queue, its sandbox processes and the records they write.

| Specification | Code |
|---|---|
| `queue`, `msg`, `held`, `frame` | the broker: declaration of the queue, each message, the one unacknowledged delivery of a channel (`Qos(1, 0, false)`, `client.go:107`), the ack or nack not yet handled |
| `proc` | start, connection and death of a process: `down`, `declared`, `up`, `severed` (the broker knows the connection is lost), `stalled` (the process does) |
| `inbox` | what `consumer` has received and `ds <- d` hands over (`123-126`), or waits in the client library |
| `sandbox` | `sandboxWorker`: idle, in `executeCode`, about to `Ack`, or blocked in `responses <- response` |
| `saving`, `tries` | the response `redisWorker` is writing, and how often its SET was sent and given up |
| `wire` | the SETs given up that Redis may yet apply |
| `rec` | the Redis record |
| `runs`, `ended`, `writes`, `crashes`, `severs` | history, for the properties |

`Publish` is `producer.ts`' `sendToQueue`; `ExpireMessage` its `expiration`;
`Declare` and `Consume` are `Initialize` and the head of `consumer`, 406 fallback
included; `NackMalformed`, `StartExecution`, `FinishExecution`, `AckResult`,
`AckFails` and `Reply` are the body of `sandboxWorker`; `Save` is a SET that is
applied and answered. The broker, Redis and go-redis are external, modelled as
the code uses them. A body or result is not modelled, only its status.

A try of a SET that fails is `SaveAgain`, or, when it is the last, the panic in
`FailOnError`, which `Crash` stands for along with every other death of a process.
Either way the SET has not reached Redis and never will, or is on `wire`, from
where `ApplyLate` applies it at any later time (`GiveUp`). A SET that was applied
and whose reply was lost is one on `wire` that is applied at once.

`Ack` on a connection that the broker has dropped and the process has not
noticed succeeds (`AckResult` in state `severed`); once noticed it fails and the
result is thrown away (`AckFails`).

### AtLeastOnce

What the pipeline amounts to from outside: jobs are submitted, started,
ended, written and forgotten. A job is started at most once more than there were faults. Its
record is a status that one of its executions ended with, not always the last, and
is written at most `Attempts` times for each start. `SandboxPipeline` implements it
under the mapping `published <- {j : msg[j] # "new"}`, `faults <- crashes + severs`,
with `MaxRetries + 1` for `Attempts`.

### StatusStream

The polling server. A request goes `new -> lookup -> send`, and a stream on to
`wait` and `lookup` again, or to `done`. `ParseStatus` and `Lookup` are
`parseStoredExecutionRecord` and `lookupExecutionStatus` on the fields that
decide the status. `Write` and `Expire` change the record at any time. The
lookup is split into its beginning and its read because the record may change
in between; `truths` remembers what was true meanwhile.

### ExecutionRunner

`useExecutionRunner`. One action is one JavaScript callback: from the click, the
event or the resolved promise to the next `await` or return.

| Specification | Code |
|---|---|
| `source` | `eventSourceRef` with the stream behind it and at most one event not yet handled |
| `pollingEnabled`, `pollTimer` | the refs of the same name |
| `loop` | the chains of request and timer that `pollStatus` starts; nothing cancels one whose request is out |
| `status`, `streamState`, `active` | `latestStatusRef`, the transport indicator, `activeExecutionIDRef` |
| `history` | the status of each entry of the run history |
| `submits` | requests of `submitExecution`: the button allows one, the keyboard more |
| `tracking` | history: what the user is waiting for |

`StaysAttended` is what the fallbacks are for: the execution in `tracking` keeps a
stream, or a poll loop about it with polling enabled. It states the one step
that breaks this, a late final answer about another execution, which is what
finding 2 runs into.

### QueueClient

The API server's `RabbitMQClient`, shared by the start of the server and every
request. One action is what happens from one awaited reply of the broker to the
next, with all the promises it settles.

| Specification | Code |
|---|---|
| `initialized`, `promise` | `isInitialized`, `initializationPromise`, named by the caller that made it |
| `step` | the `await` at which a caller's `connect` stands (`client.ts:79-84`) |
| `link` | each connection: `open`, `lost` (the broker is gone, the process has not noticed), `closed` |
| `channel` | the connection whose channels `this.producer` uses |
| `consuming` | whether `consume` is out or confirmed; nobody awaits it (`consumer.ts:12`) |
| `call` | a caller: waiting, or answered 202, 503 or 500, or dropped by a server that died |

`Produce` is `produce` on an initialized client, `Lead` and `Follow` are
`initialize` without and with a promise; `Connected` to `Asserted` are `connect`;
`Reject` and `Resolve` settle the promise, `finally` block included. `Lose`,
`Closed` and `Dies` are external: the code registers no listener for the error
events of connections and channels, so that an abnormal loss, or a channel that
the broker refuses, ends the process, and an orderly close rejects what is
pending. `Closed` resets nothing, as in the code. `Exits` is the end of the
process for a reason outside the client, `database.ts`' exit.

### RunHistory

The list behind `ExecutionRunner`'s `history`, and its storage. Each action
joins one of `ExecutionRunner`'s with what the same callback files.

| Specification | Code |
|---|---|
| `entries` | the state `history`: executions with their status, the latest first |
| `storage`, `full` | the item in `localStorage`, and whether the browser refuses to store more (`storage.ts:43-45`) |
| `recency`, `ours` | history, for the properties: every execution filed and not cleared; whether the storage holds what this page stored last |

`Load`, `Upsert` and `Cut` are `loadRunHistory`, `upsertHistoryEntry` and the
`slice` at `HISTORY_LIMIT`; `Filtered` is `Array.filter` by positions (the n-th
element kept stands at the position with n kept ones up to it), so that the
proofs can reason about it; `StoredLists` are the lists that earlier visits and
other tabs may have stored, junk among their entries, each of which tells of an
execution once and truly (`WellFormed`, `StoredTruly`), as this page's does;
`Save` is `persistHistory`; `OtherTabSaves` is the same code in another tab. `ExecutionRunner` itself, and with it `HistoryTruthful`, speaks
of the status last filed under an execution; `RecentRuns` says which of these
the bounded list shows, and with which outcome.

### ConsolePage

The page around the hook: the editor, the controls, and what is shown. Each
action joins one of `ExecutionRunner`'s with what the same callback does to the
page's state, and a callback that touches only that state is one of its own.

| Specification | Code |
|---|---|
| `language`, `code` | the states of the same name; a text is a starter template, blank, or one of `Typed`. `ConsoleShortcut` tells the templates of the languages apart, `ConsolePage` does not |
| `isSubmitting`, `inFlight` | the state, and the programs in the submits that are out |
| `failureKind`, `errorMessage`, `output` | the states; the alert by what it is about, the output by its sort |
| `languageOf`, `listed` | `executionLanguageRef` and the language of each entry of the history |
| `again` | history: executions watched a second time |

`ShownTogether` says what of these fits, and names what does not: the poll of an
earlier watch may fail while an outcome is shown, and puts its alert and its kind
of failure there, as a refused id does; a compile error is then labelled "Runtime
Error". Without an alert the kind of failure is the outcome's.

`Classify`, `Label` and `TransportLabel` are `utils/status.ts`, `OutputText`,
`RunEnabled` and `Rows` the views' conditions, and `Console` is what the page shows.
The buttons' handlers see the render they belong to, `PressShortcut` the first
one. Output is `diagnostic` for what `inferCompileError`'s patterns match.

Two branches are never taken and so are no actions: `runExecution` with invalid
code (lines 288-292), because the button is disabled and the keyboard's handler
belongs to a render with valid code; and a stream event that does not parse
(240-243), because the polling server sends none.

### ApiServer

`POST /producer` from `submitExecution`'s fetch to its result, around `QueueClient`.

| Specification | Code |
|---|---|
| `program` | the version header and body each client sends |
| `early` | the status of a request that ends before the queue: 404, 400, or 500 for a body that does not parse |
| `heard` | a request for its client: unsent, out, an id, or an error |
| `database` | whether mongoose connects |
| `broken` | history: requests whose connection broke |

`EarlyStatus` is the order of `express.json`, version, route and schema; `Enqueue`
is `QueueClient`'s `Produce`, `Lead` or `Follow`; `Status` is what `catchAsync` and
`errorHandler` make of the outcome; `Understood` what `submitExecution` makes of
that. `Send` lets a client try again after a failure, as the page's user does;
`Break` is a connection that breaks before or after the server has acted.
`DatabaseUnreachable` ends the process, as `database.ts` does.

### SandboxExecutor

`executeCode` of the four sandboxes: `commands` is what a sandbox runs for a job,
one interpreter, or a compiler and then the program. `MakeWorkspace` and
`WriteSource` are `MkdirTemp` and `WriteFile`; `Launch` makes a context and starts
a command; `Collect` is the return of `CombinedOutput`; `Decide` reads `ctx.Err()`
and then `err`; `Return` includes the deferred `RemoveAll`, which may fail without anybody
noticing: `tmpDirs` counts the workspaces there are, `undeleted` those on which
it failed, and `CleanReturn` says that there are no others between two calls.
`Expire` is the deadline, `Kill` what `CommandContext` does at it. `holders` are
the descendants of the child that have its output pipe open, each standing for
all it forks in turn. `SandboxPipeline` takes the whole of it as
`StartExecution ... FinishExecution`, with any status, and as never ending for
its `Hanging` jobs: `StatusTruthful` and `Returns` say when that is right.

## 3. The runs

| Run | Instance | Shows |
|---|---|---|
| `PipelineSafety` | 2 processes, 2 jobs, one of them malformed, 2 statuses, a dead-lettering queue that has to be declared, 2 faults, 1 retry of a SET, 1 SET applied late at a time | types, `DeliveryOwned`, `Accounts`, refinement of `AtLeastOnce` |
| `PipelineLiveness` | 1 process, 3 jobs, one malformed, one hanging, 2 statuses, legacy queue, 2 faults, 1 retry of a SET, none applied late | `Bookkeeping`, `LossBound`, `NoLimbo` |
| `StreamRequests` | 1 request, records of every shape, 1 outage | types, `ResultsReadBack`, `AnswersWereTrue`, `FinalIsLast`, `StreamsEnd` |
| `RunnerSafety` | `RunHistory`: 3 executions with one outcome, a history of 2 entries, another tab, 1 loop, 3 watches, 1 failure | types, `HistoryTruthful`, `RecentRuns`, `ShownIsStored`, `StaysAttended` |
| `RunnerFollow` | 1 execution with two outcomes watched twice, 2 loops, 2 submits, 3 failures | `OneTransport`, `IndicatorTruthful`, `Followed`, `StrayLoopsEnd` |
| `ConsolePage` | 1 execution that fails to compile, 2 languages, 1 loop, 2 watches, 2 submits, 2 failures | types, `ShownTogether`, `ButtonComesBack`, `LanguagesAgree`, `LanguageKept`, `OutcomeStays` |
| `ApiServer` | the start, 2 clients with 3 requests, 2 losses, with and without a database | types, `OneConnection`, `SharedPromise`, `NoLeak`, `NobodyMisled`, `RetriesCounted`, `Answered`, `EveryoneHears` |
| `Executor` | 4 sandboxes, 2 jobs in a row, 3 holders | types, `StatusTruthful`, `OnlyCompiledRuns`, `CleanReturn`, `Returns` |
| `ExecutorLimit` | 4 sandboxes, 1 job, 1 holder | `TimeLimitEnds` fails, see section 6 |
| `ConsoleShortcut` | 2 languages, 1 program of the user's own | `SubmitsWhatIsShown` fails, see section 6 |
| `RunnerPollingShown` | 1 execution, 1 failure | `PollingIsTruthful` fails, see section 6 |
| `RunnerSwitch` | 2 executions | `Followed` fails, see section 6 |

### The bounds

Two processes are enough for a delivery to move from one to another, and two
faults for it to be lost by both, and for the SET of one execution of a job to be
applied after that of the next, which ended with another status. A second job
that runs would meet the first only at the broker, as the malformed one does; with
one job more `PipelineLiveness` says what results of several jobs do to each other.
Late SETs are left to `PipelineSafety`, since none of `PipelineLiveness`' properties
reads a record. go-redis tries three times more, and one retry has all that they
add: a try given up, and one that is the last. Three jobs let one process hold a job being
saved, a job waiting to be handed over and a job being received, all there is room
for. One request to the polling server is enough, because requests share nothing
but the record, which takes any shape at any time; `ManyRecords` leaves out only
further combinations of flags in records whose status is not read from them. Two
poll loops let a loop with a request out meet a loop with a timer; three watches,
turning from one execution to another and back. Three executions and a history
of two make one fall out and come back, which the fourth and later would repeat;
the lists in storage are none, one with an outcome, and two entries on either
side of junk. One failure is a stream that breaks, after which a poll is out while
the user turns to another execution; polls that fail as well are `RunnerFollow`'s.
One execution is enough for the page, as its handlers treat each by itself;
that answers are not filed under another is `RunnerSafety`'s question, with three,
and the theorems' with any number. It has one outcome there, a failed compilation,
which is the one that status, output and language decide together; other outcomes
are for the theorems. Two submits overlap; two failures are a stream that breaks
and a poll that fails. Three requests and the start are a leader, two
that follow it, and one that comes after, and give one client a second attempt
while its first is still being served; with two losses a second attempt of the
queue client fails too. A body that does not parse is left out of the instance: it
takes the way of an invalid one with another status. A second job shows what the
first one left, and one holder more than another adds only to the time they take.
`MaxFaults`, `MaxLate`, `MaxOutages`, `MaxFailures` and `MaxLosses` bound what goes wrong,
`MaxWatches` and `MaxSubmits` what the user does, `MaxCalls` and `MaxHolders` the
jobs of a sandbox and what they leave running; all are guards of the actions they
bound. `CHECK_DEADLOCK` is off because each model may come to rest: every job
settled and no fault left, every request done, nothing watched and no watch left.
Symmetry is used in the runs that check no liveness.

### Fairness

*Pipeline.* Goroutines are scheduled and Redis answers: of a SET that is tried over
and over one is applied and answered, or the process dies. The broker handles what
it is sent and expires messages. `FinishExecution` is fair for programs that do
not leave a descendant holding the output pipe, for those the executors' deadlines
end. Publishing, starting, delivering, losing a connection and crashing are not
fair: nothing restarts a sandbox (`docker-compose.yml` has no restart policy).
*Polling server.* Each request's own steps. *Web client.* The browser runs its
handlers and the polling server answers; the user and the sandboxes may do
nothing. `PageFairness` is the same on the page. *API server.* A broker that is
asked answers or refuses, and a lost connection is noticed, by its closing or by
the death of the process; the server is started, takes the requests it gets while
it lives, and its answers arrive; a fetch to a server that is gone fails. Clients
need not send, connections need not break, and the database need not be given up.
*Executor.* The worker runs, time passes and a signal is delivered. A child need not end, and its descendants let go of the pipe in
`FairSpec` and not in `LimitSpec`.

## 4. What is proved

The theorems hold for any finite set of jobs and processes, any records, any
number of requests, descendants and faults. Those about the pipeline assume
`PipelineAssumption`: jobs and processes are finite sets, malformed and hanging
jobs are jobs, the numbers of retries, late SETs and faults are numbers, whatever
they are, and `None` is not a job, status or response; those about the queue
client that the start is not a request and `None` neither; those about the API
server that there are finitely many requests, each of one client; those about
the web client that `None` is no execution, loop or language and that the bounds
are numbers; those about the run history that its limit is at least one and that
every list in `StoredLists` is well formed. Any of them may be as large as one likes.

* `Invariance`: `TypeOK /\ Bookkeeping` is inductive. `DeliveryOwned` alone is
  not: that a message is attended to after a step depends on the channel, the
  goroutines and the frame agreeing before it. `Bookkeeping` says how they agree:
  a process without connection owes nothing (`NoDebtOffline`), one that does not
  consume has nothing (`EmptyBeforeConsume`), a busy worker has a job
  (`BusyWithJob`), a live channel's delivery is the one worked on
  (`WorksOnHeld`), what is being acknowledged is in memory or stored
  (`AckCovered`), and messages out and channels holding them match
  (`OutIffHeld`). One lemma per conjunct, one step per action.
* `EveryDeliveryIsOwned` and `TypeCorrect` follow.
* `LossIsBounded`: a step that adds to the lost results is the death of a
  process, and it adds at most the job of `sandbox` and the job of `saving`.
* `AccountsBalance`: the starts of a job, its copy in a process and its message
  in the queue together never exceed one plus the faults (`StartsPaid`). The writes
  of its record, the SETs on `wire` and the tries that are left never exceed what
  go-redis has for the executions that have ended (`WritesEarned`), by counting
  processes and pairs of a process and a try. And every status that is handed
  on, on its way, on `wire` or stored is one in `ended` (`StatusesEarned`), through
  which late SETs cannot bring what never happened.
* `PipelineImplementsAtLeastOnce`: with the accounts every start is a step
  `Start` of `AtLeastOnce`, every SET that is applied, in time or late, a `Write`,
  every end of an execution an `End`, every fault a `Fault`; the other steps stutter.
* `RecordsTellOfRuns`: what the abstraction is good for. `RecordsTell` is proved of
  `AtLeastOnce` in a few lines and carried over by the refinement: a record that
  is there tells how an execution of a program that was handed in and started has
  ended. It may be an earlier execution than the last, and may have been written
  more than once.
* `EveryAnswerWasTrue`: the record's present status is among the truths of every
  lookup under way; that makes it inductive.
* `NothingAfterTheFinal`: a request whose last answer is final is done.
* `EveryResultReadsBack`: of every record there can be, by the cases of
  `ParseStatus`; `TypeCorrectness` of the polling server.
* `ExecutionRunnerProofs`: `RunnerInv`, that is `TypeOK`, `OneTransport` and
  `IndicatorTruthful` with `Known` (ids held anywhere were issued) and `Reported`
  (every outcome stored, on its way by an event or a poll, or listed is one its
  execution had), is inductive. `HistoryTruthful` is a part of `Reported` and not
  inductive alone, because a late answer is filed long after it was given.
  `OnlyLateAnswersNeglect` is the action property `StaysAttended`, one step per
  action: `OneTransport` says that only one of stream and polling can be lost in
  a step, and that a stream given up is replaced, since no final status is shown.
* `RunHistoryProofs`: `ListOnlyListens` shows each step of the hook with its list to
  be one of the hook's or none. `Listed` adds that `entries` is the beginning of
  `recency`, in which nothing is twice, and that what is stored is well formed, true
  and, if `ours`, the list shown; neither `RecentRuns` nor `ShownIsStored` is
  inductive without what it says of the storage, which a reload makes the list.
  `RecentRunsAreListed` and `ReloadShowsTheList` follow. The heart is a fact about
  lists, `Refiled`: cut, filter and prepend on the list that is cut already give
  the beginning of the same done to the whole. When the execution filed has fallen
  out of the list, filtering takes nothing from the list and something behind
  the limit from the whole; when it has not, both close up at the same place,
  and one place before the limit, where they still agree, is all that remains
  behind the entry in front (`SameRest`). `Ranks`, `FilteredFacts` and `FilteredBut`
  say by counting what a filter keeps and where.
* `ConsolePageProofs`: `PageRunsHook` shows each step of the page to be one of the
  hook's or none, so that `RunnerInv` holds on the page too. `PageInv` adds that
  executions an answer may still come about have a language (`Watched`) and that
  what is shown fits (`Fits`). That the alert of a failed poll is not beside an
  outcome unless there was an earlier watch needs `OneWatch`: as long as there has
  been one watch only, it asks through its stream or through one loop, and no
  longer once its outcome is shown. With them `LanguagesAgree`, `LanguageKept`,
  `ButtonComesBack` and `ShownTogether`. `OutcomeStays` needs `Sole` and `Over`: an
  execution watched once is asked about by its stream or by one poll loop, never
  by two, so that the answer with its outcome is the last about it. Watching it
  again breaks `Sole` at once, since the loop of the first watch goes on.
* `ApiServerProofs`: `ServerUsesClient` in the same way for `QueueClient`, whose
  theorems then hold in the server (`ServerKeepsConnections`). `Answers` ties what
  a client has heard to the request's outcome and gives `NobodyMisled`;
  `OneAtATime`, that a client has at most one request that has not failed, gives
  `RetriesCounted` by counting.
* `ApiServerProofs` on `QueueClient`: `TypeOK /\ SharedPromise /\ NoLeak` is
  inductive, none of the three alone: a rejected `connect` clears the promise, and that nobody else
  waits for it then needs its leader to be the only one connecting;
  `AtMostOneConnection` follows, because a connection in use excludes a promise
  and a promise excludes another leader.
* `SandboxExecutorProofs`: the status is true (`StatusIsTrue`) because the history
  of each command agrees with where `executeCode` is (`HistoryFits`): the deadline
  counts for a command from its launch to the reading of `ctx.Err()`. With it
  `RunsWhatCompiled`, and `ReturnsClean` from `Quiet`: between commands no child
  runs and nobody holds its pipe, and from `WorkspacesFit`: a call has at most the
  one workspace it made, beside those that earlier calls failed to remove.

Every invariant and action property of a passing run is stated by a theorem. Only
model-checked are the liveness properties `NoLimbo`, `StreamsEnd`, `Followed`,
`StrayLoopsEnd`, `Answered`, `EveryoneHears` and `Returns`: liveness under fairness
and `ENABLED` are out of the proof system's reach, as are induction over data and
recursive operators, which no module here uses. Where a liveness property has a
safe core, that is proved: `StaysAttended` for `Followed`, `SharedPromise` for
`Answered` and `EveryoneHears`, `DeliveryOwned` for `NoLimbo`.

## 5. Mutants

Definitions marked "Mutant" are what a plausible mistake in the code would make
of the definition after them. Each property of each run is known to fail for
one of them, so that none holds by the shape of the model alone.

## 6. Findings

1. `RunnerPollingShown`: a poll answered after the user stopped tracking sets the
   indicator to "Polling Fallback" although nothing polls; it stays.
2. `RunnerSwitch`: a poll of execution `b` is out when the user turns to `a`. If
   `b` has ended, its answer stops `a`'s stream and no polling starts: `a` is
   not followed again.

3. `ExecutorLimit`: the time limit kills the child alone, and `CombinedOutput` waits
   for its output pipe without end. A descendant that keeps the pipe, a
   compiler's back end included, keeps the sandbox's only worker, and the job
   never gets the status `timeout` that the repository's README promises.

4. `ConsoleShortcut`: the editor's command for Ctrl/Cmd + Enter is registered once
   and keeps the first render's `onRun`. It submits the first language and its
   starter template, not what the user has written; the workspace's heading
   (`EditorWorkspace.tsx:56`) says the opposite.

Known and not disagreements: the loss of acknowledged results, a process that
survives its connection without consuming, and an API server that does not
connect again, are listed as limitations by the repository's README. An id may
stand for a message written to a channel whose loss is not yet noticed:
`NobodyMisled` promises no more than the write. On the page, the alert of a
failed submit is cleared when the stream of the execution watched before opens;
a failed poll, that of an earlier watch included, overwrites the kind of failure
of the status shown, an outcome too; and the history, which keeps no kind of failure, lists a compile error as "Runtime Error".
`OutcomeStays` leaves out executions watched again: a poll of the first watch may
answer "queued" after the second has brought the outcome, and takes it back. A
record may go back to the status of an earlier execution of its job, and a workspace
that could not be removed stays. Nothing in the code or its documents promises
otherwise, and the properties say no more than they should. The same goes for
messages that expire, are dropped or vanish from a queue without dead-lettering
(`NoLimbo` counts them as resolved), for the list that another tab stores over this
page's (`ShownIsStored` is about lists stored last by this page), and for a client
that is initialized before its consumer is confirmed.

## 7. Not modelled

* Presentation without state of its own: theme, capabilities, styling, times, the
  tab of the latest event, copying and downloading the output.
* `GET /` of both API versions, version 2's test route and the logger: no state.
* `producer.ts`' wait for a reply on the reply queue, which no route uses.
* The static file server: each request maps a path to a file and reads it.
* Deployment: configuration; its restart policy is in the fairness.
* The test client (`src/public`): a stand-alone page, older than the web client,
  whose watcher follows the protocol that `ExecutionRunner` specifies.
* The text of programs and results, beyond what the properties tell apart.

## 8. Plan

Done: `SandboxPipeline` with `AtLeastOnce` and the refinement, `StatusStream`,
`QueueClient` with `ApiServer` around it, `SandboxExecutor`, and `ExecutionRunner`
with `RunHistory` and `ConsolePage` around it; all with proofs.

Next, in this order:

1. `EndToEnd`: API server, pipeline, polling server and watcher composed: a shown
   result is one the program had.
2. `TestClient`: the stand-alone page's watcher and its overlapping submits.
