------------------------------ MODULE ApiServer ------------------------------
(***************************************************************************)
(* POST /producer from the web client's fetch to its answer: the API       *)
(* server's middleware, routes and error handler around QueueClient, and   *)
(* what submitExecution makes of the answer.                               *)
(*                                                                         *)
(* A client submits its program again when an attempt has failed, as the   *)
(* page's user does.  Nothing ties the attempts together: no request       *)
(* carries a key, and the server makes an execution of each.               *)
(***************************************************************************)
EXTENDS QueueClient

CONSTANTS
  Clients,
  Owner,    \* the client that makes a request
  Programs  \* what the clients submit

\* header: accept-version, "" for none; payload: what the body is like.
ASSUME ApiAssumption ==
  /\ IsFiniteSet(Requests)
  /\ Owner \in [Requests -> Clients]
  /\ Programs \subseteq [header : STRING, payload : {"valid", "invalid", "garbled"}]

VARIABLES
  database, \* whether mongoose can connect
  program,  \* what each client submits
  early,    \* the status of a request that was not put on the queue
  heard,    \* what has become of a request for its client
  broken    \* history: requests whose connection broke

httpVars == <<database, program, early, heard, broken>>
apiVars == <<vars, httpVars>>

ApiInit ==
  /\ Init
  /\ database \in BOOLEAN
  /\ program \in [Clients -> Programs]
  /\ early = [r \in Requests |-> 0]
  /\ heard = [r \in Requests |-> "unsent"]
  /\ broken = {}

-----------------------------------------------------------------------------
(* The server                                                              *)

\* apiVersionExtractor: what it does not know is version 1.
ApiVersion(header) == IF header \in {"1", "2"} THEN header ELSE "1"

\* express.json, before any route.
Parsed(p) == p.payload # "garbled"

\* getRouter: the routes of version 2 have no /producer.
HasProducer(p) == ApiVersion(p.header) = "1"

\* producerPayloadSchema.
Valid(p) == p.payload = "valid"

\* errorHandler: the status of an APIError, and 500 for an error without one.
ErrorStatus(code) == IF code = 0 THEN 500 ELSE code

\* The status for a program that does not reach RabbitMQClient.produce, or 0.
\* The JSON parser's error is not an APIError; where no route matches there is
\* no error.
EarlyStatus(p) ==
  CASE ~Parsed(p) -> ErrorStatus(0)
    [] Parsed(p) /\ ~HasProducer(p) -> 404
    [] Parsed(p) /\ HasProducer(p) /\ ~Valid(p) -> ErrorStatus(400)
    [] OTHER -> 0

Program(r) == program[Owner[r]]

\* The request reaches a server that listens.
Received(r) == heard[r] = "out" /\ early[r] = 0 /\ Arrives(r)

TurnAway(r) ==
  /\ Received(r)
  /\ EarlyStatus(Program(r)) # 0
  /\ early' = [early EXCEPT ![r] = EarlyStatus(Program(r))]
  /\ UNCHANGED <<vars, database, program, heard, broken>>

Enqueue(r) ==
  /\ Received(r)
  /\ EarlyStatus(Program(r)) = 0
  /\ Caller(r)
  /\ UNCHANGED httpVars

Listen == Caller(Startup) /\ UNCHANGED httpVars

\* Mutant: nothing catches the rejection of an async handler.
StatusUncaught(r) == IF call[r] = "accepted" THEN 202 ELSE early[r]

\* Mutant: the answer is sent without waiting for produce.
StatusUnawaited(r) ==
  CASE call[r] \in {"accepted", "waiting"} -> 202
    [] call[r] = "refused" -> 503
    [] call[r] = "failed" -> 500
    [] OTHER -> early[r]

\* The status of a request, 0 while it has none: catchAsync hands what produce
\* throws to errorHandler, an APIError 503 or an Error of amqplib.
Status(r) ==
  CASE call[r] = "accepted" -> 202
    [] call[r] = "refused" -> ErrorStatus(503)
    [] call[r] = "failed" -> ErrorStatus(0)
    [] OTHER -> early[r]

\* What fr and fe put into the answer.
Envelope(status) == IF status = 202 THEN "executionID" ELSE "message"

-----------------------------------------------------------------------------
(* The client                                                              *)

\* A first attempt, or another after those before it have failed.
Send(r) ==
  /\ heard[r] = "unsent"
  /\ \A s \in Requests \ {r} : Owner[s] = Owner[r] => heard[s] \in {"unsent", "error"}
  /\ heard' = [heard EXCEPT ![r] = "out"]
  /\ UNCHANGED <<vars, database, program, early, broken>>

\* Mutant: only 200 counts as success.
UnderstoodExactly(status) == IF status = 200 THEN "id" ELSE "error"

\* Mutant: what the body says is returned, whatever the status.
UnderstoodBody(status) == Envelope(status)

\* submitExecution: the id of an accepted request, or an ExecutorAPIError.
Understood(status) ==
  IF status \in 200..299 /\ Envelope(status) = "executionID" THEN "id" ELSE "error"

Hear(r) ==
  /\ heard[r] = "out"
  /\ Status(r) # 0
  /\ heard' = [heard EXCEPT ![r] = Understood(Status(r))]
  /\ UNCHANGED <<vars, database, program, early, broken>>

\* fetch rejects: the connection breaks, or there is no server to answer.
Break(r) ==
  /\ heard[r] = "out"
  /\ heard' = [heard EXCEPT ![r] = "error"]
  /\ broken' = broken \cup {r}
  /\ UNCHANGED <<vars, database, program, early>>

NoServer(r) == ~alive /\ Break(r)

-----------------------------------------------------------------------------
\* mongoose gives up, after the server has begun to listen.
DatabaseUnreachable ==
  /\ ~database
  /\ Exits
  /\ UNCHANGED httpVars

\* RabbitMQClient and the broker.
Queueing ==
  /\ \/ \E c \in Callers : Connect(c) \/ Lose(c) \/ Closed(c) \/ Dies(c)
     \/ ConsumeOk
  /\ UNCHANGED httpVars

ApiNext ==
  \/ \E r \in Requests : Send(r) \/ TurnAway(r) \/ Enqueue(r) \/ Hear(r) \/ Break(r)
  \/ Listen \/ DatabaseUnreachable
  \/ Queueing

\* A broker that is asked answers, a lost connection is noticed; the server is
\* started and takes what it is sent; the network delivers or fails.
ApiSpec ==
  /\ ApiInit /\ [][ApiNext]_apiVars
  /\ \A c \in Callers :
       /\ WF_apiVars(Connect(c) /\ UNCHANGED httpVars)
       /\ WF_apiVars((Closed(c) \/ Dies(c)) /\ UNCHANGED httpVars)
  /\ WF_apiVars(Listen)
  /\ \A r \in Requests : /\ WF_apiVars(TurnAway(r) \/ Enqueue(r))
                         /\ WF_apiVars(Hear(r) \/ NoServer(r))

-----------------------------------------------------------------------------
(* Properties                                                              *)

ApiTypeOK ==
  /\ TypeOK
  /\ database \in BOOLEAN
  /\ early \in [Requests -> {0, 400, 404, 500}]
  /\ heard \in [Requests -> {"unsent", "out", "id", "error"}]
  /\ broken \subseteq Requests

\* What the client is told is so: an id stands for a message written to a
\* channel, and an error for none, unless the connection broke.
NobodyMisled ==
  \A r \in Requests :
    /\ heard[r] = "id" => call[r] = "accepted"
    /\ heard[r] = "error" /\ r \notin broken => call[r] # "accepted"

Accepted(x) == {r \in Requests : Owner[r] = x /\ call[r] = "accepted"}

\* A client that submits again after each failure has at most one execution
\* more than connections that broke.
RetriesCounted ==
  \A x \in Clients :
    Cardinality(Accepted(x)) <= 1 + Cardinality({r \in broken : Owner[r] = x})

\* Every request is answered or fails: none hangs on a promise nobody settles.
EveryoneHears == \A r \in Requests : heard[r] = "out" ~> heard[r] # "out"

=============================================================================
