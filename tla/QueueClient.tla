----------------------------- MODULE QueueClient -----------------------------
(***************************************************************************)
(* The API server's RabbitMQClient (src/services/rabbitmq/client.ts): one  *)
(* object that every request shares, connected at start-up or by the first *)
(* request that finds it is not.                                           *)
(*                                                                         *)
(* JavaScript runs one callback at a time, so an action is what happens    *)
(* from one awaited reply of the broker to the next, with the promises it  *)
(* settles.  What amqplib does is modelled from how the code uses it: no   *)
(* listener for the connection's error event, no await on consume.         *)
(***************************************************************************)
EXTENDS Naturals, FiniteSets

CONSTANTS
  Requests,   \* POST /producer requests with a valid payload
  Startup,    \* the call of initialize when the server begins to listen
  MaxLosses,  \* bound: connections lost or refused
  None

Callers == Requests \cup {Startup}

ASSUME QueueClientAssumption ==
  /\ Startup \notin Requests
  /\ None \notin Callers
  /\ MaxLosses \in Nat

VARIABLES
  alive,        \* the server process
  initialized,  \* isInitialized
  promise,      \* initializationPromise, named by the caller that leads it
  step,         \* the reply that connect, led by a caller, is waiting for
  link,         \* the connection that a caller's connect has opened
  channel,      \* the one whose channels this.producer uses
  consuming,    \* whether the broker has answered channel.consume
  call,         \* where each caller is
  losses        \* history: connections lost or refused

vars == <<alive, initialized, promise, step, link, channel, consuming, call,
          losses>>

Steps == <<"connect", "producerChannel", "consumerChannel", "replyQueue">>

StepNames == {Steps[i] : i \in 1..4}

\* "lost": the broker is gone and the process has not noticed.
LinkStates == {"none", "open", "lost", "closed"}

\* accepted: answered 202; refused: 503; failed: 500; dropped: the process
\* died first.
CallStates == {"new", "waiting", "initialized", "accepted", "refused", "failed",
               "dropped"}

TypeOK ==
  /\ alive \in BOOLEAN
  /\ initialized \in BOOLEAN
  /\ promise \in Callers \cup {None}
  /\ step \in [Callers -> StepNames \cup {"none"}]
  /\ link \in [Callers -> LinkStates]
  /\ channel \in IF initialized THEN Callers ELSE Callers \cup {None}
  /\ consuming \in {"no", "asked", "yes"}
  /\ call \in [Callers -> CallStates]
  /\ losses \in 0..MaxLosses

Init ==
  /\ alive = TRUE
  /\ initialized = FALSE
  /\ promise = None
  /\ step = [c \in Callers |-> "none"]
  /\ link = [c \in Callers |-> "none"]
  /\ channel = None
  /\ consuming = "no"
  /\ call = [c \in Callers |-> "new"]
  /\ losses = 0

-----------------------------------------------------------------------------
(* Promises                                                                *)

\* produceMessage on the producer's channel, for those of the callers that are
\* requests.  amqplib throws on a channel it knows to be closed; on one that
\* is lost the message is written to nobody, and accepted all the same.
Produced(callers, channelLink) ==
  [c \in Callers |->
     IF c \notin callers THEN call[c]
     ELSE IF c = Startup THEN "initialized"
     ELSE IF channelLink = "closed" THEN "failed" ELSE "accepted"]

Waiting == {c \in Callers : call[c] = "waiting"}

\* Mutant: only the leader hears of the failure.
RejectLeader(lead) ==
  /\ initialized' = FALSE
  /\ promise' = None
  /\ step' = [step EXCEPT ![lead] = "none"]
  /\ call' = [call EXCEPT ![lead] = "refused"]

\* Mutant: the promise of a failed initialization stays.
RejectKept(lead) ==
  /\ initialized' = FALSE
  /\ promise' = promise
  /\ step' = [step EXCEPT ![lead] = "none"]
  /\ call' = [c \in Callers |-> IF call[c] = "waiting" THEN "refused" ELSE call[c]]

\* initializationWork settles: the leader clears the promise, and everybody
\* who awaits it goes on before any other event is handled.
Reject(lead) ==
  /\ initialized' = FALSE
  /\ promise' = None
  /\ step' = [step EXCEPT ![lead] = "none"]
  /\ call' = [c \in Callers |-> IF call[c] = "waiting" THEN "refused" ELSE call[c]]

Resolve(lead) ==
  /\ initialized' = TRUE
  /\ promise' = None
  /\ step' = [step EXCEPT ![lead] = "none"]
  /\ channel' = lead
  /\ consuming' = "asked"
  /\ call' = Produced(Waiting, link[lead])

-----------------------------------------------------------------------------
(* Callers                                                                 *)

\* The server listens before it takes requests.
Arrives(c) ==
  /\ alive
  /\ call[c] = "new"
  /\ c # Startup => call[Startup] # "new"

\* produce of an initialized client.
Produce(c) ==
  /\ Arrives(c)
  /\ initialized
  /\ call' = Produced({c}, link[channel])
  /\ UNCHANGED <<alive, initialized, promise, step, link, channel, consuming,
                 losses>>

\* Mutant: every caller that finds the client uninitialized connects.
LeadUnshared(c) ==
  /\ Arrives(c)
  /\ ~initialized
  /\ promise' = c
  /\ step' = [step EXCEPT ![c] = "connect"]
  /\ call' = [call EXCEPT ![c] = "waiting"]
  /\ UNCHANGED <<alive, initialized, link, channel, consuming, losses>>

\* initialize with no initialization under way: c leads one.
Lead(c) ==
  /\ Arrives(c)
  /\ ~initialized
  /\ promise = None
  /\ promise' = c
  /\ step' = [step EXCEPT ![c] = "connect"]
  /\ call' = [call EXCEPT ![c] = "waiting"]
  /\ UNCHANGED <<alive, initialized, link, channel, consuming, losses>>

\* initialize while one is: c awaits the same promise.
Follow(c) ==
  /\ Arrives(c)
  /\ ~initialized
  /\ promise # None
  /\ call' = [call EXCEPT ![c] = "waiting"]
  /\ UNCHANGED <<alive, initialized, promise, step, link, channel, consuming,
                 losses>>

-----------------------------------------------------------------------------
(* connect, led by c                                                       *)

\* The broker accepts the connection.
Connected(c) ==
  /\ alive
  /\ step[c] = "connect"
  /\ step' = [step EXCEPT ![c] = Steps[2]]
  /\ link' = [link EXCEPT ![c] = "open"]
  /\ UNCHANGED <<alive, initialized, promise, channel, consuming, call, losses>>

\* It does not: connect rejects, and with it the initialization.
Refused(c) ==
  /\ alive
  /\ losses < MaxLosses
  /\ step[c] = "connect"
  /\ Reject(c)
  /\ losses' = losses + 1
  /\ UNCHANGED <<alive, link, channel, consuming>>

\* Mutant: the wait for a channel is given up, and the connection kept.
OpenedOrGivenUp(c) ==
  /\ alive
  /\ link[c] = "open"
  /\ \/ /\ \E i \in {2, 3} :
             step[c] = Steps[i] /\ step' = [step EXCEPT ![c] = Steps[i + 1]]
        /\ UNCHANGED <<initialized, promise, call>>
     \/ step[c] = Steps[2] /\ Reject(c)
  /\ UNCHANGED <<alive, link, channel, consuming, losses>>

\* A channel is open.
Opened(c) ==
  /\ alive
  /\ \E i \in {2, 3} : step[c] = Steps[i] /\ step' = [step EXCEPT ![c] = Steps[i + 1]]
  /\ link[c] = "open"
  /\ UNCHANGED <<alive, initialized, promise, link, channel, consuming, call,
                 losses>>

\* The reply queue is declared; the last await is of nothing.
Asserted(c) ==
  /\ alive
  /\ step[c] = "replyQueue"
  /\ link[c] = "open"
  /\ Resolve(c)
  /\ UNCHANGED <<alive, link, losses>>

\* consume-ok, which nobody waits for.
ConsumeOk ==
  /\ alive
  /\ consuming = "asked"
  /\ link[channel] = "open"
  /\ consuming' = "yes"
  /\ UNCHANGED <<alive, initialized, promise, step, link, channel, call, losses>>

-----------------------------------------------------------------------------
(* Loss of the connection                                                  *)

Lose(c) ==
  /\ losses < MaxLosses
  /\ link[c] = "open"
  /\ link' = [link EXCEPT ![c] = "lost"]
  /\ losses' = losses + 1
  /\ UNCHANGED <<alive, initialized, promise, step, channel, consuming, call>>

\* The broker closes the connection in order: no error event, pending replies
\* are rejected.  Nothing resets isInitialized.
Closed(c) ==
  /\ alive
  /\ link[c] = "lost"
  /\ ~(channel = c /\ consuming = "asked")
  /\ link' = [link EXCEPT ![c] = "closed"]
  /\ IF step[c] # "none" THEN Reject(c)
                         ELSE UNCHANGED <<initialized, promise, step, call>>
  /\ UNCHANGED <<alive, channel, consuming, losses>>

\* The process dies of an error event without a listener, or of the rejected
\* consume that nobody awaits.
Dies(c) ==
  /\ alive
  /\ link[c] = "lost"
  /\ alive' = FALSE
  /\ link' = [link EXCEPT ![c] = "closed"]
  /\ step' = [step EXCEPT ![c] = "none"]
  /\ promise' = None
  /\ call' = [d \in Callers |-> IF call[d] = "waiting" THEN "dropped" ELSE call[d]]
  /\ UNCHANGED <<initialized, channel, consuming, losses>>

\* Another part of the server ends the process.
Exits ==
  /\ alive
  /\ alive' = FALSE
  /\ link' = [c \in Callers |-> IF link[c] = "none" THEN "none" ELSE "closed"]
  /\ step' = [c \in Callers |-> "none"]
  /\ promise' = None
  /\ call' = [d \in Callers |-> IF call[d] = "waiting" THEN "dropped" ELSE call[d]]
  /\ UNCHANGED <<initialized, channel, consuming, losses>>

-----------------------------------------------------------------------------
Caller(c) == Produce(c) \/ Lead(c) \/ Follow(c)

Connect(c) == Connected(c) \/ Refused(c) \/ Opened(c) \/ Asserted(c)

Next ==
  \/ \E c \in Callers : Caller(c) \/ Connect(c) \/ Lose(c) \/ Closed(c) \/ Dies(c)
  \/ ConsumeOk
  \/ Exits

Spec == Init /\ [][Next]_vars

-----------------------------------------------------------------------------
(* Properties                                                              *)

Live(c) == link[c] \in {"open", "lost"}

\* However many requests meet an uninitialized client, one of them connects:
\* the client never holds two connections, half-made ones included.
OneConnection == \A c, d \in Callers : Live(c) /\ Live(d) => c = d

\* No connection leaks: a live one is being set up, by a connect that still
\* waits for a reply on it, or it is the one the producer uses.
NoLeak ==
  \A c \in Callers :
    Live(c) => step[c] \notin {"none", "connect"} \/ (initialized /\ channel = c)

\* The promise the callers share is that of the initialization under way: a
\* caller that waits is never left waiting for nothing, and after a failure
\* the next caller tries again.
SharedPromise ==
  /\ \A c \in Callers : step[c] # "none" <=> promise = c
  /\ promise = None => Waiting = {}
  /\ initialized => promise = None

\* Each call of initialize is answered, unless the server dies.
Answered ==
  \A c \in Callers : call[c] = "waiting" ~> call[c] # "waiting"

=============================================================================
