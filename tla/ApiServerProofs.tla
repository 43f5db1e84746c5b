--------------------------- MODULE ApiServerProofs ---------------------------
(***************************************************************************)
(* Theorems about QueueClient, for any number of requests and of lost      *)
(* connections, and about ApiServer around it, for any clients and         *)
(* programs.                                                               *)
(***************************************************************************)
EXTENDS ApiServer, FiniteSetTheorems, TLAPS

-----------------------------------------------------------------------------
(* RabbitMQClient                                                          *)

\* Every step keeps the variables in their types; in particular whoever finds the
\* client initialized finds a channel.
LEMMA TypeOKStep ==
  ASSUME TypeOK, SharedPromise, NoLeak, [Next]_vars
  PROVE  TypeOK'
  <1> USE QueueClientAssumption DEF TypeOK, CallStates, LinkStates, StepNames, Steps
  <1>1. ASSUME NEW c \in Callers, Produce(c)
        PROVE  TypeOK'
    BY <1>1 DEF Produce, Arrives, Produced
  <1>2. ASSUME NEW c \in Callers, Lead(c)
        PROVE  TypeOK'
    BY <1>2 DEF Lead, Arrives
  <1>3. ASSUME NEW c \in Callers, Follow(c)
        PROVE  TypeOK'
    BY <1>3 DEF Follow, Arrives
  <1>4. ASSUME NEW c \in Callers, Connected(c)
        PROVE  TypeOK'
    BY <1>4 DEF Connected
  <1>5. ASSUME NEW c \in Callers, Refused(c)
        PROVE  TypeOK'
    <2>1. losses' \in 0..MaxLosses
      BY <1>5 DEF Refused
    <2>2. call' \in [Callers -> CallStates]
      BY <1>5 DEF Refused, Reject
    <2>3. /\ initialized' = FALSE /\ promise' = None /\ channel' = channel
          /\ step' \in [Callers -> StepNames \cup {"none"}]
      BY <1>5 DEF Refused, Reject
    <2> QED
      BY <1>5, <2>1, <2>2, <2>3 DEF Refused
  <1>6. ASSUME NEW c \in Callers, Opened(c)
        PROVE  TypeOK'
    BY <1>6 DEF Opened
  <1>7. ASSUME NEW c \in Callers, Asserted(c)
        PROVE  TypeOK'
    BY <1>7 DEF Asserted, Resolve, Produced
  <1>8. ASSUME NEW c \in Callers, Lose(c)
        PROVE  TypeOK'
    BY <1>8 DEF Lose
  <1>9. ASSUME NEW c \in Callers, Closed(c)
        PROVE  TypeOK'
    <2>1. CASE step[c] # "none"
      <3>1. call' \in [Callers -> CallStates]
        BY <1>9, <2>1 DEF Closed, Reject
      <3>2. /\ initialized' = FALSE /\ promise' = None /\ channel' = channel
            /\ step' \in [Callers -> StepNames \cup {"none"}]
        BY <1>9, <2>1 DEF Closed, Reject
      <3>3. /\ link' \in [Callers -> LinkStates]
            /\ UNCHANGED <<alive, consuming, losses>>
        BY <1>9 DEF Closed
      <3> QED
        BY <3>1, <3>2, <3>3
    <2>2. CASE step[c] = "none"
      BY <1>9, <2>2 DEF Closed
    <2> QED
      BY <2>1, <2>2
  <1>10. ASSUME NEW c \in Callers, Dies(c)
         PROVE  TypeOK'
    BY <1>10 DEF Dies
  <1>11. CASE ConsumeOk
    BY <1>11 DEF ConsumeOk
  <1>12. CASE Exits
    BY <1>12 DEF Exits
  <1>13. CASE UNCHANGED vars
    BY <1>13 DEF vars
  <1> QED
    BY <1>1, <1>2, <1>3, <1>4, <1>5, <1>6, <1>7, <1>8, <1>9, <1>10, <1>11, <1>12, <1>13
    DEF Next, Caller, Connect

\* The promise is set with the first step of an initialization and cleared with
\* its last, or with the process.
LEMMA SharedPromiseStep ==
  ASSUME TypeOK, SharedPromise, NoLeak, [Next]_vars
  PROVE  SharedPromise'
  <1> USE QueueClientAssumption DEF TypeOK, SharedPromise, Waiting, Steps
  <1>1. ASSUME NEW c \in Callers, Produce(c)
        PROVE  SharedPromise'
    BY <1>1 DEF Produce, Arrives, Produced
  <1>2. ASSUME NEW c \in Callers, Lead(c)
        PROVE  SharedPromise'
    BY <1>2 DEF Lead, Arrives
  <1>3. ASSUME NEW c \in Callers, Follow(c)
        PROVE  SharedPromise'
    BY <1>3 DEF Follow, Arrives
  <1>4. ASSUME NEW c \in Callers, Connected(c)
        PROVE  SharedPromise'
    BY <1>4 DEF Connected
  <1>5. ASSUME NEW c \in Callers, Refused(c)
        PROVE  SharedPromise'
    BY <1>5 DEF Refused, Reject
  <1>6. ASSUME NEW c \in Callers, Opened(c)
        PROVE  SharedPromise'
    BY <1>6 DEF Opened
  <1>7. ASSUME NEW c \in Callers, Asserted(c)
        PROVE  SharedPromise'
    BY <1>7 DEF Asserted, Resolve, Produced
  <1>8. ASSUME NEW c \in Callers, Lose(c)
        PROVE  SharedPromise'
    BY <1>8 DEF Lose
  <1>9. ASSUME NEW c \in Callers, Closed(c)
        PROVE  SharedPromise'
    BY <1>9 DEF Closed, Reject
  <1>10. ASSUME NEW c \in Callers, Dies(c)
         PROVE  SharedPromise'
    <2>1. \A d \in Callers : d # c => step[d] = "none"
      BY <1>10 DEF Dies, NoLeak, Live
    <2>2. \A d \in Callers : step'[d] = "none" /\ call'[d] # "waiting"
      BY <1>10, <2>1 DEF Dies
    <2> QED
      BY <1>10, <2>2 DEF Dies
  <1>11. CASE ConsumeOk
    BY <1>11 DEF ConsumeOk
  <1>12. CASE Exits
    BY <1>12 DEF Exits
  <1>13. CASE UNCHANGED vars
    BY <1>13 DEF vars
  <1> QED
    BY <1>1, <1>2, <1>3, <1>4, <1>5, <1>6, <1>7, <1>8, <1>9, <1>10, <1>11, <1>12, <1>13
    DEF Next, Caller, Connect

\* A live connection stays with its connect until the producer takes it over.
LEMMA NoLeakStep ==
  ASSUME TypeOK, SharedPromise, NoLeak, [Next]_vars
  PROVE  NoLeak'
  <1> USE QueueClientAssumption DEF TypeOK, SharedPromise, NoLeak, Live, Steps
  <1>1. ASSUME NEW c \in Callers, Produce(c)
        PROVE  NoLeak'
    BY <1>1 DEF Produce, Arrives
  <1>2. ASSUME NEW c \in Callers, Lead(c)
        PROVE  NoLeak'
    BY <1>2 DEF Lead, Arrives
  <1>3. ASSUME NEW c \in Callers, Follow(c)
        PROVE  NoLeak'
    BY <1>3 DEF Follow, Arrives
  <1>4. ASSUME NEW c \in Callers, Connected(c)
        PROVE  NoLeak'
    BY <1>4 DEF Connected
  <1>5. ASSUME NEW c \in Callers, Refused(c)
        PROVE  NoLeak'
    BY <1>5 DEF Refused, Reject
  <1>6. ASSUME NEW c \in Callers, Opened(c)
        PROVE  NoLeak'
    BY <1>6 DEF Opened
  <1>7. ASSUME NEW c \in Callers, Asserted(c)
        PROVE  NoLeak'
    BY <1>7 DEF Asserted, Resolve
  <1>8. ASSUME NEW c \in Callers, Lose(c)
        PROVE  NoLeak'
    BY <1>8 DEF Lose
  <1>9. ASSUME NEW c \in Callers, Closed(c)
        PROVE  NoLeak'
    BY <1>9 DEF Closed, Reject
  <1>10. ASSUME NEW c \in Callers, Dies(c)
         PROVE  NoLeak'
    BY <1>10 DEF Dies
  <1>11. CASE ConsumeOk
    BY <1>11 DEF ConsumeOk
  <1>12. CASE Exits
    BY <1>12 DEF Exits
  <1>13. CASE UNCHANGED vars
    BY <1>13 DEF vars
  <1> QED
    BY <1>1, <1>2, <1>3, <1>4, <1>5, <1>6, <1>7, <1>8, <1>9, <1>10, <1>11, <1>12, <1>13
    DEF Next, Caller, Connect

\* The inductive invariant.
LEMMA ClientInvariant == Spec => [](TypeOK /\ SharedPromise /\ NoLeak)
  <1>1. Init => TypeOK /\ SharedPromise /\ NoLeak
    <2> SUFFICES ASSUME Init
                 PROVE  TypeOK /\ SharedPromise /\ NoLeak
      OBVIOUS
    <2>1. TypeOK
      <3>1. losses \in 0..MaxLosses
        BY QueueClientAssumption DEF Init
      <3>2. /\ step \in [Callers -> StepNames \cup {"none"}]
            /\ link \in [Callers -> LinkStates]
            /\ call \in [Callers -> CallStates]
        BY DEF Init, LinkStates, CallStates
      <3>3. /\ alive = TRUE /\ initialized = FALSE
            /\ promise = None /\ channel = None /\ consuming = "no"
        BY DEF Init
      <3> QED
        BY <3>1, <3>2, <3>3 DEF TypeOK
    <2>2. SharedPromise
      BY QueueClientAssumption DEF Init, SharedPromise, Waiting
    <2>3. NoLeak
      BY DEF Init, NoLeak, Live
    <2> QED
      BY <2>1, <2>2, <2>3
  <1>2. TypeOK /\ SharedPromise /\ NoLeak /\ [Next]_vars
          => (TypeOK /\ SharedPromise /\ NoLeak)'
    BY TypeOKStep, SharedPromiseStep, NoLeakStep
  <1> QED
    BY <1>1, <1>2, PTL DEF Spec

\* The variables keep their types, and an initialized client has a channel.
THEOREM ClientTypeCorrect == Spec => []TypeOK
  BY ClientInvariant, PTL

\* Whoever waits waits for an initialization that is under way, and when none
\* is the next caller can lead one (the finally block of initialize).
THEOREM NobodyWaitsForNothing == Spec => []SharedPromise
  BY ClientInvariant, PTL

\* No connection is left open that the client has forgotten.
THEOREM NoConnectionLeaks == Spec => []NoLeak
  BY ClientInvariant, PTL

\* The client never holds two connections, however its callers interleave.
THEOREM AtMostOneConnection == Spec => []OneConnection
  <1>1. TypeOK /\ SharedPromise /\ NoLeak => OneConnection
    BY QueueClientAssumption DEF SharedPromise, NoLeak, OneConnection
  <1> QED
    BY <1>1, ClientInvariant, PTL

-----------------------------------------------------------------------------
(* The server around RabbitMQClient                                        *)

\* A step of the server is a step of RabbitMQClient or none.
LEMMA ApiStepIsClientStep == [ApiNext]_apiVars => [Next]_vars
  BY DEF ApiNext, Send, TurnAway, Enqueue, Hear, Break, Listen, DatabaseUnreachable,
         Queueing, Next, apiVars, vars, Callers

\* Requests and the database change nothing about RabbitMQClient's promises.
THEOREM ServerUsesClient == ApiSpec => Spec
  <1>1. ApiInit => Init
    BY DEF ApiInit
  <1> QED
    BY <1>1, ApiStepIsClientStep, PTL DEF ApiSpec, Spec

\* Only who waits on RabbitMQClient hears from it.
LEMMA ClientStepKeepsCalls ==
  ASSUME TypeOK,
         Queueing \/ DatabaseUnreachable
  PROVE  \A r \in Requests : call[r] # "waiting" => call'[r] = call[r]
  <1> USE DEF TypeOK, Callers
  <1>1. ASSUME NEW c \in Callers, Connect(c)
        PROVE  \A r \in Requests : call[r] # "waiting" => call'[r] = call[r]
    BY <1>1 DEF Connect, Connected, Refused, Opened, Asserted, Reject, Resolve,
                Produced, Waiting
  <1>2. ASSUME NEW c \in Callers, Lose(c) \/ Closed(c) \/ Dies(c)
        PROVE  \A r \in Requests : call[r] # "waiting" => call'[r] = call[r]
    BY <1>2 DEF Lose, Closed, Dies, Reject
  <1>3. CASE ConsumeOk \/ Exits
    BY <1>3 DEF ConsumeOk, Exits
  <1> QED
    BY <1>1, <1>2, <1>3 DEF Queueing, DatabaseUnreachable

\* A call concerns its caller alone.
LEMMA CallerStepKeepsCalls ==
  ASSUME TypeOK, NEW c \in Callers, Caller(c)
  PROVE  /\ call[c] = "new"
         /\ \A r \in Callers \ {c} : call'[r] = call[r]
  BY DEF TypeOK, Caller, Produce, Lead, Follow, Produced, Arrives

-----------------------------------------------------------------------------
(* Requests and answers                                                    *)

\* The part of ApiTypeOK that is the server's own.
HttpTypes ==
  /\ database \in BOOLEAN
  /\ early \in [Requests -> {0, 400, 404, 500}]
  /\ heard \in [Requests -> {"unsent", "out", "id", "error"}]
  /\ broken \subseteq Requests

\* A request that is turned away never becomes a call, nor one that is not
\* sent; one that has failed for its client, though not for its connection,
\* is not waiting for anything that could still accept it.
Answers ==
  /\ HttpTypes
  /\ \A r \in Requests :
       /\ early[r] # 0 => call[r] = "new"
       /\ heard[r] = "unsent" => call[r] = "new"
       /\ heard[r] = "id" => call[r] = "accepted"
       /\ heard[r] = "error" /\ r \notin broken => call[r] \in {"new", "refused", "failed"}

\* A client has one request out or accepted at most.
OneAtATime ==
  \A r, s \in Requests :
    Owner[r] = Owner[s] /\ r # s /\ heard[r] \in {"out", "id"} => heard[s] \in {"unsent", "error"}

\* An answer follows the call it is about.
LEMMA AnswersStep ==
  ASSUME TypeOK, Answers, [ApiNext]_apiVars
  PROVE  Answers'
  <1> USE DEF Answers, HttpTypes, httpVars
  <1>1. ASSUME NEW r \in Requests, Send(r)
        PROVE  Answers'
    BY <1>1 DEF Send, vars
  <1>2. ASSUME NEW r \in Requests, TurnAway(r)
        PROVE  Answers'
    <2>1. EarlyStatus(Program(r)) \in {400, 404, 500}
      BY <1>2 DEF TurnAway, EarlyStatus, ErrorStatus
    <2>2. call[r] = "new"
      BY <1>2 DEF TurnAway, Received, Arrives
    <2> QED
      BY <1>2, <2>1, <2>2 DEF TurnAway, vars
  <1>3. ASSUME NEW r \in Requests, Enqueue(r)
        PROVE  Answers'
    <2>1. heard[r] = "out" /\ early[r] = 0
      BY <1>3 DEF Enqueue, Received
    <2>2. \A s \in Requests \ {r} : call'[s] = call[s]
      BY <1>3, CallerStepKeepsCalls DEF Enqueue, Callers
    <2> QED
      BY <1>3, <2>1, <2>2 DEF Enqueue
  <1>4. ASSUME NEW r \in Requests, Hear(r)
        PROVE  Answers'
    <2>1. CASE call[r] = "accepted"
      <3>1. Understood(Status(r)) = "id"
        BY <2>1 DEF Status, Understood, Envelope
      <3> QED
        BY <1>4, <2>1, <3>1 DEF Hear, vars
    <2>2. CASE call[r] # "accepted"
      <3>1. /\ Status(r) \in {400, 404, 500, 503}
            /\ call[r] \in {"new", "refused", "failed"}
        BY <1>4, <2>2 DEF Hear, Status, ErrorStatus
      <3>2. Understood(Status(r)) = "error"
        BY <3>1 DEF Understood, Envelope
      <3> QED
        BY <1>4, <3>1, <3>2 DEF Hear, vars
    <2> QED
      BY <2>1, <2>2
  <1>5. ASSUME NEW r \in Requests, Break(r)
        PROVE  Answers'
    BY <1>5 DEF Break, vars
  <1>6. CASE Listen
    <2>1. \A s \in Requests : call'[s] = call[s]
      BY <1>6, CallerStepKeepsCalls, QueueClientAssumption DEF Listen, Callers
    <2> QED
      BY <1>6, <2>1 DEF Listen
  <1>7. CASE DatabaseUnreachable \/ Queueing
    <2>1. UNCHANGED httpVars
      BY <1>7 DEF DatabaseUnreachable, Queueing
    <2> QED
      BY <1>7, <2>1, ClientStepKeepsCalls
  <1>8. CASE UNCHANGED apiVars
    BY <1>8 DEF apiVars, vars
  <1> QED
    BY <1>1, <1>2, <1>3, <1>4, <1>5, <1>6, <1>7, <1>8 DEF ApiNext

\* A request is sent when those before it have failed.
LEMMA OneAtATimeStep ==
  ASSUME Answers, OneAtATime, [ApiNext]_apiVars
  PROVE  OneAtATime'
  <1> USE DEF Answers, HttpTypes, OneAtATime
  <1>1. UNCHANGED Owner
    OBVIOUS
  <1>2. ASSUME NEW r \in Requests, Send(r)
        PROVE  OneAtATime'
    BY <1>2 DEF Send
  <1>3. ASSUME NEW r \in Requests, Hear(r)
        PROVE  OneAtATime'
    <2>1. heard[r] = "out" /\ Understood(Status(r)) \in {"id", "error"}
      BY <1>3 DEF Hear, Understood
    <2> QED
      BY <1>3, <2>1 DEF Hear
  <1>4. ASSUME NEW r \in Requests, Break(r)
        PROVE  OneAtATime'
    BY <1>4 DEF Break
  <1>5. CASE UNCHANGED heard
    BY <1>5
  <1> QED
    BY <1>2, <1>3, <1>4, <1>5
    DEF ApiNext, TurnAway, Enqueue, Listen, DatabaseUnreachable, Queueing, httpVars,
        apiVars

\* The invariant behind the theorems about clients.
ApiInv == TypeOK /\ Answers /\ OneAtATime

\* Calls and answers agree in every state of the server.
THEOREM ApiInvariance == ApiSpec => []ApiInv
  <1>1. ApiInit => Answers /\ OneAtATime
    BY DEF ApiInit, Init, Answers, HttpTypes, OneAtATime, Callers
  <1>2. TypeOK /\ Answers /\ OneAtATime /\ [ApiNext]_apiVars => (Answers /\ OneAtATime)'
    BY AnswersStep, OneAtATimeStep
  <1>3. Spec => []TypeOK
    BY ClientTypeCorrect
  <1> QED
    BY <1>1, <1>2, <1>3, ServerUsesClient, PTL DEF ApiSpec, ApiInv

-----------------------------------------------------------------------------
(* What a client can rely on                                               *)

\* The variables of the server keep their types, and an initialized client has a
\* channel.
THEOREM ApiTypeCorrect == ApiSpec => []ApiTypeOK
  <1>1. ApiInv => ApiTypeOK
    BY DEF ApiInv, Answers, HttpTypes, ApiTypeOK
  <1> QED
    BY <1>1, ApiInvariance, PTL

\* An id is heard only of a program that was written to a channel, and an
\* error of one that was is heard only over a broken connection.
THEOREM ClientsAreToldTheTruth == ApiSpec => []NobodyMisled
  <1>1. ApiInv => NobodyMisled
    BY DEF ApiInv, Answers, NobodyMisled
  <1> QED
    BY <1>1, ApiInvariance, PTL

\* An accepted request has told its client, is still out, or is broken.
LEMMA AcceptedFacts ==
  ASSUME Answers, NEW r \in Requests, call[r] = "accepted"
  PROVE  heard[r] \in {"out", "id"} \/ r \in broken
  BY DEF Answers, HttpTypes

\* Whatever a client submits again after failures, its executions are at most
\* one more than its broken connections.
THEOREM RetriesAreCounted == ApiSpec => []RetriesCounted
  <1>1. ASSUME ApiInv, NEW x \in Clients
        PROVE  Cardinality(Accepted(x)) <= 1 + Cardinality({r \in broken : Owner[r] = x})
    <2> DEFINE Heard == {r \in Requests : Owner[r] = x /\ heard[r] \in {"out", "id"}}
               Broken == {r \in broken : Owner[r] = x}
    <2>1. Accepted(x) \subseteq Heard \cup Broken
      BY <1>1, AcceptedFacts DEF ApiInv, Accepted
    <2>2. IsFiniteSet(Heard) /\ IsFiniteSet(Broken)
      <3>1. Heard \subseteq Requests /\ Broken \subseteq Requests
        BY <1>1 DEF ApiInv, Answers, HttpTypes
      <3> QED
        BY <3>1, ApiAssumption, FS_Subset
    <2>3. Cardinality(Heard) <= 1
      <3>1. CASE Heard = {}
        BY <3>1, FS_EmptySet
      <3>2. CASE Heard # {}
        <4>1. PICK r \in Heard : TRUE
          BY <3>2
        <4>2. Heard = {r}
          BY <1>1, <4>1 DEF ApiInv, Answers, HttpTypes, OneAtATime
        <4>3. Cardinality({r}) = 1
          BY FS_Singleton
        <4> HIDE DEF Heard
        <4> QED
          BY <4>2, <4>3
      <3> QED
        BY <3>1, <3>2
    <2> HIDE DEF Heard, Broken
    <2>4. /\ IsFiniteSet(Heard \cup Broken)
          /\ Cardinality(Heard \cup Broken)
               = Cardinality(Heard) + Cardinality(Broken) - Cardinality(Heard \cap Broken)
      BY <2>2, FS_Union
    <2>5. IsFiniteSet(Heard \cap Broken)
      BY <2>2, FS_Subset
    <2>6. /\ Cardinality(Heard) \in Nat
          /\ Cardinality(Broken) \in Nat
          /\ Cardinality(Heard \cap Broken) \in Nat
      BY <2>2, <2>5, FS_CardinalityType
    <2>7. IsFiniteSet(Accepted(x)) /\ Cardinality(Accepted(x)) <= Cardinality(Heard \cup Broken)
      BY <2>1, <2>4, FS_Subset
    <2>8. Cardinality(Accepted(x)) \in Nat
      BY <2>7, FS_CardinalityType
    <2>9. Cardinality(Accepted(x)) <= 1 + Cardinality(Broken)
      BY <2>3, <2>4, <2>6, <2>7, <2>8
    <2> QED
      BY <2>9 DEF Broken
  <1>2. ApiInv => RetriesCounted
    BY <1>1 DEF RetriesCounted
  <1> QED
    BY <1>2, ApiInvariance, PTL

\* RabbitMQClient keeps its promises inside the server: one connection at
\* most, none forgotten, and nobody left waiting for nothing.
THEOREM ServerKeepsConnections == ApiSpec => [](OneConnection /\ NoLeak /\ SharedPromise)
  BY ServerUsesClient, AtMostOneConnection, NoConnectionLeaks, NobodyWaitsForNothing, PTL

=============================================================================
