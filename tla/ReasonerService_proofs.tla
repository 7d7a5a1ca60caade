----------------------- MODULE ReasonerService_proofs -----------------------
(***************************************************************************)
(* Theorems about ReasonerService, for any messages, requests, deliveries  *)
(* and bounds.                                                             *)
(***************************************************************************)
EXTENDS ReasonerService, StreamGraph_proofs

-----------------------------------------------------------------------------
(* Path A is never taken. *)

\* What a step of the service can do to the calls of the graph.
GraphChange ==
    \/ \E c \in Calls : GraphStep(c)
    \/ \E c \in Calls : Invoke(c, "search") \/ Invoke(c, "retrieve_context")
    \/ \E calls : Forget(calls)
    \/ UNCHANGED graphVars

LEMMA StepChangesGraph ==
    ASSUME [Next]_vars
    PROVE  GraphChange
<1> USE DeliveriesAssumption, RequestsAssumption
<1>1. CASE UNCHANGED vars
  BY <1>1 DEF vars, GraphChange
<1>2. CASE Lifespan
  <2>1. CASE Exit
    BY <2>1 DEF Exit, GraphChange
  <2>2. CASE ~Exit
    BY <1>2, <2>2 DEF Lifespan, StartStep, StartNats, StartConsumer, StartRag, StartV1, BeginShutdown,
       ShutdownStep, Close, CancelLoop, ClosePulsar, Boot, GiveUp, GraphChange
  <2>3. QED
    BY <2>1, <2>2
<1>3. CASE Arrive
  BY <1>3 DEF Arrive, Produce, V1Receive, RagReceive, SseOpen, HttpOpen, GraphChange
<1>4. CASE Broker \/ \E m \in Messages : Elsewhere(m)
  BY <1>4 DEF Broker, Reconnect, Elsewhere, HandledElsewhere, GraphChange
<1>5. CASE \E d \in Deliveries : Consume(d)
  <2>1. PICK d \in Deliveries : Process(d)
    BY <1>5 DEF Consume
  <2>2. d \in Calls
    OBVIOUS
  <2>3. QED
    BY <2>1, <2>2 DEF Process, Receive, Parse, GraphEnds, SendResult, SendFails, Acknowledge,
       AcknowledgeFails, Nack, GraphChange
<1>6. CASE \E r \in Requests : Serve(r)
  BY <1>6 DEF Serve, HandleRequest, V1Chunk, V1StreamEnds, V1Result, V1Legacy, V1Reply, V1Error,
     V1ErrorReply, RagComputed, RagRefused, RagRespond, RagPublish, SseChunk, SseStop, SseDone, HttpAnswer, GraphChange
<1>7. CASE \E r \in Requests : GoneAway(r) \/ Stream(r)
  BY <1>7 DEF GoneAway, SseBreaks, CutOff, Stream, GraphChange
<1>8. CASE \E c \in Calls : Call(c)
  BY <1>8 DEF Call, GraphChange
<1>9. QED
  BY <1>1, <1>2, <1>3, <1>4, <1>5, <1>6, <1>7, <1>8 DEF Next

\* An error is counted in retrieve_context, once, and again in error_handler,
\* which generate_response leaves for good.
AtMostTwoErrors ==
    /\ node \in [Calls -> Nodes]
    /\ error_count \in [Calls -> Nat]
    /\ is_error \in [Calls -> BOOLEAN]
    /\ \A c \in Calls :
          /\ ~is_error[c]
          /\ node[c] # "graceful"
          /\ node[c] \in {"idle", "search", "rerank", "retrieve_context"} => error_count[c] = 0
          /\ node[c] = "error_handler" => error_count[c] = 1

LEMMA GraphChangeCounts ==
    ASSUME MAX_RETRIES > 2, AtMostTwoErrors, GraphChange
    PROVE  AtMostTwoErrors'
<1> USE MaxRetriesAssumption DEF AtMostTwoErrors, Nodes, Graph, CallEnded, Finished
<1>1. CASE \E c \in Calls : Search(c) \/ Rerank(c) \/ RetrieveContext(c)
  BY <1>1 DEF Search, Rerank, RetrieveContext, At
<1>2. CASE \E c \in Calls : ErrorHandler(c)
  BY <1>2 DEF ErrorHandler, At
<1>3. CASE \E c \in Calls : GenerateResponse(c)
  <2>1. PICK c \in Calls : GenerateResponse(c)
    BY <1>3
  <2>2. CASE /\ At(c, "persist")
             /\ error_count' = [error_count EXCEPT ![c] = 0]
             /\ is_error' = [is_error EXCEPT ![c] = FALSE]
    <3>1. node' \in [Calls -> Nodes] /\ node'[c] = "persist"
      BY <2>2 DEF At
    <3>2. error_count' \in [Calls -> Nat]
      BY <2>2
    <3>3. is_error' \in [Calls -> BOOLEAN] /\ \A k \in Calls : ~is_error'[k]
      BY <2>2
    <3>4. \A k \in Calls \ {c} : node'[k] = node[k] /\ error_count'[k] = error_count[k]
      BY <2>2 DEF At
    <3>5. QED
      BY <3>1, <3>2, <3>3, <3>4
  <2>3. CASE At(c, "raised") /\ UNCHANGED <<error_count, is_error>>
    BY <2>3 DEF At
  <2>4. QED
    BY <2>1, <2>2, <2>3 DEF GenerateResponse
<1>4. CASE \E c \in Calls : Persist(c) \/ PersistFails(c)
  BY <1>4 DEF Persist, PersistFails, At
<1>5. CASE \E c \in Calls : Invoke(c, "search") \/ Invoke(c, "retrieve_context")
  BY <1>5 DEF Invoke, At
<1>6. CASE \E calls : Forget(calls)
  <2>1. PICK calls : Forget(calls)
    BY <1>6
  <2>2. node' \in [Calls -> Nodes] /\ error_count' \in [Calls -> Nat] /\ is_error' \in [Calls -> BOOLEAN]
    BY <2>1 DEF Forget
  <2>3. \A c \in Calls \ calls : /\ node'[c] = node[c]
                                 /\ error_count'[c] = error_count[c]
                                 /\ is_error'[c] = is_error[c]
    BY <2>1 DEF Forget
  <2>4. \A c \in Calls \intersect calls : node'[c] = "idle" /\ error_count'[c] = 0 /\ is_error'[c] = FALSE
    BY <2>1 DEF Forget
  <2>5. QED
    BY <2>2, <2>3, <2>4
<1>7. CASE UNCHANGED graphVars
  BY <1>7 DEF graphVars
<1>8. QED
  BY <1>1, <1>2, <1>3, <1>4, <1>5, <1>6, <1>7 DEF GraphChange, GraphStep

\* With three retries or more, error_handler never exhausts them (graph.py):
\* no caller of invoke_graph ever sees a GraphErrorResponse.
THEOREM PathAIsNeverTaken ==
    ASSUME MAX_RETRIES > 2
    PROVE  Spec => []RetriesNeverExhausted
<1>1. Init => AtMostTwoErrors
  BY DEF Init, GraphInit, AtMostTwoErrors, Nodes
<1>2. AtMostTwoErrors /\ [Next]_vars => AtMostTwoErrors'
  BY StepChangesGraph, GraphChangeCounts
<1>3. AtMostTwoErrors => RetriesNeverExhausted
  BY DEF AtMostTwoErrors, RetriesNeverExhausted
<1>4. QED
  BY <1>1, <1>2, <1>3, PTL DEF Spec

-----------------------------------------------------------------------------
(* The Pulsar consumer. *)

\* What a step of the service can do to the consumer.
PulsarChange ==
    \/ StartPulsar \/ StopConsuming \/ CloseClient \/ PulsarExit \/ Reconnect
    \/ \E m \in Messages : Produce(m) \/ HandledElsewhere(m)
    \/ \E d \in Deliveries : Process(d)
    \/ UNCHANGED pulsarVars

LEMMA StepChangesPulsar ==
    ASSUME [Next]_vars
    PROVE  PulsarChange
<1>1. CASE UNCHANGED vars
  BY <1>1 DEF vars, PulsarChange
<1>2. CASE Lifespan
  BY <1>2 DEF Lifespan, StartStep, StartNats, StartConsumer, StartRag, StartV1, BeginShutdown,
     ShutdownStep, Close, CancelLoop, ClosePulsar, Exit, Boot, GiveUp, PulsarChange
<1>3. CASE Arrive \/ Broker \/ (\E m \in Messages : Elsewhere(m)) \/ (\E d \in Deliveries : Consume(d))
  BY <1>3 DEF Arrive, Broker, Elsewhere, Consume, PulsarChange
<1>4. CASE (\E r \in Requests : Serve(r) \/ GoneAway(r) \/ Stream(r)) \/ (\E c \in Calls : Call(c))
  BY <1>4 DEF Serve, GoneAway, Stream, Call, PulsarChange
<1>5. QED
  BY <1>1, <1>2, <1>3, <1>4 DEF Next

LEMMA PulsarTypeStep ==
    ASSUME PulsarTypeOK, PulsarChange
    PROVE  PulsarTypeOK'
<1> USE DEF PulsarTypeOK, Working
<1>1. CASE StartPulsar \/ StopConsuming
  BY <1>1 DEF StartPulsar, StopConsuming
<1>2. CASE CloseClient \/ PulsarExit \/ Reconnect
  BY <1>2 DEF CloseClient, PulsarExit, Reconnect, Redeliver, Held
<1>3. CASE \E m \in Messages : Produce(m) \/ HandledElsewhere(m)
  BY <1>3 DEF Produce, HandledElsewhere
<1>4. CASE \E d \in Deliveries : Receive(d) \/ Parse(d) \/ GraphEnds(d)
  BY <1>4 DEF Receive, Parse, GraphEnds, Proceed
<1>5. CASE \E d \in Deliveries : SendResult(d) \/ SendFails(d)
  BY <1>5 DEF SendResult, SendFails, Proceed
<1>6. CASE \E d \in Deliveries : Acknowledge(d) \/ AcknowledgeFails(d) \/ Nack(d)
  BY <1>6 DEF Acknowledge, AcknowledgeFails, Nack, Redeliver, Held, Proceed
<1>7. CASE UNCHANGED pulsarVars
  BY <1>7 DEF pulsarVars
<1>8. QED
  BY <1>1, <1>2, <1>3, <1>4, <1>5, <1>6, <1>7 DEF PulsarChange, Process

\* A delivery past its parsing is of a message that parses, one about to
\* acknowledge has sent its result.
SentBeforeAcknowledged ==
    /\ \A d \in Deliveries :
          /\ process[d] \in Working => broker[message[d]] # "absent"
          /\ process[d] \in {"graph", "send", "acknowledge"} => message[d] \notin malformed
          /\ process[d] = "acknowledge" => results[message[d]] > 0
    /\ AckedHasResult

LEMMA SentBeforeAcknowledgedStep ==
    ASSUME PulsarTypeOK, SentBeforeAcknowledged, PulsarChange
    PROVE  SentBeforeAcknowledged'
<1> USE DEF PulsarTypeOK, SentBeforeAcknowledged, AckedHasResult, Working
<1>1. CASE StartPulsar \/ StopConsuming
  BY <1>1 DEF StartPulsar, StopConsuming
<1>2. CASE CloseClient \/ PulsarExit \/ Reconnect
  BY <1>2 DEF CloseClient, PulsarExit, Reconnect, Redeliver, Held
<1>3. CASE \E m \in Messages : Produce(m) \/ HandledElsewhere(m)
  BY <1>3 DEF Produce, HandledElsewhere
<1>4. CASE \E d \in Deliveries : Receive(d) \/ Parse(d) \/ GraphEnds(d)
  BY <1>4 DEF Receive, Parse, GraphEnds, Proceed
<1>5. CASE \E d \in Deliveries : SendResult(d) \/ SendFails(d)
  BY <1>5 DEF SendResult, SendFails, Proceed
<1>6. CASE \E d \in Deliveries : Acknowledge(d) \/ AcknowledgeFails(d) \/ Nack(d)
  BY <1>6 DEF Acknowledge, AcknowledgeFails, Nack, Redeliver, Held, Proceed
<1>7. CASE UNCHANGED pulsarVars
  BY <1>7 DEF pulsarVars
<1>8. QED
  BY <1>1, <1>2, <1>3, <1>4, <1>5, <1>6, <1>7 DEF PulsarChange, Process

\* The result is sent before the acknowledgement (PulsarHandler._process), so an
\* acknowledged message has one, and a message that does not parse is never
\* acknowledged, whatever fails and whenever the process ends.
THEOREM AcknowledgedIsAnswered == Spec => []AckedHasResult
<1> DEFINE Inv == PulsarTypeOK /\ SentBeforeAcknowledged
<1>1. Init => Inv
  BY DEF Init, PulsarInit, PulsarTypeOK, SentBeforeAcknowledged, AckedHasResult, Working
<1>2. Inv /\ [Next]_vars => Inv'
  BY StepChangesPulsar, PulsarTypeStep, SentBeforeAcknowledgedStep
<1>3. Inv => AckedHasResult
  BY DEF SentBeforeAcknowledged
<1>4. QED
  BY <1>1, <1>2, <1>3, PTL DEF Spec

\* A task whose message is in no doubt is the only one for it, holds the message,
\* and has sent its result exactly when it is about to acknowledge.
Sole(d) ==
    process[d] \in Working /\ message[d] \notin doubtful =>
        /\ broker[message[d]] = "held"
        /\ \A e \in Deliveries : process[e] \in Working /\ message[e] = message[d] => e = d
        /\ results[message[d]] = IF process[d] = "acknowledge" THEN 1 ELSE 0

\* A message in no doubt has no result, or one that is acknowledged, or is about
\* to be.
Clean(m) ==
    m \notin doubtful =>
        \/ results[m] = 0
        \/ /\ results[m] = 1
           /\ \/ broker[m] = "acked"
              \/ \E d \in Deliveries : process[d] = "acknowledge" /\ message[d] = m

SoleTasks == (\A d \in Deliveries : Sole(d)) /\ \A m \in Messages : Clean(m)

\* The broker takes back what the service holds.
LEMMA RedeliverKeeps ==
    ASSUME PulsarTypeOK, SoleTasks, Redeliver, UNCHANGED <<message, results>>,
           \A d \in Deliveries : process'[d] = process[d] \/ process'[d] \notin Working
    PROVE  SoleTasks'
<1> USE DEF PulsarTypeOK, Redeliver, Held, BeingProcessed, Working
<1>1. ASSUME NEW d \in Deliveries
      PROVE  Sole(d)'
  BY <1>1 DEF SoleTasks, Sole
<1>2. ASSUME NEW m \in Messages, m \notin doubtful'
      PROVE  Clean(m)'
  <2>1. CASE results[m] = 0
    BY <2>1 DEF Clean
  <2>2. CASE results[m] = 1 /\ broker[m] = "acked"
    BY <1>2, <2>2 DEF Clean
  <2>3. CASE \E d \in Deliveries : process[d] = "acknowledge" /\ message[d] = m
    BY <1>2, <2>3 DEF SoleTasks, Sole
  <2>4. QED
    BY <1>2, <2>1, <2>2, <2>3 DEF SoleTasks, Clean
<1>3. QED
  BY <1>1, <1>2 DEF SoleTasks, Clean

\* A task takes a step of its own.
LEMMA TaskKeeps ==
    ASSUME PulsarTypeOK, SoleTasks, NEW d \in Deliveries, Process(d)
    PROVE  SoleTasks'
<1> DEFINE m == message[d]
<1> m \in Messages
  BY DEF PulsarTypeOK
<1> USE DEF PulsarTypeOK, Working, Proceed
<1>1. CASE Receive(d)
  <2>1. m \notin doubtful =>
           /\ results[m] = 0
           /\ \A e \in Deliveries : process[e] \in Working => message[e] # m
    BY <1>1 DEF SoleTasks, Sole, Clean, Receive
  <2>2. QED
    BY <1>1, <2>1 DEF SoleTasks, Sole, Clean, Receive
<1>2. CASE Parse(d) \/ GraphEnds(d)
  BY <1>2 DEF SoleTasks, Sole, Clean, Parse, GraphEnds
<1>3. CASE SendResult(d)
  BY <1>3 DEF SoleTasks, Sole, Clean, SendResult
<1>4. CASE SendFails(d)
  BY <1>4 DEF SoleTasks, Sole, Clean, SendFails
<1>5. CASE Acknowledge(d) /\ ~Redeliver
  BY <1>5 DEF SoleTasks, Sole, Clean, Acknowledge
<1>6. CASE Acknowledge(d) /\ Redeliver
  BY <1>6, RedeliverKeeps DEF Acknowledge
<1>7. CASE AcknowledgeFails(d)
  BY <1>7 DEF SoleTasks, Sole, Clean, AcknowledgeFails
<1>8. CASE Nack(d)
  BY <1>8 DEF SoleTasks, Sole, Clean, Nack
<1>9. QED
  BY <1>1, <1>2, <1>3, <1>4, <1>5, <1>6, <1>7, <1>8 DEF Process

LEMMA SoleTasksStep ==
    ASSUME PulsarTypeOK, SoleTasks, PulsarChange
    PROVE  SoleTasks'
<1>1. CASE StartPulsar \/ StopConsuming \/ UNCHANGED pulsarVars
  BY <1>1 DEF StartPulsar, StopConsuming, pulsarVars, SoleTasks, Sole, Clean
<1>2. CASE CloseClient \/ PulsarExit \/ Reconnect
  BY <1>2, RedeliverKeeps DEF CloseClient, PulsarExit, Reconnect, PulsarTypeOK, Working
<1>3. ASSUME NEW m \in Messages, Produce(m) \/ HandledElsewhere(m)
      PROVE  SoleTasks'
  <2>1. m \notin doubtful =>
           /\ results[m] = 0
           /\ \A e \in Deliveries : process[e] \in Working => message[e] # m
    BY <1>3 DEF SoleTasks, Sole, Clean, Produce, HandledElsewhere, PulsarTypeOK, Working
  <2>2. QED
    BY <1>3, <2>1 DEF SoleTasks, Sole, Clean, Produce, HandledElsewhere, PulsarTypeOK, Working
<1>4. QED
  BY <1>1, <1>2, <1>3, TaskKeeps DEF PulsarChange

\* A second result is sent for a message only after a send or an acknowledgement
\* raised or the broker took the message back under its task (the except clause of
\* PulsarHandler._process, and redelivery).
THEOREM DuplicatesAreExplained == Spec => []DuplicatesAreDoubtful
<1> DEFINE Inv == PulsarTypeOK /\ SoleTasks
<1>1. Init => Inv
  BY DEF Init, PulsarInit, PulsarTypeOK, SoleTasks, Sole, Clean, Working
<1>2. Inv /\ [Next]_vars => Inv'
  BY StepChangesPulsar, PulsarTypeStep, SoleTasksStep
<1>3. Inv => DuplicatesAreDoubtful
  BY DEF SoleTasks, Clean, DuplicatesAreDoubtful
<1>4. QED
  BY <1>1, <1>2, <1>3, PTL DEF Spec

-----------------------------------------------------------------------------
(* Messages in work. *)

\* A message the broker counts as held by this service is in work, or was taken by
\* the receive that outlived the consume loop and goes back as soon as the client
\* is closed, which is the next step of the shutdown.
HasTask(m) == \E d \in Deliveries : process[d] \in Working /\ message[d] = m

HeldIsInWork ==
    \A m \in Messages : broker[m] = "held" =>
        /\ client = "open"
        /\ HasTask(m) \/ (consuming = "stopped" /\ phase = "closePulsar")

CancelledIsClosing == consuming = "cancelled" => phase = "closePulsar"

\* A step of the consumer alone.
LEMMA ProcessKeepsHeld ==
    ASSUME PulsarTypeOK, CancelledIsClosing, HeldIsInWork,
           NEW d \in Deliveries, Process(d), UNCHANGED phase
    PROVE  CancelledIsClosing' /\ HeldIsInWork'
<1> USE DEF PulsarTypeOK, Working
<1>m. message[d] \in Messages
  OBVIOUS
<1>1. ASSUME NEW m \in Messages, HasTask(m), broker'[m] = "held", message' = message,
             m # message[d] \/ process'[d] \in Working,
             \A e \in Deliveries \ {d} : process'[e] = process[e]
      PROVE  HasTask(m)'
  BY <1>1 DEF HasTask
<1>2. CASE Receive(d)
  <2>1. CASE consuming = "running"
    <3>1. HasTask(message[d])'
      BY <1>2, <2>1 DEF Receive, HasTask
    <3>2. QED
      BY <1>1, <1>2, <2>1, <3>1 DEF Receive, CancelledIsClosing, HeldIsInWork
  <2>2. CASE consuming = "cancelled"
    <3>1. /\ consuming' = "stopped" /\ phase' = "closePulsar" /\ client' = "open"
      BY <1>2, <2>2 DEF Receive, CancelledIsClosing
    <3>2. QED
      BY <3>1 DEF CancelledIsClosing, HeldIsInWork
  <2>3. QED
    BY <1>2, <2>1, <2>2 DEF Receive
<1>3. CASE Parse(d) \/ GraphEnds(d) \/ SendResult(d) \/ SendFails(d) \/ AcknowledgeFails(d)
  <2>1. /\ UNCHANGED <<client, consuming, broker, message>>
        /\ process'[d] \in Working
        /\ \A e \in Deliveries \ {d} : process'[e] = process[e]
    BY <1>3 DEF Parse, GraphEnds, SendResult, SendFails, AcknowledgeFails, Proceed
  <2>2. QED
    BY <1>1, <2>1 DEF CancelledIsClosing, HeldIsInWork
<1>4. CASE Acknowledge(d) \/ Nack(d)
  <2>1. /\ UNCHANGED <<client, consuming, message>>
        /\ \A e \in Deliveries \ {d} : process'[e] = process[e]
    BY <1>4 DEF Acknowledge, Nack, Proceed
  <2>2. \A m \in Messages : broker'[m] = "held" => broker[m] = "held" /\ m # message[d]
    <3>1. CASE Acknowledge(d)
      BY <3>1 DEF Acknowledge, Redeliver
    <3>2. CASE Nack(d)
      BY <3>2 DEF Nack, HeldIsInWork
    <3>3. QED
      BY <1>4, <3>1, <3>2
  <2>3. QED
    BY <1>1, <2>1, <2>2 DEF CancelledIsClosing, HeldIsInWork
<1>5. QED
  BY <1>2, <1>3, <1>4 DEF Process

LEMMA HeldStep ==
    ASSUME PulsarTypeOK, CancelledIsClosing, HeldIsInWork, [Next]_vars
    PROVE  CancelledIsClosing' /\ HeldIsInWork'
<1> USE DEF CancelledIsClosing, HeldIsInWork, HasTask
<1>none. ASSUME Redeliver, consuming' # "cancelled" \/ UNCHANGED <<consuming, phase>>
         PROVE  CancelledIsClosing' /\ HeldIsInWork'
  BY <1>none DEF Redeliver, PulsarTypeOK
<1>same. ASSUME UNCHANGED pulsarVars, phase' = phase \/ phase # "closePulsar"
         PROVE  CancelledIsClosing' /\ HeldIsInWork'
  BY <1>same DEF pulsarVars
<1>1. CASE StartConsumer
  BY <1>1 DEF StartConsumer, StartPulsar
<1>2. CASE CancelLoop
  BY <1>2 DEF CancelLoop, StopConsuming
<1>3. CASE ClosePulsar \/ Exit
  BY <1>3, <1>none DEF ClosePulsar, CloseClient, Exit, PulsarExit
<1>4. CASE Lifespan /\ ~(StartConsumer \/ CancelLoop \/ ClosePulsar \/ Exit)
  BY <1>4, <1>same DEF Lifespan, StartStep, StartNats, StartRag, StartV1, BeginShutdown, ShutdownStep,
     Close, Boot, GiveUp
<1>5. CASE Broker
  BY <1>5, <1>none DEF Broker, Reconnect, lifeVars
<1>6. CASE \E d \in Deliveries : Consume(d)
  BY <1>6, ProcessKeepsHeld DEF Consume, lifeVars
<1>7. CASE Arrive \/ \E m \in Messages : Elsewhere(m)
  <2>1. CASE UNCHANGED pulsarVars
    BY <1>7, <2>1, <1>same DEF Arrive, Elsewhere, lifeVars
  <2>2. CASE \E m \in Messages : Produce(m) \/ HandledElsewhere(m)
    <3>1. /\ UNCHANGED <<phase, client, consuming, message, process>>
          /\ \A m \in Messages : broker'[m] = "held" => broker[m] = "held"
      BY <1>7, <2>2 DEF Produce, HandledElsewhere, Arrive, Elsewhere, lifeVars, PulsarTypeOK
    <3>2. QED
      BY <3>1
  <2>3. QED
    BY <1>7, <2>1, <2>2 DEF Arrive, Elsewhere
<1>8. CASE \/ \E r \in Requests : Serve(r) \/ GoneAway(r) \/ Stream(r)
           \/ \E c \in Calls : Call(c)
           \/ UNCHANGED vars
  BY <1>8, <1>same DEF Serve, GoneAway, Stream, Call, vars, lifeVars
<1>9. QED
  BY <1>1, <1>2, <1>3, <1>4, <1>5, <1>6, <1>7, <1>8 DEF Next

\* No message is held by nobody: a failing send, acknowledgement or connection, a
\* shutdown and an exit at any step leave what the broker counts as held in a task,
\* or give it back (PulsarHandler._consume_loop, _process and close).
THEOREM NothingIsHeldByNobody == Spec => []HeldIsInWork
<1> DEFINE Inv == PulsarTypeOK /\ CancelledIsClosing /\ HeldIsInWork
<1>1. Init => Inv
  BY DEF Init, PulsarInit, PulsarTypeOK, CancelledIsClosing, HeldIsInWork
<1>2. Inv /\ [Next]_vars => Inv'
  BY StepChangesPulsar, PulsarTypeStep, HeldStep
<1>3. QED
  BY <1>1, <1>2, PTL DEF Spec

-----------------------------------------------------------------------------
(* Type correctness. *)

\* An error is counted at most twice before the call ends, a turn saved at most
\* twice; and who has an answer has saved both, or a save failed.
GraphShape ==
    /\ node \in [Calls -> Nodes]
    /\ error_count \in [Calls -> Nat]
    /\ is_error \in [Calls -> BOOLEAN]
    /\ rows \in [Calls -> Nat]
    /\ unsavedCall \in [Calls -> BOOLEAN]
    /\ \A c \in Calls :
          /\ error_count[c] <= 2
          /\ rows[c] <= 2
          /\ node[c] \in {"idle", "search", "rerank", "retrieve_context"} => error_count[c] = 0
          /\ node[c] = "error_handler" => error_count[c] = 1
          /\ node[c] \in {"idle", "search", "rerank", "retrieve_context", "error_handler", "generate_response"}
               => rows[c] = 0
          /\ node[c] = "persist" => rows[c] <= 1
          /\ CallIsSaved(c)

LEMMA GraphShapeStep ==
    ASSUME GraphShape, GraphChange
    PROVE  GraphShape'
<1> USE MaxRetriesAssumption DEF GraphShape, CallIsSaved, Nodes, Graph, CallEnded, Finished
<1>1. CASE \E c \in Calls : Search(c) \/ Rerank(c)
  BY <1>1 DEF Search, Rerank, At
<1>2. CASE \E c \in Calls : RetrieveContext(c)
  BY <1>2 DEF RetrieveContext, At
<1>3. ASSUME NEW c \in Calls, ErrorHandler(c)
      PROVE  GraphShape'
  <2>1. /\ node'[c] \in {"generate_response", "persist"}
        /\ error_count'[c] = 2
        /\ rows[c] = 0
    BY <1>3 DEF ErrorHandler, At
  <2>2. /\ node' \in [Calls -> Nodes]
        /\ \A q \in Calls \ {c} : node'[q] = node[q] /\ error_count'[q] = error_count[q]
    BY <1>3 DEF ErrorHandler, At
  <2>3. error_count' \in [Calls -> Nat]
    BY <1>3 DEF ErrorHandler
  <2>4. is_error' \in [Calls -> BOOLEAN]
    <3> DEFINE exhausted == error_count[c] + 1 >= MAX_RETRIES
    <3>1. exhausted \in BOOLEAN
      OBVIOUS
    <3>2. is_error' = [is_error EXCEPT ![c] = exhausted]
      BY <1>3 DEF ErrorHandler
    <3>3. is_error \in [Calls -> BOOLEAN]
      OBVIOUS
    <3> HIDE DEF exhausted
    <3>4. QED
      BY <3>1, <3>2, <3>3
  <2>5. UNCHANGED <<rows, unsavedCall>>
    BY <1>3 DEF ErrorHandler
  <2>6. QED
    BY <2>1, <2>2, <2>3, <2>4, <2>5
<1>4. ASSUME NEW c \in Calls, GenerateResponse(c)
      PROVE  GraphShape'
  <2>1. /\ node'[c] \in {"persist", "raised"}
        /\ error_count'[c] \in {0, error_count[c]}
        /\ rows[c] = 0
    BY <1>4 DEF GenerateResponse, At
  <2>2. /\ node' \in [Calls -> Nodes]
        /\ \A q \in Calls \ {c} : node'[q] = node[q] /\ error_count'[q] = error_count[q]
    BY <1>4 DEF GenerateResponse, At
  <2>3. error_count' \in [Calls -> Nat]
    BY <1>4 DEF GenerateResponse
  <2>4. is_error' \in [Calls -> BOOLEAN]
    BY <1>4 DEF GenerateResponse
  <2>5. UNCHANGED <<rows, unsavedCall>>
    BY <1>4 DEF GenerateResponse
  <2>6. QED
    BY <2>1, <2>2, <2>3, <2>4, <2>5
<1>5. ASSUME NEW c \in Calls, Persist(c)
      PROVE  GraphShape'
  <2>1. /\ node[c] = "persist"
        /\ rows' = [rows EXCEPT ![c] = rows[c] + 1]
        /\ \/ rows[c] = 0 /\ node' = node
           \/ rows[c] = 1 /\ \E n \in Finished : node' = [node EXCEPT ![c] = n]
    BY <1>5 DEF Persist, At
  <2>2. UNCHANGED <<error_count, is_error, unsavedCall>>
    BY <1>5 DEF Persist
  <2>3. /\ node' \in [Calls -> Nodes] /\ rows' \in [Calls -> Nat]
        /\ \A q \in Calls \ {c} : node'[q] = node[q] /\ rows'[q] = rows[q]
        /\ rows'[c] = rows[c] + 1
        /\ \/ rows[c] = 0 /\ node'[c] = "persist"
           \/ rows[c] = 1 /\ node'[c] \in Finished
    BY <2>1
  <2>4. QED
    BY <2>1, <2>2, <2>3
<1>6. ASSUME NEW c \in Calls, PersistFails(c)
      PROVE  GraphShape'
  <2>1. /\ node[c] = "persist"
        /\ \E n \in Finished : node' = [node EXCEPT ![c] = n]
        /\ unsavedCall' = [unsavedCall EXCEPT ![c] = TRUE]
        /\ UNCHANGED <<error_count, is_error, rows>>
    BY <1>6 DEF PersistFails, At
  <2>2. QED
    BY <2>1
<1>7. CASE \E c \in Calls : Invoke(c, "search") \/ Invoke(c, "retrieve_context")
  BY <1>7 DEF Invoke, At
<1>8. ASSUME NEW calls, Forget(calls)
      PROVE  GraphShape'
  <2>1. /\ node' \in [Calls -> Nodes] /\ error_count' \in [Calls -> Nat] /\ is_error' \in [Calls -> BOOLEAN]
        /\ rows' \in [Calls -> Nat] /\ unsavedCall' \in [Calls -> BOOLEAN]
    BY <1>8 DEF Forget
  <2>2. \A c \in Calls \ calls : /\ node'[c] = node[c] /\ error_count'[c] = error_count[c]
                                 /\ rows'[c] = rows[c] /\ unsavedCall'[c] = unsavedCall[c]
    BY <1>8 DEF Forget
  <2>3. \A c \in Calls \intersect calls : node'[c] = "idle" /\ error_count'[c] = 0 /\ rows'[c] = 0
    BY <1>8 DEF Forget
  <2>4. QED
    BY <2>1, <2>2, <2>3
<1>9. CASE UNCHANGED graphVars
  BY <1>9 DEF graphVars
<1>10. QED
  BY <1>1, <1>2, <1>3, <1>4, <1>5, <1>6, <1>7, <1>8, <1>9 DEF GraphChange, GraphStep

\* What a step of the service can do to the generators.
StreamExit ==
    /\ gen' = [r \in Requests |-> "idle"]
    /\ detached' = [r \in Requests |-> [role \in Roles |-> 0]]
    /\ UNCHANGED <<tokens, turns, unsaved>>

StreamChange ==
    \/ \E r \in Requests : step[r] = "new" /\ Start(r)
    \/ \E r \in Requests : Continue(r)
    \/ StreamExit
    \/ UNCHANGED streamVars

\* What it can do to one request.
RequestStep(r) ==
    \/ V1Receive(r) \/ RagReceive(r)
    \/ SseOpen(r, phase = "serving") \/ HttpOpen(r, phase = "serving")
    \/ HandleRequest(r) \/ SseBreaks(r) \/ CutOff(r)

\* What it can do to the connections and to lifespan.
OtherConnections ==
    /\ phase' \in {phase} \union Starting \union Stopping \union {"serving"}
    /\ phase' \in Starting => phase \in Starting \union {"down"}
    /\ dropped' \in {dropped} \union {dropped \union {h} : h \in Handlers}
    /\ \/ Connect("nats") \/ Connect("rag")
       \/ \E h \in Handlers : Disconnect(h) \/ ForgetConnection(h)
       \/ UNCHANGED channelVars

LifeChange == StartV1 \/ Exit \/ OtherConnections

LEMMA StepKinds ==
    ASSUME TypeOK, [Next]_vars
    PROVE  \/ LifeChange
           \/ UNCHANGED <<lifeVars, channelVars>>
           \/ UNCHANGED lifeVars /\ \E r \in Requests : RequestStep(r)
<1> USE DEF Starting, Stopping, Handlers, LifeChange, OtherConnections
<1>1. CASE UNCHANGED vars
  BY <1>1 DEF vars
<1>2. CASE StartNats \/ StartConsumer \/ StartRag
  BY <1>2 DEF StartNats, StartConsumer, StartRag
<1>3. CASE StartV1 \/ Exit \/ Boot
  BY <1>3 DEF Boot
<1>4. CASE BeginShutdown \/ CancelLoop \/ ClosePulsar
  BY <1>4 DEF BeginShutdown, CancelLoop, ClosePulsar
<1>5. CASE \/ Close("nats", "closeNats", "cancelLoop")
           \/ Close("v1", "closeV1", "closeRag")
           \/ Close("rag", "closeRag", "exit")
  BY <1>5 DEF Close
<1>6. CASE \E h \in Handlers : GiveUp(h)
  BY <1>6 DEF GiveUp, TypeOK
<1>7. CASE Arrive
  BY <1>7 DEF Arrive, RequestStep
<1>8. CASE \E r \in Requests : Serve(r) \/ GoneAway(r)
  BY <1>8 DEF Serve, GoneAway, RequestStep
<1>9. CASE \/ Broker \/ \E m \in Messages : Elsewhere(m)
           \/ \E d \in Deliveries : Consume(d)
           \/ \E r \in Requests : Stream(r)
           \/ \E c \in Calls : Call(c)
  BY <1>9 DEF Broker, Elsewhere, Consume, Stream, Call
<1>10. QED
  BY <1>1, <1>2, <1>3, <1>4, <1>5, <1>6, <1>7, <1>8, <1>9 DEF Next, Lifespan, StartStep, ShutdownStep

LEMMA StepChangesStream ==
    ASSUME [Next]_vars
    PROVE  StreamChange
<1> USE DEF StreamChange
<1>1. CASE UNCHANGED vars
  BY <1>1 DEF vars
<1>2. CASE Lifespan
  BY <1>2 DEF Lifespan, StartStep, StartNats, StartConsumer, StartRag, StartV1, BeginShutdown,
     ShutdownStep, Close, CancelLoop, ClosePulsar, Exit, ChannelsExit, StreamExit, Boot, GiveUp
<1>3. CASE Arrive
  BY <1>3 DEF Arrive, V1Receive, RagReceive, SseOpen, HttpOpen, ComesBy
<1>4. CASE Broker \/ (\E m \in Messages : Elsewhere(m)) \/ (\E d \in Deliveries : Consume(d))
           \/ \E c \in Calls : Call(c)
  BY <1>4 DEF Broker, Elsewhere, Consume, Call
<1>5. CASE \E r \in Requests : Serve(r)
  BY <1>5 DEF Serve, HandleRequest, V1Chunk, V1StreamEnds, V1Result, V1Legacy, V1Reply, V1Error,
     V1ErrorReply, RagComputed, RagRefused, RagRespond, RagPublish, SseChunk, SseStop, SseDone, HttpAnswer, Continue
<1>6. CASE \E r \in Requests : GoneAway(r) \/ Stream(r)
  BY <1>6 DEF GoneAway, SseBreaks, CutOff, Stream, Continue
<1>7. QED
  BY <1>1, <1>2, <1>3, <1>4, <1>5, <1>6 DEF Next

LEMMA StreamChangeKeepsType ==
    ASSUME StreamTypeOK, StreamChange
    PROVE  StreamTypeOK'
<1>1. CASE StreamExit
  BY <1>1 DEF StreamExit, StreamTypeOK, Phases
<1>2. CASE UNCHANGED streamVars
  BY <1>2 DEF streamVars, StreamTypeOK
<1>3. QED
  BY <1>1, <1>2, StreamTypeStep DEF StreamChange, StreamStep

\* A step of a request is about this request only.
Own(r) ==
    /\ UNCHANGED <<conn, cut>>
    /\ channel' \in [Requests -> {"none", "nats", "rag", "sse", "http"}]
    /\ step' \in [Requests -> Steps]
    /\ out' \in [Requests -> SUBSET Outputs]
    /\ wanted' \subseteq Requests
    /\ \A q \in Requests \ {r} : /\ channel'[q] = channel[q]
                                 /\ step'[q] = step[q]
                                 /\ out'[q] = out[q]
                                 /\ q \in wanted' <=> q \in wanted

LEMMA RequestStepIsOwn ==
    ASSUME ChannelsTypeOK, NEW r \in Requests, RequestStep(r)
    PROVE  Own(r)
<1> USE DEF ChannelsTypeOK, Own, Steps, Outputs, Goto, Emit, ComesBy, MayWantReply
<1>1. CASE V1Receive(r) \/ RagReceive(r)
  BY <1>1 DEF V1Receive, RagReceive
<1>2. CASE SseOpen(r, phase = "serving") \/ HttpOpen(r, phase = "serving")
  BY <1>2 DEF SseOpen, HttpOpen
<1>3. CASE V1Chunk(r)
  BY <1>3 DEF V1Chunk, PublishIfConnected, Publish
<1>4. CASE V1StreamEnds(r)
  BY <1>4 DEF V1StreamEnds
<1>5. CASE V1Result(r)
  BY <1>5 DEF V1Result, PublishIfConnected, Publish
<1>6. CASE V1Legacy(r) \/ V1Reply(r)
  BY <1>6 DEF V1Legacy, V1Reply, Respond, Publish
<1>7. CASE V1Error(r) \/ V1ErrorReply(r)
  BY <1>7 DEF V1Error, V1ErrorReply, PublishIfConnected, Respond, Publish
<1>8. CASE RagComputed(r) \/ RagRefused(r) \/ RagRespond(r) \/ RagPublish(r)
  BY <1>8 DEF RagComputed, RagRefused, RagRespond, RagPublish, Respond, Publish
<1>9. CASE SseChunk(r) \/ SseStop(r) \/ SseDone(r) \/ HttpAnswer(r)
  BY <1>9 DEF SseChunk, SseStop, SseDone, HttpAnswer
<1>10. CASE SseBreaks(r) \/ CutOff(r)
  BY <1>10 DEF SseBreaks, CutOff
<1>11. QED
  BY <1>1, <1>2, <1>3, <1>4, <1>5, <1>6, <1>7, <1>8, <1>9, <1>10 DEF RequestStep, HandleRequest

LEMMA ChannelsTypeStep ==
    ASSUME TypeOK, [Next]_vars
    PROVE  /\ ChannelsTypeOK'
           /\ phase' \in Starting \union Stopping \union {"serving", "down"}
           /\ dropped' \subseteq Handlers
<1> USE DEF TypeOK
<1>1. CASE StartV1
  BY <1>1 DEF StartV1, Connect, ChannelsTypeOK, Handlers
<1>2. CASE Exit
  BY <1>2 DEF Exit, ChannelsExit, ChannelsTypeOK, Steps
<1>3. CASE OtherConnections
  <2>1. /\ phase' \in Starting \union Stopping \union {"serving", "down"}
        /\ dropped' \subseteq Handlers
    BY <1>3 DEF OtherConnections
  <2>2. CASE Connect("nats") \/ Connect("rag")
    BY <2>1, <2>2 DEF Connect, ChannelsTypeOK, Handlers
  <2>3. CASE \E h \in Handlers : Disconnect(h) \/ ForgetConnection(h)
    BY <2>1, <2>3 DEF Disconnect, ForgetConnection, ChannelsTypeOK, InWork
  <2>4. CASE UNCHANGED channelVars
    BY <2>1, <2>4 DEF channelVars, ChannelsTypeOK
  <2>5. QED
    BY <1>3, <2>2, <2>3, <2>4 DEF OtherConnections
<1>4. CASE UNCHANGED <<lifeVars, channelVars>>
  BY <1>4 DEF lifeVars, channelVars, ChannelsTypeOK
<1>5. CASE UNCHANGED lifeVars /\ \E r \in Requests : RequestStep(r)
  BY <1>5, RequestStepIsOwn DEF lifeVars, Own, ChannelsTypeOK
<1>6. QED
  BY <1>1, <1>2, <1>3, <1>4, <1>5, StepKinds DEF LifeChange

LEMMA ShapeIsTyped == GraphShape => GraphTypeOK
BY MaxRetriesAssumption DEF GraphShape, GraphTypeOK

LEMMA TypeInvariant == Spec => [](TypeOK /\ GraphShape)
<1>1. Init => TypeOK /\ GraphShape
  <2>1. Init => GraphShape
    BY DEF Init, GraphInit, GraphShape, Nodes, CallIsSaved, Finished
  <2>2. Init => PulsarTypeOK
    BY DEF Init, PulsarInit, PulsarTypeOK, Working
  <2>3. Init => StreamTypeOK
    BY MaxTokensAssumption DEF Init, StreamInit, StreamTypeOK, Phases
  <2>4. Init => ChannelsTypeOK /\ phase \in Starting /\ dropped \subseteq Handlers
    BY DEF Init, ChannelsInit, ChannelsTypeOK, Steps, Starting
  <2>5. QED
    BY <2>1, <2>2, <2>3, <2>4, ShapeIsTyped DEF TypeOK
<1>2. TypeOK /\ GraphShape /\ [Next]_vars => (TypeOK /\ GraphShape)'
  <2> SUFFICES ASSUME TypeOK, GraphShape, [Next]_vars
               PROVE  TypeOK' /\ GraphShape'
    OBVIOUS
  <2>1. GraphShape'
    BY StepChangesGraph, GraphShapeStep
  <2>2. GraphTypeOK'
    BY <2>1, MaxRetriesAssumption DEF GraphShape, GraphTypeOK
  <2>3. PulsarTypeOK'
    BY StepChangesPulsar, PulsarTypeStep DEF TypeOK
  <2>4. StreamTypeOK'
    BY StepChangesStream, StreamChangeKeepsType DEF TypeOK
  <2>5. QED
    BY <2>1, <2>2, <2>3, <2>4, ChannelsTypeStep DEF TypeOK
<1>3. QED
  BY <1>1, <1>2, PTL DEF Spec

\* Type correctness of one process with its consumer, channels, generators and
\* calls: an error counter stays below its limit, no call saves a third turn.
THEOREM TypeCorrect == Spec => []TypeOK
BY TypeInvariant, PTL

-----------------------------------------------------------------------------
(* The announcements of a request. *)

\* A request that came in has a channel, and was told nothing before.
NewShape(r) ==
    /\ channel[r] = "none" <=> step[r] = "new"
    /\ step[r] = "new" => out[r] = {} /\ r \notin cut

\* v1 chat: what has been published where, while the connection is open; the
\* error is published only when nothing but chunks was.
NatsShape(r) ==
    channel[r] = "nats" =>
        /\ step[r] \in {"stream", "result", "legacy", "reply", "error", "errorReply", "done"}
        /\ step[r] # "done" /\ r \notin cut => conn["v1"] = "open"
        /\ out[r] \subseteq {"chunk", "result", "legacy", "error", "reply", "errorReply"}
        /\ step[r] \in {"stream", "result"} => out[r] \subseteq {"chunk"}
        /\ step[r] = "legacy" => "result" \in out[r] /\ out[r] \subseteq {"chunk", "result"}
        /\ step[r] \in {"reply", "error"} => out[r] \subseteq {"chunk", "result", "legacy"}
        /\ step[r] = "reply" /\ conn["v1"] = "open" => {"result", "legacy"} \subseteq out[r]
        /\ step[r] = "error" /\ conn["v1"] = "open" => out[r] \subseteq {"chunk"}
        /\ step[r] = "errorReply" => out[r] \subseteq {"chunk", "result", "legacy", "error"}
        /\ step[r] = "errorReply" /\ conn["v1"] = "open" => "error" \in out[r]
        /\ "error" \in out[r] => out[r] \subseteq {"chunk", "error", "errorReply"}
        /\ "reply" \in out[r] => "result" \in out[r]
        /\ "errorReply" \in out[r] => "error" \in out[r]

\* RAG: the reply goes before the result.
RagShape(r) ==
    channel[r] = "rag" =>
        /\ step[r] \in {"graph", "work", "respond", "publish", "done"}
        /\ step[r] # "done" /\ r \notin cut => conn["rag"] = "open"
        /\ out[r] \subseteq {"reply", "result"} \/ (out[r] = {"refused"} /\ step[r] = "done")
        /\ step[r] \in {"graph", "work", "respond"} => out[r] = {}
        /\ step[r] = "publish" => (r \in wanted <=> "reply" \in out[r])

\* HTTP has no connection of its own to lose.
HttpShape(r) ==
    /\ channel[r] = "sse" => /\ step[r] \in {"stream", "finish", "done"}
                             /\ out[r] \subseteq {"chunk", "stop", "[DONE]"}
    /\ channel[r] = "http" => /\ step[r] \in {"graph", "done"}
                              /\ out[r] \subseteq {"200", "500"}

\* What a request that was not cut off is owed at the end.
Announced(r) ==
    step[r] = "done" /\ r \notin cut =>
        /\ channel[r] = "nats" =>
            \/ {"result", "legacy"} \subseteq out[r] /\ (r \in wanted <=> "reply" \in out[r])
            \/ "error" \in out[r] /\ (r \in wanted <=> "errorReply" \in out[r])
        /\ channel[r] = "rag" =>
            \/ "result" \in out[r] /\ (r \in wanted <=> "reply" \in out[r])
            \/ out[r] = {"refused"}

RequestShape(r) == NewShape(r) /\ NatsShape(r) /\ RagShape(r) /\ HttpShape(r) /\ Announced(r)

\* v1 chat is not connected before lifespan connects it, and no request of an
\* earlier process is still in work then.
NotYetConnected ==
    phase \in Starting \union {"down"} =>
        /\ conn["v1"] = "none"
        /\ \A r \in Requests : channel[r] = "nats" => step[r] = "done"

Shapes == NotYetConnected /\ \A r \in Requests : RequestShape(r)


LEMMA RequestStepShapes ==
    ASSUME TypeOK, NEW r \in Requests, RequestShape(r), RequestStep(r), Own(r)
    PROVE  RequestShape(r)'
<1> USE DEF TypeOK, ChannelsTypeOK, Own, RequestShape, NewShape, NatsShape, RagShape, HttpShape, Announced,
            Handlers, HandlerOf, Goto, Emit, ComesBy
<1>1. CASE V1Receive(r)
  BY <1>1 DEF V1Receive
<1>2. CASE RagReceive(r)
  BY <1>2 DEF RagReceive
<1>3. CASE SseOpen(r, phase = "serving") \/ HttpOpen(r, phase = "serving")
  BY <1>3 DEF SseOpen, HttpOpen
<1>4. CASE V1Chunk(r)
  BY <1>4 DEF V1Chunk, PublishIfConnected, Publish
<1>5. CASE V1StreamEnds(r)
  BY <1>5 DEF V1StreamEnds
<1>6. CASE V1Result(r)
  BY <1>6 DEF V1Result, PublishIfConnected, Publish
<1>7. CASE V1Legacy(r)
  BY <1>7 DEF V1Legacy, Publish
<1>8. CASE V1Reply(r)
  BY <1>8 DEF V1Reply, Respond, Publish
<1>9. CASE V1Error(r)
  BY <1>9 DEF V1Error, PublishIfConnected, Publish
<1>10. CASE V1ErrorReply(r)
  BY <1>10 DEF V1ErrorReply, Respond, Publish
<1>11. CASE RagComputed(r) \/ RagRefused(r)
  BY <1>11 DEF RagComputed, RagRefused
<1>12. CASE RagRespond(r)
  BY <1>12 DEF RagRespond, Respond, Publish
<1>13. CASE RagPublish(r)
  BY <1>13 DEF RagPublish, Publish
<1>14. CASE SseChunk(r) \/ SseStop(r) \/ SseDone(r)
  BY <1>14 DEF SseChunk, SseStop, SseDone
<1>15. CASE HttpAnswer(r)
  BY <1>15 DEF HttpAnswer
<1>16. CASE SseBreaks(r)
  BY <1>16 DEF SseBreaks
<1>17. CASE CutOff(r)
  BY <1>17 DEF CutOff
<1>18. QED
  BY <1>1, <1>2, <1>3, <1>4, <1>5, <1>6, <1>7, <1>8, <1>9, <1>10, <1>11, <1>12, <1>13, <1>14,
     <1>15, <1>16, <1>17 DEF RequestStep, HandleRequest

LEMMA OnlyWorkGoesOn ==
    ASSUME TypeOK, NEW r \in Requests, RequestStep(r)
    PROVE  /\ step[r] # "done"
           /\ channel'[r] = "nats" => channel[r] = "nats" \/ conn["v1"] = "open"
BY DEF TypeOK, ChannelsTypeOK, RequestStep, HandleRequest, V1Receive, RagReceive, SseOpen, HttpOpen, ComesBy,
   V1Chunk, V1StreamEnds, V1Result, V1Legacy, V1Reply, V1Error, V1ErrorReply, RagComputed, RagRefused, RagRespond,
   RagPublish, SseChunk, SseStop, SseDone, HttpAnswer, SseBreaks, CutOff

LEMMA RequestStepKeepsShapes ==
    ASSUME TypeOK, Shapes, NEW r \in Requests, RequestStep(r), UNCHANGED lifeVars
    PROVE  Shapes'
<1>1. Own(r)
  BY RequestStepIsOwn DEF TypeOK
<1>2. NotYetConnected'
  BY <1>1, OnlyWorkGoesOn DEF Shapes, NotYetConnected, Own, lifeVars
<1>3. RequestShape(r)'
  BY <1>1, RequestStepShapes DEF Shapes
<1>4. ASSUME NEW q \in Requests \ {r}
      PROVE  RequestShape(q)'
  BY <1>1, <1>4 DEF Own, Shapes, RequestShape, NewShape, NatsShape, RagShape, HttpShape, Announced
<1>5. QED
  BY <1>2, <1>3, <1>4 DEF Shapes

LEMMA LifeChangeKeepsShapes ==
    ASSUME TypeOK, Shapes, LifeChange
    PROVE  Shapes'
<1> USE DEF TypeOK, ChannelsTypeOK, Handlers, Starting, Stopping
<1>1. CASE StartV1
  <2>1. /\ conn' = [conn EXCEPT !["v1"] = "open"]
        /\ UNCHANGED <<channel, step, wanted, out, cut>>
        /\ phase' = "serving" /\ phase = "v1"
    BY <1>1 DEF StartV1, Connect
  <2>2. ASSUME NEW r \in Requests
        PROVE  RequestShape(r)'
    <3>1. RequestShape(r) /\ (channel[r] = "nats" => step[r] = "done")
      BY <2>1 DEF Shapes, NotYetConnected
    <3>2. QED
      BY <2>1, <3>1 DEF RequestShape, NewShape, NatsShape, RagShape, HttpShape, Announced
  <2>3. QED
    BY <2>1, <2>2 DEF Shapes, NotYetConnected
<1>2. CASE Exit
  <2>1. /\ conn' = [h \in Handlers |-> "none"]
        /\ \A r \in Requests :
              /\ step'[r] = IF step[r] = "new" THEN "new" ELSE "done"
              /\ step[r] \notin {"new", "done"} => r \in cut'
              /\ step[r] \in {"new", "done"} => (r \in cut' <=> r \in cut)
        /\ UNCHANGED <<channel, wanted, out>>
    BY <1>2 DEF Exit, ChannelsExit
  <2>2. ASSUME NEW r \in Requests
        PROVE  RequestShape(r)'
    <3>1. RequestShape(r)
      BY DEF Shapes
    <3>2. NewShape(r)' /\ Announced(r)'
      BY <2>1, <3>1 DEF RequestShape, NewShape, Announced
    <3>3. NatsShape(r)'
      BY <2>1, <3>1 DEF RequestShape, NewShape, NatsShape
    <3>4. RagShape(r)' /\ HttpShape(r)'
      BY <2>1, <3>1 DEF RequestShape, NewShape, RagShape, HttpShape
    <3>5. QED
      BY <3>2, <3>3, <3>4 DEF RequestShape
  <2>3. \A r \in Requests : channel'[r] = "nats" => step'[r] = "done"
    BY <2>1 DEF Shapes, RequestShape, NewShape
  <2>4. QED
    BY <2>1, <2>2, <2>3 DEF Shapes, NotYetConnected
<1>3. CASE OtherConnections
  <2>1. UNCHANGED <<channel, step, wanted, out>>
    BY <1>3 DEF OtherConnections, Connect, Disconnect, ForgetConnection, channelVars
  <2>2. conn'["v1"] = "open" => conn["v1"] = "open"
    BY <1>3 DEF OtherConnections, Connect, Disconnect, ForgetConnection, channelVars
  <2>3. conn["v1"] = "none" => conn'["v1"] = "none"
    BY <1>3 DEF OtherConnections, Connect, Disconnect, ForgetConnection, channelVars
  <2>4. ASSUME NEW r \in Requests
        PROVE  /\ r \in cut => r \in cut'
               /\ r \in cut' => r \in cut \/ step[r] \notin {"new", "done"}
               /\ /\ channel[r] \in {"nats", "rag"} /\ step[r] \notin {"new", "done"}
                  /\ conn[HandlerOf(r)] = "open" /\ r \notin cut'
                  => conn'[HandlerOf(r)] = "open"
    BY <1>3 DEF OtherConnections, Connect, Disconnect, ForgetConnection, channelVars, InWork, HandlerOf
  <2>5. ASSUME NEW r \in Requests
        PROVE  RequestShape(r)'
    <3>1. RequestShape(r)
      BY DEF Shapes
    <3>2. NewShape(r)' /\ Announced(r)' /\ HttpShape(r)'
      BY <2>1, <2>4, <3>1 DEF RequestShape, NewShape, Announced, HttpShape
    <3>3. NatsShape(r)'
      BY <2>1, <2>2, <2>4, <3>1 DEF RequestShape, NewShape, NatsShape, HandlerOf
    <3>4. RagShape(r)'
      BY <2>1, <2>4, <3>1 DEF RequestShape, NewShape, RagShape, HandlerOf
    <3>5. QED
      BY <3>2, <3>3, <3>4 DEF RequestShape
  <2>6. phase' \in Starting \union {"down"} => phase \in Starting \union {"down"}
    BY <1>3 DEF OtherConnections
  <2>7. QED
    BY <2>1, <2>3, <2>5, <2>6 DEF Shapes, NotYetConnected
<1>4. QED
  BY <1>1, <1>2, <1>3 DEF LifeChange

LEMMA ShapesInvariant == Spec => []Shapes
<1>1. Init => Shapes
  BY DEF Init, ChannelsInit, Shapes, NotYetConnected, RequestShape, NewShape, NatsShape, RagShape, HttpShape,
     Announced, Handlers
<1>2. TypeOK /\ Shapes /\ [Next]_vars => Shapes'
  <2> SUFFICES ASSUME TypeOK, Shapes, [Next]_vars
               PROVE  Shapes'
    OBVIOUS
  <2>1. CASE UNCHANGED <<lifeVars, channelVars>>
    BY <2>1 DEF lifeVars, channelVars, Shapes, NotYetConnected, RequestShape, NewShape, NatsShape, RagShape,
       HttpShape, Announced
  <2>2. QED
    BY <2>1, StepKinds, RequestStepKeepsShapes, LifeChangeKeepsShapes
<1>3. QED
  BY <1>1, <1>2, TypeInvariant, PTL DEF Spec

\* Every channel of a request that was not cut off is told the same end: the
\* result, the legacy copy and the reply, or the error and its reply
\* (OpenAINATSHandler._handle, RAGNATSHandler._publish).
THEOREM ChannelsAgree == Spec => []AnnouncedAlike
<1>1. Shapes => AnnouncedAlike
  BY DEF Shapes, RequestShape, Announced, AnnouncedAlike
<1>2. QED
  BY <1>1, ShapesInvariant, PTL

-----------------------------------------------------------------------------
(* What was answered is saved. *)

Saved(r) == unsaved[r] \/ BothSaved(r)

\* Whoever is about to be told, or was told, that a stream is complete.
Told(r) ==
    \/ channel[r] = "nats" /\ (step[r] = "result" \/ "result" \in out[r])
    \/ "stop" \in out[r]

ToldIsSaved == SavedInOrder /\ \A r \in Requests : Told(r) => Saved(r)

\* The saves stay in order, and what a request in work saved stays saved.
LEMMA StreamChangeSaves ==
    ASSUME StreamTypeOK, SavedInOrder, StreamChange
    PROVE  /\ SavedInOrder'
           /\ \A q \in Requests : step[q] # "new" /\ Saved(q) => Saved(q)'
<1>1. CASE \E r \in Requests : step[r] = "new" /\ Start(r)
  <2>1. PICK r \in Requests : step[r] = "new" /\ Start(r)
    BY <1>1
  <2>2. SavedInOrder' /\ \A q \in Requests : BothSaved(q) => BothSaved(q)'
    BY <2>1, SavedInOrderStep DEF StreamStep
  <2>3. \A q \in Requests \ {r} : unsaved'[q] = unsaved[q]
    BY <2>1 DEF Start, StreamTypeOK
  <2>4. QED
    BY <2>1, <2>2, <2>3 DEF Saved
<1>2. CASE \E r \in Requests : Continue(r)
  BY <1>2, SavedInOrderStep, FailureIsKept DEF StreamStep, Saved
<1>3. CASE StreamExit \/ UNCHANGED streamVars
  <2>1. UNCHANGED <<turns, unsaved>>
    BY <1>3 DEF StreamExit, streamVars
  <2>2. \A r \in Requests : gen'[r] = "idle" \/ gen'[r] = gen[r]
    BY <1>3 DEF StreamExit, streamVars
  <2>3. QED
    BY <2>1, <2>2 DEF SavedInOrder, Saved, BothSaved
<1>4. QED
  BY <1>1, <1>2, <1>3 DEF StreamChange

\* A request is told of the end by a generator that stopped.
LEMMA RequestStepTells ==
    ASSUME TypeOK, NEW r \in Requests, RequestShape(r), SavedInOrder, Told(r) => Saved(r), RequestStep(r),
           Told(r)'
    PROVE  Saved(r) /\ step[r] # "new"
<1> USE DEF TypeOK, ChannelsTypeOK, RequestShape, NewShape, NatsShape, HttpShape, Told, Goto, Emit, ComesBy
<1>1. CASE V1Receive(r) \/ RagReceive(r)
  BY <1>1 DEF V1Receive, RagReceive
<1>2. CASE SseOpen(r, phase = "serving") \/ HttpOpen(r, phase = "serving")
  BY <1>2 DEF SseOpen, HttpOpen
<1>3. CASE V1Chunk(r)
  BY <1>3 DEF V1Chunk, PublishIfConnected, Publish
<1>4. CASE V1StreamEnds(r)
  BY <1>4 DEF V1StreamEnds, SavedInOrder, Saved
<1>5. CASE V1Result(r) \/ V1Legacy(r)
  BY <1>5 DEF V1Result, V1Legacy, PublishIfConnected, Publish
<1>6. CASE V1Reply(r)
  BY <1>6 DEF V1Reply, Respond, Publish
<1>7. CASE V1Error(r) \/ V1ErrorReply(r)
  BY <1>7 DEF V1Error, V1ErrorReply, PublishIfConnected, Respond, Publish
<1>8. CASE RagComputed(r) \/ RagRefused(r) \/ RagRespond(r) \/ RagPublish(r)
  BY <1>8 DEF RagComputed, RagRefused, RagRespond, RagPublish, Respond, Publish, RagShape
<1>9. CASE SseStop(r)
  BY <1>9 DEF SseStop, SavedInOrder, Saved
<1>10. CASE SseChunk(r) \/ SseDone(r) \/ SseBreaks(r)
  BY <1>10 DEF SseChunk, SseDone, SseBreaks
<1>11. CASE HttpAnswer(r) \/ CutOff(r)
  BY <1>11 DEF HttpAnswer, CutOff
<1>12. QED
  BY <1>1, <1>2, <1>3, <1>4, <1>5, <1>6, <1>7, <1>8, <1>9, <1>10, <1>11 DEF RequestStep, HandleRequest

LEMMA ToldIsSavedStep ==
    ASSUME TypeOK, Shapes, ToldIsSaved, [Next]_vars
    PROVE  ToldIsSaved'
<1>1. /\ SavedInOrder'
      /\ \A q \in Requests : step[q] # "new" /\ Saved(q) => Saved(q)'
  BY StepChangesStream, StreamChangeSaves DEF TypeOK, ToldIsSaved
<1>2. ASSUME NEW r \in Requests, Told(r)'
      PROVE  Saved(r) /\ step[r] # "new"
  <2>1. Told(r) => step[r] # "new"
    BY DEF Shapes, RequestShape, NewShape, Told
  <2>2. CASE Told(r)
    BY <2>1, <2>2 DEF ToldIsSaved
  <2>3. CASE UNCHANGED lifeVars /\ \E q \in Requests : RequestStep(q)
    <3>1. PICK q \in Requests : RequestStep(q)
      BY <2>3
    <3>2. CASE q = r
      BY <1>2, <3>1, <3>2, RequestStepTells DEF Shapes, ToldIsSaved
    <3>3. CASE q # r
      <4>1. Told(r)
        BY <1>2, <3>1, <3>3, RequestStepIsOwn DEF TypeOK, Own, Told
      <4>2. QED
        BY <4>1, <2>2
    <3>4. QED
      BY <3>2, <3>3
  <2>4. CASE LifeChange
    <3>1. UNCHANGED <<channel, out>> /\ \A q \in Requests : step'[q] # step[q] => step'[q] = "done"
      BY <2>4 DEF LifeChange, StartV1, Exit, OtherConnections, Connect, Disconnect, ForgetConnection,
         ChannelsExit, channelVars
    <3>2. Told(r)
      BY <1>2, <3>1 DEF Told
    <3>3. QED
      BY <3>2, <2>2
  <2>5. CASE UNCHANGED <<lifeVars, channelVars>>
    BY <1>2, <2>2, <2>5 DEF channelVars, Told
  <2>6. QED
    BY <2>3, <2>4, <2>5, StepKinds
<1>3. QED
  BY <1>1, <1>2 DEF ToldIsSaved

\* The end of a stream is announced by the code behind the generator, which has
\* awaited both saves by then (stream_graph), and a call that answers has passed
\* its own (invoke_graph): whoever was told has the turns in the memory, unless a
\* save failed.
THEOREM AnswersAreSaved == Spec => []AnsweredIsSaved
<1>1. Init => ToldIsSaved
  BY DEF Init, ChannelsInit, StreamInit, ToldIsSaved, SavedInOrder, Told
<1>2. TypeOK /\ Shapes /\ ToldIsSaved /\ [Next]_vars => ToldIsSaved'
  BY ToldIsSavedStep
<1>3. GraphShape /\ ToldIsSaved => AnsweredIsSaved
  <2> SUFFICES ASSUME GraphShape, ToldIsSaved, NEW r \in Requests
               PROVE  /\ out[r] \intersect (IF channel[r] = "nats" THEN {"result"} ELSE {"stop"}) # {} =>
                            unsaved[r] \/ \A role \in Roles : turns[r][role] > 0
                      /\ CallIsSaved(r)
    BY DEF AnsweredIsSaved
  <2>1. CallIsSaved(r)
    BY RequestsAssumption DEF GraphShape
  <2>2. QED
    BY <2>1 DEF ToldIsSaved, Told, Saved, BothSaved, Roles
<1>4. QED
  BY <1>1, <1>2, <1>3, TypeInvariant, ShapesInvariant, PTL DEF Spec

-----------------------------------------------------------------------------
(* v1 chat keeps the contract. *)

\* Nothing published, the same verdict and answer.
LEMMA SameVerdict ==
    ASSUME NEW r, out'[r] = out[r], channel'[r] = channel[r] \/ (out[r] = {} /\ channel[r] # "nats")
    PROVE  V1Verdict(r)' = V1Verdict(r) /\ V1Answer(r)' = V1Answer(r)
<1> SUFFICES ASSUME r \in Requests
             PROVE  V1Verdict(r)' = V1Verdict(r) /\ V1Answer(r)' = V1Answer(r)
  BY DEF V1Verdict, V1Answer, V1
<1>1. QED
  BY DEF V1Verdict, V1Answer, V1

\* What a step publishes for a request.
Publishes(r) ==
    \/ out'[r] = out[r] \union {"chunk"}
    \/ /\ out'[r] = out[r] \union {"result"}
       /\ out[r] \subseteq {"chunk"}
    \/ out'[r] = out[r] \union {"legacy"}
    \/ /\ out'[r] = out[r] \union {"error"}
       /\ out[r] \subseteq {"chunk"}
    \/ /\ out'[r] = out[r] \union {"reply"}
       /\ "result" \in out[r]
       /\ out[r] \subseteq {"chunk", "result", "legacy"}
    \/ /\ out'[r] = out[r] \union {"errorReply"}
       /\ "error" \in out[r]
       /\ out[r] \subseteq {"chunk", "error"}
    \/ out'[r] = out[r]

LEMMA V1Publishes ==
    ASSUME TypeOK, NEW r \in Requests, RequestShape(r), channel[r] = "nats", RequestStep(r)
    PROVE  Publishes(r)
<1> USE DEF TypeOK, ChannelsTypeOK, RequestShape, NewShape, NatsShape, Goto, Emit, HandlerOf, Publishes
<1>1. CASE V1Chunk(r)
  BY <1>1 DEF V1Chunk, PublishIfConnected, Publish
<1>2. CASE V1StreamEnds(r) \/ CutOff(r)
  BY <1>2 DEF V1StreamEnds, CutOff
<1>3. CASE V1Result(r)
  BY <1>3 DEF V1Result, PublishIfConnected, Publish
<1>4. CASE V1Legacy(r)
  BY <1>4 DEF V1Legacy, Publish
<1>5. CASE V1Reply(r)
  BY <1>5 DEF V1Reply, Respond, Publish
<1>6. CASE V1Error(r)
  BY <1>6 DEF V1Error, PublishIfConnected, Publish
<1>7. CASE V1ErrorReply(r)
  BY <1>7 DEF V1ErrorReply, Respond, Publish
<1>8. CASE \/ V1Receive(r) \/ RagReceive(r)
           \/ SseOpen(r, phase = "serving") \/ HttpOpen(r, phase = "serving")
  BY <1>8 DEF V1Receive, RagReceive, SseOpen, HttpOpen, ComesBy
<1>9. CASE \/ RagComputed(r) \/ RagRefused(r) \/ RagRespond(r) \/ RagPublish(r)
           \/ SseChunk(r) \/ SseStop(r) \/ SseDone(r) \/ HttpAnswer(r) \/ SseBreaks(r)
  BY <1>9 DEF RagComputed, RagRefused, RagRespond, RagPublish, SseChunk, SseStop, SseDone, HttpAnswer, SseBreaks
<1>10. QED
  BY <1>1, <1>2, <1>3, <1>4, <1>5, <1>6, <1>7, <1>8, <1>9 DEF RequestStep, HandleRequest

\* A request keeps its channel, and gets one before anything is published for it.
LEMMA ChannelIsKept ==
    ASSUME TypeOK, NEW r \in Requests, RequestShape(r), RequestStep(r)
    PROVE  \/ channel'[r] = channel[r]
           \/ channel[r] = "none" /\ out[r] = {} /\ out'[r] = {}
<1>1. CASE step[r] = "new"
  BY <1>1 DEF TypeOK, ChannelsTypeOK, RequestShape, NewShape, RequestStep, HandleRequest, V1Receive, RagReceive,
     SseOpen, HttpOpen, V1Chunk, V1StreamEnds, V1Result, V1Legacy, V1Reply, V1Error, V1ErrorReply, RagComputed,
     RagRefused, RagRespond, RagPublish, SseChunk, SseStop, SseDone, HttpAnswer, SseBreaks, CutOff
<1>2. CASE step[r] # "new"
  BY <1>2 DEF RequestStep, HandleRequest, V1Receive, RagReceive, ComesBy,
     SseOpen, HttpOpen, V1Chunk, V1StreamEnds, V1Result, V1Legacy, V1Reply, V1Error, V1ErrorReply, RagComputed,
     RagRefused, RagRespond, RagPublish, SseChunk, SseStop, SseDone, HttpAnswer, SseBreaks, CutOff
<1>3. QED
  BY <1>1, <1>2

LEMMA RequestStepRefines ==
    ASSUME TypeOK, Shapes, NEW r \in Requests, RequestStep(r)
    PROVE  Contract!Next \/ UNCHANGED Contract!contractVars
<1>1. Own(r)
  BY RequestStepIsOwn DEF TypeOK
<1>2. RequestShape(r)
  BY DEF Shapes
<1>3. \A q \in Requests \ {r} : V1Verdict(q)' = V1Verdict(q) /\ V1Answer(q)' = V1Answer(q)
  BY <1>1, SameVerdict DEF Own
<1>4. CASE V1Verdict(r)' = V1Verdict(r) /\ V1Answer(r)' = V1Answer(r)
  BY <1>3, <1>4 DEF Contract!contractVars
<1>5. CASE channel[r] # "nats"
  BY <1>2, <1>4, <1>5, ChannelIsKept DEF V1Verdict, V1Answer, V1
<1>6. CASE channel[r] = "nats"
  <2>1. channel'[r] = "nats" /\ Publishes(r) /\ NatsShape(r)
    BY <1>2, <1>6, ChannelIsKept, V1Publishes DEF RequestShape
  <2>2. /\ V1Verdict(r) = IF "error" \in out[r] THEN "failed"
                          ELSE IF "result" \in out[r] THEN "completed" ELSE "none"
        /\ V1Answer(r) = IF "errorReply" \in out[r] THEN "failed"
                         ELSE IF "reply" \in out[r] THEN "completed" ELSE "none"
    BY <1>6 DEF V1Verdict, V1Answer, V1
  <2>3. /\ V1Verdict(r)' = IF "error" \in out'[r] THEN "failed"
                           ELSE IF "result" \in out'[r] THEN "completed" ELSE "none"
        /\ V1Answer(r)' = IF "errorReply" \in out'[r] THEN "failed"
                          ELSE IF "reply" \in out'[r] THEN "completed" ELSE "none"
    BY <2>1 DEF V1Verdict, V1Answer, V1
  <2>4. CASE \/ out'[r] = out[r] \/ out'[r] = out[r] \union {"chunk"}
             \/ out'[r] = out[r] \union {"legacy"}
    BY <1>4, <2>2, <2>3, <2>4
  <2>5. CASE /\ out[r] \subseteq {"chunk"}
             /\ out'[r] = out[r] \union {"result"} \/ out'[r] = out[r] \union {"error"}
    <3>1. V1Verdict(r) = "none" /\ V1Verdict(r)' \in {"completed", "failed"} /\ V1Answer(r)' = V1Answer(r)
      BY <2>2, <2>3, <2>5
    <3>2. Contract!Decide(r)
      BY <1>3, <3>1 DEF Contract!Decide, Contract!Answered
    <3>3. QED
      BY <3>2 DEF Contract!Next
  <2>6. CASE \/ /\ out'[r] = out[r] \union {"reply"}
                /\ "result" \in out[r]
                /\ out[r] \subseteq {"chunk", "result", "legacy"}
             \/ /\ out'[r] = out[r] \union {"errorReply"}
                /\ "error" \in out[r]
                /\ out[r] \subseteq {"chunk", "error"}
    <3>1. /\ V1Answer(r) = "none" /\ V1Answer(r)' = V1Verdict(r)
          /\ V1Verdict(r) \in {"completed", "failed"} /\ V1Verdict(r)' = V1Verdict(r)
      BY <2>2, <2>3, <2>6
    <3>2. Contract!Answer(r)
      BY <1>3, <3>1 DEF Contract!Answer, Contract!Answered
    <3>3. QED
      BY <3>2 DEF Contract!Next
  <2>7. QED
    BY <2>1, <2>4, <2>5, <2>6 DEF Publishes
<1>7. QED
  BY <1>5, <1>6

\* The v1 chat makes the promise of the streaming handler: decided once, answered
\* at most once and with that verdict, whatever connection is lost between two
\* publications and however often the process is started again.
THEOREM ContractIsHonoured == Spec => HonoursContract
<1>1. Init => Contract!Init
  BY DEF Init, ChannelsInit, Contract!Init, V1Verdict, V1Answer, V1
<1>2. TypeOK /\ Shapes /\ [Next]_vars => [Contract!Next]_Contract!contractVars
  <2> SUFFICES ASSUME TypeOK, Shapes, [Next]_vars
               PROVE  Contract!Next \/ UNCHANGED Contract!contractVars
    OBVIOUS
  <2>1. CASE LifeChange \/ UNCHANGED <<lifeVars, channelVars>>
    <3>1. UNCHANGED <<channel, out>>
      BY <2>1 DEF LifeChange, StartV1, Exit, OtherConnections, Connect, Disconnect, ForgetConnection,
         ChannelsExit, channelVars
    <3>2. \A q \in Requests : V1Verdict(q)' = V1Verdict(q) /\ V1Answer(q)' = V1Answer(q)
      BY <3>1, SameVerdict
    <3>3. QED
      BY <3>2 DEF Contract!contractVars
  <2>2. QED
    BY <2>1, StepKinds, RequestStepRefines
<1>3. QED
  BY <1>1, <1>2, TypeInvariant, ShapesInvariant, PTL DEF Spec, HonoursContract, Contract!Spec

-----------------------------------------------------------------------------
(* A shutdown, the tasks and the messages come to an end. *)

\* What a step of the service can do to one delivery and its call of the graph.
LEMMA DeliveryStep ==
    ASSUME TypeOK, GraphShape, [Next]_vars, NEW d \in Deliveries
    PROVE  \/ UNCHANGED <<process[d], node[d], rows[d]>>
           \/ Process(d)
           \/ process'[d] = process[d] /\ GraphStep(d)
           \/ process'[d] = (IF process[d] = "unused" THEN "unused" ELSE "ended") /\ node'[d] = "idle"
<1> USE DeliveriesAssumption, RequestsAssumption, CallersAssumption
<1>type. /\ node \in [Calls -> Nodes] /\ rows \in [Calls -> Nat]
         /\ process \in [Deliveries -> Working \union {"unused", "ended"}]
         /\ d \in Calls /\ d \notin Requests
  BY DEF TypeOK, PulsarTypeOK, GraphShape
<1>same. ASSUME UNCHANGED <<process, graphVars>>
         PROVE  UNCHANGED <<process[d], node[d], rows[d]>>
  BY <1>same DEF graphVars
<1>1. CASE UNCHANGED vars
  BY <1>1, <1>same DEF vars, pulsarVars
<1>2. CASE Exit
  BY <1>2, <1>type DEF Exit, PulsarExit, Forget
<1>3. CASE Lifespan /\ ~Exit
  BY <1>3, <1>same DEF Lifespan, StartStep, StartNats, StartConsumer, StartRag, StartV1, StartPulsar,
     BeginShutdown, ShutdownStep, Close, CancelLoop, StopConsuming, ClosePulsar, CloseClient, Boot,
     GiveUp, pulsarVars
<1>4. CASE Arrive
  <2>1. CASE \E m \in Messages : Produce(m)
    BY <2>1, <1>same DEF Produce
  <2>2. CASE UNCHANGED pulsarVars /\ \E r \in Requests : \/ V1Receive(r) \/ RagReceive(r)
                                \/ SseOpen(r, phase = "serving")
                                \/ HttpOpen(r, phase = "serving")
    BY <2>2, <1>type DEF V1Receive, RagReceive, SseOpen, HttpOpen, Invoke, At, pulsarVars, graphVars
  <2>3. QED
    BY <1>4, <2>1, <2>2 DEF Arrive
<1>5. CASE Broker \/ \E m \in Messages : Elsewhere(m)
  BY <1>5, <1>same DEF Broker, Reconnect, Elsewhere, HandledElsewhere
<1>6. ASSUME NEW e \in Deliveries, Consume(e), e # d
      PROVE  UNCHANGED <<process[d], node[d], rows[d]>>
  <2>1. e \in Calls /\ Process(e)
    BY <1>6 DEF Consume
  <2>2. process'[d] = process[d]
    BY <1>6, <2>1, <1>type DEF Process, Receive, Parse, GraphEnds, SendResult, SendFails, Acknowledge,
       AcknowledgeFails, Nack, Proceed
  <2>3. UNCHANGED graphVars \/ Forget({e}) \/ Invoke(e, "retrieve_context")
    BY <2>1 DEF Process, Receive, Parse, GraphEnds, SendResult, SendFails, Acknowledge,
       AcknowledgeFails, Nack
  <2>4. node'[d] = node[d] /\ rows'[d] = rows[d]
    BY <1>6, <2>1, <2>3, <1>type DEF graphVars, Forget, Invoke, At
  <2>5. QED
    BY <2>2, <2>4
<1>7. ASSUME NEW r \in Requests, Serve(r) \/ Stream(r)
      PROVE  UNCHANGED <<process[d], node[d], rows[d]>>
  BY <1>7, <1>same DEF Serve, HandleRequest, V1Chunk, V1StreamEnds, V1Result, V1Legacy, V1Reply, V1Error,
     V1ErrorReply, RagComputed, RagRefused, RagRespond, RagPublish, SseChunk, SseStop, SseDone, HttpAnswer, Stream, pulsarVars
<1>8. ASSUME NEW r \in Requests, GoneAway(r)
      PROVE  UNCHANGED <<process[d], node[d], rows[d]>>
  BY <1>8, <1>type DEF GoneAway, SseBreaks, CutOff, Forget, pulsarVars, graphVars
<1>9. ASSUME NEW c \in Calls, Call(c), c # d
      PROVE  UNCHANGED <<process[d], node[d], rows[d]>>
  BY <1>9, <1>type DEF Call, GraphStep, Search, Rerank, RetrieveContext, ErrorHandler, GenerateResponse,
     Persist, PersistFails, At, pulsarVars
<1>10. CASE Consume(d) \/ Call(d)
  BY <1>10 DEF Consume, Call, pulsarVars
<1>11. QED
  BY <1>1, <1>2, <1>3, <1>4, <1>5, <1>6, <1>7, <1>8, <1>9, <1>10 DEF Next

\* A delivery has a call of the graph while its task is in it, and no other.
CallsAreTasks ==
    \A d \in Deliveries :
        /\ process[d] \in {"unused", "parse", "ended"} => node[d] = "idle"
        /\ process[d] = "graph" => node[d] \notin {"idle", "search", "rerank"}
        /\ process[d] \in {"send", "acknowledge", "nack"} => node[d] \in CallEnded \union {"idle"}

LEMMA CallsAreTasksStep ==
    ASSUME TypeOK, GraphShape, CallsAreTasks, [Next]_vars
    PROVE  CallsAreTasks'
<1> SUFFICES ASSUME NEW d \in Deliveries
             PROVE  /\ process'[d] \in {"unused", "parse", "ended"} => node'[d] = "idle"
                    /\ process'[d] = "graph" => node'[d] \notin {"idle", "search", "rerank"}
                    /\ process'[d] \in {"send", "acknowledge", "nack"} => node'[d] \in CallEnded \union {"idle"}
  BY DEF CallsAreTasks
<1> USE DEF CallsAreTasks, CallEnded, Finished
<1>type. /\ node \in [Calls -> Nodes] /\ d \in Calls
         /\ process \in [Deliveries -> Working \union {"unused", "ended"}]
  BY DeliveriesAssumption DEF TypeOK, PulsarTypeOK, GraphShape
<1>1. CASE Process(d)
  BY <1>1, <1>type DEF Process, Receive, Parse, GraphEnds, SendResult, SendFails, Acknowledge,
     AcknowledgeFails, Nack, Proceed, Invoke, Forget, At, graphVars
<1>2. CASE process'[d] = process[d] /\ GraphStep(d)
  BY <1>2, <1>type DEF GraphStep, Search, Rerank, RetrieveContext, ErrorHandler, GenerateResponse,
     Persist, PersistFails, At
<1>3. CASE process'[d] = process[d] /\ node'[d] = node[d]
  BY <1>3
<1>4. QED
  BY <1>1, <1>2, <1>3, DeliveryStep

\* The consume loop runs until it is cancelled.
ConsumerRuns == phase \in {"rag", "v1", "serving", "closeNats", "cancelLoop"} => consuming = "running"

LEMMA ConsumerRunsStep ==
    ASSUME ConsumerRuns, [Next]_vars
    PROVE  ConsumerRuns'
<1> USE DEF ConsumerRuns
<1>same. ASSUME UNCHANGED <<phase, consuming>> PROVE ConsumerRuns'
  BY <1>same
<1>1. CASE Lifespan
  BY <1>1 DEF Lifespan, StartStep, StartNats, StartConsumer, StartRag, StartV1, StartPulsar,
     BeginShutdown, ShutdownStep, Close, CancelLoop, StopConsuming, ClosePulsar, CloseClient, Exit, Boot,
     GiveUp, pulsarVars
<1>2. CASE Arrive
  BY <1>2 DEF Arrive, Produce, lifeVars, pulsarVars
<1>3. CASE Broker \/ \E m \in Messages : Elsewhere(m)
  BY <1>3 DEF Broker, Reconnect, Elsewhere, HandledElsewhere, lifeVars
<1>4. CASE \E d \in Deliveries : Consume(d)
  BY <1>4 DEF Consume, Process, Receive, Parse, GraphEnds, SendResult, SendFails, Acknowledge,
     AcknowledgeFails, Nack, lifeVars
<1>5. CASE \/ \E r \in Requests : Serve(r) \/ GoneAway(r) \/ Stream(r)
           \/ \E c \in Calls : Call(c)
           \/ UNCHANGED vars
  BY <1>5 DEF Serve, GoneAway, Stream, Call, vars, lifeVars, pulsarVars
<1>6. QED
  BY <1>1, <1>2, <1>3, <1>4, <1>5 DEF Next

Sound ==
    /\ TypeOK /\ GraphShape /\ HeldIsInWork
    /\ CallsAreTasks /\ ConsumerRuns

LEMMA SoundAlways == Spec => []Sound
<1>1. Init => CallsAreTasks /\ ConsumerRuns
  BY DeliveriesAssumption DEF Init, PulsarInit, GraphInit, CallsAreTasks, ConsumerRuns
<1>2. TypeOK /\ GraphShape /\ CallsAreTasks /\ ConsumerRuns /\ [Next]_vars
        => CallsAreTasks' /\ ConsumerRuns'
  BY CallsAreTasksStep, ConsumerRunsStep
<1>3. QED
  BY <1>1, <1>2, TypeInvariant, NothingIsHeldByNobody, PTL DEF Spec, Sound

-----------------------------------------------------------------------------
\* What the fairness has to carry on, by its guards.
ShutdownReady == phase \in Stopping /\ (phase = "cancelLoop" => consuming = "running")

ConsumeReady(d) ==
    \/ process[d] \in {"send", "acknowledge", "nack"}
    \/ process[d] = "parse" /\ node[d] = "idle"
    \/ process[d] = "graph" /\ node[d] \in CallEnded

CallReady(d) == process[d] = "graph" /\ node[d] \in Graph \union {"persist"}

\* The steps are possible when their guards say so.
ReadyIsEnabled ==
    /\ ShutdownReady => ENABLED <<ShutdownStep>>_vars
    /\ \A m \in Messages :
          broker[m] = "backlog" /\ m \notin malformed => ENABLED <<Elsewhere(m)>>_vars
    /\ \A d \in Deliveries : /\ ConsumeReady(d) => ENABLED <<Consume(d)>>_vars
                             /\ CallReady(d) => ENABLED <<Call(d)>>_vars

\* The shutdown is over, or has at most n steps before it.
StopsWithin(n) ==
    \/ phase = "down"
    \/ n >= 1 /\ phase = "exit"
    \/ n >= 2 /\ phase = "closeRag" /\ conn["rag"] # "open"
    \/ n >= 3 /\ phase = "closeRag"
    \/ n >= 4 /\ phase = "closeV1" /\ conn["v1"] # "open"
    \/ n >= 5 /\ phase = "closeV1"
    \/ n >= 6 /\ phase = "closePulsar"
    \/ n >= 7 /\ phase = "cancelLoop"
    \/ n >= 8 /\ phase = "closeNats" /\ conn["nats"] # "open"
    \/ n >= 9 /\ phase = "closeNats"

\* A step of the shutdown brings it nearer to its end, ...
LEMMA ShutdownStepGoesOn ==
    ASSUME TypeOK, ShutdownStep, NEW m \in 1..9, NEW n \in 0..8, m = n + 1, StopsWithin(m)
    PROVE  StopsWithin(n)'
<1>conn. conn \in [Handlers -> {"none", "open", "closed"}]
  BY DEF TypeOK, ChannelsTypeOK
<1>close. ASSUME NEW h \in Handlers, NEW current, NEW next, Close(h, current, next)
          PROVE  /\ phase = current
                 /\ \/ phase' = phase /\ conn[h] = "open" /\ conn'[h] = "closed"
                    \/ phase' \in {next, "exit"}
  BY <1>close, <1>conn DEF Close, Disconnect, ForgetConnection
<1>1. CASE Close("nats", "closeNats", "cancelLoop")
  BY <1>1, <1>close DEF StopsWithin, Handlers
<1>2. CASE CancelLoop
  BY <1>2 DEF CancelLoop, StopsWithin
<1>3. CASE ClosePulsar
  BY <1>3 DEF ClosePulsar, StopsWithin
<1>4. CASE Close("v1", "closeV1", "closeRag")
  BY <1>4, <1>close DEF StopsWithin, Handlers
<1>5. CASE Close("rag", "closeRag", "exit")
  BY <1>5, <1>close DEF StopsWithin, Handlers
<1>6. CASE Exit
  BY <1>6 DEF Exit, StopsWithin
<1>7. QED
  BY <1>1, <1>2, <1>3, <1>4, <1>5, <1>6 DEF ShutdownStep

\* ... and nothing else that happens while it goes on takes it back.
LEMMA ShutdownGoesOn ==
    ASSUME TypeOK, phase # "down", [Next]_vars, NEW m \in 1..9, StopsWithin(m)
    PROVE  StopsWithin(m)'
<1>same. ASSUME UNCHANGED <<phase, conn>> PROVE StopsWithin(m)'
  BY <1>same DEF StopsWithin
<1>1. CASE ShutdownStep
  <2>1. PICK n \in 0..8 : m = n + 1
    OBVIOUS
  <2>2. StopsWithin(n)'
    BY <1>1, <2>1, ShutdownStepGoesOn
  <2>3. QED
    BY <2>1, <2>2 DEF StopsWithin
<1>2. CASE StartStep \/ BeginShutdown \/ Boot \/ Exit
  BY <1>2 DEF StartStep, StartNats, StartConsumer, StartRag, StartV1, BeginShutdown, Boot, Exit, StopsWithin
<1>3. ASSUME NEW h \in Handlers, GiveUp(h) PROVE StopsWithin(m)'
  <2>1. phase' = phase /\ \A g \in Handlers : conn'[g] = "open" => conn[g] = "open"
    BY <1>3 DEF GiveUp, Disconnect, TypeOK, ChannelsTypeOK
  <2>2. QED
    BY <2>1 DEF StopsWithin, Handlers
<1>4. CASE Arrive
  BY <1>4, <1>same DEF Arrive, V1Receive, RagReceive, SseOpen, HttpOpen, channelVars, lifeVars
<1>5. CASE Broker \/ (\E m1 \in Messages : Elsewhere(m1)) \/ (\E d \in Deliveries : Consume(d))
           \/ \E c \in Calls : Call(c)
  BY <1>5, <1>same DEF Broker, Elsewhere, Consume, Call, channelVars, lifeVars
<1>6. CASE \E r \in Requests : Serve(r) \/ GoneAway(r) \/ Stream(r)
  BY <1>6, <1>same DEF Serve, HandleRequest, V1Chunk, V1StreamEnds, V1Result, V1Legacy, V1Reply, V1Error,
     V1ErrorReply, RagComputed, RagRefused, RagRespond, RagPublish, SseChunk, SseStop, SseDone, HttpAnswer,
     GoneAway, SseBreaks, CutOff, Stream, channelVars, lifeVars
<1>7. CASE UNCHANGED vars
  BY <1>7, <1>same DEF vars, channelVars, lifeVars
<1>8. QED
  BY <1>1, <1>2, <1>3, <1>4, <1>5, <1>6, <1>7 DEF Next, Lifespan

Given == []Sound /\ [][Next]_vars /\ []ReadyIsEnabled /\ Fairness

ShutdownComesTo(m, n) == StopsWithin(m) ~> StopsWithin(n)

LEMMA ShutdownComesDown ==
    ASSUME NEW m \in 1..9, NEW n \in 0..8, m = n + 1
    PROVE  Given => ShutdownComesTo(m, n)
<1> DEFINE Here == phase # "down" /\ StopsWithin(m)
<1>0. StopsWithin(m) => Here \/ StopsWithin(n)
  BY DEF StopsWithin
<1>1. Sound /\ Here /\ [Next]_vars => Here' \/ StopsWithin(n)'
  <2>1. phase' = "down" => StopsWithin(n)'
    BY DEF StopsWithin
  <2>2. QED
    BY <2>1, ShutdownGoesOn DEF Sound
<1>2. Sound /\ Here /\ <<ShutdownStep>>_vars => StopsWithin(n)'
  BY ShutdownStepGoesOn DEF Sound
<1>3. Sound /\ ReadyIsEnabled /\ Here => ENABLED <<ShutdownStep>>_vars
  BY DEF Sound, ReadyIsEnabled, ShutdownReady, ConsumerRuns, StopsWithin, Stopping
<1>4. Fairness => WF_vars(ShutdownStep)
  BY PTL DEF Fairness, FairShutdown
<1>5. QED
  BY <1>0, <1>1, <1>2, <1>3, <1>4, PTL DEF ShutdownComesTo, Given

\* A shutdown that began comes to its end, whatever the tasks, the requests and the
\* connections do meanwhile: every close() of lifespan returns or raises, and either
\* takes the process on (main.py lifespan, the handlers' close()).
THEOREM ShutdownsEnd ==
    Spec /\ []Fairness /\ []ReadyIsEnabled => (phase \in Stopping ~> phase = "down")
<1>1. /\ Given => ShutdownComesTo(9, 8)
      /\ Given => ShutdownComesTo(8, 7)
      /\ Given => ShutdownComesTo(7, 6)
      /\ Given => ShutdownComesTo(6, 5)
      /\ Given => ShutdownComesTo(5, 4)
      /\ Given => ShutdownComesTo(4, 3)
      /\ Given => ShutdownComesTo(3, 2)
      /\ Given => ShutdownComesTo(2, 1)
      /\ Given => ShutdownComesTo(1, 0)
  BY ShutdownComesDown
<1>2. phase \in Stopping => StopsWithin(9)
  BY DEF StopsWithin, Stopping
<1>3. StopsWithin(0) => phase = "down"
  BY DEF StopsWithin
<1>4. QED
  BY <1>1, <1>2, <1>3, SoundAlways, PTL DEF ShutdownComesTo, Given, Spec

-----------------------------------------------------------------------------
\* The task of a delivery is over, or has at most n steps before it.
EndsWithin(d, n) ==
    \/ process[d] = "ended"
    \/ n >= 1 /\ process[d] = "nack"
    \/ n >= 2 /\ process[d] = "acknowledge"
    \/ n >= 3 /\ process[d] = "send"
    \/ process[d] = "graph" /\ \/ n >= 4 /\ node[d] \in CallEnded
                               \/ n >= 5 /\ node[d] = "persist" /\ rows[d] # 0
                               \/ n >= 6 /\ node[d] = "persist"
                               \/ n >= 7 /\ node[d] = "generate_response"
                               \/ n >= 8 /\ node[d] = "error_handler"
                               \/ n >= 9 /\ node[d] = "retrieve_context"
    \/ n >= 10 /\ process[d] = "parse"

\* A step of the task brings it nearer to its end, ...
LEMMA TaskStepGoesOn ==
    ASSUME Sound, NEW d \in Deliveries, NEW m \in 1..10, NEW n \in 0..9, m = n + 1,
           process[d] \in Working, EndsWithin(d, m),
           Process(d) \/ (process'[d] = process[d] /\ GraphStep(d))
    PROVE  EndsWithin(d, n)'
<1>type. /\ node \in [Calls -> Nodes] /\ d \in Calls
         /\ rows \in [Calls -> Nat]
         /\ process \in [Deliveries -> Working \union {"unused", "ended"}]
  BY DeliveriesAssumption DEF Sound, TypeOK, PulsarTypeOK, GraphShape
<1> USE DEF EndsWithin, Working, CallEnded, Finished
<1>1. CASE Receive(d)
  BY <1>1 DEF Receive
<1>2. CASE Parse(d)
  <2>1. /\ process[d] = "parse"
        /\ process'[d] = "nack" \/ (process'[d] = "graph" /\ node'[d] = "retrieve_context")
    BY <1>2, <1>type DEF Parse, Proceed, Invoke, At
  <2>2. QED
    BY <2>1
<1>3. CASE GraphEnds(d)
  <2>1. /\ process[d] = "graph" /\ node[d] \in CallEnded
        /\ process'[d] \in {"nack", "send"}
    BY <1>3, <1>type DEF GraphEnds, Proceed
  <2>2. QED
    BY <2>1
<1>4. CASE SendResult(d) \/ SendFails(d)
  <2>1. process[d] = "send" /\ process'[d] \in {"nack", "acknowledge"}
    BY <1>4, <1>type DEF SendResult, SendFails, Proceed
  <2>2. QED
    BY <2>1
<1>5. CASE Acknowledge(d) \/ AcknowledgeFails(d)
  <2>1. process[d] = "acknowledge" /\ process'[d] \in {"nack", "ended"}
    BY <1>5, <1>type DEF Acknowledge, AcknowledgeFails, Proceed
  <2>2. QED
    BY <2>1
<1>6. CASE Nack(d)
  <2>1. process'[d] = "ended"
    BY <1>6, <1>type DEF Nack, Proceed
  <2>2. QED
    BY <2>1
<1>7. CASE process'[d] = process[d] /\ GraphStep(d)
  <2>1. \/ node[d] = "retrieve_context" /\ node'[d] \in {"generate_response", "error_handler"}
        \/ node[d] = "error_handler" /\ node'[d] \in {"generate_response", "persist"}
        \/ node[d] = "generate_response" /\ node'[d] \in {"persist", "raised"}
        \/ node[d] = "persist" /\ rows[d] = 0 /\ node'[d] = "persist" /\ rows'[d] = 1
        \/ node[d] = "persist" /\ node'[d] \in Finished
        \/ node[d] \in {"search", "rerank"}
    BY <1>7, <1>type DEF GraphStep, Search, Rerank, RetrieveContext, ErrorHandler, GenerateResponse,
       Persist, PersistFails, At
  <2>2. process[d] = "graph" /\ node[d] \notin {"search", "rerank"}
    BY <2>1 DEF Sound, CallsAreTasks
  <2>3. process'[d] = "graph"
    BY <1>7, <2>2
  <2>4. QED
    BY <2>1, <2>2, <2>3
<1>8. QED
  BY <1>1, <1>2, <1>3, <1>4, <1>5, <1>6, <1>7 DEF Process

\* ... and nothing else that happens while it goes on takes it back.
LEMMA TaskGoesOn ==
    ASSUME Sound, [Next]_vars, NEW d \in Deliveries, NEW m \in 1..10,
           process[d] \in Working, EndsWithin(d, m)
    PROVE  EndsWithin(d, m)' /\ process'[d] \in Working \union {"ended"}
<1>0. EndsWithin(d, m)' => process'[d] \in Working \union {"ended"}
  BY DEF EndsWithin, Working
<1>1. CASE UNCHANGED <<process[d], node[d], rows[d]>>
  BY <1>1, <1>0 DEF EndsWithin
<1>2. CASE Process(d) \/ (process'[d] = process[d] /\ GraphStep(d))
  <2>1. PICK n \in 0..9 : m = n + 1
    OBVIOUS
  <2>2. EndsWithin(d, n)'
    BY <1>2, <2>1, TaskStepGoesOn
  <2>3. EndsWithin(d, m)'
    BY <2>1, <2>2 DEF EndsWithin
  <2>4. QED
    BY <2>3, <1>0
<1>3. CASE process'[d] = (IF process[d] = "unused" THEN "unused" ELSE "ended")
  BY <1>3, <1>0 DEF EndsWithin, Working
<1>4. QED
  BY <1>1, <1>2, <1>3, DeliveryStep DEF Sound

TaskComesTo(d, m, n) == EndsWithin(d, m) ~> EndsWithin(d, n)

LEMMA TaskComesDown ==
    ASSUME NEW d \in Deliveries, NEW m \in 1..10, NEW n \in 0..9, m = n + 1
    PROVE  []Sound /\ [][Next]_vars /\ []ReadyIsEnabled /\ FairTask(d) => TaskComesTo(d, m, n)
<1> DEFINE Here == process[d] \in Working /\ EndsWithin(d, m) /\ ~EndsWithin(d, n)
<1>0. EndsWithin(d, m) => Here \/ EndsWithin(d, n)
  BY DEF EndsWithin, Working
<1>1. Sound /\ Here /\ [Next]_vars => Here' \/ EndsWithin(d, n)'
  <2> SUFFICES ASSUME Sound, Here, [Next]_vars PROVE Here' \/ EndsWithin(d, n)'
    OBVIOUS
  <2>1. EndsWithin(d, m)' /\ process'[d] \in Working \union {"ended"}
    BY TaskGoesOn
  <2>2. process'[d] = "ended" => EndsWithin(d, n)'
    BY DEF EndsWithin
  <2>3. QED
    BY <2>1, <2>2
<1>2. Sound /\ Here /\ <<Consume(d)>>_vars => EndsWithin(d, n)'
  BY TaskStepGoesOn DEF Consume
<1>3. Sound /\ Here /\ <<Call(d)>>_vars => EndsWithin(d, n)'
  BY TaskStepGoesOn DEF Call, pulsarVars
<1>4. CASE m \in 5..9
  <2>1. Sound /\ Here => CallReady(d)
    BY <1>4 DEF CallReady, Working, EndsWithin, Graph
  <2>2. ReadyIsEnabled /\ CallReady(d) => ENABLED <<Call(d)>>_vars
    BY DEF ReadyIsEnabled
  <2>3. QED
    BY <1>0, <1>1, <1>3, <2>1, <2>2, PTL DEF TaskComesTo, FairTask
<1>5. CASE m \notin 5..9
  <2>1. Sound /\ Here => ConsumeReady(d)
    BY <1>5 DEF Sound, CallsAreTasks, ConsumeReady, Working, EndsWithin
  <2>2. ReadyIsEnabled /\ ConsumeReady(d) => ENABLED <<Consume(d)>>_vars
    BY DEF ReadyIsEnabled
  <2>3. QED
    BY <1>0, <1>1, <1>2, <2>1, <2>2, PTL DEF TaskComesTo, FairTask
<1>6. QED
  BY <1>4, <1>5

TaskEnds(d) == process[d] \in Working ~> process[d] = "ended"

LEMMA FairTaskEnds ==
    ASSUME NEW d \in Deliveries
    PROVE  []Sound /\ [][Next]_vars /\ []ReadyIsEnabled /\ FairTask(d) => TaskEnds(d)
<1> DEFINE Go == []Sound /\ [][Next]_vars /\ []ReadyIsEnabled /\ FairTask(d)
<1>1. /\ Go => TaskComesTo(d, 10, 9)
      /\ Go => TaskComesTo(d, 9, 8)
      /\ Go => TaskComesTo(d, 8, 7)
      /\ Go => TaskComesTo(d, 7, 6)
      /\ Go => TaskComesTo(d, 6, 5)
  BY TaskComesDown
<1>2. /\ Go => TaskComesTo(d, 5, 4)
      /\ Go => TaskComesTo(d, 4, 3)
      /\ Go => TaskComesTo(d, 3, 2)
      /\ Go => TaskComesTo(d, 2, 1)
      /\ Go => TaskComesTo(d, 1, 0)
  BY TaskComesDown
<1>3. Sound /\ process[d] \in Working => EndsWithin(d, 10)
  BY DeliveriesAssumption DEF Sound, TypeOK, GraphTypeOK, CallsAreTasks, EndsWithin, Working, Nodes, Graph
<1>4. EndsWithin(d, 0) => process[d] = "ended"
  BY DEF EndsWithin
<1>5. QED
  BY <1>1, <1>2, <1>3, <1>4, PTL DEF TaskComesTo, TaskEnds

\* Every task comes to its end, whatever the graph, the send and the acknowledgement
\* answer and whatever shutdown or exit does under it: no delivery is in work for
\* ever (PulsarHandler._process: each way through it ends in an acknowledgement, a
\* nack or an exception).
THEOREM TasksEnd ==
    Spec /\ []Fairness /\ []ReadyIsEnabled
      => \A d \in Deliveries : process[d] \in Working ~> process[d] = "ended"
<1> SUFFICES ASSUME NEW d \in Deliveries
             PROVE  Spec /\ []Fairness /\ []ReadyIsEnabled
                      => (process[d] \in Working ~> process[d] = "ended")
  OBVIOUS
<1>1. Fairness => FairTask(d)
  BY DEF Fairness
<1>2. QED
  BY <1>1, FairTaskEnds, SoundAlways, PTL DEF TaskEnds, Spec

-----------------------------------------------------------------------------
\* The task d has the message m, which the broker counts as held.
HeldBy(d, m) == process[d] \in Working /\ message[d] = m /\ broker[m] = "held"

\* The message m is held for the receive that outlived the consume loop.
HeldByReceive(m) == broker[m] = "held" /\ consuming = "stopped" /\ phase = "closePulsar"

\* What a step of the service can do to the messages.
LEMMA MessageStep ==
    ASSUME TypeOK, [Next]_vars, NEW m \in Messages
    PROVE  \/ UNCHANGED <<broker[m], malformed, message, process>>
           \/ \E k \in Messages : Produce(k) \/ HandledElsewhere(k)
           \/ \E d \in Deliveries : Process(d)
           \/ Redeliver /\ UNCHANGED <<malformed, message>>
<1>same. ASSUME UNCHANGED pulsarVars
         PROVE  UNCHANGED <<broker[m], malformed, message, process>>
  BY <1>same DEF pulsarVars
<1>1. CASE StartStep \/ BeginShutdown \/ Boot \/ \E h \in Handlers : GiveUp(h)
  BY <1>1, <1>same DEF StartStep, StartNats, StartConsumer, StartPulsar, StartRag, StartV1, BeginShutdown, Boot, GiveUp
<1>2. CASE ShutdownStep \/ Exit
  BY <1>2, <1>same DEF ShutdownStep, Close, CancelLoop, StopConsuming, ClosePulsar, CloseClient, Exit, PulsarExit
<1>3. CASE Arrive
  BY <1>3, <1>same DEF Arrive
<1>4. CASE Broker \/ \E k \in Messages : Elsewhere(k)
  BY <1>4 DEF Broker, Reconnect, Elsewhere
<1>5. CASE \E d \in Deliveries : Consume(d)
  BY <1>5 DEF Consume
<1>6. CASE \/ \E r \in Requests : Serve(r) \/ GoneAway(r) \/ Stream(r)
           \/ \E c \in Calls : Call(c)
           \/ UNCHANGED vars
  BY <1>6, <1>same DEF Serve, GoneAway, Stream, Call, vars
<1>7. QED
  BY <1>1, <1>2, <1>3, <1>4, <1>5, <1>6 DEF Next, Lifespan

\* A message stays with its task until it goes back or is acknowledged, ...
LEMMA HeldByStays ==
    ASSUME Sound, [Next]_vars, NEW d \in Deliveries, NEW m \in Messages, HeldBy(d, m)
    PROVE  HeldBy(d, m)' \/ broker'[m] # "held"
<1> USE DEF HeldBy
<1>type. /\ process \in [Deliveries -> Working \union {"unused", "ended"}]
         /\ message \in [Deliveries -> Messages]
         /\ broker \in [Messages -> {"absent", "backlog", "held", "acked"}]
         /\ client = "open"
  BY DEF Sound, TypeOK, PulsarTypeOK, HeldIsInWork
<1>1. CASE \E k \in Messages : Produce(k) \/ HandledElsewhere(k)
  BY <1>1, <1>type DEF Produce, HandledElsewhere
<1>2. ASSUME NEW e \in Deliveries, Process(e), e # d
      PROVE  process'[d] = process[d] /\ message' = message
  BY <1>2, <1>type DEF Process, Receive, Parse, GraphEnds, SendResult, SendFails, Acknowledge,
     AcknowledgeFails, Nack, Proceed
<1>3. CASE Process(d)
  <2>1. CASE Receive(d)
    BY <2>1 DEF Receive, Working
  <2>2. CASE Parse(d) \/ GraphEnds(d) \/ SendResult(d) \/ SendFails(d) \/ AcknowledgeFails(d)
    BY <2>2, <1>type DEF Parse, GraphEnds, SendResult, SendFails, AcknowledgeFails, Proceed, Working
  <2>3. CASE Acknowledge(d)
    BY <2>3, <1>type DEF Acknowledge, Redeliver
  <2>4. CASE Nack(d)
    BY <2>4, <1>type DEF Nack
  <2>5. QED
    BY <1>3, <2>1, <2>2, <2>3, <2>4 DEF Process
<1>4. CASE Redeliver
  BY <1>4, <1>type DEF Redeliver
<1>5. CASE UNCHANGED <<broker[m], malformed, message, process>>
  BY <1>5
<1>6. QED
  BY <1>1, <1>2, <1>3, <1>4, <1>5, MessageStep DEF Sound

\* ... and what a receive took when nobody consumes any more, until the client closes.
LEMMA HeldByReceiveStays ==
    ASSUME Sound, [Next]_vars, NEW m \in Messages, HeldByReceive(m)
    PROVE  HeldByReceive(m)' \/ broker'[m] # "held"
<1> USE DEF HeldByReceive
<1>type. broker \in [Messages -> {"absent", "backlog", "held", "acked"}]
  BY DEF Sound, TypeOK, PulsarTypeOK
<1>1. CASE UNCHANGED <<consuming, phase>>
  BY <1>1
<1>2. CASE ClosePulsar \/ Exit
  BY <1>2, <1>type DEF ClosePulsar, CloseClient, Exit, PulsarExit, Redeliver
<1>3. CASE Lifespan /\ ~(ClosePulsar \/ Exit)
  BY <1>3 DEF Lifespan, StartStep, StartNats, StartConsumer, StartRag, StartV1, BeginShutdown,
     ShutdownStep, Close, CancelLoop, Boot, GiveUp, pulsarVars
<1>4. CASE Arrive \/ Broker \/ \E k \in Messages : Elsewhere(k)
  BY <1>4 DEF Arrive, Produce, Broker, Reconnect, Elsewhere, HandledElsewhere, lifeVars, pulsarVars
<1>5. CASE \E d \in Deliveries : Consume(d)
  BY <1>5 DEF Consume, Process, Receive, Parse, GraphEnds, SendResult, SendFails, Acknowledge,
     AcknowledgeFails, Nack, lifeVars
<1>6. CASE \/ \E r \in Requests : Serve(r) \/ GoneAway(r) \/ Stream(r)
           \/ \E c \in Calls : Call(c)
           \/ UNCHANGED vars
  BY <1>6 DEF Serve, GoneAway, Stream, Call, vars, lifeVars, pulsarVars
<1>7. QED
  BY <1>2, <1>3, <1>4, <1>5, <1>6 DEF Next

LEMMA ClosingReleases ==
    ASSUME Sound, ShutdownStep, NEW m \in Messages, HeldByReceive(m)
    PROVE  broker'[m] # "held"
<1>1. ClosePulsar
  BY DEF HeldByReceive, ShutdownStep, Close, CancelLoop
<1>2. QED
  BY <1>1 DEF ClosePulsar, CloseClient, Redeliver

TaskReleases(d, m) == HeldBy(d, m) => <>(broker[m] # "held")

LEMMA TaskReleasesIt ==
    ASSUME NEW d \in Deliveries, NEW m \in Messages
    PROVE  []Sound /\ [][Next]_vars /\ []ReadyIsEnabled /\ FairTask(d) => TaskReleases(d, m)
<1>1. Sound /\ HeldBy(d, m) /\ [Next]_vars => HeldBy(d, m)' \/ (broker[m] # "held")'
  BY HeldByStays
<1>2. HeldBy(d, m) => process[d] \in Working /\ ~(process[d] = "ended")
  BY DEF HeldBy, Working
<1>3. []Sound /\ [][Next]_vars /\ []ReadyIsEnabled /\ FairTask(d) => TaskEnds(d)
  BY FairTaskEnds
<1>4. QED
  BY <1>1, <1>2, <1>3, PTL DEF TaskEnds, TaskReleases

\* What the broker counts as held by this service is released in the end: it is
\* acknowledged or goes back to the backlog (PulsarHandler._consume_loop, _process
\* and close).
THEOREM HeldIsReleased ==
    Spec /\ []Fairness /\ []ReadyIsEnabled
      => \A m \in Messages : broker[m] = "held" ~> broker[m] # "held"
<1> SUFFICES ASSUME NEW m \in Messages
             PROVE  Spec /\ []Fairness /\ []ReadyIsEnabled
                      => (broker[m] = "held" ~> broker[m] # "held")
  OBVIOUS
<1> DEFINE Go == []Sound /\ [][Next]_vars /\ []ReadyIsEnabled /\ Fairness
<1>1. Go => ((\E d \in Deliveries : HeldBy(d, m)) => <>(broker[m] # "held"))
  <2>1. ASSUME NEW d \in Deliveries PROVE Go => TaskReleases(d, m)
    <3>1. Fairness => FairTask(d)
      BY DEF Fairness
    <3>2. QED
      BY <3>1, TaskReleasesIt, PTL
  <2> HIDE DEF Go
  <2>2. Go => \A d \in Deliveries : TaskReleases(d, m)
    BY <2>1
  <2>3. QED
    BY <2>2 DEF TaskReleases
<1>2. Go => (HeldByReceive(m) ~> broker[m] # "held")
  <2>1. Sound /\ HeldByReceive(m) /\ [Next]_vars => HeldByReceive(m)' \/ (broker[m] # "held")'
    BY HeldByReceiveStays
  <2>2. Sound /\ HeldByReceive(m) /\ <<ShutdownStep>>_vars => (broker[m] # "held")'
    BY ClosingReleases
  <2>3. ReadyIsEnabled /\ HeldByReceive(m) => ENABLED <<ShutdownStep>>_vars
    BY DEF ReadyIsEnabled, ShutdownReady, HeldByReceive, Stopping
  <2>4. Fairness => WF_vars(ShutdownStep)
    BY PTL DEF Fairness, FairShutdown
  <2>5. QED
    BY <2>1, <2>2, <2>3, <2>4, PTL
<1>3. Sound /\ broker[m] = "held" => HeldByReceive(m) \/ \E d \in Deliveries : HeldBy(d, m)
  BY DEF Sound, HeldIsInWork, HasTask, HeldBy, HeldByReceive
<1>4. QED
  BY <1>1, <1>2, <1>3, SoundAlways, PTL DEF Spec

\* A message that can be parsed waits, is held or was acknowledged.
Waits(m) == broker[m] = "backlog" /\ m \notin malformed
IsHeld(m) == broker[m] = "held" /\ m \notin malformed
IsAcked(m) == broker[m] = "acked"

Taken(m) == \E d \in Deliveries : message[d] = m /\ Receive(d)

LEMMA MessagesStay ==
    ASSUME Sound, [Next]_vars, NEW m \in Messages
    PROVE  /\ IsAcked(m) => IsAcked(m)'
           /\ IsHeld(m) => IsHeld(m)' \/ Waits(m)' \/ IsAcked(m)'
           /\ Waits(m) => Waits(m)' \/ IsAcked(m)' \/ (IsHeld(m)' /\ <<Taken(m)>>_vars)
<1> USE DEF Waits, IsHeld, IsAcked
<1>type. /\ message \in [Deliveries -> Messages]
         /\ broker \in [Messages -> {"absent", "backlog", "held", "acked"}]
  BY DEF Sound, TypeOK, PulsarTypeOK
<1>1. ASSUME NEW k \in Messages, Produce(k) \/ HandledElsewhere(k)
      PROVE  /\ broker[m] # "absent" => malformed' \ {m} = malformed \ {m} \/ k # m
             /\ broker[m] # "absent" => (m \in malformed' <=> m \in malformed)
             /\ broker'[m] = broker[m] \/ broker[m] = "absent" \/ broker'[m] = "acked"
  BY <1>1, <1>type DEF Produce, HandledElsewhere
<1>2. ASSUME NEW d \in Deliveries, Process(d)
      PROVE  /\ malformed' = malformed
             /\ \/ broker'[m] = broker[m]
                \/ broker[m] = "backlog" /\ broker'[m] = "held" /\ Taken(m)
                \/ broker[m] = "held" /\ broker'[m] = "backlog"
                \/ broker'[m] = "acked"
  <2>1. CASE Receive(d)
    <3>1. CASE message[d] = m
      BY <2>1, <3>1, <1>type DEF Receive, Taken
    <3>2. CASE message[d] # m
      BY <2>1, <3>2, <1>type DEF Receive
    <3>3. QED
      BY <3>1, <3>2
  <2>2. CASE Parse(d) \/ GraphEnds(d) \/ SendResult(d) \/ SendFails(d) \/ AcknowledgeFails(d)
    BY <2>2 DEF Parse, GraphEnds, SendResult, SendFails, AcknowledgeFails
  <2>3. CASE Acknowledge(d)
    BY <2>3, <1>type DEF Acknowledge, Redeliver
  <2>4. CASE Nack(d)
    BY <2>4, <1>type DEF Nack
  <2>5. QED
    BY <1>2, <2>1, <2>2, <2>3, <2>4 DEF Process
<1>3. CASE Redeliver /\ UNCHANGED <<malformed, message>>
  BY <1>3, <1>type DEF Redeliver
<1>4. broker'[m] # broker[m] => vars' # vars
  BY DEF vars, pulsarVars
<1>5. QED
  <2>1. CASE \E k \in Messages : Produce(k) \/ HandledElsewhere(k)
    BY <2>1, <1>1, <1>type
  <2>2. CASE \E d \in Deliveries : Process(d)
    BY <2>2, <1>2, <1>4
  <2>3. CASE UNCHANGED <<broker[m], malformed, message, process>>
    BY <2>3
  <2>4. QED
    BY <2>1, <2>2, <2>3, <1>3, MessageStep DEF Sound

\* Without a bound on its deliveries, a message that can be parsed is acknowledged in
\* the end, or goes back and is received again for ever: no failure, shutdown or exit
\* leaves it anywhere else (the nack of PulsarHandler._process, the redelivery of the
\* broker; there is no dead-letter topic that would end the second case).
THEOREM AnsweredOrRedelivered ==
    Spec /\ []Fairness /\ []ReadyIsEnabled
      => \A m \in Messages :
            [](broker[m] = "backlog" /\ m \notin malformed
                 => <>(broker[m] = "acked") \/ []<><<Taken(m)>>_vars)
<1> SUFFICES ASSUME NEW m \in Messages
             PROVE  Spec /\ []Fairness /\ []ReadyIsEnabled
                      => [](Waits(m) => <>IsAcked(m) \/ []<><<Taken(m)>>_vars)
  BY DEF Waits, IsAcked
<1> DEFINE Released == broker[m] = "held" ~> broker[m] # "held"
<1>1. Sound /\ [Next]_vars => /\ IsAcked(m) => IsAcked(m)'
                              /\ IsHeld(m) => IsHeld(m)' \/ Waits(m)' \/ IsAcked(m)'
                              /\ Waits(m) => Waits(m)' \/ IsAcked(m)' \/ (IsHeld(m)' /\ <<Taken(m)>>_vars)
  BY MessagesStay
<1>2. Waits(m) /\ <<Elsewhere(m)>>_vars /\ Sound => IsAcked(m)'
  BY DEF Elsewhere, HandledElsewhere, IsAcked, Sound, TypeOK, PulsarTypeOK
<1>3. ReadyIsEnabled /\ Waits(m) => ENABLED <<Elsewhere(m)>>_vars
  BY DEF ReadyIsEnabled, Waits
<1>4. Fairness => WF_vars(Elsewhere(m))
  <2>1. Fairness => FairReplicas(m)
    BY DEF Fairness
  <2>2. QED
    BY <2>1, PTL DEF FairReplicas
<1>5. Spec /\ []Fairness /\ []ReadyIsEnabled => Released
  BY HeldIsReleased
<1>6. /\ IsHeld(m) => broker[m] = "held"
      /\ IsHeld(m) /\ Waits(m) => FALSE
      /\ broker[m] # "held" => ~IsHeld(m)
  BY DEF IsHeld, Waits
<1>7. QED
  BY <1>1, <1>2, <1>3, <1>4, <1>5, <1>6, SoundAlways, PTL DEF Spec

\* Other replicas get round to a message that is in the backlog again and again, not
\* only to one that stays there.
FairAgain(m) == SF_vars(Elsewhere(m))
FairToRedelivered == \A m \in Messages : FairAgain(m)

\* A message that can be parsed is answered and acknowledged in the end, however many
\* times this process fails it and it is redelivered, if the other replicas get round to
\* it: no bound on the deliveries is needed (the nack of PulsarHandler._process, the
\* redelivery of the broker, close()).
THEOREM FairReplicasAnswer ==
    Spec /\ []Fairness /\ []ReadyIsEnabled /\ FairToRedelivered => NoMessageLost
<1> SUFFICES ASSUME NEW m \in Messages
             PROVE  Spec /\ []Fairness /\ []ReadyIsEnabled /\ FairToRedelivered
                      => (Waits(m) ~> IsAcked(m))
  BY DEF NoMessageLost, Waits, IsAcked
<1>1. Sound /\ [Next]_vars => /\ IsAcked(m) => IsAcked(m)'
                              /\ IsHeld(m) => IsHeld(m)' \/ Waits(m)' \/ IsAcked(m)'
                              /\ Waits(m) => Waits(m)' \/ IsAcked(m)' \/ (IsHeld(m)' /\ <<Taken(m)>>_vars)
  BY MessagesStay
<1>2. Sound /\ <<Elsewhere(m)>>_vars => IsAcked(m)'
  BY DEF Elsewhere, HandledElsewhere, IsAcked, Sound, TypeOK, PulsarTypeOK
<1>3. ReadyIsEnabled /\ Waits(m) => ENABLED <<Elsewhere(m)>>_vars
  BY DEF ReadyIsEnabled, Waits
<1>4. FairToRedelivered => FairAgain(m)
  BY DEF FairToRedelivered
<1>5. Spec /\ []Fairness /\ []ReadyIsEnabled => (broker[m] = "held" ~> broker[m] # "held")
  BY HeldIsReleased
<1>6. /\ IsHeld(m) => broker[m] = "held"
      /\ IsHeld(m) /\ Waits(m) => FALSE
      /\ broker[m] # "held" => ~IsHeld(m)
  BY DEF IsHeld, Waits
<1>7. QED
  BY <1>1, <1>2, <1>3, <1>4, <1>5, <1>6, SoundAlways, PTL DEF FairAgain, Spec

=============================================================================
