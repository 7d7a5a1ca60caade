------------------------- MODULE VoiceWorker_proofs -------------------------
(***************************************************************************)
(* Theorems about VoiceWorker, for any sessions, tracks, turns and bounds. *)
(***************************************************************************)
EXTENDS VoiceWorker, TLAPS

USE DEF bridgeVars, eventVars, detectorVars, trackVars, turnVars, roomVars

-----------------------------------------------------------------------------
(* Type correctness. *)

\* Everything but the bridge and the events.
WorkerTypeOK ==
    /\ phase \in {"serving", "stopping", "silenced", "closed", "exited"}
    /\ room \in {"connecting", "joined", "left"}
    /\ visit \in [Sessions -> Visits]
    /\ present \subseteq Sessions
    /\ vad \in [Sessions -> {"absent", "silent", "speaking"}]
    /\ frames \in [Sessions -> SUBSET Tracks]
    /\ silence \in [Sessions -> 0..SilenceLimit]
    /\ task \in [Tracks -> {"free", "live", "draining", "done"}]
    /\ owner \in [Tracks -> Sessions]
    /\ born \in [Tracks -> Visits]
    /\ turn \in [Tracks -> SUBSET Turns]
    /\ stage \in [Turns -> {"new", "stt", "bridge", "tts", "done"}]
    /\ outcome \in [Turns -> Failures \union {"none", "completed"}]
    /\ heard \in [Turns -> SUBSET Tracks]
    /\ late \subseteq Sessions

\* The room and the detector.
LEMMA RoomType ==
    ASSUME WorkerTypeOK,
           \/ Join \/ Leave
           \/ \E s \in Sessions : ParticipantConnected(s) \/ ParticipantDisconnected(s)
           \/ \E t \in Tracks : TrackSubscribed(t) \/ ConsumerEnds(t)
    PROVE  WorkerTypeOK'
<1> USE VisitAssumption, SilenceAssumption DEF WorkerTypeOK, Visits
<1>1. CASE Join
  <2>1. visit' \in [Sessions -> 0..MaxVisits]
    BY <1>1 DEF Join
  <2>2. QED
    BY <1>1, <2>1 DEF Join
<1>2. CASE Leave
  BY <1>2 DEF Leave
<1>3. CASE \E s \in Sessions : ParticipantConnected(s)
  BY <1>3 DEF ParticipantConnected
<1>4. CASE \E s \in Sessions : ParticipantDisconnected(s)
  BY <1>4 DEF ParticipantDisconnected
<1>5. CASE \E t \in Tracks : TrackSubscribed(t) \/ ConsumerEnds(t)
  BY <1>5 DEF TrackSubscribed, ConsumerEnds
<1>6. QED
  BY <1>1, <1>2, <1>3, <1>4, <1>5

LEMMA ChunkType ==
    ASSUME WorkerTypeOK, NEW t \in Tracks, LoudChunk(t) \/ QuietChunk(t) \/ TurnEnds(t)
    PROVE  WorkerTypeOK'
<1> USE SilenceAssumption DEF WorkerTypeOK, Listening, NoteLate
<1>1. CASE LoudChunk(t)
  BY <1>1 DEF LoudChunk
<1>2. CASE QuietChunk(t)
  BY <1>2 DEF QuietChunk
<1>3. CASE TurnEnds(t)
  BY <1>3 DEF TurnEnds
<1>4. QED
  BY <1>1, <1>2, <1>3

\* The turns and the shutdown.
LEMMA TurnType ==
    ASSUME WorkerTypeOK, NEW c \in Turns, Handle(c)
    PROVE  WorkerTypeOK'
<1> USE DEF WorkerTypeOK
<1>1. ASSUME NEW result \in Failures \union {"completed"}, Conclude(c, result)
      PROVE  /\ stage' \in [Turns -> {"new", "stt", "bridge", "tts", "done"}]
             /\ outcome' \in [Turns -> Failures \union {"none", "completed"}]
             /\ turn' \in [Tracks -> SUBSET Turns]
             /\ heard' = heard
  BY <1>1 DEF Conclude
<1>2. CASE Transcribed(c) \/ BridgeAnswered(c)
  BY <1>2 DEF Transcribed, BridgeAnswered, Ask
<1>3. CASE TranscriptionFails(c) \/ SynthesisFails(c)
  BY <1>1, <1>3 DEF TranscriptionFails, SynthesisFails, Failures
<1>4. CASE Synthesized(c)
  BY <1>1, <1>4 DEF Synthesized
<1>5. CASE BridgeFails(c)
  BY <1>1, <1>5 DEF BridgeFails, Failures, Returned, Texts
<1>6. QED
  BY <1>2, <1>3, <1>4, <1>5 DEF Handle

LEMMA ShutdownType ==
    ASSUME WorkerTypeOK,
           \/ Stop \/ Silence \/ Close \/ Exit \/ UNCHANGED vars
           \/ \E e \in pending : EventTask(e)
           \/ \E c \in Turns : Bridge(c)
    PROVE  WorkerTypeOK'
<1> USE DEF WorkerTypeOK
<1>1. CASE Stop \/ Silence \/ Close
  BY <1>1 DEF Stop, Silence, Close
<1>2. CASE Exit
  BY <1>2 DEF Exit
<1>3. CASE UNCHANGED vars \/ (\E e \in pending : EventTask(e)) \/ (\E c \in Turns : Bridge(c))
  BY <1>3 DEF EventTask, Bridge, Timer, vars
<1>4. QED
  BY <1>1, <1>2, <1>3

\* What a step does to the bridge, and to the events.
BridgeChange ==
    \/ \E c \in Turns : \/ Ask(c) /\ stage[c] = "stt"
                        \/ Reply(c) \/ Timeout(c) \/ Reason(c)
    \/ Disconnect
    \/ UNCHANGED bridgeVars

EventChange ==
    \/ \E c \in Turns, kind \in Outcomes : Publish(kind, c)
    \/ \E e \in pending : Send(e) \/ SendFails(e)
    \/ CloseProducers \/ DropEvents
    \/ UNCHANGED eventVars

LEMMA StepChanges ==
    ASSUME [Next]_vars
    PROVE  BridgeChange /\ EventChange
<1>1. CASE Join \/ Leave \/ Stop \/ UNCHANGED vars
  BY <1>1 DEF Join, Leave, Stop, vars, BridgeChange, EventChange
<1>2. CASE \E s \in Sessions : ParticipantConnected(s) \/ ParticipantDisconnected(s)
  BY <1>2 DEF ParticipantConnected, ParticipantDisconnected, BridgeChange, EventChange
<1>3. CASE \E t \in Tracks : TrackSubscribed(t) \/ ConsumerEnds(t) \/ LoudChunk(t) \/ QuietChunk(t) \/ TurnEnds(t)
  BY <1>3 DEF TrackSubscribed, ConsumerEnds, LoudChunk, QuietChunk, TurnEnds, BridgeChange, EventChange
<1>4. CASE \E c \in Turns : Handle(c)
  <2>1. PICK c \in Turns : Handle(c)
    BY <1>4
  <2>2. CASE Transcribed(c) \/ BridgeAnswered(c)
    BY <2>2 DEF Transcribed, BridgeAnswered, BridgeChange, EventChange
  <2>3. CASE TranscriptionFails(c) \/ BridgeFails(c) \/ Synthesized(c) \/ SynthesisFails(c)
    <3>1. /\ UNCHANGED bridgeVars
          /\ \E kind \in Outcomes : Publish(kind, c)
      BY <2>3 DEF TranscriptionFails, BridgeFails, Synthesized, SynthesisFails, Conclude, Outcomes
    <3>2. QED
      BY <3>1 DEF BridgeChange, EventChange
  <2>4. QED
    BY <2>1, <2>2, <2>3 DEF Handle
<1>5. CASE \E c \in Turns : Bridge(c)
  BY <1>5 DEF Bridge, Timer, BridgeChange, EventChange
<1>6. CASE \E e \in pending : EventTask(e)
  BY <1>6 DEF EventTask, BridgeChange, EventChange
<1>7. CASE Silence \/ Close \/ Exit
  BY <1>7 DEF Silence, Close, Exit, BridgeChange, EventChange
<1>8. QED
  BY <1>1, <1>2, <1>3, <1>4, <1>5, <1>6, <1>7 DEF Next

LEMMA BridgeType ==
    ASSUME BridgeTypeOK, BridgeChange
    PROVE  BridgeTypeOK'
<1> USE DEF BridgeTypeOK, Reasoner!ContractTypeOK, Returned
<1>1. CASE \E c \in Turns : Ask(c)
  BY <1>1 DEF Ask
<1>2. CASE \E c \in Turns : Reply(c)
  BY <1>2 DEF Reply, Read
<1>3. CASE \E c \in Turns : Timeout(c)
  BY <1>3 DEF Timeout
<1>4. CASE \E c \in Turns : Reason(c)
  BY <1>4 DEF Reason, Reasoner!Decide, Reasoner!Answer
<1>5. CASE Disconnect
  BY <1>5 DEF Disconnect
<1>6. CASE UNCHANGED bridgeVars
  BY <1>6
<1>7. QED
  BY <1>1, <1>2, <1>3, <1>4, <1>5, <1>6 DEF BridgeChange

LEMMA EventsType ==
    ASSUME EventsTypeOK(Turns), EventChange
    PROVE  EventsTypeOK(Turns)'
<1> USE DEF EventsTypeOK, Events
<1>1. CASE \E c \in Turns, kind \in Outcomes : Publish(kind, c)
  BY <1>1 DEF Publish
<1>2. CASE \E e \in pending : Send(e)
  BY <1>2 DEF Send
<1>3. CASE \E e \in pending : SendFails(e)
  BY <1>3 DEF SendFails
<1>4. CASE CloseProducers \/ DropEvents \/ UNCHANGED eventVars
  BY <1>4 DEF CloseProducers, DropEvents
<1>5. QED
  BY <1>1, <1>2, <1>3, <1>4 DEF EventChange

\* Type correctness, for every value of the constants: among others the silence
\* counter never passes its limit (_process_audio_chunk).
THEOREM TypeCorrect == Spec => []TypeOK
<1>1. TypeOK <=> WorkerTypeOK /\ BridgeTypeOK /\ EventsTypeOK(Turns)
  BY DEF TypeOK, WorkerTypeOK
<1>2. Init => TypeOK
  BY SilenceAssumption, VisitAssumption DEF Init, BridgeInit, EventsInit, TypeOK, BridgeTypeOK,
     EventsTypeOK, Events, Reasoner!Init, Reasoner!ContractTypeOK, Visits, Returned
<1>3. TypeOK /\ [Next]_vars => TypeOK'
  <2> SUFFICES ASSUME TypeOK, [Next]_vars
               PROVE  WorkerTypeOK' /\ BridgeTypeOK' /\ EventsTypeOK(Turns)'
    BY DEF TypeOK, WorkerTypeOK
  <2>1. WorkerTypeOK'
    BY <1>1, RoomType, ChunkType, TurnType, ShutdownType DEF Next
  <2>2. BridgeTypeOK' /\ EventsTypeOK(Turns)'
    BY <1>1, StepChanges, BridgeType, EventsType
  <2>3. QED
    BY <2>1, <2>2
<1>4. QED
  BY <1>2, <1>3, PTL DEF Spec

-----------------------------------------------------------------------------
(* Outcomes are true. *)

\* The reasoner answers only what reached it, and a text is read off an answer
\* that is no error.
Honest(c) ==
    /\ answer[c] # "none" => c \in delivered
    /\ call[c] \in Texts => c \in delivered /\ answer[c] \in {"completed", "rejected"}

\* What a turn has asked, and what it was told, at each of its stages.
Staged(c) ==
    /\ stage[c] \in {"new", "stt"} => call[c] = "idle"
    /\ stage[c] = "tts" => call[c] \in Texts
    /\ outcome[c] # "none" => stage[c] = "done"
    /\ outcome[c] = "completed" => call[c] \in Texts
    /\ outcome[c] \in {"bridge_timeout", "bridge_error"} => call[c] = outcome[c]

\* The events of a turn say what it became.
Told(c) ==
    /\ <<"turn.completed", c>> \in pending \union published => outcome[c] = "completed"
    /\ <<"turn.failed", c>> \in pending \union published => outcome[c] \in Failures

Truthful == \A c \in Turns : Honest(c) /\ Staged(c) /\ Told(c)

\* A request is asked once, and what it ended with stays.
LEMMA HonestStep ==
    ASSUME BridgeTypeOK, \A c \in Turns : Honest(c), BridgeChange,
           \A c \in Turns : stage[c] = "stt" => call[c] = "idle"
    PROVE  /\ \A c \in Turns : Honest(c)'
           /\ \A c \in Turns : call[c] \in Returned => call'[c] = call[c]
<1> DEFINE Goal == /\ \A c \in Turns : Honest(c)'
                   /\ \A c \in Turns : call[c] \in Returned => call'[c] = call[c]
<1> USE DEF BridgeTypeOK, Reasoner!ContractTypeOK, Returned, Texts, Honest
<1>1. ASSUME NEW c \in Turns, Ask(c), stage[c] = "stt"
      PROVE  Goal
  BY <1>1 DEF Ask
<1>2. ASSUME NEW c \in Turns, Reply(c)
      PROVE  Goal
  <2>1. /\ call[c] = "waiting" /\ answer[c] # "none"
        /\ call' = [call EXCEPT ![c] = Read(PayloadKeys[answer[c]])]
        /\ UNCHANGED <<delivered, answer>>
    BY <1>2 DEF Reply
  <2>2. Read(PayloadKeys["failed"]) = "bridge_error"
    BY DEF Read, PayloadKeys
  <2>3. answer[c] \in {"completed", "rejected", "failed"}
    BY <2>1 DEF Reasoner!Answered
  <2>4. QED
    BY <2>1, <2>2, <2>3
<1>3. CASE \E c \in Turns : Timeout(c)
  BY <1>3 DEF Timeout
<1>4. ASSUME NEW c \in Turns, Reason(c)
      PROVE  Goal
  <2>1. c \in delivered /\ UNCHANGED <<call, delivered>>
    BY <1>4 DEF Reason
  <2>2. \A q \in Turns : answer'[q] = answer[q] \/ (q = c /\ answer[c] = "none")
    BY <1>4 DEF Reason, Reasoner!Decide, Reasoner!Answer
  <2>3. QED
    BY <2>1, <2>2
<1>5. CASE Disconnect \/ UNCHANGED bridgeVars
  BY <1>5 DEF Disconnect
<1>6. QED
  BY <1>1, <1>2, <1>3, <1>4, <1>5 DEF BridgeChange

\* A turn that ends gets its outcome, and the event that says so.
LEMMA ConcludeTrue ==
    ASSUME TypeOK, NEW c \in Turns, NEW result \in Failures \union {"completed"},
           Conclude(c, result), stage[c] # "done", UNCHANGED bridgeVars, Truthful,
           result = "completed" => call[c] \in Texts,
           result \in {"bridge_timeout", "bridge_error"} => call[c] = result
    PROVE  \A q \in Turns : Staged(q)' /\ Told(q)'
<1>1. /\ stage' = [stage EXCEPT ![c] = "done"]
      /\ outcome' = [outcome EXCEPT ![c] = result]
      /\ pending' = pending \union {<<IF result = "completed" THEN "turn.completed" ELSE "turn.failed", c>>}
      /\ published' = published
  BY DEF Conclude, Publish
<1>2. outcome[c] = "none"
  BY DEF Truthful, Staged
<1>3. \A q \in Turns : Staged(q)'
  BY <1>1 DEF Truthful, Staged, TypeOK
<1>4. ASSUME NEW q \in Turns \ {c}
      PROVE  Told(q)'
  BY <1>1 DEF Truthful, Told, TypeOK
<1>5. Told(c)'
  BY <1>1, <1>2 DEF Truthful, Told, TypeOK, Failures
<1>6. QED
  BY <1>3, <1>4, <1>5

\* A turn goes on.
LEMMA HandleTrue ==
    ASSUME TypeOK, Truthful, NEW c \in Turns, Handle(c)
    PROVE  \A q \in Turns : Staged(q)' /\ Told(q)'
<1>1. CASE Transcribed(c)
  <2>1. /\ stage[c] = "stt" /\ stage' = [stage EXCEPT ![c] = "bridge"]
        /\ UNCHANGED <<outcome, pending, published>>
    BY <1>1 DEF Transcribed
  <2>2. \A q \in Turns \ {c} : call'[q] = call[q]
    BY <1>1 DEF Transcribed, Ask, TypeOK, BridgeTypeOK
  <2>3. Staged(c)'
    BY <2>1 DEF Truthful, Staged, TypeOK, Failures
  <2>4. \A q \in Turns \ {c} : Staged(q)'
    BY <2>1, <2>2 DEF Truthful, Staged, TypeOK
  <2>5. \A q \in Turns : Told(q)'
    BY <2>1 DEF Truthful, Told
  <2>6. QED
    BY <2>3, <2>4, <2>5
<1>2. CASE BridgeAnswered(c)
  BY <1>2 DEF BridgeAnswered, Truthful, Staged, Told, TypeOK
<1>3. CASE TranscriptionFails(c) \/ SynthesisFails(c)
  BY <1>3, ConcludeTrue DEF TranscriptionFails, SynthesisFails, Failures
<1>4. CASE BridgeFails(c)
  BY <1>4, ConcludeTrue DEF BridgeFails, Failures, Returned, Texts
<1>5. CASE Synthesized(c)
  BY <1>5, ConcludeTrue DEF Synthesized, Truthful, Staged
<1>6. QED
  BY <1>1, <1>2, <1>3, <1>4, <1>5 DEF Handle

LEMMA TrueStep ==
    ASSUME TypeOK, Truthful, [Next]_vars
    PROVE  Truthful'
<1>1. /\ \A c \in Turns : Honest(c)'
      /\ \A c \in Turns : call[c] \in Returned => call'[c] = call[c]
  BY StepChanges, HonestStep DEF TypeOK, Truthful, Staged
<1>2. \A q \in Turns : Staged(q)' /\ Told(q)'
  <2>1. CASE \E c \in Turns : Handle(c)
    BY <2>1, HandleTrue
  <2>2. CASE ~\E c \in Turns : Handle(c)
    <3>1. /\ outcome' = outcome
          /\ \A q \in Turns : stage'[q] = stage[q] \/ stage'[q] = "done"
                                \/ (stage[q] = "new" /\ stage'[q] = "stt")
      BY <2>2 DEF Next, Join, Leave, ParticipantConnected, ParticipantDisconnected, TrackSubscribed,
         ConsumerEnds, LoudChunk, QuietChunk, TurnEnds, Bridge, Timer, EventTask, Stop, Silence, Close, Exit,
         vars, TypeOK
    <3>2. pending' \union published' \subseteq pending \union published
      <4>1. UNCHANGED eventVars \/ (\E e \in pending : Send(e) \/ SendFails(e)) \/ CloseProducers \/ DropEvents
        BY <2>2 DEF Next, Join, Leave, ParticipantConnected, ParticipantDisconnected, TrackSubscribed,
           ConsumerEnds, LoudChunk, QuietChunk, TurnEnds, Bridge, Timer, EventTask, Stop, Silence, Close, Exit, vars
      <4>2. QED
        BY <4>1 DEF Send, SendFails, CloseProducers, DropEvents
    <3>3. \A q \in Turns : call[q] = "idle" => call'[q] = "idle"
      <4>1. UNCHANGED call \/ \E c \in Turns : Reply(c) \/ Timeout(c)
        BY <2>2 DEF Next, Join, Leave, ParticipantConnected, ParticipantDisconnected, TrackSubscribed,
           ConsumerEnds, LoudChunk, QuietChunk, TurnEnds, Bridge, Timer, Reason, EventTask, Stop, Silence,
           Close, Disconnect, Exit, vars
      <4>2. QED
        BY <4>1 DEF Reply, Timeout, TypeOK, BridgeTypeOK
    <3>4. QED
      BY <1>1, <3>1, <3>2, <3>3 DEF Truthful, Staged, Told, Returned, Texts
  <2>3. QED
    BY <2>1, <2>2
<1>3. QED
  BY <1>1, <1>2 DEF Truthful

LEMMA TrueInit == Init => Truthful
<1> SUFFICES ASSUME Init, NEW c \in Turns
             PROVE  Honest(c) /\ Staged(c) /\ Told(c)
  BY DEF Truthful
<1>1. /\ call[c] = "idle" /\ answer[c] = "none" /\ stage[c] = "new" /\ outcome[c] = "none"
      /\ pending = {} /\ published = {}
  BY DEF Init, BridgeInit, EventsInit, Reasoner!Init
<1>2. QED
  BY <1>1 DEF Honest, Staged, Told, Texts

\* A turn is announced at most once and as what it became, completed only if the
\* reasoner answered it in time, as the bridge's failure only if it did not
\* (_handle_turn, and the reply that comes after the timeout of the bridge).
THEOREM OutcomesAreReported == Spec => []OutcomesAreTrue
<1>1. Init => Truthful
  BY TrueInit
<1>2. TypeOK /\ Truthful /\ [Next]_vars => Truthful'
  BY TrueStep
<1>3. Truthful => OutcomesAreTrue
  BY DEF Truthful, Honest, Staged, Told, OutcomesAreTrue
<1>4. QED
  BY <1>1, <1>2, <1>3, TypeCorrect, PTL DEF Spec

-----------------------------------------------------------------------------
(* The reasoner the bridge relies on. *)

\* The reasoner in this model does nothing but what ReasonerContract allows, the
\* contract NatsHandler and the v1 chat are proved to honour: what is proved here of
\* turns (NATSBridge.reason) holds with either handler behind the bridge.
THEOREM ReasonerIsItsContract == Spec => Reasoner!Spec
<1>1. Init => Reasoner!Init
  BY DEF Init, BridgeInit
<1>2. [Next]_vars => [Reasoner!Next]_<<verdict, answer>>
  <2> SUFFICES ASSUME [Next]_vars
               PROVE  Reasoner!Next \/ UNCHANGED <<verdict, answer>>
    OBVIOUS
  <2>1. CASE \E c \in Turns : Reason(c)
    BY <2>1 DEF Reason, Reasoner!Next
  <2>2. CASE ~\E c \in Turns : Reason(c)
    BY <2>2, StepChanges DEF BridgeChange, Ask, Reply, Timeout, Disconnect
  <2>3. QED
    BY <2>1, <2>2
<1>3. QED
  BY <1>1, <1>2, PTL DEF Spec, Reasoner!Spec, Reasoner!contractVars

-----------------------------------------------------------------------------
(* Outcomes are not lost. *)

\* While the service runs, what Pulsar did not refuse is sent or to be sent.
EventOf(c) == \E kind \in Outcomes : <<kind, c>> \in pending \union published
Kept ==
    phase \in {"serving", "stopping"} /\ ~refused =>
        producers /\ \A c \in Turns : outcome[c] # "none" => EventOf(c)

LEMMA KeptStep ==
    ASSUME TypeOK, Kept, [Next]_vars
    PROVE  Kept'
<1> USE DEF Kept, EventOf, TypeOK
<1>1. CASE Stop \/ UNCHANGED vars
  BY <1>1 DEF Stop, vars
<1>2. CASE Silence \/ Close \/ Exit
  <2>1. phase' \notin {"serving", "stopping"}
    BY <1>2 DEF Silence, Close, Exit
  <2>2. QED
    BY <2>1
<1>3. ASSUME NEW e \in pending, Send(e) \/ SendFails(e), UNCHANGED <<phase, outcome>>
      PROVE  Kept'
  BY <1>3 DEF Send, SendFails
<1>4. CASE \E e \in pending : EventTask(e)
  BY <1>3, <1>4 DEF EventTask
<1>5. ASSUME NEW c \in Turns, NEW result \in Failures \union {"completed"},
             Conclude(c, result), phase' = phase
      PROVE  Kept'
  <2>1. /\ outcome' = [outcome EXCEPT ![c] = result]
        /\ \E kind \in Outcomes : pending' = pending \union {<<kind, c>>}
        /\ UNCHANGED <<producers, published, refused>>
    BY <1>5 DEF Conclude, Publish, Outcomes
  <2>2. QED
    BY <1>5, <2>1
<1>6. ASSUME NEW c \in Turns, Handle(c)
      PROVE  Kept'
  <2>1. CASE Transcribed(c) \/ BridgeAnswered(c)
    BY <2>1 DEF Transcribed, BridgeAnswered
  <2>2. CASE TranscriptionFails(c) \/ SynthesisFails(c)
    BY <1>5, <2>2 DEF TranscriptionFails, SynthesisFails, Failures
  <2>3. CASE BridgeFails(c)
    BY <1>5, <2>3 DEF BridgeFails, Failures, Returned, Texts
  <2>4. CASE Synthesized(c)
    BY <1>5, <2>4 DEF Synthesized
  <2>5. QED
    BY <1>6, <2>1, <2>2, <2>3, <2>4 DEF Handle
<1>7. CASE Join \/ Leave \/ (\E s \in Sessions : ParticipantConnected(s) \/ ParticipantDisconnected(s))
             \/ (\E c \in Turns : Bridge(c))
  BY <1>7 DEF Join, Leave, ParticipantConnected, ParticipantDisconnected, Bridge, Timer
<1>8. CASE \E t \in Tracks : TrackSubscribed(t) \/ ConsumerEnds(t) \/ LoudChunk(t) \/ QuietChunk(t) \/ TurnEnds(t)
  <2>1. UNCHANGED <<eventVars, phase, outcome>>
    BY <1>8 DEF TrackSubscribed, ConsumerEnds, LoudChunk, QuietChunk, TurnEnds
  <2>2. QED
    BY <2>1
<1>9. QED
  BY <1>1, <1>2, <1>4, <1>6, <1>7, <1>8 DEF Next

\* As long as the service has its producers and Pulsar refuses nothing, every outcome
\* is there or on its way (VoiceEventPublisher, lifespan of main.py).
THEOREM OutcomesAreKept == Spec => []LostOnlyByShutdown
<1>1. Init => Kept
  BY DEF Init, EventsInit, Kept
<1>2. TypeOK /\ Kept /\ [Next]_vars => Kept'
  BY KeptStep
<1>3. Kept => LostOnlyByShutdown
  BY DEF Kept, EventOf, LostOnlyByShutdown
<1>4. QED
  BY <1>1, <1>2, <1>3, TypeCorrect, PTL DEF Spec

-----------------------------------------------------------------------------
(* What a visit leaves behind. *)

\* The room is empty until it is joined.
EmptyBefore ==
    room = "connecting" =>
        /\ \A s \in Sessions : vad[s] = "absent" /\ frames[s] = {}
        /\ \A t \in Tracks : task[t] = "free"

\* Audio is of tracks that have been subscribed, and of the session it is kept for.
AudioIsOwn ==
    /\ \A s \in Sessions : \A t \in frames[s] : owner[t] = s /\ task[t] # "free"
    /\ \A c \in Turns : \A t \in heard[c] : task[t] # "free"

Leftovers == EmptyBefore /\ AudioIsOwn /\ LeftoversAreLate

LEMMA LeftoversStep ==
    ASSUME TypeOK, Leftovers, [Next]_vars
    PROVE  Leftovers'
<1> USE DEF TypeOK, Leftovers, EmptyBefore, AudioIsOwn, LeftoversAreLate
<1>1. CASE Join
  BY <1>1 DEF Join
<1>2. CASE Leave \/ Stop \/ UNCHANGED vars
  BY <1>2 DEF Leave, Stop, vars
<1>3. ASSUME NEW s \in Sessions, ParticipantConnected(s)
      PROVE  Leftovers'
  BY <1>3 DEF ParticipantConnected
<1>4. ASSUME NEW s \in Sessions, ParticipantDisconnected(s)
      PROVE  Leftovers'
  BY <1>4 DEF ParticipantDisconnected
<1>5. ASSUME NEW t \in Tracks, TrackSubscribed(t)
      PROVE  Leftovers'
  BY <1>5 DEF TrackSubscribed
<1>6. ASSUME NEW t \in Tracks, ConsumerEnds(t)
      PROVE  Leftovers'
  BY <1>6 DEF ConsumerEnds
<1>7. ASSUME NEW t \in Tracks, LoudChunk(t)
      PROVE  Leftovers'
  BY <1>7 DEF LoudChunk, Listening, NoteLate
<1>8. ASSUME NEW t \in Tracks, QuietChunk(t)
      PROVE  Leftovers'
  BY <1>8 DEF QuietChunk, Listening, NoteLate
<1>9. ASSUME NEW t \in Tracks, TurnEnds(t)
      PROVE  Leftovers'
  BY <1>9 DEF TurnEnds, Listening, NoteLate
<1>10. CASE \E c \in Turns : Handle(c)
  <2>1. UNCHANGED <<room, roomVars, detectorVars, trackVars, heard, late>>
    BY <1>10 DEF Handle, Transcribed, TranscriptionFails, BridgeAnswered, BridgeFails, Synthesized,
       SynthesisFails, Conclude
  <2>2. QED
    BY <2>1
<1>11. CASE (\E c \in Turns : Bridge(c)) \/ (\E e \in pending : EventTask(e)) \/ Silence \/ Close
  BY <1>11 DEF Bridge, Timer, EventTask, Silence, Close
<1>12. CASE Exit
  BY <1>12 DEF Exit
<1>13. QED
  BY <1>1, <1>2, <1>3, <1>4, <1>5, <1>6, <1>7, <1>8, <1>9, <1>10, <1>11, <1>12 DEF Next

\* A detector without its participant, and speech of another visit in a detector or
\* in a turn, come from a consumer task that outlived its visit, and from nothing
\* else (_on_participant_disconnected, _process_audio_chunk).
THEOREM LeftoversAreOfLateTasks == Spec => []LeftoversAreLate
<1>1. Init => Leftovers
  BY DEF Init, Leftovers, EmptyBefore, AudioIsOwn, LeftoversAreLate
<1>2. TypeOK /\ Leftovers /\ [Next]_vars => Leftovers'
  BY LeftoversStep
<1>3. Leftovers => LeftoversAreLate
  BY DEF Leftovers
<1>4. QED
  BY <1>1, <1>2, <1>3, TypeCorrect, PTL DEF Spec

-----------------------------------------------------------------------------
(* Turns are announced. *)

Announced(c) == (\E kind \in Outcomes : <<kind, c>> \in published) \/ refused \/ Stopped
ToBeSent(c) == \E kind \in Outcomes : <<kind, c>> \in pending

\* What a step does to a turn in work.
TurnGoesOn(c) ==
    \/ stage'[c] = stage[c] /\ call'[c] = call[c]
    \/ stage[c] = "stt" /\ stage'[c] = "bridge" /\ call'[c] \in Returned \union {"waiting"}
    \/ stage[c] = "bridge" /\ stage'[c] = "bridge" /\ call[c] = "waiting" /\ call'[c] \in Returned
    \/ stage[c] = "bridge" /\ stage'[c] = "tts" /\ call[c] \in Texts
    \/ stage[c] \in {"stt", "bridge", "tts"} /\ stage'[c] = "done" /\ ToBeSent(c)'
    \/ Stopped'

LEMMA ConcludeGoesOn ==
    ASSUME TypeOK, NEW c \in Turns, NEW result, Conclude(c, result),
           stage[c] \in {"stt", "bridge", "tts"}, UNCHANGED bridgeVars
    PROVE  /\ stage'[c] = "done" /\ ToBeSent(c)'
           /\ \A q \in Turns \ {c} : stage'[q] = stage[q] /\ call'[q] = call[q]
BY DEF Conclude, Publish, ToBeSent, Outcomes, TypeOK

LEMMA HandleGoesOn ==
    ASSUME TypeOK, NEW c \in Turns, Handle(c)
    PROVE  /\ stage'[c] # stage[c]
           /\ \A q \in Turns : TurnGoesOn(q)
<1>1. CASE Transcribed(c)
  BY <1>1 DEF Transcribed, Ask, TurnGoesOn, TypeOK, BridgeTypeOK, Returned
<1>2. CASE BridgeAnswered(c)
  BY <1>2 DEF BridgeAnswered, TurnGoesOn, TypeOK
<1>3. CASE TranscriptionFails(c) \/ BridgeFails(c) \/ Synthesized(c) \/ SynthesisFails(c)
  <2>1. /\ \E result : Conclude(c, result)
        /\ stage[c] \in {"stt", "bridge", "tts"}
        /\ UNCHANGED bridgeVars
    BY <1>3 DEF TranscriptionFails, BridgeFails, Synthesized, SynthesisFails
  <2>2. QED
    BY <2>1, ConcludeGoesOn DEF TurnGoesOn
<1>4. QED
  BY <1>1, <1>2, <1>3 DEF Handle

LEMMA TurnStep ==
    ASSUME TypeOK, Truthful, [Next]_vars,
           NEW c \in Turns, stage[c] \in {"stt", "bridge", "tts"}
    PROVE  TurnGoesOn(c)
<1> USE DEF TurnGoesOn
<1>1. CASE \E q \in Turns : Handle(q)
  BY <1>1, HandleGoesOn
<1>2. CASE \E q \in Turns : Bridge(q)
  <2>1. PICK q \in Turns : Bridge(q)
    BY <1>2
  <2>2. UNCHANGED stage
    BY <2>1 DEF Bridge, Timer
  <2>3. UNCHANGED call \/ Reply(q) \/ Timeout(q)
    BY <2>1 DEF Bridge, Timer, Reason
  <2>7. call[c] = "waiting" => stage[c] = "bridge"
    BY DEF Truthful, Staged, Texts
  <2>4. CASE Reply(q)
    BY <2>2, <2>4, <2>7 DEF Reply, Read, Returned, TypeOK, BridgeTypeOK
  <2>5. CASE Timeout(q)
    BY <2>2, <2>5, <2>7 DEF Timeout, Returned, TypeOK, BridgeTypeOK
  <2>6. QED
    BY <2>2, <2>3, <2>4, <2>5
<1>3. CASE \E t \in Tracks : TurnEnds(t)
  BY <1>3 DEF TurnEnds, TypeOK
<1>4. CASE Exit \/ Silence \/ Close
  BY <1>4 DEF Exit, Silence, Close, Stopped
<1>5. CASE \/ UNCHANGED vars \/ Join \/ Leave \/ Stop
           \/ \E s \in Sessions : ParticipantConnected(s) \/ ParticipantDisconnected(s)
           \/ \E t \in Tracks : TrackSubscribed(t) \/ ConsumerEnds(t) \/ LoudChunk(t) \/ QuietChunk(t)
           \/ \E e \in pending : EventTask(e)
  <2>1. UNCHANGED <<stage, call>>
    BY <1>5 DEF vars, Join, Leave, Stop, ParticipantConnected, ParticipantDisconnected, TrackSubscribed,
       ConsumerEnds, LoudChunk, QuietChunk, EventTask
  <2>2. QED
    BY <2>1
<1>6. QED
  BY <1>1, <1>2, <1>3, <1>4, <1>5 DEF Next

\* An event waits until it is announced.
LEMMA EventStep ==
    ASSUME TypeOK, Kept, NEW c \in Turns, NEW kind \in Outcomes, <<kind, c>> \in pending, [Next]_vars
    PROVE  <<kind, c>> \in pending' \/ Announced(c)'
<1>1. CASE \E e \in pending : EventTask(e)
  BY <1>1 DEF EventTask, Send, SendFails, Announced, Kept, Stopped, TypeOK
<1>2. CASE Exit
  BY <1>2 DEF Exit, Announced, Stopped
<1>3. CASE ~Exit /\ ~\E e \in pending : EventTask(e)
  <2>1. (\E q \in Turns, k \in Outcomes : Publish(k, q)) \/ CloseProducers \/ UNCHANGED eventVars
    <3>1. CASE \E q \in Turns : Handle(q)
      BY <3>1 DEF Handle, Transcribed, BridgeAnswered, TranscriptionFails, BridgeFails, Synthesized,
         SynthesisFails, Conclude, Outcomes
    <3>2. CASE ~\E q \in Turns : Handle(q)
      BY <1>3, <3>2 DEF Next, Join, Leave, ParticipantConnected, ParticipantDisconnected, TrackSubscribed,
         ConsumerEnds, LoudChunk, QuietChunk, TurnEnds, Bridge, Timer, Stop, Silence, Close, vars
    <3>3. QED
      BY <3>1, <3>2
  <2>2. QED
    BY <2>1 DEF Publish, CloseProducers
<1>4. QED
  BY <1>1, <1>2, <1>3

\* The stages of a turn on its way to being announced.
Starts(c) == stage[c] = "stt"
Waits(c) == stage[c] = "bridge" /\ call[c] = "waiting"
IsTold(c) == stage[c] = "bridge" /\ call[c] \in Returned
Speaks(c) == stage[c] = "tts"
Sends(e) == e \in pending
SendingEnds(e, c) == Sends(e) ~> Announced(c)

Sound == TypeOK /\ Truthful /\ Kept

LEMMA SoundAlways == Spec => []Sound
<1>1. Init => Truthful /\ Kept
  BY TrueInit DEF Init, EventsInit, Kept
<1>2. TypeOK /\ Truthful /\ Kept /\ [Next]_vars => Truthful' /\ Kept'
  BY TrueStep, KeptStep
<1>3. QED
  BY <1>1, <1>2, TypeCorrect, PTL DEF Spec, Sound

\* An event is sent or refused, if its task is fair and not stuck.
LEMMA EventIsSent ==
    ASSUME NEW c \in Turns, NEW e \in Outcomes \X {c}
    PROVE  []Sound /\ [][Next]_vars /\ []TurnsCanGoOn /\ FairEvent(e) => SendingEnds(e, c)
<1> USE DEF Sound, Sends
<1>1. Sound /\ Sends(e) /\ [Next]_vars => Sends(e)' \/ Announced(c)'
  BY EventStep
<1>2. Sound /\ Sends(e) /\ <<EventTask(e)>>_vars => ~Sends(e)'
  BY DEF EventTask, Send, SendFails
<1>3. TurnsCanGoOn /\ Sends(e) => ENABLED <<EventTask(e)>>_vars
  BY DEF TurnsCanGoOn
<1>4. FairEvent(e) => WF_vars(EventTask(e))
  BY PTL DEF FairEvent
<1>5. QED
  BY <1>1, <1>2, <1>3, <1>4, PTL DEF SendingEnds

\* One turn is announced, if its own steps are fair and it is not stuck.
LEMMA TurnIsAnnounced ==
    ASSUME NEW c \in Turns, NEW e1, NEW e2,
           e1 = <<"turn.completed", c>>, e2 = <<"turn.failed", c>>
    PROVE  /\ []Sound /\ [][Next]_vars /\ []TurnsCanGoOn
           /\ FairTurn(c) /\ FairEvent(e1) /\ FairEvent(e2)
           => (Starts(c) ~> Announced(c))
<1> DEFINE Out == Sends(e1) \/ Sends(e2)
<1>10. /\ []Sound /\ [][Next]_vars /\ []TurnsCanGoOn /\ FairEvent(e1) => SendingEnds(e1, c)
       /\ []Sound /\ [][Next]_vars /\ []TurnsCanGoOn /\ FairEvent(e2) => SendingEnds(e2, c)
  <2>1. e1 \in Outcomes \X {c} /\ e2 \in Outcomes \X {c}
    BY DEF Outcomes
  <2>2. []Sound /\ [][Next]_vars /\ []TurnsCanGoOn /\ FairEvent(e1) => SendingEnds(e1, c)
    BY <2>1, EventIsSent
  <2>3. []Sound /\ [][Next]_vars /\ []TurnsCanGoOn /\ FairEvent(e2) => SendingEnds(e2, c)
    BY <2>1, EventIsSent
  <2>4. QED
    BY <2>2, <2>3
<1> USE DEF Sound
<1>a. ToBeSent(c)' => Out'
  BY DEF ToBeSent, Outcomes, Sends
<1>b. Stopped' => Announced(c)'
  BY DEF Announced
<1>1. Sound /\ Starts(c) /\ [Next]_vars
        => Starts(c)' \/ Waits(c)' \/ IsTold(c)' \/ Out' \/ Announced(c)'
  BY <1>a, <1>b, TurnStep DEF Starts, Waits, IsTold, TurnGoesOn
<1>2. Sound /\ Waits(c) /\ [Next]_vars => Waits(c)' \/ IsTold(c)' \/ Out' \/ Announced(c)'
  BY <1>a, <1>b, TurnStep DEF Waits, IsTold, TurnGoesOn, Returned, Texts
<1>3. Sound /\ IsTold(c) /\ [Next]_vars => IsTold(c)' \/ Speaks(c)' \/ Out' \/ Announced(c)'
  BY <1>a, <1>b, TurnStep DEF IsTold, Speaks, TurnGoesOn, Returned
<1>4. Sound /\ Speaks(c) /\ [Next]_vars => Speaks(c)' \/ Out' \/ Announced(c)'
  BY <1>a, <1>b, TurnStep DEF Speaks, TurnGoesOn
<1>5. Sound /\ (Starts(c) \/ IsTold(c) \/ Speaks(c)) /\ <<Handle(c)>>_vars => stage'[c] # stage[c]
  BY HandleGoesOn
<1>6. /\ Sound /\ Starts(c) /\ <<Handle(c)>>_vars => ~Starts(c)'
      /\ Sound /\ IsTold(c) /\ <<Handle(c)>>_vars => ~IsTold(c)'
      /\ Sound /\ Speaks(c) /\ <<Handle(c)>>_vars => ~Speaks(c)'
  BY <1>5 DEF Starts, IsTold, Speaks
<1>7. Sound /\ Waits(c) /\ <<Timer(c)>>_vars => ~Waits(c)'
  BY DEF Waits, Timer, Timeout, TypeOK, BridgeTypeOK
<1>8. /\ TurnsCanGoOn /\ (Starts(c) \/ IsTold(c) \/ Speaks(c)) => ENABLED <<Handle(c)>>_vars
      /\ TurnsCanGoOn /\ Waits(c) => ENABLED <<Timer(c)>>_vars
  BY DEF TurnsCanGoOn, Starts, Waits, IsTold, Speaks
<1>9. FairTurn(c) => WF_vars(Handle(c)) /\ WF_vars(Timer(c))
  BY PTL DEF FairTurn
<1>12. QED
  BY <1>1, <1>2, <1>3, <1>4, <1>6, <1>7, <1>8, <1>9, <1>10, PTL DEF SendingEnds

\* Every turn that starts is announced, whatever the reasoner does, unless Pulsar
\* refuses or the service is told to stop (_handle_turn, VoiceEventPublisher).
THEOREM EveryTurnIsAnnounced == FairSpec /\ []TurnsCanGoOn => TurnsAreAnnounced
<1> SUFFICES ASSUME NEW c \in Turns
             PROVE  FairSpec /\ []TurnsCanGoOn => (Starts(c) ~> Announced(c))
  BY DEF TurnsAreAnnounced, Starts, Announced
<1>1. PICK e1 \in Events(Turns) : e1 = <<"turn.completed", c>>
  BY DEF Events, Outcomes
<1>2. PICK e2 \in Events(Turns) : e2 = <<"turn.failed", c>>
  BY DEF Events, Outcomes
<1>3. Fairness => FairTurn(c) /\ FairEvent(e1) /\ FairEvent(e2)
  BY DEF Fairness
<1>4. Spec => []Sound /\ [][Next]_vars
  BY SoundAlways, PTL DEF Spec
<1>5. /\ []Sound /\ [][Next]_vars /\ []TurnsCanGoOn
      /\ FairTurn(c) /\ FairEvent(e1) /\ FairEvent(e2)
      => (Starts(c) ~> Announced(c))
  BY <1>1, <1>2, TurnIsAnnounced
<1>6. QED
  BY <1>3, <1>4, <1>5, PTL DEF FairSpec

=============================================================================
