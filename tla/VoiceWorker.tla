---------------------------- MODULE VoiceWorker ----------------------------
(***************************************************************************)
(* The LiveKit worker of the voice service and the shutdown around it:     *)
(* VoiceAgentWorker in livekit_worker.py and lifespan in main.py.          *)
(*                                                                         *)
(* One task per audio track feeds chunks to a voice-activity detector      *)
(* whose state belongs to the session, not to the track.  A chunk that     *)
(* ends an utterance runs the whole turn inside that task: transcription,  *)
(* the bridge, synthesis, and one outcome event.  Meanwhile participants   *)
(* leave and come back, tracks end, and the service shuts down.  Audio is  *)
(* loud or quiet; texts and latencies are left out.                        *)
(***************************************************************************)
EXTENDS VoiceBridge, VoiceEvents

CONSTANTS Sessions,       \* participant identities
          Tracks,         \* audio tracks, one task each
          SilenceLimit,   \* settings.vad_silence_frames
          MaxVisits       \* bound on how often a participant joins

ASSUME SilenceAssumption == SilenceLimit \in Nat
ASSUME VisitAssumption == MaxVisits \in Nat \ {0}

VARIABLES phase,      \* of the service: serving, then the steps of its shutdown
          room,       \* run(): connecting, joined, left
          visit,      \* how often a participant has joined
          present,    \* the participants in the room
          vad,        \* _vad_state, "absent" where there is no entry
          frames,     \* _speech_frames: the tracks that were heard
          silence,    \* _silence_count
          task,       \* the consumer task of a track
          owner,      \* the participant of a track
          born,       \* the visit a track belongs to
          turn,       \* the turn a consumer task awaits, as a set
          stage,      \* where _handle_turn of a turn stands
          outcome,    \* what it published
          heard,      \* the tracks whose speech a turn was given
          late        \* sessions one of whose consumers ran past its visit

detectorVars == <<vad, frames, silence>>
trackVars == <<task, owner, born>>
turnVars == <<turn, stage, outcome, heard>>
roomVars == <<visit, present>>
vars == <<bridgeVars, eventVars, phase, room, roomVars, detectorVars, trackVars,
          turnVars, late>>

Failures == {"stt_error", "bridge_timeout", "bridge_error", "tts_error", "unknown"}
Visits == 0..MaxVisits

TypeOK ==
    /\ BridgeTypeOK
    /\ EventsTypeOK(Turns)
    /\ phase \in {"serving", "stopping", "silenced", "closed", "exited"}
    /\ room \in {"connecting", "joined", "left"}
    /\ visit \in [Sessions -> Visits]
    /\ present \subseteq Sessions
    /\ vad \in [Sessions -> {"absent", "silent", "speaking"}]
    /\ frames \in [Sessions -> SUBSET Tracks]
    /\ silence \in [Sessions -> 0..SilenceLimit]
    /\ task \in [Tracks -> {"free", "live", "draining", "done"}]
    /\ owner \in [Tracks -> Sessions]
    /\ born \in [Tracks -> Visits]
    /\ turn \in [Tracks -> SUBSET Turns]
    /\ stage \in [Turns -> {"new", "stt", "bridge", "tts", "done"}]
    /\ outcome \in [Turns -> Failures \union {"none", "completed"}]
    /\ heard \in [Turns -> SUBSET Tracks]
    /\ late \subseteq Sessions

Init ==
    /\ BridgeInit
    /\ EventsInit
    /\ phase = "serving"
    /\ room = "connecting"
    /\ visit = [s \in Sessions |-> 0]
    /\ present = {}
    /\ vad = [s \in Sessions |-> "absent"]
    /\ frames = [s \in Sessions |-> {}]
    /\ silence = [s \in Sessions |-> 0]
    /\ task = [t \in Tracks |-> "free"]
    /\ owner \in [Tracks -> Sessions]
    /\ born = [t \in Tracks |-> 0]
    /\ turn = [t \in Tracks |-> {}]
    /\ stage = [c \in Turns |-> "new"]
    /\ outcome = [c \in Turns |-> "none"]
    /\ heard = [c \in Turns |-> {}]
    /\ late = {}

Stopped == phase # "serving"      \* self._stopped

-----------------------------------------------------------------------------
(* The room. *)

\* room.connect succeeds; participants who are there already raise no event.
Join ==
    /\ room = "connecting"
    /\ room' = "joined"
    /\ present' \in SUBSET Sessions
    /\ visit' = [s \in Sessions |-> IF s \in present' THEN 1 ELSE 0]
    /\ UNCHANGED <<bridgeVars, eventVars, phase, detectorVars, trackVars, turnVars, late>>

\* The loop of run() sees the flag, or room.connect raised: nothing retries,
\* and the service goes on without a worker.
Leave ==
    /\ \/ room = "connecting"
       \/ room = "joined" /\ Stopped
    /\ room' = "left"
    /\ UNCHANGED <<bridgeVars, eventVars, phase, roomVars, detectorVars, trackVars, turnVars, late>>

\* The detector is reset; session_started is published.
ParticipantConnected(s) ==
    /\ room = "joined"
    /\ s \notin present
    /\ visit[s] < MaxVisits
    /\ present' = present \union {s}
    /\ visit' = [visit EXCEPT ![s] = @ + 1]
    /\ vad' = [vad EXCEPT ![s] = "silent"]
    /\ frames' = [frames EXCEPT ![s] = {}]
    /\ silence' = [silence EXCEPT ![s] = 0]
    /\ UNCHANGED <<bridgeVars, eventVars, phase, room, trackVars, turnVars, late>>

\* Mutant of ParticipantDisconnected: the entries of the detector stay.
ParticipantDisconnected_KeepsState(s) ==
    /\ room = "joined"
    /\ s \in present
    /\ present' = present \ {s}
    /\ task' = [t \in Tracks |-> IF task[t] = "live" /\ owner[t] = s THEN "draining" ELSE task[t]]
    /\ UNCHANGED <<bridgeVars, eventVars, phase, room, visit, detectorVars, owner, born, turnVars, late>>

\* The entries of the detector are dropped and session_ended is published.  The
\* tracks end, but their tasks still read the frames they had buffered.
ParticipantDisconnected(s) ==
    /\ room = "joined"
    /\ s \in present
    /\ present' = present \ {s}
    /\ vad' = [vad EXCEPT ![s] = "absent"]
    /\ frames' = [frames EXCEPT ![s] = {}]
    /\ silence' = [silence EXCEPT ![s] = 0]
    /\ task' = [t \in Tracks |-> IF task[t] = "live" /\ owner[t] = s THEN "draining" ELSE task[t]]
    /\ UNCHANGED <<bridgeVars, eventVars, phase, room, visit, owner, born, turnVars, late>>

\* An audio track is subscribed: a consumer task of its own.
TrackSubscribed(t) ==
    /\ room = "joined"
    /\ task[t] = "free"
    /\ owner[t] \in present
    /\ task' = [task EXCEPT ![t] = "live"]
    /\ born' = [born EXCEPT ![t] = visit[owner[t]]]
    /\ UNCHANGED <<bridgeVars, eventVars, phase, room, roomVars, detectorVars, owner, turnVars, late>>

\* The stream ends or raises, or the flag is seen: the task closes it.
ConsumerEnds(t) ==
    /\ task[t] \in {"live", "draining"}
    /\ turn[t] = {}
    /\ task' = [task EXCEPT ![t] = "done"]
    /\ UNCHANGED <<bridgeVars, eventVars, phase, room, roomVars, detectorVars, owner, born, turnVars, late>>

-----------------------------------------------------------------------------
(* Voice activity: _process_audio_chunk, with its lazy initialisation. *)

Listening(t) ==
    /\ task[t] \in {"live", "draining"}
    /\ turn[t] = {}
    /\ ~Stopped

\* History: the chunk is of a visit that is over.
NoteLate(t) ==
    late' = IF owner[t] \notin present \/ born[t] # visit[owner[t]]
            THEN late \union {owner[t]} ELSE late

LoudChunk(t) ==
    /\ Listening(t)
    /\ vad' = [vad EXCEPT ![owner[t]] = "speaking"]
    /\ frames' = [frames EXCEPT ![owner[t]] = @ \union {t}]
    /\ silence' = [silence EXCEPT ![owner[t]] = 0]
    /\ NoteLate(t)
    /\ UNCHANGED <<bridgeVars, eventVars, phase, room, roomVars, trackVars, turnVars>>

\* Mutant of QuietChunk: the limit is compared after one chunk too many.
QuietChunk_OneMore(t) ==
    LET s == owner[t] IN
    /\ Listening(t)
    /\ vad[s] = "speaking" => silence[s] <= SilenceLimit
    /\ silence' = IF vad[s] = "speaking" THEN [silence EXCEPT ![s] = @ + 1] ELSE silence
    /\ vad' = IF vad[s] = "absent" THEN [vad EXCEPT ![s] = "silent"] ELSE vad
    /\ NoteLate(t)
    /\ UNCHANGED <<bridgeVars, eventVars, phase, room, roomVars, frames, trackVars, turnVars>>

\* Silence that does not end an utterance.
QuietChunk(t) ==
    LET s == owner[t] IN
    /\ Listening(t)
    /\ vad[s] = "speaking" => silence[s] < SilenceLimit
    /\ silence' = IF vad[s] = "speaking" THEN [silence EXCEPT ![s] = @ + 1] ELSE silence
    /\ vad' = IF vad[s] = "absent" THEN [vad EXCEPT ![s] = "silent"] ELSE vad
    /\ NoteLate(t)
    /\ UNCHANGED <<bridgeVars, eventVars, phase, room, roomVars, frames, trackVars, turnVars>>

\* Silence past the limit: the accumulated speech becomes a turn, awaited here.
TurnEnds(t) ==
    LET s == owner[t] IN
    /\ Listening(t)
    /\ vad[s] = "speaking"
    /\ silence[s] = SilenceLimit
    /\ \E c \in Turns :
          /\ stage[c] = "new"
          /\ stage' = [stage EXCEPT ![c] = "stt"]
          /\ turn' = [turn EXCEPT ![t] = {c}]
          /\ heard' = [heard EXCEPT ![c] = frames[s]]
    /\ frames' = [frames EXCEPT ![s] = {}]
    /\ silence' = [silence EXCEPT ![s] = 0]
    /\ vad' = [vad EXCEPT ![s] = "silent"]
    /\ NoteLate(t)
    /\ UNCHANGED <<bridgeVars, eventVars, phase, room, roomVars, trackVars, outcome>>

-----------------------------------------------------------------------------
(* The turn: _handle_turn. *)

\* Its only event is published and the consumer goes on with its stream.
Conclude(c, result) ==
    /\ stage' = [stage EXCEPT ![c] = "done"]
    /\ outcome' = [outcome EXCEPT ![c] = result]
    /\ turn' = [t \in Tracks |-> turn[t] \ {c}]
    /\ Publish(IF result = "completed" THEN "turn.completed" ELSE "turn.failed", c)
    /\ UNCHANGED heard

\* A transcript goes straight to the bridge.
Transcribed(c) ==
    /\ stage[c] = "stt"
    /\ stage' = [stage EXCEPT ![c] = "bridge"]
    /\ Ask(c)
    /\ UNCHANGED <<eventVars, phase, room, roomVars, detectorVars, trackVars, turn, outcome, heard, late>>

\* STTError, or any other exception.
TranscriptionFails(c) ==
    /\ stage[c] = "stt"
    /\ \E e \in {"stt_error", "unknown"} : Conclude(c, e)
    /\ UNCHANGED <<bridgeVars, phase, room, roomVars, detectorVars, trackVars, late>>

\* The text, empty or not, is synthesized.
BridgeAnswered(c) ==
    /\ stage[c] = "bridge"
    /\ call[c] \in Texts
    /\ stage' = [stage EXCEPT ![c] = "tts"]
    /\ UNCHANGED <<bridgeVars, eventVars, phase, room, roomVars, detectorVars, trackVars,
                   turn, outcome, heard, late>>

\* Mutant of BridgeFails: only a BridgeError is caught.
BridgeFails_OnlyKnown(c) ==
    /\ stage[c] = "bridge"
    /\ call[c] \in {"bridge_timeout", "bridge_error"}
    /\ Conclude(c, call[c])
    /\ UNCHANGED <<bridgeVars, phase, room, roomVars, detectorVars, trackVars, late>>

\* BridgeError, by its kind, or any other exception.
BridgeFails(c) ==
    /\ stage[c] = "bridge"
    /\ call[c] \in Returned \ Texts
    /\ Conclude(c, IF call[c] = "raised" THEN "unknown" ELSE call[c])
    /\ UNCHANGED <<bridgeVars, phase, room, roomVars, detectorVars, trackVars, late>>

\* The audio is left to a task of its own, best effort, and the turn announced.
Synthesized(c) ==
    /\ stage[c] = "tts"
    /\ Conclude(c, "completed")
    /\ UNCHANGED <<bridgeVars, phase, room, roomVars, detectorVars, trackVars, late>>

\* TTSError, or any other exception.
SynthesisFails(c) ==
    /\ stage[c] = "tts"
    /\ \E e \in {"tts_error", "unknown"} : Conclude(c, e)
    /\ UNCHANGED <<bridgeVars, phase, room, roomVars, detectorVars, trackVars, late>>

-----------------------------------------------------------------------------
(* The shutdown: the rest of lifespan. *)

\* worker.stop().
Stop ==
    /\ phase = "serving"
    /\ phase' = "stopping"
    /\ UNCHANGED <<bridgeVars, eventVars, room, roomVars, detectorVars, trackVars, turnVars, late>>

\* Mutant of Silence: the producers are closed while the worker still serves.
Silence_First ==
    /\ phase = "serving"
    /\ producers
    /\ CloseProducers
    /\ UNCHANGED <<bridgeVars, phase, room, roomVars, detectorVars, trackVars, turnVars, late>>

\* run() has ended or is cancelled after five seconds; turns are not waited
\* for.  The producers are closed.
Silence ==
    /\ phase = "stopping"
    /\ phase' = "silenced"
    /\ room' = "left"
    /\ CloseProducers
    /\ UNCHANGED <<bridgeVars, roomVars, detectorVars, trackVars, turnVars, late>>

\* nats_disconnect().
Close ==
    /\ phase = "silenced"
    /\ Disconnect
    /\ phase' = IF nc' = "none" THEN "closed" ELSE phase
    /\ UNCHANGED <<eventVars, room, roomVars, detectorVars, trackVars, turnVars, late>>

\* The event loop cancels what is left: no handler publishes a CancelledError.
Exit ==
    /\ phase = "closed"
    /\ phase' = "exited"
    /\ task' = [t \in Tracks |-> IF task[t] = "free" THEN "free" ELSE "done"]
    /\ turn' = [t \in Tracks |-> {}]
    /\ stage' = [c \in Turns |-> IF stage[c] = "new" THEN "new" ELSE "done"]
    /\ DropEvents
    /\ UNCHANGED <<bridgeVars, room, roomVars, detectorVars, owner, born, outcome, heard, late>>

-----------------------------------------------------------------------------

Handle(c) ==
    \/ Transcribed(c) \/ TranscriptionFails(c)
    \/ BridgeAnswered(c) \/ BridgeFails(c)
    \/ Synthesized(c) \/ SynthesisFails(c)

\* The timer of the bridge.
Timer(c) ==
    /\ Timeout(c)
    /\ UNCHANGED <<eventVars, phase, room, roomVars, detectorVars, trackVars, turnVars, late>>

Bridge(c) ==
    \/ Timer(c)
    \/ /\ Reply(c) \/ Reason(c)
       /\ UNCHANGED <<eventVars, phase, room, roomVars, detectorVars, trackVars, turnVars, late>>

\* The task an event was left to.
EventTask(e) ==
    /\ Send(e) \/ SendFails(e)
    /\ UNCHANGED <<bridgeVars, phase, room, roomVars, detectorVars, trackVars, turnVars, late>>

Next ==
    \/ Join \/ Leave
    \/ \E s \in Sessions : ParticipantConnected(s) \/ ParticipantDisconnected(s)
    \/ \E t \in Tracks :
          TrackSubscribed(t) \/ ConsumerEnds(t) \/ LoudChunk(t) \/ QuietChunk(t) \/ TurnEnds(t)
    \/ \E c \in Turns : Handle(c) \/ Bridge(c)
    \/ \E e \in pending : EventTask(e)
    \/ Stop \/ Silence \/ Close \/ Exit

\* The engines return or raise, the bridge has its timer, tasks are scheduled,
\* each event in a task of its own.  Nothing is asked of the reasoner, and nothing
\* says that the service stops.
FairTurn(c) == WF_vars(Handle(c)) /\ WF_vars(Timer(c))
FairEvent(e) == WF_vars(EventTask(e))

Fairness ==
    /\ \A c \in Turns : FairTurn(c)
    /\ \A e \in Events(Turns) : FairEvent(e)

Spec == Init /\ [][Next]_vars
FairSpec == Spec /\ Fairness

-----------------------------------------------------------------------------
(* Correctness. *)

\* A turn is announced at most once, as what it became, and nothing a late
\* reply or a shutdown does changes that; it is announced as completed only if
\* the reasoner answered this very request in time without an error, and as
\* timed out or failed by the bridge only if it did not.
OutcomesAreTrue ==
    \A c \in Turns :
        /\ <<"turn.completed", c>> \in pending \union published => outcome[c] = "completed"
        /\ <<"turn.failed", c>> \in pending \union published => outcome[c] \in Failures
        /\ outcome[c] = "completed" => c \in delivered /\ answer[c] \in {"completed", "rejected"}
        /\ outcome[c] \in {"bridge_timeout", "bridge_error"} => call[c] = outcome[c]

\* A detector without a participant, speech of an earlier visit in it, or a
\* turn that was given such speech: only a consumer task that outlived the
\* visit of its track, because it was inside a turn or behind, causes these.
LeftoversAreLate ==
    /\ \A s \in Sessions : s \notin late =>
          /\ vad[s] # "absent" => s \in present
          /\ \A t \in frames[s] : born[t] = visit[s]
    /\ \A c \in Turns : \A t1, t2 \in heard[c] :
          born[t1] # born[t2] => owner[t1] \in late

\* An outcome is lost only if Pulsar refused it or the service has closed its
\* producers: as long as it serves, what is not sent is still to be sent.
LostOnlyByShutdown ==
    \A c \in Turns :
        (outcome[c] # "none" /\ ~refused /\ phase \in {"serving", "stopping"}) =>
            \E kind \in Outcomes : <<kind, c>> \in pending \union published

\* A turn in work is never without a way on, whatever the engines, the reasoner
\* and Pulsar said: every way reason() ends is handled, the bridge has its timer
\* as long as it waits, and an event that is to be sent can be sent or dropped.
TurnsCanGoOn ==
    /\ \A c \in Turns :
          /\ \/ stage[c] \in {"stt", "tts"}
             \/ stage[c] = "bridge" /\ call[c] \in Returned
             => ENABLED <<Handle(c)>>_vars
          /\ stage[c] = "bridge" /\ call[c] = "waiting" => ENABLED <<Timer(c)>>_vars
    /\ \A e \in pending : ENABLED <<EventTask(e)>>_vars

\* The outcome of every turn that starts reaches Pulsar, whatever the reasoner
\* does, unless Pulsar refuses it or the service is told to stop.
TurnsAreAnnounced ==
    \A c \in Turns :
        (stage[c] = "stt") ~> ((\E kind \in Outcomes : <<kind, c>> \in published)
                                  \/ refused \/ Stopped)

-----------------------------------------------------------------------------
(* What the documents say and the code does not do. *)

\* nats_bridge.py:74, the bridge: "Send a voice turn to arc-reasoner and return
\* the response text."  No reply of the reasoner has a field the bridge reads.
CompletedTurnsSpeak ==
    \A c \in Turns : outcome[c] = "completed" => call[c] = "text"

=============================================================================
