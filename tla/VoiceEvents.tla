---------------------------- MODULE VoiceEvents ----------------------------
(***************************************************************************)
(* The lifecycle events of the voice service: VoiceEventPublisher in       *)
(* pulsar_events.py.                                                       *)
(*                                                                         *)
(* Publishing starts a task and returns; the task finds a producer and     *)
(* sends, or drops the event.  Session events take the same way as the     *)
(* outcomes of turns and are left out.                                     *)
(***************************************************************************)
VARIABLES producers,   \* the producers exist
          pending,     \* events whose task has not sent them yet
          published,   \* events Pulsar has
          refused      \* Pulsar refused something: no connection, or a failed send

eventVars == <<producers, pending, published, refused>>

Outcomes == {"turn.completed", "turn.failed"}
Events(turns) == Outcomes \X turns

EventsTypeOK(turns) ==
    /\ producers \in BOOLEAN
    /\ pending \subseteq Events(turns)
    /\ published \subseteq Events(turns)
    /\ refused \in BOOLEAN

\* connect() fails open: without Pulsar there are no producers, ever.
EventsInit ==
    /\ producers \in BOOLEAN
    /\ pending = {}
    /\ published = {}
    /\ refused = ~producers

Publish(kind, c) ==
    /\ pending' = pending \union {<<kind, c>>}
    /\ UNCHANGED <<producers, published, refused>>

\* _send: no producer drops the event.
Send(e) ==
    /\ e \in pending
    /\ pending' = pending \ {e}
    /\ published' = IF producers THEN published \union {e} ELSE published
    /\ UNCHANGED <<producers, refused>>

\* The send raises in its thread; the exception is logged.
SendFails(e) ==
    /\ e \in pending
    /\ producers
    /\ pending' = pending \ {e}
    /\ refused' = TRUE
    /\ UNCHANGED <<producers, published>>

CloseProducers ==
    /\ producers' = FALSE
    /\ UNCHANGED <<pending, published, refused>>

\* The event loop ends with tasks left.
DropEvents ==
    /\ pending' = {}
    /\ UNCHANGED <<producers, published, refused>>

=============================================================================
