-------------------------- MODULE ReasonerService --------------------------
(***************************************************************************)
(* One reasoner process from start to exit, and again: the lifespan of     *)
(* main.py around the Pulsar consumer and the v1, RAG and HTTP channels.   *)
(*                                                                         *)
(* Start-up connects the streaming NATS handler, Pulsar, RAG and v1 chat,  *)
(* in this order; each takes work as soon as it is connected, HTTP only    *)
(* when all are.  Shutdown closes the streaming handler, Pulsar, v1 chat   *)
(* and RAG.  Every transport is enabled.  Of the streaming handler only    *)
(* the connection is here; its requests are in NatsHandler.                *)
(***************************************************************************)
EXTENDS PulsarHandler, ChatChannels, FiniteSets

CONSTANTS MaxArrivals,   \* bound on the messages and requests that arrive
          MaxGivenUp     \* bound on the connections given up at the same time

ASSUME CallersAssumption == Requests \intersect Deliveries = {}

VARIABLES phase,     \* where lifespan stands
          dropped    \* handlers whose client gave up its connection

lifeVars == <<phase, dropped>>
vars == <<lifeVars, pulsarVars, channelVars, streamVars, graphVars>>

Starting == {"nats", "pulsar", "rag", "v1"}
Stopping == {"closeNats", "cancelLoop", "closePulsar", "closeV1", "closeRag", "exit"}

TypeOK ==
    /\ GraphTypeOK /\ PulsarTypeOK /\ StreamTypeOK /\ ChannelsTypeOK
    /\ phase \in Starting \union Stopping \union {"serving", "down"}
    /\ dropped \subseteq Handlers

Init ==
    /\ GraphInit /\ PulsarInit /\ StreamInit /\ ChannelsInit
    /\ phase = "nats"
    /\ dropped = {}

-----------------------------------------------------------------------------
(* lifespan. *)

StartNats ==
    /\ phase = "nats"
    /\ phase' = "pulsar"
    /\ Connect("nats")
    /\ UNCHANGED <<dropped, pulsarVars, streamVars, graphVars>>

StartConsumer ==
    /\ phase = "pulsar"
    /\ phase' = "rag"
    /\ StartPulsar
    /\ UNCHANGED <<dropped, channelVars, streamVars, graphVars>>

\* build_rag_infra raises, or MinIO is not there: the service runs without RAG.
StartRag ==
    /\ phase = "rag"
    /\ phase' = "v1"
    /\ Connect("rag") \/ UNCHANGED channelVars
    /\ UNCHANGED <<dropped, pulsarVars, streamVars, graphVars>>

\* The last handler; then app_state is set and HTTP served.
StartV1 ==
    /\ phase = "v1"
    /\ phase' = "serving"
    /\ Connect("v1")
    /\ UNCHANGED <<dropped, pulsarVars, streamVars, graphVars>>

\* The server has waited for its HTTP requests; the probe task is cancelled.
BeginShutdown ==
    /\ phase = "serving"
    /\ \A r \in Http : step[r] \in {"new", "done"}
    /\ phase' = "closeNats"
    /\ UNCHANGED <<dropped, pulsarVars, channelVars, streamVars, graphVars>>

\* close() of a NATS handler that was started; it raises, and lifespan with it,
\* when the client had given up the connection.
Close(h, current, next) ==
    /\ phase = current
    /\ \/ h \notin dropped /\ Disconnect(h) /\ UNCHANGED phase
       \/ h \notin dropped /\ ForgetConnection(h) /\ phase' = next
       \/ conn[h] = "none" /\ phase' = next /\ UNCHANGED channelVars
       \/ h \in dropped /\ phase' = "exit" /\ UNCHANGED channelVars
    /\ UNCHANGED <<dropped, pulsarVars, streamVars, graphVars>>

CancelLoop ==
    /\ phase = "cancelLoop"
    /\ phase' = "closePulsar"
    /\ StopConsuming
    /\ UNCHANGED <<dropped, channelVars, streamVars, graphVars>>

ClosePulsar ==
    /\ phase = "closePulsar"
    /\ phase' = "closeV1"
    /\ CloseClient
    /\ UNCHANGED <<dropped, channelVars, streamVars, graphVars>>

\* The process ends: after shutdown, or at any step of it or of start-up that
\* raises, or killed.
Exit ==
    /\ phase # "down"
    /\ phase' = "down"
    /\ dropped' = {}
    /\ PulsarExit
    /\ ChannelsExit
    /\ Forget(Deliveries \union {r \in Requests : step[r] # "done"})

\* The container is started again.
Boot ==
    /\ phase = "down"
    /\ phase' = "nats"
    /\ UNCHANGED <<dropped, pulsarVars, channelVars, streamVars, graphVars>>

\* The client cannot restore a connection and closes it.
GiveUp(h) ==
    /\ Cardinality(dropped) < MaxGivenUp
    /\ Disconnect(h)
    /\ dropped' = dropped \union {h}
    /\ UNCHANGED <<phase, pulsarVars, streamVars, graphVars>>

StartStep == StartNats \/ StartConsumer \/ StartRag \/ StartV1

ShutdownStep ==
    \/ Close("nats", "closeNats", "cancelLoop")
    \/ CancelLoop \/ ClosePulsar
    \/ Close("v1", "closeV1", "closeRag")
    \/ Close("rag", "closeRag", "exit")
    \/ phase = "exit" /\ Exit

Lifespan ==
    \/ StartStep \/ BeginShutdown \/ ShutdownStep \/ Exit \/ Boot
    \/ \E h \in Handlers : GiveUp(h)

-----------------------------------------------------------------------------
(* The work. *)

Arrived == {m \in Messages : broker[m] # "absent"} \union {r \in Requests : step[r] # "new"}

Arrive ==
    /\ Cardinality(Arrived) < MaxArrivals
    /\ \/ \E m \in Messages : Produce(m) /\ UNCHANGED <<channelVars, streamVars>>
       \/ /\ \E r \in Requests : \/ V1Receive(r) \/ RagReceive(r)
                                \/ SseOpen(r, phase = "serving")
                                \/ HttpOpen(r, phase = "serving")
          /\ UNCHANGED pulsarVars
    /\ UNCHANGED lifeVars

Consume(d) == Process(d) /\ UNCHANGED <<lifeVars, channelVars, streamVars>>

Elsewhere(m) == HandledElsewhere(m) /\ UNCHANGED <<lifeVars, channelVars, streamVars>>

Broker == Reconnect /\ UNCHANGED <<lifeVars, channelVars, streamVars>>

Serve(r) == HandleRequest(r) /\ UNCHANGED <<lifeVars, pulsarVars>>

GoneAway(r) == (SseBreaks(r) \/ CutOff(r)) /\ UNCHANGED <<lifeVars, pulsarVars>>

Call(c) == GraphStep(c) /\ UNCHANGED <<lifeVars, pulsarVars, channelVars, streamVars>>

Stream(r) ==
    /\ Generate(r) \/ \E role \in Roles : DetachedSave(r, role)
    /\ UNCHANGED <<lifeVars, pulsarVars, channelVars, graphVars>>

Next ==
    \/ Lifespan \/ Arrive \/ Broker
    \/ \E m \in Messages : Elsewhere(m)
    \/ \E d \in Deliveries : Consume(d)
    \/ \E r \in Requests : Serve(r) \/ GoneAway(r) \/ Stream(r)
    \/ \E c \in Calls : Call(c)

Spec == Init /\ [][Next]_vars

\* Tasks and the graph go on, a shutdown that began is carried out, and some
\* replica takes what waits in the backlog.
FairShutdown == WF_vars(ShutdownStep)
FairTask(d) == WF_vars(Consume(d)) /\ WF_vars(Call(d))
FairReplicas(m) == WF_vars(Elsewhere(m))

Fairness ==
    /\ FairShutdown
    /\ \A m \in Messages : FairReplicas(m)
    /\ \A d \in Deliveries : FairTask(d)

FairSpec == Spec /\ Fairness

-----------------------------------------------------------------------------
(* Properties. *)

\* A Pulsar message is acknowledged only when a result was sent for it, and never
\* when it cannot be parsed, however sends, acknowledgements and connections fail
\* (PulsarHandler._process: the send comes first and its failure is nacked).
AckedHasResult ==
    \A m \in Messages : broker[m] = "acked" => results[m] > 0 /\ m \notin malformed

\* A requester gets a second result only when the first task could not know
\* whether it was through: its send or acknowledgement raised, or the message
\* went back to the broker under it.
DuplicatesAreDoubtful ==
    \A m \in Messages : results[m] > 1 => m \in doubtful

\* error_handler never exhausts the retries: it is entered once at most, after a
\* failed retrieval, because an LLM error leaves the graph.  GraphErrorResponse,
\* Path A of the Pulsar consumer and the 200 of /chat for it are never seen.
RetriesNeverExhausted ==
    \A c \in Calls : ~is_error[c] /\ node[c] # "graceful"

\* A v1 chat whose handler ran to its end was announced alike on all its
\* channels: a result on both subjects and in the reply, or an error and its reply.
\* A RAG request has its result, and its reply if it wanted one, or nothing at all:
\* the payload, the same for both, is refused at the first of them, behind the
\* `except` of the handler, so that not even an error is reported.
AnnouncedAlike ==
    \A r \in Requests : step[r] = "done" /\ r \notin cut =>
        /\ channel[r] = "nats" =>
            \/ {"result", "legacy"} \subseteq out[r] /\ (r \in wanted <=> "reply" \in out[r])
            \/ "error" \in out[r] /\ (r \in wanted <=> "errorReply" \in out[r])
        /\ channel[r] = "rag" =>
            \/ "result" \in out[r] /\ (r \in wanted <=> "reply" \in out[r])
            \/ out[r] = {"refused"}

\* Whoever was told that the answer is complete finds both turns in the memory,
\* unless a save failed: no channel announces the end before the saves are over.
AnsweredIsSaved ==
    \A r \in Requests :
        /\ out[r] \intersect (IF channel[r] = "nats" THEN {"result"} ELSE {"stop"}) # {} =>
            unsaved[r] \/ \A role \in Roles : turns[r][role] > 0
        /\ out[r] \intersect {"200", "reply", "result"} # {} => CallIsSaved(r)

\* The v1 chat keeps the contract of the streaming handler: one verdict, and an
\* answer that agrees with it, across restarts and lost connections.
HonoursContract == Contract!Spec

\* A message that can be parsed is answered and acknowledged in the end, here or
\* elsewhere: no failure, shutdown or exit leaves it held by nobody.
NoMessageLost ==
    \A m \in Messages :
        broker[m] = "backlog" /\ m \notin malformed ~> broker[m] = "acked"

=============================================================================
