---------------------------- MODULE ChatChannels ----------------------------
(***************************************************************************)
(* The other ways into the reasoner, one request each:                     *)
(*   nats   reasoner.v1.chat: OpenAINATSHandler._handle                    *)
(*   rag    reasoner.v1.rag.*: the handlers of RAGNATSHandler              *)
(*   sse    POST /v1/chat/completions with stream: the SSE generator       *)
(*   http   POST /chat, /v1/chat/completions and /v1/responses             *)
(* nats and sse stream tokens from stream_graph, http and the rag chat     *)
(* call invoke_graph.  A publication is the subject or event it goes to.   *)
(***************************************************************************)
EXTENDS StreamGraph, AgentGraph

ASSUME RequestsAssumption == Requests \subseteq Calls

VARIABLES conn,      \* the connections of the handlers, in lifespan's order
          channel,   \* how a request came in
          step,      \* where its handler stands
          wanted,    \* requests that carry a reply inbox
          out,       \* what was published, replied or streamed for a request
          cut        \* requests in work when their connection was closed

channelVars == <<conn, channel, step, wanted, out, cut>>

Handlers == {"nats", "v1", "rag"}
Steps == {"new", "stream", "result", "legacy", "reply", "error", "errorReply",
          "finish", "graph", "work", "respond", "publish", "done"}
Outputs == {"chunk", "result", "legacy", "error", "reply", "errorReply",
            "stop", "[DONE]", "200", "500",
            "refused"}   \* the NATS client raised: the payload is above the server's limit

HandlerOf(r) == IF channel[r] = "nats" THEN "v1" ELSE "rag"
InWork(h) == {r \in Requests : /\ channel[r] \in {"nats", "rag"}
                               /\ HandlerOf(r) = h
                               /\ step[r] \notin {"new", "done"}}
Http == {r \in Requests : channel[r] \in {"http", "sse"}}

ChannelsTypeOK ==
    /\ conn \in [Handlers -> {"none", "open", "closed"}]
    /\ channel \in [Requests -> {"none", "nats", "rag", "sse", "http"}]
    /\ step \in [Requests -> Steps]
    /\ wanted \subseteq Requests
    /\ out \in [Requests -> SUBSET Outputs]
    /\ cut \subseteq Requests

ChannelsInit ==
    /\ conn = [h \in Handlers |-> "none"]
    /\ channel = [r \in Requests |-> "none"]
    /\ step = [r \in Requests |-> "new"]
    /\ wanted = {}
    /\ out = [r \in Requests |-> {}]
    /\ cut = {}

Goto(r, next) == step' = [step EXCEPT ![r] = next]
ComesBy(r, c) == step[r] = "new" /\ channel' = [channel EXCEPT ![r] = c]
MayWantReply(r) == wanted' \in {wanted, wanted \union {r}}
Emit(r, what) == out' = [out EXCEPT ![r] = @ \union {what}]

\* `await self._nc.publish(...)` or msg.respond(...): raises without a connection.
\* So does a payload above the server's limit: see RagRefused.
Publish(r, what, next, onRaise) ==
    IF conn[HandlerOf(r)] = "open"
    THEN Emit(r, what) /\ Goto(r, next)
    ELSE UNCHANGED out /\ Goto(r, onRaise)

\* The same behind `if self._nc is not None`: skipped once close() forgot it.
PublishIfConnected(r, what, next, onRaise) ==
    IF conn[HandlerOf(r)] = "none"
    THEN UNCHANGED out /\ Goto(r, next)
    ELSE Publish(r, what, next, onRaise)

\* `if msg.reply`
Respond(r, what, next, onRaise) ==
    IF r \in wanted THEN Publish(r, what, next, onRaise)
    ELSE UNCHANGED out /\ Goto(r, next)

-----------------------------------------------------------------------------
(* v1 chat over NATS. *)

\* The request is validated and has a user message, or raises.
V1Receive(r) ==
    /\ conn["v1"] = "open"
    /\ ComesBy(r, "nats") /\ MayWantReply(r)
    /\ \/ Start(r) /\ Goto(r, "stream")
       \/ Goto(r, "error") /\ UNCHANGED streamVars
    /\ UNCHANGED <<conn, out, cut, graphVars>>

V1Chunk(r) ==
    /\ channel[r] = "nats" /\ step[r] = "stream"
    /\ gen[r] = "yielded"
    /\ PublishIfConnected(r, "chunk", "stream", "error")
    /\ IF step'[r] = "error" THEN Drop(r) ELSE Resume(r)
    /\ UNCHANGED <<conn, channel, wanted, cut, graphVars>>

\* The stream ends, or raises.
V1StreamEnds(r) ==
    /\ channel[r] = "nats" /\ step[r] = "stream"
    /\ gen[r] \in Raised \union {"stopped"}
    /\ Goto(r, IF gen[r] = "stopped" THEN "result" ELSE "error")
    /\ Drop(r)
    /\ UNCHANGED <<conn, channel, wanted, out, cut, graphVars>>

\* Mutant of V1Result: the legacy subject is forgotten.
V1Result_NoLegacy(r) ==
    /\ step[r] = "result"
    /\ PublishIfConnected(r, "result", "reply", "error")
    /\ UNCHANGED <<conn, channel, wanted, cut, graphVars, streamVars>>

\* The completion goes to the result subject, then to the legacy one, ...
V1Result(r) ==
    /\ step[r] = "result"
    /\ PublishIfConnected(r, "result", IF conn["v1"] = "open" THEN "legacy" ELSE "reply", "error")
    /\ UNCHANGED <<conn, channel, wanted, cut, graphVars, streamVars>>

V1Legacy(r) ==
    /\ step[r] = "legacy"
    /\ Publish(r, "legacy", "reply", "error")
    /\ UNCHANGED <<conn, channel, wanted, cut, graphVars, streamVars>>

\* ... and to the caller.
V1Reply(r) ==
    /\ step[r] = "reply"
    /\ Respond(r, "reply", "done", "error")
    /\ UNCHANGED <<conn, channel, wanted, cut, graphVars, streamVars>>

\* Mutant of V1Error: the error is told to the caller only.
V1Error_Unannounced(r) ==
    /\ step[r] = "error"
    /\ Goto(r, "errorReply")
    /\ UNCHANGED <<conn, channel, wanted, out, cut, graphVars, streamVars>>

\* `except Exception`; an exception in here leaves the handler.
V1Error(r) ==
    /\ step[r] = "error"
    /\ PublishIfConnected(r, "error", "errorReply", "done")
    /\ UNCHANGED <<conn, channel, wanted, cut, graphVars, streamVars>>

V1ErrorReply(r) ==
    /\ step[r] = "errorReply"
    /\ Respond(r, "errorReply", "done", "done")
    /\ UNCHANGED <<conn, channel, wanted, cut, graphVars, streamVars>>

-----------------------------------------------------------------------------
(* RAG over NATS. *)

\* A chat calls the graph, search, embed and ingest do work of their own, and a
\* payload that does not parse is an error to report.
RagReceive(r) ==
    /\ conn["rag"] = "open"
    /\ ComesBy(r, "rag") /\ MayWantReply(r)
    /\ \/ /\ Goto(r, "graph")
          /\ \E first \in {"search", "retrieve_context"} : Invoke(r, first)
       \/ Goto(r, "work") /\ UNCHANGED graphVars
       \/ Goto(r, "respond") /\ UNCHANGED graphVars
    /\ UNCHANGED <<conn, out, cut, streamVars>>

\* Whatever the work ended with becomes the result.
RagComputed(r) ==
    /\ channel[r] = "rag"
    /\ step[r] = "work" \/ (step[r] = "graph" /\ node[r] \in CallEnded)
    /\ Goto(r, "respond")
    /\ UNCHANGED <<conn, channel, wanted, out, cut, graphVars, streamVars>>

\* The embeddings of a long list, or the chunks a search found, may be above the
\* limit: the first publication raises, out of the handler.
RagRefused(r) ==
    /\ step[r] = "work"
    /\ conn["rag"] = "open"
    /\ Emit(r, "refused")
    /\ Goto(r, "done")
    /\ UNCHANGED <<conn, channel, wanted, cut, graphVars, streamVars>>

\* _publish: nothing once the connection is forgotten; otherwise the reply first, ...
RagRespond(r) ==
    /\ step[r] = "respond"
    /\ IF conn["rag"] = "none" THEN Goto(r, "done") /\ UNCHANGED out
       ELSE Respond(r, "reply", "publish", "done")
    /\ UNCHANGED <<conn, channel, wanted, cut, graphVars, streamVars>>

\* ... then the result subject; an exception leaves the handler.
RagPublish(r) ==
    /\ step[r] = "publish"
    /\ Publish(r, "result", "done", "done")
    /\ UNCHANGED <<conn, channel, wanted, cut, graphVars, streamVars>>

-----------------------------------------------------------------------------
(* HTTP; `serving` says that uvicorn accepts requests. *)

SseOpen(r, serving) ==
    /\ serving
    /\ ComesBy(r, "sse")
    /\ Start(r)
    /\ Goto(r, "stream")
    /\ UNCHANGED <<conn, wanted, out, cut, graphVars>>

SseChunk(r) ==
    /\ channel[r] = "sse" /\ step[r] = "stream"
    /\ gen[r] = "yielded"
    /\ Emit(r, "chunk")
    /\ Resume(r)
    /\ UNCHANGED <<conn, channel, step, wanted, cut, graphVars>>

\* Mutant of SseStop: the finish chunk follows the last token, before the saves.
SseStop_Early(r) ==
    /\ channel[r] = "sse" /\ step[r] = "stream"
    /\ gen[r] = "saveHuman"
    /\ Emit(r, "stop")
    /\ Goto(r, "finish")
    /\ Cancel(r)
    /\ UNCHANGED <<conn, channel, wanted, cut, graphVars>>

\* The generator ends: the chunk with finish_reason "stop", ...
SseStop(r) ==
    /\ channel[r] = "sse" /\ step[r] = "stream"
    /\ gen[r] = "stopped"
    /\ Emit(r, "stop")
    /\ Goto(r, "finish")
    /\ Drop(r)
    /\ UNCHANGED <<conn, channel, wanted, cut, graphVars>>

\* ... then "[DONE]".
SseDone(r) ==
    /\ step[r] = "finish"
    /\ Emit(r, "[DONE]")
    /\ Goto(r, "done")
    /\ UNCHANGED <<conn, channel, wanted, cut, graphVars, streamVars>>

\* The generator raises, or the client goes away: the stream just breaks off.
SseBreaks(r) ==
    /\ channel[r] = "sse" /\ step[r] = "stream"
    /\ \/ gen[r] \in Raised \union {"yielded", "stopped"} /\ Drop(r)
       \/ Cancel(r)
    /\ Goto(r, "done")
    /\ UNCHANGED <<conn, channel, wanted, out, cut, graphVars>>

\* Only /v1/chat/completions searches, when the service runs with RAG.
HttpOpen(r, serving) ==
    /\ serving
    /\ ComesBy(r, "http")
    /\ \/ Invoke(r, "retrieve_context")
       \/ conn["rag"] # "none" /\ Invoke(r, "search")
    /\ Goto(r, "graph")
    /\ UNCHANGED <<conn, wanted, out, cut, streamVars>>

\* A GraphErrorResponse is an answer of /chat and an error of the other routes.
HttpAnswer(r) ==
    /\ channel[r] = "http" /\ step[r] = "graph"
    /\ \/ node[r] \in Finished /\ Emit(r, "200")
       \/ node[r] \in {"graceful", "raised"} /\ Emit(r, "500")
    /\ Goto(r, "done")
    /\ UNCHANGED <<conn, channel, wanted, cut, graphVars, streamVars>>

-----------------------------------------------------------------------------
(* The connections, for lifespan. *)

Connect(h) ==
    /\ conn' = [conn EXCEPT ![h] = "open"]
    /\ UNCHANGED <<channel, step, wanted, out, cut>>

\* A connection is drained and closed by close(), or closed by the client that
\* cannot restore it.
Disconnect(h) ==
    /\ conn[h] = "open"
    /\ conn' = [conn EXCEPT ![h] = "closed"]
    /\ cut' = cut \union InWork(h)
    /\ UNCHANGED <<channel, step, wanted, out>>

\* `self._nc = None`
ForgetConnection(h) ==
    /\ conn[h] = "closed"
    /\ conn' = [conn EXCEPT ![h] = "none"]
    /\ UNCHANGED <<channel, step, wanted, out, cut>>

\* A client that closes may cancel the callbacks it is running.
CutOff(r) ==
    /\ r \in cut /\ step[r] # "done"
    /\ Goto(r, "done")
    /\ IF gen[r] \in Running THEN Cancel(r) ELSE Drop(r)
    /\ Forget({r})
    /\ UNCHANGED <<conn, channel, wanted, out, cut>>

\* The process ends, with the generators and calls of its requests.
ChannelsExit ==
    /\ conn' = [h \in Handlers |-> "none"]
    /\ step' = [r \in Requests |-> IF step[r] = "new" THEN "new" ELSE "done"]
    /\ cut' = cut \union {r \in Requests : step[r] \notin {"new", "done"}}
    /\ gen' = [r \in Requests |-> "idle"]
    /\ detached' = [r \in Requests |-> [role \in Roles |-> 0]]
    /\ UNCHANGED <<channel, wanted, out, tokens, turns, unsaved>>

HandleRequest(r) ==
    \/ V1Chunk(r) \/ V1StreamEnds(r) \/ V1Result(r) \/ V1Legacy(r)
    \/ V1Reply(r) \/ V1Error(r) \/ V1ErrorReply(r)
    \/ RagComputed(r) \/ RagRefused(r) \/ RagRespond(r) \/ RagPublish(r)
    \/ SseChunk(r) \/ SseStop(r) \/ SseDone(r) \/ HttpAnswer(r)

-----------------------------------------------------------------------------
(* The v1 chat makes the promise of the streaming handler. *)

V1 == {r \in Requests : channel[r] = "nats"}

V1Verdict(r) ==
    IF r \notin V1 THEN "none"
    ELSE IF "error" \in out[r] THEN "failed"
    ELSE IF "result" \in out[r] THEN "completed" ELSE "none"

V1Answer(r) ==
    IF r \notin V1 THEN "none"
    ELSE IF "errorReply" \in out[r] THEN "failed"
    ELSE IF "reply" \in out[r] THEN "completed" ELSE "none"

Contract == INSTANCE ReasonerContract WITH
    verdict <- [r \in Requests |-> V1Verdict(r)],
    answer <- [r \in Requests |-> V1Answer(r)]

=============================================================================
