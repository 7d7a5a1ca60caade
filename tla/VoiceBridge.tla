---------------------------- MODULE VoiceBridge ----------------------------
(***************************************************************************)
(* The request-reply bridge of the voice service to the reasoner:          *)
(* NATSBridge.reason in nats_bridge.py, and the module-level connection.   *)
(*                                                                         *)
(* A turn asks the reasoner once and waits for the reply or for its own    *)
(* timer.  The reasoner is known by its contract: it decides a request     *)
(* that reached it whenever it likes, also after the bridge has given up.  *)
(***************************************************************************)
EXTENDS Naturals

CONSTANT Turns     \* correlation ids: one per voice turn, used as request id

VARIABLES nc,         \* the connection: open, closed by disconnect(), or _nc is None
          call,       \* where the reason() of a turn stands
          delivered,  \* the requests that reached the reasoner
          verdict, answer    \* the reasoner, as its contract shows it

bridgeVars == <<nc, call, delivered, verdict, answer>>

Reasoner == INSTANCE ReasonerContract WITH Requests <- Turns

\* The keys of the JSON payloads the reasoner answers with.
PayloadKeys ==
    [completed |-> {"request_id", "user_id", "done", "ttft_ms", "latency_ms"},
     rejected |-> {"request_id", "reason"},
     failed |-> {"request_id", "error", "latency_ms"}]

\* What reason() ended with: a text, a BridgeError, any other exception.
Returned == {"text", "empty", "bridge_timeout", "bridge_error", "raised"}
Texts == {"text", "empty"}

BridgeTypeOK ==
    /\ nc \in {"open", "closed", "none"}
    /\ call \in [Turns -> Returned \union {"idle", "waiting"}]
    /\ delivered \subseteq Turns
    /\ Reasoner!ContractTypeOK

BridgeInit ==
    /\ nc = "open"
    /\ call = [c \in Turns |-> "idle"]
    /\ delivered = {}
    /\ Reasoner!Init

-----------------------------------------------------------------------------

\* reason() is called: without a connection it raises at once, a closed
\* connection or a subject without subscribers makes the request raise an
\* exception that is no BridgeError, and a request may be lost on its way.
Ask(c) ==
    /\ \/ nc = "none" /\ call' = [call EXCEPT ![c] = "bridge_error"] /\ UNCHANGED delivered
       \/ nc # "none" /\ call' = [call EXCEPT ![c] = "raised"] /\ UNCHANGED delivered
       \/ /\ nc = "open"
          /\ call' = [call EXCEPT ![c] = "waiting"]
          /\ delivered' \in {delivered, delivered \union {c}}
    /\ UNCHANGED <<nc, verdict, answer>>

\* Mutant of Read: an error payload is taken for an answer.
Read_AnyPayload(keys) == IF keys \intersect {"response", "text"} # {} THEN "text" ELSE "empty"

\* `if "error" in data`, then `data.get("response") or data.get("text") or ""`.
Read(keys) ==
    IF "error" \in keys THEN "bridge_error"
    ELSE IF keys \intersect {"response", "text"} # {} THEN "text" ELSE "empty"

\* The reply arrives while the bridge waits for it; a later one is dropped by
\* the client, whose inbox has forgotten the request.
Reply(c) ==
    /\ call[c] = "waiting"
    /\ nc = "open"
    /\ answer[c] # "none"
    /\ call' = [call EXCEPT ![c] = Read(PayloadKeys[answer[c]])]
    /\ UNCHANGED <<nc, delivered, verdict, answer>>

\* Mutant of Timeout: a request that reached the reasoner is waited for.
Timeout_Lenient(c) ==
    /\ call[c] = "waiting"
    /\ c \notin delivered
    /\ call' = [call EXCEPT ![c] = "bridge_timeout"]
    /\ UNCHANGED <<nc, delivered, verdict, answer>>

Timeout(c) ==
    /\ call[c] = "waiting"
    /\ call' = [call EXCEPT ![c] = "bridge_timeout"]
    /\ UNCHANGED <<nc, delivered, verdict, answer>>

\* The reasoner works on what reached it.
Reason(c) ==
    /\ c \in delivered
    /\ Reasoner!Decide(c) \/ Reasoner!Answer(c)
    /\ UNCHANGED <<nc, call, delivered>>

\* disconnect(): drained and closed, then forgotten.
Disconnect ==
    /\ \/ nc = "open" /\ nc' = "closed"
       \/ nc = "closed" /\ nc' = "none"
    /\ UNCHANGED <<call, delivered, verdict, answer>>

=============================================================================
