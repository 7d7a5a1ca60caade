---------------------------- MODULE NatsHandler ----------------------------
(***************************************************************************)
(* The streaming NATS subscriber of the reasoner: NATSHandler._handle in   *)
(* nats_handler.py.                                                        *)
(*                                                                         *)
(* Every message runs the handler once.  The handler checks the input,     *)
(* then makes up to MaxRetries + 1 attempts: an attempt must yield its     *)
(* first token before the TTFT timer fires, its tokens are published as    *)
(* they come, and its end is announced on the result subject.  A timeout   *)
(* or an empty stream costs an attempt, any other exception ends the       *)
(* request on the error subject.  Payloads are left out: a publication is  *)
(* the subject it goes to.                                                 *)
(***************************************************************************)
EXTENDS StreamGraph

CONSTANTS MaxRetries,      \* settings.nats_max_retries
          GuardEnabled     \* settings.guard_enabled

ASSUME RetryAssumption == MaxRetries \in Nat
ASSUME GuardAssumption == GuardEnabled \in BOOLEAN

VARIABLES nc,        \* the connection: open, closed by close(), or self._nc is None
          pc,        \* where the handler of a request stands
          replyTo,   \* msg.reply is set
          attempt,   \* the local variable attempt
          sent,      \* publications of a request, per subject
          replies    \* answers to the reply inbox of a request

vars == <<nc, pc, replyTo, attempt, sent, replies, streamVars>>

Verdicts == {"rejected", "intercepted", "result", "error", "dlq"}
Subjects == Verdicts \union {"chunk", "durable"}

Pcs == {"new", "reject", "rejectReply", "attempt", "first", "stream", "check",
        "reply", "retry", "dlq", "error", "errorReply", "done"}

TypeOK ==
    /\ StreamTypeOK
    /\ nc \in {"open", "closed", "none"}
    /\ pc \in [Requests -> Pcs]
    /\ replyTo \in [Requests -> BOOLEAN]
    /\ attempt \in [Requests -> 0..(MaxRetries + 1)]
    /\ sent \in [Requests -> [Subjects -> Nat]]
    /\ replies \in [Requests -> Nat]

Init ==
    /\ StreamInit
    /\ nc = "open"
    /\ pc = [r \in Requests |-> "new"]
    /\ replyTo = [r \in Requests |-> FALSE]
    /\ attempt = [r \in Requests |-> 0]
    /\ sent = [r \in Requests |-> [s \in Subjects |-> 0]]
    /\ replies = [r \in Requests |-> 0]

-----------------------------------------------------------------------------
(* The connection, as the handler uses it. *)

Goto(r, label) == pc' = [pc EXCEPT ![r] = label]

\* `if self._nc is not None: await self._nc.publish(subject, ...)`: skipped
\* without a connection; a connection that close() has closed raises.
Publish(r, subject, next, onRaise) ==
    /\ Goto(r, IF nc = "closed" THEN onRaise ELSE next)
    /\ sent' = IF nc = "open" THEN [sent EXCEPT ![r][subject] = @ + 1] ELSE sent

\* `if msg.reply: await msg.respond(...)`: the message keeps the client it
\* came from, so this raises whenever the connection is gone.
Respond(r, onRaise) ==
    /\ Goto(r, IF replyTo[r] /\ nc # "open" THEN onRaise ELSE "done")
    /\ replies' = IF replyTo[r] /\ nc = "open" THEN [replies EXCEPT ![r] = @ + 1]
                                               ELSE replies

\* close(): drain gives up on handlers that outlast it, then the connection is
\* closed, then forgotten.
Close ==
    /\ \/ nc = "open" /\ nc' = "closed"
       \/ nc = "closed" /\ nc' = "none"
    /\ UNCHANGED <<pc, replyTo, attempt, sent, replies, streamVars>>

-----------------------------------------------------------------------------
(* The handler. *)

\* The payload is parsed and pre-checked: a payload that does not parse raises,
\* an input that matches an injection pattern is rejected when the guard is on.
Receive(r) ==
    /\ pc[r] = "new"
    /\ nc = "open"
    /\ \E reply \in BOOLEAN : replyTo' = [replyTo EXCEPT ![r] = reply]
    /\ \/ Goto(r, "error")
       \/ GuardEnabled /\ Goto(r, "reject")
       \/ Goto(r, "attempt")
    /\ UNCHANGED <<nc, attempt, sent, replies, streamVars>>

Reject(r) ==
    /\ pc[r] = "reject"
    /\ Publish(r, "rejected", "rejectReply", "error")
    /\ UNCHANGED <<nc, replyTo, attempt, replies, streamVars>>

ReplyRejected(r) ==
    /\ pc[r] = "rejectReply"
    /\ Respond(r, "error")
    /\ UNCHANGED <<nc, replyTo, attempt, sent, streamVars>>

\* After the backoff a new generator is created and awaited.
Attempt(r) ==
    /\ pc[r] = "attempt"
    /\ Start(r)
    /\ Goto(r, "first")
    /\ UNCHANGED <<nc, replyTo, attempt, sent, replies>>

\* A token, the first or a later one, goes to the stream subject.
PublishChunk(r) ==
    /\ pc[r] \in {"first", "stream"}
    /\ gen[r] = "yielded"
    /\ Publish(r, "chunk", "stream", "error")
    /\ IF nc = "closed" THEN Drop(r) ELSE Resume(r)
    /\ UNCHANGED <<nc, replyTo, attempt, replies>>

\* asyncio.wait_for(gen.__anext__(), timeout=nats_ttft_timeout) fires.
TtftTimeout(r) ==
    /\ pc[r] = "first"
    /\ Cancel(r)
    /\ Goto(r, "retry")
    /\ UNCHANGED <<nc, replyTo, attempt, sent, replies>>

\* StopAsyncIteration on the first token, or a TimeoutError out of the
\* generator at any token, is caught by the inner handler.
AttemptFails(r) ==
    /\ \/ pc[r] = "first" /\ gen[r] = "stopped"
       \/ pc[r] \in {"first", "stream"} /\ gen[r] = "timeout"
    /\ Drop(r)
    /\ Goto(r, "retry")
    /\ UNCHANGED <<nc, replyTo, attempt, sent, replies>>

\* Mutants of Retry: one attempt too many, one too few, attempts not counted.
Retry_OneMore(r) ==
    /\ pc[r] = "retry"
    /\ LET next == IF attempt[r] <= MaxRetries THEN "attempt" ELSE "dlq"
       IN  IF attempt[r] = 0 THEN Publish(r, "durable", next, "error")
                             ELSE Goto(r, next) /\ UNCHANGED sent
    /\ attempt' = [attempt EXCEPT ![r] = @ + 1]
    /\ UNCHANGED <<nc, replyTo, replies, streamVars>>

Retry_OneLess(r) ==
    /\ pc[r] = "retry"
    /\ LET next == IF attempt[r] + 1 < MaxRetries THEN "attempt" ELSE "dlq"
       IN  IF attempt[r] = 0 THEN Publish(r, "durable", next, "error")
                             ELSE Goto(r, next) /\ UNCHANGED sent
    /\ attempt' = [attempt EXCEPT ![r] = @ + 1]
    /\ UNCHANGED <<nc, replyTo, replies, streamVars>>

Retry_NotCounted(r) ==
    /\ pc[r] = "retry"
    /\ Goto(r, "attempt")
    /\ UNCHANGED <<nc, replyTo, attempt, sent, replies, streamVars>>

\* The durable subject gets the request once, at its first failed attempt.
Retry(r) ==
    /\ pc[r] = "retry"
    /\ LET next == IF attempt[r] < MaxRetries THEN "attempt" ELSE "dlq"
       IN  IF attempt[r] = 0 THEN Publish(r, "durable", next, "error")
                             ELSE Goto(r, next) /\ UNCHANGED sent
    /\ attempt' = IF attempt[r] = 0 /\ nc = "closed" THEN attempt
                  ELSE [attempt EXCEPT ![r] = @ + 1]
    /\ UNCHANGED <<nc, replyTo, replies, streamVars>>

DeadLetter(r) ==
    /\ pc[r] = "dlq"
    /\ Publish(r, "dlq", "done", "error")
    /\ UNCHANGED <<nc, replyTo, attempt, replies, streamVars>>

\* Any other exception out of the generator reaches the outer handler.
GraphFails(r) ==
    /\ pc[r] \in {"first", "stream"}
    /\ gen[r] = "failure"
    /\ Drop(r)
    /\ Goto(r, "error")
    /\ UNCHANGED <<nc, replyTo, attempt, sent, replies>>

\* `async for` ends: the accumulated answer is complete.
StreamDone(r) ==
    /\ pc[r] = "stream"
    /\ gen[r] = "stopped"
    /\ Drop(r)
    /\ Goto(r, "check")
    /\ UNCHANGED <<nc, replyTo, attempt, sent, replies>>

\* Mutant of Intercept: the return is missing.
Intercept_NoReturn(r) ==
    /\ pc[r] = "check"
    /\ GuardEnabled
    /\ Publish(r, "intercepted", "check", "error")
    /\ UNCHANGED <<nc, replyTo, attempt, replies, streamVars>>

\* Post-check: an unsafe answer is announced as intercepted, and nothing else.
Intercept(r) ==
    /\ pc[r] = "check"
    /\ GuardEnabled
    /\ Publish(r, "intercepted", "done", "error")
    /\ UNCHANGED <<nc, replyTo, attempt, replies, streamVars>>

\* Mutant of Complete: only the reply is sent.
Complete_NotPublished(r) ==
    /\ pc[r] = "check"
    /\ Goto(r, "reply")
    /\ UNCHANGED <<nc, replyTo, attempt, sent, replies, streamVars>>

\* The completion signal goes to the result subject.
Complete(r) ==
    /\ pc[r] = "check"
    /\ Publish(r, "result", "reply", "error")
    /\ UNCHANGED <<nc, replyTo, attempt, replies, streamVars>>

\* Mutant of ReplyCompleted: the return is missing, the loop goes on.
ReplyCompleted_NoReturn(r) ==
    /\ pc[r] = "reply"
    /\ IF replyTo[r] /\ nc # "open" THEN Goto(r, "error") ELSE Goto(r, "attempt")
    /\ UNCHANGED <<nc, replyTo, attempt, sent, replies, streamVars>>

ReplyCompleted(r) ==
    /\ pc[r] = "reply"
    /\ Respond(r, "error")
    /\ UNCHANGED <<nc, replyTo, attempt, sent, streamVars>>

\* The outer `except Exception`.  An exception in here leaves the handler.
ReportError(r) ==
    /\ pc[r] = "error"
    /\ Publish(r, "error", "errorReply", "done")
    /\ UNCHANGED <<nc, replyTo, attempt, replies, streamVars>>

ReplyError(r) ==
    /\ pc[r] = "errorReply"
    /\ Respond(r, "done")
    /\ UNCHANGED <<nc, replyTo, attempt, sent, streamVars>>

-----------------------------------------------------------------------------

\* The steps the event loop runs as soon as they are possible.
Handle(r) ==
    \/ Reject(r) \/ ReplyRejected(r)
    \/ Attempt(r) \/ PublishChunk(r)
    \/ AttemptFails(r) \/ Retry(r) \/ DeadLetter(r)
    \/ GraphFails(r) \/ StreamDone(r)
    \/ Intercept(r) \/ Complete(r) \/ ReplyCompleted(r)
    \/ ReportError(r) \/ ReplyError(r)

Stream(r) ==
    /\ Generate(r)
    /\ UNCHANGED <<nc, pc, replyTo, attempt, sent, replies>>

Background(r) ==
    /\ \E role \in Roles : DetachedSave(r, role)
    /\ UNCHANGED <<nc, pc, replyTo, attempt, sent, replies>>

Next ==
    \/ Close
    \/ \E r \in Requests :
          Receive(r) \/ Handle(r) \/ TtftTimeout(r) \/ Stream(r) \/ Background(r)

\* The event loop runs what is ready and the timer of the first token fires.
\* The memory and the LLM owe an answer only once a first token is out: until
\* then the timer is all the handler has.
FairRequest(r) ==
    /\ WF_vars(Handle(r))
    /\ WF_vars(TtftTimeout(r))
    /\ WF_vars(pc[r] = "stream" /\ Stream(r))

Fairness == \A r \in Requests : FairRequest(r)

Spec == Init /\ [][Next]_vars
FairSpec == Spec /\ Fairness

-----------------------------------------------------------------------------
(* Correctness. *)

VerdictsOf(r) == {v \in Verdicts : sent[r][v] > 0}

\* A request gets at most one verdict, once: it is completed, rejected,
\* intercepted, reported as an error or dead-lettered, never two of these,
\* although the error path is entered from behind the other publications.
OneVerdict ==
    \A r \in Requests :
        /\ \A v, w \in VerdictsOf(r) : v = w
        /\ \A v \in Verdicts : sent[r][v] <= 1

\* Once its verdict is out, nothing is published for a request any more: no
\* late token of an abandoned generator, no durable copy, no second verdict.
VerdictIsFinal ==
    [][\A r \in Requests : VerdictsOf(r) # {} => sent'[r] = sent[r]]_vars

\* The handler implements ReasonerContract, the view its requesters have of it:
\* the verdict is what was published, the answer what the reply inbox was sent.
VerdictNames ==
    [result |-> "completed", rejected |-> "rejected", error |-> "failed",
     intercepted |-> "intercepted", dlq |-> "deadLettered"]

VerdictOf(r) ==
    IF VerdictsOf(r) = {} THEN "none" ELSE VerdictNames[CHOOSE v \in VerdictsOf(r) : TRUE]

AnswerOf(r) ==
    IF replies[r] = 0 THEN "none"
    ELSE IF replies[r] = 1 /\ VerdictsOf(r) # {} THEN VerdictOf(r) ELSE "unfounded"

Contract == INSTANCE ReasonerContract
    WITH verdict <- [r \in Requests |-> VerdictOf(r)],
         answer <- [r \in Requests |-> AnswerOf(r)]

\* Seen from outside, a request is decided at most once and answered at most
\* once with its verdict, although tokens, retries, the durable copy and a
\* closing connection lie in between.  Dead letters and intercepted answers are
\* never answered, although specs/015-nervous-system/spec.md promises the client of
\* an intercepted one "a safe fallback" (US-4).
HonoursContract == Contract!Spec

\* A dead letter stands for a request that used up its attempts, was handed to
\* the durable subject once, and whose caller was told nothing.
DeadLetterIsLast ==
    \A r \in Requests : sent[r]["dlq"] > 0 =>
        /\ attempt[r] = MaxRetries + 1
        /\ sent[r]["durable"] = 1
        /\ replies[r] = 0

\* The conversation never holds, and never will, more ai turns of a request than
\* human turns, although cancelled generators leave saves running in the background.
AiFollowsHuman ==
    \A r \in Requests : turns[r]["ai"] + detached[r]["ai"] <= turns[r]["human"]

\* When the result of a request is announced its turns are in the memory,
\* unless a save failed: a caller that waits for the result finds them there.
ResultIsRemembered ==
    \A r \in Requests : sent[r]["result"] > 0 /\ ~unsaved[r] =>
        \A role \in Roles : turns[r][role] > 0

\* Every request the handler takes gets its verdict, whatever the memory and
\* the LLM do before the first token, unless the connection goes away.
Settles ==
    \A r \in Requests :
        (pc[r] # "new") ~> (VerdictsOf(r) # {} \/ nc # "open")

-----------------------------------------------------------------------------
(* What the documents say and the code does not do. *)

\* specs/015-nervous-system/spec.md, durable queue retry exhaustion: "return
\* error to caller via correlation ID".  A dead-lettered caller gets no reply.
DeadLetterIsAnswered ==
    \A r \in Requests :
        (sent[r]["dlq"] > 0 /\ replyTo[r] /\ pc[r] = "done") => replies[r] > 0

=============================================================================
