------------------------- MODULE NatsHandler_proofs -------------------------
(***************************************************************************)
(* Theorems about NatsHandler, for any set of requests, any number of      *)
(* retries and tokens, with the guard on or off.                           *)
(***************************************************************************)
EXTENDS NatsHandler, StreamGraph_proofs

USE DEF Roles, Raised, Saving, Running, Phases, Verdicts, Subjects, Pcs

-----------------------------------------------------------------------------
(* Type correctness. *)

\* attempt stays within 0..MaxRetries + 1 only because the handler dead-letters
\* the request as soon as it is out of retries.
Trying == {"attempt", "first", "stream", "check", "reply", "retry"}
Bounded ==
    \A r \in Requests :
        /\ pc[r] \in Trying => attempt[r] <= MaxRetries
        /\ pc[r] \in {"new", "reject", "rejectReply"} => attempt[r] = 0

\* The handler's own variables; the generator's are StreamTypeOK.
HandlerTypeOK ==
    /\ nc \in {"open", "closed", "none"}
    /\ pc \in [Requests -> Pcs]
    /\ replyTo \in [Requests -> BOOLEAN]
    /\ attempt \in [Requests -> 0..(MaxRetries + 1)]
    /\ sent \in [Requests -> [Subjects -> Nat]]
    /\ replies \in [Requests -> Nat]

\* A publication keeps the counts of publications counts.
LEMMA PublishType ==
    ASSUME HandlerTypeOK, NEW r \in Requests, NEW subject \in Subjects,
           NEW next \in Pcs, NEW onRaise \in Pcs,
           Publish(r, subject, next, onRaise)
    PROVE  /\ pc' \in [Requests -> Pcs]
           /\ pc'[r] \in {next, onRaise}
           /\ \A q \in Requests \ {r} : pc'[q] = pc[q]
           /\ sent' \in [Requests -> [Subjects -> Nat]]
<1>1. \A q \in Requests : sent'[q] \in [Subjects -> Nat]
  BY DEF HandlerTypeOK, Publish
<1>2. DOMAIN sent' = Requests /\ sent' = [q \in Requests |-> sent'[q]]
  BY DEF HandlerTypeOK, Publish
<1>3. sent' \in [Requests -> [Subjects -> Nat]]
  BY <1>1, <1>2
<1>4. QED
  BY <1>3 DEF HandlerTypeOK, Publish, Goto

\* So does an answer.
LEMMA RespondType ==
    ASSUME HandlerTypeOK, NEW r \in Requests, NEW onRaise \in Pcs, Respond(r, onRaise)
    PROVE  /\ pc' \in [Requests -> Pcs]
           /\ pc'[r] \in {"done", onRaise}
           /\ \A q \in Requests \ {r} : pc'[q] = pc[q]
           /\ replies' \in [Requests -> Nat]
BY DEF HandlerTypeOK, Respond, Goto

\* A step that counts no attempt and enters the loop only where it may.
LEMMA UncountedStep ==
    ASSUME HandlerTypeOK, Bounded, NEW r \in Requests,
           pc' \in [Requests -> Pcs],
           \A q \in Requests \ {r} : pc'[q] = pc[q],
           pc'[r] \in Trying => attempt[r] <= MaxRetries,
           pc'[r] \in {"new", "reject", "rejectReply"} => attempt[r] = 0,
           UNCHANGED <<nc, attempt>>,
           replyTo' \in [Requests -> BOOLEAN],
           sent' \in [Requests -> [Subjects -> Nat]],
           replies' \in [Requests -> Nat]
    PROVE  HandlerTypeOK' /\ Bounded'
<1> HIDE DEF Subjects, Pcs
<1>1. HandlerTypeOK'
    BY DEF HandlerTypeOK
<1>2. Bounded'
    BY DEF Bounded
<1> QED
    BY <1>1, <1>2

\* Every step of the handler of one request keeps the types and the bound.
LEMMA HandleType ==
    ASSUME HandlerTypeOK, Bounded, NEW r \in Requests,
           Receive(r) \/ Handle(r) \/ TtftTimeout(r)
    PROVE  HandlerTypeOK' /\ Bounded'
<1> USE RetryAssumption
<1>1. CASE Receive(r)
  <2>1. /\ pc[r] = "new"
        /\ pc' \in [Requests -> Pcs]
        /\ \A q \in Requests \ {r} : pc'[q] = pc[q]
        /\ pc'[r] \in {"error", "reject", "attempt"}
        /\ replyTo' \in [Requests -> BOOLEAN]
    BY <1>1 DEF Receive, HandlerTypeOK, Goto
  <2>2. UNCHANGED <<nc, attempt, sent, replies>>
    BY <1>1 DEF Receive
  <2>3. QED
    BY <2>1, <2>2, UncountedStep DEF HandlerTypeOK, Bounded, Trying
<1>2. CASE Reject(r)
  <2>1. /\ pc[r] = "reject"
        /\ pc' \in [Requests -> Pcs]
        /\ \A q \in Requests \ {r} : pc'[q] = pc[q]
        /\ pc'[r] \in {"rejectReply", "error"}
        /\ sent' \in [Requests -> [Subjects -> Nat]]
    BY <1>2, PublishType DEF Reject
  <2>2. UNCHANGED <<nc, replyTo, attempt, replies>>
    BY <1>2 DEF Reject
  <2>3. QED
    BY <2>1, <2>2, UncountedStep DEF HandlerTypeOK, Bounded, Trying
<1>3. CASE ReplyRejected(r)
  <2>1. /\ pc[r] = "rejectReply"
        /\ pc' \in [Requests -> Pcs]
        /\ \A q \in Requests \ {r} : pc'[q] = pc[q]
        /\ pc'[r] \in {"done", "error"}
        /\ replies' \in [Requests -> Nat]
    BY <1>3, RespondType DEF ReplyRejected
  <2>2. UNCHANGED <<nc, replyTo, attempt, sent>>
    BY <1>3 DEF ReplyRejected
  <2>3. QED
    BY <2>1, <2>2, UncountedStep DEF HandlerTypeOK, Bounded, Trying
<1>4. CASE Attempt(r)
  <2>1. /\ pc[r] = "attempt"
        /\ pc' \in [Requests -> Pcs]
        /\ \A q \in Requests \ {r} : pc'[q] = pc[q]
        /\ pc'[r] \in {"first"}
    BY <1>4, SMT DEF Attempt, HandlerTypeOK, Goto
  <2>2. UNCHANGED <<nc, replyTo, attempt, sent, replies>>
    BY <1>4 DEF Attempt
  <2>3. QED
    BY <2>1, <2>2, UncountedStep DEF HandlerTypeOK, Bounded, Trying
<1>5. CASE PublishChunk(r)
  <2>1. /\ pc[r] \in {"first", "stream"}
        /\ pc' \in [Requests -> Pcs]
        /\ \A q \in Requests \ {r} : pc'[q] = pc[q]
        /\ pc'[r] \in {"stream", "error"}
        /\ sent' \in [Requests -> [Subjects -> Nat]]
    BY <1>5, PublishType DEF PublishChunk
  <2>2. UNCHANGED <<nc, replyTo, attempt, replies>>
    BY <1>5 DEF PublishChunk
  <2>3. QED
    BY <2>1, <2>2, UncountedStep DEF HandlerTypeOK, Bounded, Trying
<1>6. CASE AttemptFails(r) \/ TtftTimeout(r)
  <2>1. /\ pc[r] \in {"first", "stream"}
        /\ pc' \in [Requests -> Pcs]
        /\ \A q \in Requests \ {r} : pc'[q] = pc[q]
        /\ pc'[r] = "retry"
    BY <1>6 DEF AttemptFails, TtftTimeout, HandlerTypeOK, Goto
  <2>2. UNCHANGED <<nc, replyTo, attempt, sent, replies>>
    BY <1>6 DEF AttemptFails, TtftTimeout
  <2>3. QED
    BY <2>1, <2>2, UncountedStep DEF HandlerTypeOK, Bounded, Trying
<1>7. CASE Retry(r)
  <2>1. /\ pc[r] = "retry"
        /\ attempt[r] \in 0..MaxRetries
    BY <1>7 DEF HandlerTypeOK, Retry, Bounded, Trying
  <2>2. /\ pc' \in [Requests -> Pcs]
        /\ \A q \in Requests \ {r} : pc'[q] = pc[q]
        /\ pc'[r] \in {"attempt", "dlq", "error"}
        /\ pc'[r] = "attempt" => attempt[r] < MaxRetries
        /\ sent' \in [Requests -> [Subjects -> Nat]]
    <3>1. CASE attempt[r] = 0
      BY <1>7, <3>1, PublishType DEF HandlerTypeOK, Retry
    <3>2. CASE attempt[r] # 0
      BY <1>7, <3>2 DEF HandlerTypeOK, Retry, Goto
    <3>3. QED
      BY <3>1, <3>2
  <2>3. /\ attempt' \in [Requests -> 0..(MaxRetries + 1)]
        /\ attempt'[r] <= attempt[r] + 1
        /\ \A q \in Requests \ {r} : attempt'[q] = attempt[q]
    BY <1>7, <2>1 DEF HandlerTypeOK, Retry
  <2>4. nc' = nc /\ replyTo' = replyTo /\ replies' = replies
    BY <1>7 DEF Retry
  <2>5. QED
    BY <2>1, <2>2, <2>3, <2>4 DEF HandlerTypeOK, Bounded, Trying
<1>8. CASE DeadLetter(r)
  <2>1. /\ pc[r] = "dlq"
        /\ pc' \in [Requests -> Pcs]
        /\ \A q \in Requests \ {r} : pc'[q] = pc[q]
        /\ pc'[r] \in {"done", "error"}
        /\ sent' \in [Requests -> [Subjects -> Nat]]
    BY <1>8, PublishType DEF DeadLetter
  <2>2. UNCHANGED <<nc, replyTo, attempt, replies>>
    BY <1>8 DEF DeadLetter
  <2>3. QED
    BY <2>1, <2>2, UncountedStep DEF HandlerTypeOK, Bounded, Trying
<1>9. CASE GraphFails(r) \/ StreamDone(r)
  <2>1. /\ pc[r] \in {"first", "stream"}
        /\ pc' \in [Requests -> Pcs]
        /\ \A q \in Requests \ {r} : pc'[q] = pc[q]
        /\ pc'[r] \in {"error", "check"}
    BY <1>9 DEF GraphFails, StreamDone, HandlerTypeOK, Goto
  <2>2. UNCHANGED <<nc, replyTo, attempt, sent, replies>>
    BY <1>9 DEF GraphFails, StreamDone
  <2>3. QED
    BY <2>1, <2>2, UncountedStep DEF HandlerTypeOK, Bounded, Trying
<1>10. CASE Intercept(r)
  <2>1. /\ pc[r] = "check"
        /\ pc' \in [Requests -> Pcs]
        /\ \A q \in Requests \ {r} : pc'[q] = pc[q]
        /\ pc'[r] \in {"done", "error"}
        /\ sent' \in [Requests -> [Subjects -> Nat]]
    BY <1>10, PublishType DEF Intercept
  <2>2. UNCHANGED <<nc, replyTo, attempt, replies>>
    BY <1>10 DEF Intercept
  <2>3. QED
    BY <2>1, <2>2, UncountedStep DEF HandlerTypeOK, Bounded, Trying
<1>11. CASE Complete(r)
  <2>1. /\ pc[r] = "check"
        /\ pc' \in [Requests -> Pcs]
        /\ \A q \in Requests \ {r} : pc'[q] = pc[q]
        /\ pc'[r] \in {"reply", "error"}
        /\ sent' \in [Requests -> [Subjects -> Nat]]
    BY <1>11, PublishType DEF Complete
  <2>2. UNCHANGED <<nc, replyTo, attempt, replies>>
    BY <1>11 DEF Complete
  <2>3. QED
    BY <2>1, <2>2, UncountedStep DEF HandlerTypeOK, Bounded, Trying
<1>12. CASE ReplyCompleted(r)
  <2>1. /\ pc[r] = "reply"
        /\ pc' \in [Requests -> Pcs]
        /\ \A q \in Requests \ {r} : pc'[q] = pc[q]
        /\ pc'[r] \in {"done", "error"}
        /\ replies' \in [Requests -> Nat]
    BY <1>12, RespondType DEF ReplyCompleted
  <2>2. UNCHANGED <<nc, replyTo, attempt, sent>>
    BY <1>12 DEF ReplyCompleted
  <2>3. QED
    BY <2>1, <2>2, UncountedStep DEF HandlerTypeOK, Bounded, Trying
<1>13. CASE ReportError(r)
  <2>1. /\ pc[r] = "error"
        /\ pc' \in [Requests -> Pcs]
        /\ \A q \in Requests \ {r} : pc'[q] = pc[q]
        /\ pc'[r] \in {"errorReply", "done"}
        /\ sent' \in [Requests -> [Subjects -> Nat]]
    BY <1>13, PublishType DEF ReportError
  <2>2. UNCHANGED <<nc, replyTo, attempt, replies>>
    BY <1>13 DEF ReportError
  <2>3. QED
    BY <2>1, <2>2, UncountedStep DEF HandlerTypeOK, Bounded, Trying
<1>14. CASE ReplyError(r)
  <2>1. /\ pc[r] = "errorReply"
        /\ pc' \in [Requests -> Pcs]
        /\ \A q \in Requests \ {r} : pc'[q] = pc[q]
        /\ pc'[r] \in {"done"}
        /\ replies' \in [Requests -> Nat]
    BY <1>14, RespondType DEF ReplyError
  <2>2. UNCHANGED <<nc, replyTo, attempt, sent>>
    BY <1>14 DEF ReplyError
  <2>3. QED
    BY <2>1, <2>2, UncountedStep DEF HandlerTypeOK, Bounded, Trying
<1>15. QED
  BY <1>1, <1>2, <1>3, <1>4, <1>5, <1>6, <1>7, <1>8, <1>9, <1>10,
     <1>11, <1>12, <1>13, <1>14 DEF Handle

\* Types and the bound hold in every reachable state.
LEMMA TypeInvariant == Spec => [](TypeOK /\ Bounded)
<1>1. Init => TypeOK /\ Bounded
  BY MaxTokensAssumption, RetryAssumption
  DEF Init, StreamInit, TypeOK, StreamTypeOK, Bounded
<1>2. TypeOK /\ Bounded /\ [Next]_vars => TypeOK' /\ Bounded'
  <2> SUFFICES ASSUME TypeOK, Bounded, [Next]_vars
               PROVE  TypeOK' /\ Bounded'
    OBVIOUS
  <2>1. StreamTypeOK /\ HandlerTypeOK
    BY DEF TypeOK, HandlerTypeOK
  <2>2. CASE UNCHANGED vars
    BY <2>2 DEF vars, streamVars, TypeOK, StreamTypeOK, Bounded
  <2>3. CASE Close
    BY <2>3 DEF Close, streamVars, TypeOK, StreamTypeOK, Bounded
  <2>4. ASSUME NEW r \in Requests, Receive(r) \/ Handle(r) \/ TtftTimeout(r)
        PROVE  TypeOK' /\ Bounded'
    <3>1. HandlerTypeOK' /\ Bounded'
      BY <2>1, <2>4, HandleType
    <3>2. StreamStep(r) \/ UNCHANGED streamVars
      BY <2>4 DEF Receive, Handle, TtftTimeout, Reject, ReplyRejected, Attempt,
                  PublishChunk, AttemptFails, Retry, DeadLetter, GraphFails,
                  StreamDone, Intercept, Complete, ReplyCompleted, ReportError, ReplyError,
                  StreamStep, Continue
    <3>3. StreamTypeOK'
      BY <2>1, <3>2, StreamTypeStep DEF StreamTypeOK, streamVars
    <3>4. QED
      BY <3>1, <3>3 DEF TypeOK, HandlerTypeOK
  <2>5. ASSUME NEW r \in Requests, Stream(r) \/ Background(r)
        PROVE  TypeOK' /\ Bounded'
    BY <2>1, <2>5, StreamTypeStep DEF Stream, Background, StreamStep, Continue, TypeOK, Bounded
  <2>6. QED
    BY <2>2, <2>3, <2>4, <2>5 DEF Next
<1>3. QED
  BY <1>1, <1>2, PTL DEF Spec

\* Type correctness, for every value of the constants: among others the attempts
\* of a request never exceed MaxRetries + 1 (the loop of _handle).
THEOREM TypeCorrect == Spec => []TypeOK
BY TypeInvariant, PTL

-----------------------------------------------------------------------------
(* One verdict, and nothing after it. *)

HIDE DEF Verdicts, Subjects, Pcs

\* A request whose verdict is out is past every publication: it has only the
\* answer to give, or is in the error path without a connection to publish on.
Answered == {"rejectReply", "reply", "errorReply", "done"}
PastPublishing ==
    \A r \in Requests : VerdictsOf(r) # {} =>
        pc[r] \in Answered \/ (pc[r] = "error" /\ nc # "open")

IInv == TypeOK /\ OneVerdict /\ PastPublishing

\* What a publication does to the verdicts of a request that has none, or that
\* has no connection.
LEMMA PublishVerdict ==
    ASSUME HandlerTypeOK, OneVerdict, NEW r \in Requests, NEW subject \in Subjects,
           NEW next \in Pcs, NEW onRaise \in Pcs,
           Publish(r, subject, next, onRaise),
           VerdictsOf(r) = {} \/ nc # "open"
    PROVE  /\ VerdictsOf(r) # {} => sent'[r] = sent[r]
           /\ \A q \in Requests \ {r} : sent'[q] = sent[q]
           /\ OneVerdict'
           /\ VerdictsOf(r)' # {} =>
                VerdictsOf(r) # {} \/ (subject \in Verdicts /\ pc'[r] = next)
<1>1. CASE nc # "open"
  BY <1>1 DEF Publish, OneVerdict, VerdictsOf
<1>2. CASE nc = "open" /\ VerdictsOf(r) = {}
  <2>1. Verdicts \subseteq Subjects
    BY DEF Subjects
  <2>2. /\ sent' \in [Requests -> [Subjects -> Nat]]
        /\ \A q \in Requests \ {r} : sent'[q] = sent[q]
        /\ \A s \in Subjects : sent'[r][s] = IF s = subject THEN sent[r][s] + 1 ELSE sent[r][s]
        /\ pc'[r] = next
    BY <1>2, PublishType DEF HandlerTypeOK, Publish, Goto
  <2>3. \A v \in Verdicts : sent[r][v] = 0
    BY <1>2, <2>1 DEF VerdictsOf, HandlerTypeOK
  <2>4. \A v \in Verdicts : sent'[r][v] = IF v = subject THEN 1 ELSE 0
    BY <2>1, <2>2, <2>3
  <2>5. OneVerdict'
    BY <2>2, <2>4 DEF OneVerdict, VerdictsOf
  <2>6. VerdictsOf(r)' # {} => subject \in Verdicts
    BY <2>4 DEF VerdictsOf
  <2>7. QED
    BY <1>2, <2>2, <2>5, <2>6
<1>3. QED
  BY <1>1, <1>2

\* Every step of the handler of a request keeps its verdict and adds no other.
LEMMA HandleVerdict ==
    ASSUME IInv, NEW r \in Requests, Receive(r) \/ Handle(r) \/ TtftTimeout(r)
    PROVE  /\ VerdictsOf(r) # {} => sent'[r] = sent[r]
           /\ \A q \in Requests \ {r} : sent'[q] = sent[q] /\ pc'[q] = pc[q]
           /\ OneVerdict'
           /\ VerdictsOf(r)' # {} =>
                pc'[r] \in Answered \/ (pc'[r] = "error" /\ nc' # "open")
<1> DEFINE Goal == /\ VerdictsOf(r) # {} => sent'[r] = sent[r]
                   /\ \A q \in Requests \ {r} : sent'[q] = sent[q] /\ pc'[q] = pc[q]
                   /\ OneVerdict'
                   /\ VerdictsOf(r)' # {} =>
                        pc'[r] \in Answered \/ (pc'[r] = "error" /\ nc' # "open")
<1>1. HandlerTypeOK /\ OneVerdict
  BY DEF IInv, TypeOK, HandlerTypeOK
<1>2. VerdictsOf(r) # {} => pc[r] \in Answered \/ (pc[r] = "error" /\ nc # "open")
  BY DEF IInv, PastPublishing
<1>3. ASSUME NEW subject \in Subjects, NEW next \in Pcs, NEW onRaise \in Pcs,
             Publish(r, subject, next, onRaise), nc' = nc,
             pc[r] \notin Answered,
             subject \in Verdicts => next \in Answered,
             pc[r] = "error" => onRaise = "done" /\ next = "errorReply"
      PROVE  Goal
  <2>1. VerdictsOf(r) = {} \/ nc # "open"
    BY <1>2, <1>3
  <2>2. /\ VerdictsOf(r) # {} => sent'[r] = sent[r]
        /\ \A q \in Requests \ {r} : sent'[q] = sent[q]
        /\ OneVerdict'
        /\ VerdictsOf(r)' # {} =>
             VerdictsOf(r) # {} \/ (subject \in Verdicts /\ pc'[r] = next)
    BY <1>1, <1>3, <2>1, PublishVerdict
  <2>3. pc'[r] \in {next, onRaise} /\ \A q \in Requests \ {r} : pc'[q] = pc[q]
    BY <1>1, <1>3, PublishType
  <2>4. VerdictsOf(r) # {} => pc'[r] \in Answered
    BY <1>2, <1>3, <2>3 DEF Answered
  <2>5. QED
    BY <1>3, <2>2, <2>3, <2>4
<1>4. ASSUME NEW onRaise \in {"error", "done"}, Respond(r, onRaise), sent' = sent, nc' = nc
      PROVE  Goal
  <2>1. /\ pc'[r] = "done" \/ (pc'[r] = "error" /\ nc' # "open")
        /\ \A q \in Requests \ {r} : pc'[q] = pc[q]
    BY <1>1, <1>4 DEF Respond, Goto, HandlerTypeOK
  <2>2. OneVerdict'
    BY <1>1, <1>4 DEF OneVerdict, VerdictsOf
  <2>3. QED
    BY <1>4, <2>1, <2>2 DEF Answered
<1>5. ASSUME NEW label \in Pcs, Goto(r, label), sent' = sent,
             pc[r] \notin Answered \union {"error"}
      PROVE  Goal
  <2>1. VerdictsOf(r) = {} /\ VerdictsOf(r)' = {}
    BY <1>2, <1>5 DEF VerdictsOf
  <2>2. OneVerdict'
    BY <1>1, <1>5 DEF OneVerdict, VerdictsOf
  <2>3. \A q \in Requests \ {r} : sent'[q] = sent[q] /\ pc'[q] = pc[q]
    BY <1>1, <1>5 DEF Goto, HandlerTypeOK
  <2>4. QED
    BY <2>1, <2>2, <2>3
<1> SUFFICES Goal
  OBVIOUS
<1> HIDE DEF Goal
<1>6. CASE Receive(r) \/ Attempt(r) \/ TtftTimeout(r) \/ AttemptFails(r)
             \/ GraphFails(r) \/ StreamDone(r)
  <2>1. PICK label \in {"error", "reject", "attempt", "first", "retry", "check"} :
           Goto(r, label) /\ sent' = sent
    BY <1>6 DEF Receive, Attempt, TtftTimeout, AttemptFails, GraphFails, StreamDone
  <2>2. pc[r] \in {"new", "attempt", "first", "stream"}
    BY <1>6 DEF Receive, Attempt, TtftTimeout, AttemptFails, GraphFails, StreamDone
  <2>3. QED
    BY <1>5, <2>1, <2>2 DEF Answered, Pcs
<1>7. CASE Reject(r)
  BY <1>3, <1>7 DEF Reject, Answered, Subjects, Verdicts, Pcs
<1>8. CASE PublishChunk(r)
  BY <1>3, <1>8 DEF PublishChunk, Answered, Subjects, Verdicts, Pcs
<1>9. CASE Retry(r)
  <2>1. CASE attempt[r] = 0
    BY <1>3, <1>9, <2>1 DEF Retry, Answered, Subjects, Verdicts, Pcs
  <2>2. CASE attempt[r] # 0
    BY <1>5, <1>9, <2>2 DEF Retry, Answered, Subjects, Verdicts, Pcs
  <2>3. QED
    BY <2>1, <2>2
<1>10. CASE DeadLetter(r)
  BY <1>3, <1>10 DEF DeadLetter, Answered, Subjects, Verdicts, Pcs
<1>11. CASE Intercept(r) \/ Complete(r)
  BY <1>3, <1>11 DEF Intercept, Complete, Answered, Subjects, Verdicts, Pcs
<1>12. CASE ReportError(r)
  BY <1>3, <1>12 DEF ReportError, Answered, Subjects, Verdicts, Pcs
<1>13. CASE ReplyRejected(r) \/ ReplyCompleted(r) \/ ReplyError(r)
  BY <1>4, <1>13 DEF ReplyRejected, ReplyCompleted, ReplyError
<1>14. QED
  BY <1>6, <1>7, <1>8, <1>9, <1>10, <1>11, <1>12, <1>13 DEF Handle

\* Every step keeps the invariant, and publishes nothing for a request that has
\* its verdict.
LEMMA VerdictStep ==
    ASSUME IInv, [Next]_vars
    PROVE  /\ OneVerdict' /\ PastPublishing'
           /\ \A r \in Requests : VerdictsOf(r) # {} => sent'[r] = sent[r]
<1>1. CASE UNCHANGED vars
  BY <1>1 DEF vars, IInv, OneVerdict, PastPublishing, VerdictsOf
<1>2. CASE Close
  BY <1>2 DEF Close, IInv, OneVerdict, PastPublishing, VerdictsOf
<1>3. ASSUME NEW r \in Requests, Receive(r) \/ Handle(r) \/ TtftTimeout(r)
      PROVE  /\ OneVerdict' /\ PastPublishing'
             /\ \A q \in Requests : VerdictsOf(q) # {} => sent'[q] = sent[q]
  <2>1. /\ VerdictsOf(r) # {} => sent'[r] = sent[r]
        /\ \A q \in Requests \ {r} : sent'[q] = sent[q] /\ pc'[q] = pc[q]
        /\ OneVerdict'
        /\ VerdictsOf(r)' # {} =>
             pc'[r] \in Answered \/ (pc'[r] = "error" /\ nc' # "open")
    BY <1>3, HandleVerdict
  <2>2. nc' = nc
    BY <1>3 DEF Receive, Handle, TtftTimeout, Reject, ReplyRejected, Attempt,
                PublishChunk, AttemptFails, Retry, DeadLetter, GraphFails,
                StreamDone, Intercept, Complete, ReplyCompleted, ReportError, ReplyError
  <2>3. ASSUME NEW q \in Requests \ {r}, VerdictsOf(q)' # {}
        PROVE  pc'[q] \in Answered \/ (pc'[q] = "error" /\ nc' # "open")
    <3>1. VerdictsOf(q) # {}
      BY <2>1, <2>3 DEF VerdictsOf
    <3>2. QED
      BY <2>1, <2>2, <3>1 DEF IInv, PastPublishing
  <2>4. PastPublishing'
    BY <2>1, <2>3 DEF PastPublishing
  <2>5. QED
    BY <2>1, <2>4
<1>4. ASSUME NEW r \in Requests, Stream(r) \/ Background(r)
      PROVE  UNCHANGED <<nc, pc, sent>>
  BY <1>4 DEF Stream, Background
<1>5. CASE \E r \in Requests : Stream(r) \/ Background(r)
  BY <1>4, <1>5 DEF IInv, OneVerdict, PastPublishing, VerdictsOf
<1>6. QED
  BY <1>1, <1>2, <1>3, <1>5 DEF Next

\* The verdict invariant holds in every reachable state.
LEMMA VerdictInvariant == Spec => []IInv
<1>1. Init => OneVerdict /\ PastPublishing
  BY DEF Init, OneVerdict, PastPublishing, VerdictsOf, Subjects
<1>2. IInv /\ [Next]_vars => OneVerdict' /\ PastPublishing'
  BY VerdictStep
<1>3. QED
  BY <1>1, <1>2, TypeCorrect, PTL DEF Spec, IInv

\* A request gets at most one verdict, once, however its attempts, its timer,
\* the closing connection and other requests interleave.
THEOREM AtMostOneVerdict == Spec => []OneVerdict
BY VerdictInvariant, PTL DEF IInv

\* Nothing is published for a request after its verdict.
THEOREM NothingAfterTheVerdict == Spec => VerdictIsFinal
<1>1. IInv /\ [Next]_vars =>
        [\A r \in Requests : VerdictsOf(r) # {} => sent'[r] = sent[r]]_vars
  BY VerdictStep
<1>2. QED
  BY <1>1, VerdictInvariant, PTL DEF Spec, VerdictIsFinal

-----------------------------------------------------------------------------
(* The conversation. *)

USE DEF Verdicts, Subjects, Pcs

\* What a step does to the generators and the memory.
StreamChange ==
    \/ \E r \in Requests : (Start(r) /\ pc[r] = "attempt") \/ Continue(r)
    \/ UNCHANGED streamVars

LEMMA StepChangesStream ==
    ASSUME [Next]_vars
    PROVE  StreamChange
<1>1. CASE UNCHANGED vars \/ Close
  BY <1>1 DEF vars, Close, StreamChange
<1>2. CASE \E r \in Requests : Receive(r) \/ Handle(r) \/ TtftTimeout(r)
  BY <1>2 DEF Receive, Handle, TtftTimeout, Reject, ReplyRejected, Attempt,
     PublishChunk, AttemptFails, Retry, DeadLetter, GraphFails, StreamDone,
     Intercept, Complete, ReplyCompleted, ReportError, ReplyError, StreamChange, Continue
<1>3. CASE \E r \in Requests : Stream(r) \/ Background(r)
  BY <1>3 DEF Stream, Background, StreamChange, Continue
<1>4. QED
  BY <1>1, <1>2, <1>3 DEF Next

\* There is never an ai turn without its human turn, whatever is cancelled or
\* fails (the two shielded saves at the end of stream_graph).
THEOREM AiTurnsAreFollowers == Spec => []AiFollowsHuman
<1>1. Init => AiCovered
  <2> SUFFICES ASSUME Init, NEW r \in Requests
               PROVE  turns[r]["ai"] + detached[r]["ai"] + AiToCome(r) <= turns[r]["human"]
    BY DEF AiCovered
  <2>1. gen[r] = "idle" /\ turns[r] = [role \in Roles |-> 0] /\ detached[r] = [role \in Roles |-> 0]
    BY DEF Init, StreamInit
  <2>2. turns[r]["ai"] = 0 /\ turns[r]["human"] = 0 /\ detached[r]["ai"] = 0 /\ AiToCome(r) = 0
    BY <2>1 DEF AiToCome
  <2>3. QED
    BY <2>2
<1>2. TypeOK /\ AiCovered /\ [Next]_vars => AiCovered'
  BY StepChangesStream, AiCoveredStep DEF TypeOK, StreamChange, StreamStep, streamVars, AiCovered, AiToCome
<1>3. TypeOK /\ AiCovered => AiFollowsHuman
  <2> SUFFICES ASSUME TypeOK, AiCovered, NEW r \in Requests
               PROVE  turns[r]["ai"] + detached[r]["ai"] <= turns[r]["human"]
    BY DEF AiFollowsHuman
  <2>1. turns[r] \in [Roles -> Nat] /\ detached[r] \in [Roles -> Nat]
    BY DEF TypeOK, StreamTypeOK
  <2>2. AiToCome(r) \in {0, 1}
    BY DEF AiToCome
  <2>3. QED
    BY <2>1, <2>2 DEF AiCovered
<1>4. QED
  BY <1>1, <1>2, <1>3, TypeCorrect, PTL DEF Spec

\* A handler that has consumed its stream, or announced its result, has both
\* turns in the memory or a failed save.
RememberedAt(r) == pc[r] = "check" \/ sent[r]["result"] > 0
Remembered == \A r \in Requests : RememberedAt(r) /\ ~unsaved[r] => BothSaved(r)

LEMMA ResultSent ==
    ASSUME TypeOK, [Next]_vars, NEW r \in Requests, RememberedAt(r)'
    PROVE  RememberedAt(r) \/ StreamDone(r)
<1> USE DEF TypeOK, RememberedAt
<1>1. CASE UNCHANGED vars \/ Close
  BY <1>1 DEF vars, Close
<1>2. CASE \E q \in Requests : Stream(q) \/ Background(q)
  BY <1>2 DEF Stream, Background
<1>3. ASSUME NEW q \in Requests, Receive(q) \/ ReplyRejected(q) \/ Attempt(q) \/ TtftTimeout(q)
               \/ AttemptFails(q) \/ GraphFails(q) \/ StreamDone(q) \/ ReplyCompleted(q) \/ ReplyError(q)
      PROVE  RememberedAt(r) \/ StreamDone(r)
  BY <1>3 DEF Receive, ReplyRejected, Attempt, TtftTimeout, AttemptFails, GraphFails, StreamDone,
     ReplyCompleted, ReplyError, Respond, Goto
<1>4. ASSUME NEW q \in Requests, Reject(q) \/ PublishChunk(q) \/ DeadLetter(q) \/ Intercept(q)
               \/ Complete(q) \/ ReportError(q) \/ Retry(q)
      PROVE  RememberedAt(r)
  BY <1>4 DEF Reject, PublishChunk, DeadLetter, Intercept, Complete, ReportError, Retry, Publish, Goto
<1>5. QED
  BY <1>1, <1>2, <1>3, <1>4 DEF Next, Handle

\* A result is announced after both turns are saved (the saves come before the
\* end of stream_graph), and no later step of the request changes that.
THEOREM ResultsAreRemembered == Spec => []ResultIsRemembered
<1> DEFINE Inv == SavedInOrder /\ Remembered
<1>1. Init => Inv
  BY DEF Init, StreamInit, SavedInOrder, Remembered, RememberedAt
<1>2. IInv /\ Inv /\ [Next]_vars => Inv'
  <2> SUFFICES ASSUME IInv, Inv, [Next]_vars
               PROVE  Inv'
    OBVIOUS
  <2>1. /\ SavedInOrder'
        /\ \A r \in Requests : BothSaved(r) => BothSaved(r)'
        /\ \A r \in Requests : unsaved[r] => unsaved'[r] \/ pc[r] = "attempt"
    <3>1. StreamTypeOK
      BY DEF IInv, TypeOK
    <3>2. CASE UNCHANGED streamVars
      BY <3>2 DEF streamVars, SavedInOrder, BothSaved
    <3>3. ASSUME NEW r \in Requests, Start(r), pc[r] = "attempt"
          PROVE  /\ SavedInOrder' /\ \A q \in Requests : BothSaved(q) => BothSaved(q)'
                 /\ \A q \in Requests : unsaved[q] => unsaved'[q] \/ pc[q] = "attempt"
      <4>1. SavedInOrder' /\ \A q \in Requests : BothSaved(q) => BothSaved(q)'
        BY <3>1, <3>3, SavedInOrderStep DEF StreamStep
      <4>2. \A q \in Requests \ {r} : unsaved'[q] = unsaved[q]
        BY <3>1, <3>3 DEF Start, StreamTypeOK
      <4>3. QED
        BY <3>3, <4>1, <4>2
    <3>4. ASSUME NEW r \in Requests, Continue(r)
          PROVE  /\ SavedInOrder' /\ \A q \in Requests : BothSaved(q) => BothSaved(q)'
                 /\ \A q \in Requests : unsaved[q] => unsaved'[q]
      BY <3>1, <3>4, SavedInOrderStep, FailureIsKept DEF StreamStep
    <3>5. QED
      BY <3>2, <3>3, <3>4, StepChangesStream DEF StreamChange
  <2>2. ASSUME NEW r \in Requests, RememberedAt(r)', ~unsaved'[r]
        PROVE  BothSaved(r)'
    <3>1. CASE RememberedAt(r)
      <4>1. pc[r] # "attempt"
        BY <3>1 DEF RememberedAt, IInv, PastPublishing, VerdictsOf, Answered
      <4>2. QED
        BY <2>1, <2>2, <3>1, <4>1 DEF Remembered
    <3>2. CASE StreamDone(r)
      <4>1. gen[r] = "stopped" /\ ~unsaved[r]
        BY <2>2, <3>2 DEF StreamDone, Drop
      <4>2. QED
        BY <2>1, <4>1 DEF SavedInOrder
    <3>3. QED
      BY <2>2, <3>1, <3>2, ResultSent DEF IInv
  <2>3. QED
    BY <2>1, <2>2 DEF Remembered
<1>3. Inv => ResultIsRemembered
  BY DEF Remembered, RememberedAt, BothSaved, ResultIsRemembered
<1>4. QED
  BY <1>1, <1>2, <1>3, VerdictInvariant, PTL DEF Spec

-----------------------------------------------------------------------------
(* Answers and dead letters. *)

\* The handler of a request leaves the others alone.
LEMMA OtherRequests ==
    ASSUME HandlerTypeOK, NEW q \in Requests, NEW r \in Requests \ {q},
           Receive(q) \/ Handle(q) \/ TtftTimeout(q)
    PROVE  /\ pc'[r] = pc[r] /\ sent'[r] = sent[r]
           /\ replies'[r] = replies[r] /\ attempt'[r] = attempt[r]
           /\ nc' = nc
<1> USE DEF HandlerTypeOK
<1>1. CASE Receive(q) \/ Attempt(q) \/ TtftTimeout(q) \/ AttemptFails(q) \/ GraphFails(q) \/ StreamDone(q)
  BY <1>1 DEF Receive, Attempt, TtftTimeout, AttemptFails, GraphFails, StreamDone, Goto
<1>2. CASE ReplyRejected(q) \/ ReplyCompleted(q) \/ ReplyError(q)
  BY <1>2 DEF ReplyRejected, ReplyCompleted, ReplyError, Respond, Goto
<1>3. CASE Reject(q) \/ PublishChunk(q) \/ DeadLetter(q) \/ Intercept(q) \/ Complete(q) \/ ReportError(q)
  BY <1>3 DEF Reject, PublishChunk, DeadLetter, Intercept, Complete, ReportError, Publish, Goto
<1>4. CASE Retry(q)
  BY <1>4 DEF Retry, Publish, Goto
<1>5. QED
  BY <1>1, <1>2, <1>3, <1>4 DEF Handle

\* The last act of a handler is its answer, which follows a verdict that went out
\* on the same connection.
Accounted(r) ==
    /\ replies[r] <= 1
    /\ pc[r] # "done" => replies[r] = 0
    /\ nc = "open" =>
         /\ pc[r] = "rejectReply" => sent[r]["rejected"] > 0
         /\ pc[r] = "reply" => sent[r]["result"] > 0
         /\ pc[r] = "errorReply" => sent[r]["error"] > 0
    /\ replies[r] > 0 => \E v \in {"rejected", "result", "error"} : sent[r][v] > 0

\* A dead letter is the last act of a handler too; the durable copy left with the
\* first failed attempt.
Exhausted(r) ==
    /\ pc[r] = "dlq" => attempt[r] = MaxRetries + 1
    /\ pc[r] \in Trying \union {"new", "dlq"} /\ nc = "open" =>
         sent[r]["durable"] = IF attempt[r] = 0 THEN 0 ELSE 1
    /\ sent[r]["dlq"] > 0 =>
         /\ pc[r] = "done" /\ replies[r] = 0
         /\ attempt[r] = MaxRetries + 1
         /\ sent[r]["durable"] = 1

Ledger == \A r \in Requests : Accounted(r) /\ Exhausted(r)

LEMMA HandleLedger ==
    ASSUME HandlerTypeOK, Bounded, NEW r \in Requests, Accounted(r), Exhausted(r),
           Receive(r) \/ Handle(r) \/ TtftTimeout(r)
    PROVE  Accounted(r)' /\ Exhausted(r)'
<1> USE RetryAssumption DEF HandlerTypeOK, Accounted, Exhausted, Trying, Goto
<1>1. CASE Receive(r) \/ Attempt(r) \/ TtftTimeout(r) \/ AttemptFails(r) \/ GraphFails(r) \/ StreamDone(r)
  BY <1>1 DEF Receive, Attempt, TtftTimeout, AttemptFails, GraphFails, StreamDone
<1>2. CASE ReplyRejected(r) \/ ReplyCompleted(r) \/ ReplyError(r)
  BY <1>2 DEF ReplyRejected, ReplyCompleted, ReplyError, Respond
<1>3. CASE Reject(r) \/ ReportError(r)
  BY <1>3 DEF Reject, ReportError, Publish
<1>4. CASE PublishChunk(r)
  BY <1>4 DEF PublishChunk, Publish
<1>5. CASE DeadLetter(r)
  BY <1>5 DEF DeadLetter, Publish
<1>6. CASE Intercept(r) \/ Complete(r)
  BY <1>6 DEF Intercept, Complete, Publish
<1>7. CASE Retry(r)
  BY <1>7 DEF Retry, Publish, Bounded
<1>8. QED
  BY <1>1, <1>2, <1>3, <1>4, <1>5, <1>6, <1>7 DEF Handle

LEMMA LedgerStep ==
    ASSUME TypeOK, Bounded, Ledger, [Next]_vars
    PROVE  Ledger'
<1>1. CASE UNCHANGED vars
  BY <1>1 DEF vars, Ledger, Accounted, Exhausted
<1>2. CASE Close
  BY <1>2 DEF Close, Ledger, Accounted, Exhausted
<1>3. CASE \E r \in Requests : Stream(r) \/ Background(r)
  <2>1. UNCHANGED <<nc, pc, attempt, sent, replies>>
    BY <1>3 DEF Stream, Background
  <2>2. QED
    BY <2>1 DEF Ledger, Accounted, Exhausted
<1>4. ASSUME NEW q \in Requests, Receive(q) \/ Handle(q) \/ TtftTimeout(q), NEW r \in Requests
      PROVE  Accounted(r)' /\ Exhausted(r)'
  <2>1. HandlerTypeOK /\ Accounted(r) /\ Exhausted(r)
    BY DEF TypeOK, HandlerTypeOK, Ledger
  <2>2. CASE r = q
    BY <1>4, <2>1, <2>2, HandleLedger
  <2>3. CASE r # q
    BY <1>4, <2>1, <2>3, OtherRequests DEF Accounted, Exhausted
  <2>4. QED
    BY <2>2, <2>3
<1>5. QED
  BY <1>1, <1>2, <1>3, <1>4 DEF Next, Ledger

LEMMA LedgerInvariant == Spec => []Ledger
<1>1. Init => Ledger
  <2> SUFFICES ASSUME Init, NEW r \in Requests
               PROVE  Accounted(r) /\ Exhausted(r)
    BY DEF Ledger
  <2>1. pc[r] = "new" /\ attempt[r] = 0 /\ replies[r] = 0 /\ \A s \in Subjects : sent[r][s] = 0
    BY DEF Init
  <2>2. QED
    BY <2>1 DEF Accounted, Exhausted
<1>2. TypeOK /\ Bounded /\ Ledger /\ [Next]_vars => Ledger'
  BY LedgerStep
<1>3. QED
  BY <1>1, <1>2, TypeInvariant, PTL DEF Spec

\* A dead letter means that all attempts were used up, that the durable subject
\* got the request once, and that its caller was told nothing (nats_handler.py).
THEOREM DeadLettersAreLast == Spec => []DeadLetterIsLast
<1>1. Ledger => DeadLetterIsLast
  BY DEF Ledger, Exhausted, DeadLetterIsLast
<1>2. QED
  BY <1>1, LedgerInvariant, PTL

-----------------------------------------------------------------------------
(* The contract. *)

\* A request with a verdict has the name of that verdict.
LEMMA VerdictName ==
    ASSUME OneVerdict, NEW r \in Requests, NEW v \in Verdicts, sent[r][v] > 0
    PROVE  VerdictOf(r) = VerdictNames[v]
<1>1. v \in VerdictsOf(r) /\ \A w \in VerdictsOf(r) : w = v
  BY DEF OneVerdict, VerdictsOf
<1>2. (CHOOSE w \in VerdictsOf(r) : TRUE) = v
  BY <1>1
<1>3. QED
  BY <1>1, <1>2 DEF VerdictOf

\* What the contract shows of a request depends on its publications and replies.
LEMMA SameView ==
    ASSUME NEW r \in Requests, sent'[r] = sent[r], replies'[r] = replies[r]
    PROVE  VerdictOf(r)' = VerdictOf(r) /\ AnswerOf(r)' = AnswerOf(r)
<1>1. VerdictsOf(r)' = VerdictsOf(r)
  BY DEF VerdictsOf
<1>2. QED
  BY <1>1 DEF VerdictOf, AnswerOf

\* One step of the handler publishes or answers, never both.
LEMMA PublishesOrAnswers ==
    ASSUME HandlerTypeOK, NEW r \in Requests, Receive(r) \/ Handle(r) \/ TtftTimeout(r)
    PROVE  \/ replies'[r] = replies[r]
           \/ sent' = sent /\ replies'[r] = replies[r] + 1 /\ pc[r] # "done"
<1>1. CASE ReplyRejected(r) \/ ReplyCompleted(r) \/ ReplyError(r)
  BY <1>1 DEF ReplyRejected, ReplyCompleted, ReplyError, Respond, HandlerTypeOK
<1>2. CASE ~(ReplyRejected(r) \/ ReplyCompleted(r) \/ ReplyError(r))
  BY <1>2 DEF Receive, Handle, TtftTimeout, Reject, Attempt, PublishChunk, AttemptFails, Retry,
     DeadLetter, GraphFails, StreamDone, Intercept, Complete, ReportError
<1>3. QED
  BY <1>1, <1>2

\* A step of the handler decides its request, answers it, or shows nothing.
LEMMA HandlerRefines ==
    ASSUME IInv, Ledger, Ledger', [Next]_vars,
           NEW r \in Requests, Receive(r) \/ Handle(r) \/ TtftTimeout(r)
    PROVE  Contract!Next \/ UNCHANGED Contract!contractVars
<1> USE DEF Contract!contractVars
<1>1. HandlerTypeOK /\ OneVerdict
  BY DEF IInv, TypeOK, HandlerTypeOK
<1>2. \A q \in Requests \ {r} : VerdictOf(q)' = VerdictOf(q) /\ AnswerOf(q)' = AnswerOf(q)
  BY <1>1, OtherRequests, SameView
<1>3. VerdictsOf(r) # {} => sent'[r] = sent[r]
  BY VerdictStep
<1>4. replies[r] \in Nat /\ Accounted(r)
  BY <1>1 DEF HandlerTypeOK, Ledger
<1>5. CASE VerdictOf(r)' = VerdictOf(r) /\ AnswerOf(r)' = AnswerOf(r)
  <2>1. \A q \in Requests : VerdictOf(q)' = VerdictOf(q) /\ AnswerOf(q)' = AnswerOf(q)
    BY <1>2, <1>5
  <2>2. QED
    BY <2>1
<1>6. CASE replies'[r] = replies[r]
  <2>1. CASE VerdictsOf(r) # {}
    BY <1>3, <1>5, <1>6, <2>1, SameView
  <2>2. CASE VerdictsOf(r) = {}
    <3>1. replies[r] = 0
      BY <1>4, <2>2 DEF Accounted, VerdictsOf
    <3>2. VerdictOf(r) = "none" /\ AnswerOf(r) = "none" /\ AnswerOf(r)' = "none"
      BY <1>6, <2>2, <3>1 DEF VerdictOf, AnswerOf
    <3>3. CASE VerdictsOf(r)' = {}
      BY <1>5, <3>2, <3>3 DEF VerdictOf
    <3>4. CASE VerdictsOf(r)' # {}
      <4>1. (CHOOSE v \in VerdictsOf(r)' : TRUE) \in Verdicts
        BY <3>4 DEF VerdictsOf
      <4>2. VerdictOf(r)' \in Contract!Answered \union Contract!Silent
        <5>1. \A v \in Verdicts : VerdictNames[v] \in Contract!Answered \union Contract!Silent
          BY DEF VerdictNames, Contract!Answered, Contract!Silent
        <5>2. VerdictOf(r)' = VerdictNames[CHOOSE v \in VerdictsOf(r)' : TRUE]
          BY <3>4 DEF VerdictOf, VerdictNames
        <5>3. QED
          BY <4>1, <5>1, <5>2
      <4>3. Contract!Decide(r)
        BY <1>2, <3>2, <4>2 DEF Contract!Decide
      <4>4. QED
        BY <4>3 DEF Contract!Next
    <3>5. QED
      BY <3>3, <3>4
  <2>3. QED
    BY <2>1, <2>2
<1>7. CASE sent' = sent /\ replies'[r] = replies[r] + 1 /\ pc[r] # "done"
  <2>1. replies[r] = 0 /\ replies'[r] = 1
    BY <1>4, <1>7 DEF Accounted
  <2>2. PICK v \in {"rejected", "result", "error"} : sent[r][v] > 0
    BY <1>7, <2>1 DEF Ledger, Accounted
  <2>3. VerdictsOf(r) # {} /\ VerdictsOf(r)' = VerdictsOf(r)
    BY <1>7, <2>2 DEF VerdictsOf
  <2>4. VerdictOf(r) \in Contract!Answered
    BY <1>1, <2>2, VerdictName DEF VerdictNames, Contract!Answered
  <2>5. VerdictOf(r)' = VerdictOf(r) /\ AnswerOf(r) = "none" /\ AnswerOf(r)' = VerdictOf(r)
    BY <2>1, <2>3 DEF VerdictOf, AnswerOf
  <2>6. Contract!Answer(r)
    BY <1>2, <2>4, <2>5 DEF Contract!Answer
  <2>7. QED
    BY <2>6 DEF Contract!Next
<1>8. QED
  BY <1>1, <1>6, <1>7, PublishesOrAnswers

LEMMA StepRefines ==
    ASSUME IInv, Ledger, Ledger', [Next]_vars
    PROVE  Contract!Next \/ UNCHANGED Contract!contractVars
<1>1. CASE \E r \in Requests : Receive(r) \/ Handle(r) \/ TtftTimeout(r)
  BY <1>1, HandlerRefines
<1>2. CASE ~\E r \in Requests : Receive(r) \/ Handle(r) \/ TtftTimeout(r)
  <2>1. UNCHANGED <<sent, replies>>
    BY <1>2 DEF Next, Close, Stream, Background, vars
  <2>2. \A r \in Requests : VerdictOf(r)' = VerdictOf(r) /\ AnswerOf(r)' = AnswerOf(r)
    BY <2>1, SameView
  <2>3. QED
    BY <2>2 DEF Contract!contractVars
<1>3. QED
  BY <1>1, <1>2

\* The handler implements the contract its requesters rely on: decided once, and
\* answered at most once, with the verdict that was published (every return and
\* except clause of _handle).
THEOREM ContractIsHonoured == Spec => HonoursContract
<1>1. Init => Contract!Init
  <2> SUFFICES ASSUME Init, NEW r \in Requests
               PROVE  VerdictOf(r) = "none" /\ AnswerOf(r) = "none"
    BY DEF Contract!Init
  <2>1. replies[r] = 0 /\ \A s \in Subjects : sent[r][s] = 0
    BY DEF Init
  <2>2. VerdictsOf(r) = {}
    BY <2>1 DEF VerdictsOf
  <2>3. QED
    BY <2>1, <2>2 DEF VerdictOf, AnswerOf
<1>2. IInv /\ Ledger /\ Ledger' /\ [Next]_vars => [Contract!Next]_Contract!contractVars
  BY StepRefines
<1>3. QED
  BY <1>1, <1>2, VerdictInvariant, LedgerInvariant, PTL DEF Spec, HonoursContract, Contract!Spec

-----------------------------------------------------------------------------
(* Termination. *)

\* Attempts the handler of a request may still fail.
Rounds(r) ==
    IF pc[r] = "new" THEN MaxRetries + 2
    ELSE IF pc[r] \in {"attempt", "first", "stream", "retry"} THEN MaxRetries + 1 - attempt[r]
    ELSE 0

\* Tokens the attempt may still publish.
Left(r) ==
    IF pc[r] = "attempt" THEN MaxTokens + 1
    ELSE IF pc[r] \in {"first", "stream"} THEN MaxTokens - tokens[r]
    ELSE 0

\* Steps up to the next token or the end of the attempt, or behind the attempts.
PlaceInStream ==
    [search |-> 6, yielded |-> 6, llm |-> 5, saveHuman |-> 4, saveAi |-> 3,
     stopped |-> 2, timeout |-> 2, failure |-> 2, idle |-> 2]
PlaceOutside ==
    [new |-> 0, attempt |-> 0, retry |-> 1, check |-> 6, reject |-> 6, rejectReply |-> 5,
     reply |-> 5, dlq |-> 4, error |-> 3, errorReply |-> 2, done |-> 1]
Place(r) ==
    IF pc[r] \in {"first", "stream"} THEN PlaceInStream[gen[r]] ELSE PlaceOutside[pc[r]]

\* The three, in this order, go down; or nothing happens to the request.
GoesDown(r) ==
    \/ Rounds(r)' < Rounds(r)
    \/ Rounds(r)' = Rounds(r) /\ Left(r)' < Left(r)
    \/ Rounds(r)' = Rounds(r) /\ Left(r)' = Left(r) /\ Place(r)' < Place(r)
Stays(r) == Rounds(r)' = Rounds(r) /\ Left(r)' = Left(r) /\ Place(r)' = Place(r)

HandlerStep(r) == Receive(r) \/ Handle(r) \/ TtftTimeout(r) \/ Stream(r)

\* Every step of a handler and of its generator brings the request nearer to its end.
EveryStepCounts ==
    [][\A r \in Requests : IF HandlerStep(r) THEN GoesDown(r) ELSE Stays(r)]_vars

\* The order has no endless descent.
StepsAreCounted ==
    \A r \in Requests : Rounds(r) \in Nat /\ Left(r) \in Nat /\ Place(r) \in Nat

\* A generator that runs is awaited by the handler of its request.
GeneratorsAreAwaited ==
    \A r \in Requests : pc[r] \notin {"first", "stream"} => gen[r] = "idle"

LEMMA Counted == TypeOK /\ Bounded => StepsAreCounted
<1> SUFFICES ASSUME TypeOK, Bounded, NEW r \in Requests
             PROVE  Rounds(r) \in Nat /\ Left(r) \in Nat /\ Place(r) \in Nat
  BY DEF StepsAreCounted
<1>1. Rounds(r) \in Nat
  BY RetryAssumption DEF Rounds, TypeOK, Bounded, Trying
<1>2. Left(r) \in Nat
  BY MaxTokensAssumption DEF Left, TypeOK, StreamTypeOK
<1>3. Place(r) \in Nat
  <2>1. \A phase \in Phases : PlaceInStream[phase] \in Nat
    BY DEF PlaceInStream
  <2>2. \A label \in Pcs \ {"first", "stream"} : PlaceOutside[label] \in Nat
    BY DEF PlaceOutside
  <2>3. pc[r] \in Pcs /\ gen[r] \in Phases
    BY DEF TypeOK, StreamTypeOK
  <2>4. QED
    BY <2>1, <2>2, <2>3 DEF Place
<1>4. QED
  BY <1>1, <1>2, <1>3

\* A step inside an attempt: the generator's, or the publication of its token.
LEMMA AttemptGoesDown ==
    ASSUME TypeOK, Bounded, NEW r \in Requests, pc[r] \in {"first", "stream"},
           Stream(r) \/ (PublishChunk(r) /\ nc # "closed")
    PROVE  GoesDown(r)
<1> USE DEF TypeOK, StreamTypeOK
<1>1. /\ pc'[r] \in {"first", "stream"}
      /\ attempt' = attempt
  BY DEF Stream, PublishChunk, Publish, Goto
<1>2. Rounds(r)' = Rounds(r)
  BY <1>1 DEF Rounds
<1>3. CASE Token(r) /\ Stream(r)
  <2>1. tokens'[r] = tokens[r] + 1
    BY <1>3 DEF Token
  <2>2. Left(r)' < Left(r)
    BY <1>1, <2>1, MaxTokensAssumption DEF Left
  <2>3. QED
    BY <1>2, <2>2 DEF GoesDown
<1>4. CASE ~(Token(r) /\ Stream(r))
  <2>1. tokens' = tokens
    BY <1>4 DEF Stream, Generate, SearchDone, StreamEnd, GraphRaises, SaveTurn, SaveFails,
       PublishChunk, Resume
  <2>2. PlaceInStream[gen'[r]] < PlaceInStream[gen[r]]
    BY <1>4 DEF Stream, Generate, SearchDone, StreamEnd, GraphRaises, SaveTurn, SaveFails,
       PublishChunk, Resume, PlaceInStream
  <2>3. Left(r)' = Left(r) /\ Place(r)' < Place(r)
    BY <1>1, <2>1, <2>2 DEF Left, Place
  <2>4. QED
    BY <1>2, <2>3 DEF GoesDown
<1>5. QED
  BY <1>3, <1>4

\* A step that ends an attempt, well or not.
LEMMA AttemptsEndGoesDown ==
    ASSUME TypeOK, Bounded, NEW r \in Requests, pc[r] \in {"first", "stream"},
           pc'[r] \in {"retry", "check", "error"}, attempt' = attempt
    PROVE  GoesDown(r)
<1> USE RetryAssumption, MaxTokensAssumption DEF TypeOK, StreamTypeOK
<1>1. CASE pc'[r] = "retry"
  <2>1. Rounds(r)' = Rounds(r)
    BY <1>1 DEF Rounds
  <2>2. Left(r)' = 0 /\ Left(r) \in Nat
    BY <1>1 DEF Left
  <2>3. Place(r)' = 1 /\ Place(r) \in 2 .. 6
    BY <1>1 DEF Place, PlaceInStream, PlaceOutside
  <2>4. QED
    BY <2>1, <2>2, <2>3 DEF GoesDown
<1>2. CASE pc'[r] # "retry"
  <2>1. Rounds(r)' = 0 /\ Rounds(r) \in Nat \ {0}
    BY <1>2 DEF Rounds, Bounded, Trying
  <2>2. QED
    BY <2>1 DEF GoesDown
<1>3. QED
  BY <1>1, <1>2

\* A step after the last attempt, or of a request that made none.
Behind == {"check", "reject", "rejectReply", "reply", "dlq", "error", "errorReply", "done"}

LEMMA BehindGoesDown ==
    ASSUME NEW r \in Requests, pc[r] \in Behind, pc'[r] \in Behind,
           PlaceOutside[pc'[r]] < PlaceOutside[pc[r]]
    PROVE  GoesDown(r)
<1>1. Rounds(r)' = Rounds(r) /\ Left(r)' = Left(r)
  BY DEF Rounds, Left, Behind
<1>2. Place(r)' < Place(r)
  BY DEF Place, Behind
<1>3. QED
  BY <1>1, <1>2 DEF GoesDown

LEMMA HandlerGoesDown ==
    ASSUME TypeOK, Bounded, GeneratorsAreAwaited, NEW r \in Requests, HandlerStep(r)
    PROVE  GoesDown(r)
<1> USE RetryAssumption, MaxTokensAssumption
<1>type. pc \in [Requests -> Pcs] /\ attempt \in [Requests -> 0 .. (MaxRetries + 1)]
  BY DEF TypeOK
<1>1. CASE Receive(r)
  <2>1. pc[r] = "new" /\ pc'[r] \in {"error", "reject", "attempt"} /\ attempt' = attempt
    BY <1>1, <1>type DEF Receive, Goto
  <2>2. Rounds(r)' < Rounds(r)
    BY <2>1, <1>type DEF Rounds
  <2>3. QED
    BY <2>2 DEF GoesDown
<1>2. CASE Attempt(r)
  <2>1. /\ pc[r] = "attempt" /\ pc'[r] = "first" /\ attempt' = attempt
        /\ tokens'[r] = 0
    BY <1>2, <1>type DEF Attempt, Start, Goto, TypeOK, StreamTypeOK
  <2>2. Rounds(r)' = Rounds(r)
    BY <2>1 DEF Rounds
  <2>3. Left(r)' < Left(r)
    BY <2>1 DEF Left
  <2>4. QED
    BY <2>2, <2>3 DEF GoesDown
<1>3. CASE Stream(r) \/ (PublishChunk(r) /\ nc # "closed")
  <2>1. pc[r] \in {"first", "stream"}
    BY <1>3 DEF Stream, Generate, SearchDone, Token, StreamEnd, GraphRaises, SaveTurn, SaveFails,
       PublishChunk, GeneratorsAreAwaited
  <2>2. QED
    BY <1>3, <2>1, AttemptGoesDown
<1>4. CASE TtftTimeout(r) \/ AttemptFails(r) \/ GraphFails(r) \/ StreamDone(r)
             \/ (PublishChunk(r) /\ nc = "closed")
  <2>1. /\ pc[r] \in {"first", "stream"}
        /\ pc'[r] \in {"retry", "check", "error"} /\ attempt' = attempt
    BY <1>4, <1>type DEF TtftTimeout, AttemptFails, GraphFails, StreamDone, PublishChunk, Publish, Goto
  <2>2. QED
    BY <2>1, AttemptsEndGoesDown
<1>5. CASE Retry(r)
  <2>1. /\ pc[r] = "retry" /\ attempt[r] \in 0 .. MaxRetries
        /\ pc'[r] \in {"attempt", "dlq", "error"}
    BY <1>5, <1>type DEF Retry, Publish, Goto, Bounded, Trying
  <2>2. pc'[r] = "attempt" => attempt'[r] = attempt[r] + 1
    BY <1>5, <1>type DEF Retry, Publish, Goto
  <2>3. Rounds(r) = MaxRetries + 1 - attempt[r]
    BY <2>1 DEF Rounds
  <2>4. Rounds(r)' < Rounds(r)
    BY <2>1, <2>2, <2>3, <1>type DEF Rounds
  <2>5. QED
    BY <2>4 DEF GoesDown
<1>6. CASE Reject(r) \/ ReplyRejected(r) \/ DeadLetter(r) \/ Intercept(r) \/ Complete(r)
             \/ ReplyCompleted(r) \/ ReportError(r) \/ ReplyError(r)
  <2>1. /\ pc[r] \in Behind /\ pc'[r] \in Behind
        /\ PlaceOutside[pc'[r]] < PlaceOutside[pc[r]]
    BY <1>6, <1>type DEF Reject, ReplyRejected, DeadLetter, Intercept, Complete, ReplyCompleted,
       ReportError, ReplyError, Publish, Respond, Goto, Behind, PlaceOutside
  <2>2. QED
    BY <2>1, BehindGoesDown
<1>7. QED
  BY <1>1, <1>2, <1>3, <1>4, <1>5, <1>6 DEF HandlerStep, Handle

\* What happens to other requests, to the connection and in the background.
LEMMA OthersStay ==
    ASSUME TypeOK, [Next]_vars, NEW r \in Requests, ~HandlerStep(r)
    PROVE  Stays(r) /\ pc'[r] = pc[r] /\ gen'[r] = gen[r]
<1>1. /\ pc'[r] = pc[r] /\ attempt'[r] = attempt[r]
      /\ gen'[r] = gen[r] /\ tokens'[r] = tokens[r]
  <2>1. CASE UNCHANGED vars \/ Close \/ \E q \in Requests : Background(q)
    BY <2>1 DEF vars, streamVars, Close, Background, DetachedSave
  <2>2. ASSUME NEW q \in Requests \ {r}, Receive(q) \/ Handle(q) \/ TtftTimeout(q)
        PROVE  /\ pc'[r] = pc[r] /\ attempt'[r] = attempt[r]
               /\ gen'[r] = gen[r] /\ tokens'[r] = tokens[r]
    <3>1. pc'[r] = pc[r] /\ attempt'[r] = attempt[r]
      BY <2>2, OtherRequests DEF TypeOK, HandlerTypeOK
    <3>2. Start(q) \/ Resume(q) \/ Drop(q) \/ Cancel(q) \/ UNCHANGED streamVars
      BY <2>2 DEF Receive, Handle, TtftTimeout, Reject, ReplyRejected, Attempt, PublishChunk,
         AttemptFails, Retry, DeadLetter, GraphFails, StreamDone, Intercept, Complete,
         ReplyCompleted, ReportError, ReplyError
    <3>3. gen'[r] = gen[r] /\ tokens'[r] = tokens[r]
      BY <3>2 DEF Start, Resume, Drop, Cancel, streamVars, TypeOK, StreamTypeOK
    <3>4. QED
      BY <3>1, <3>3
  <2>3. ASSUME NEW q \in Requests \ {r}, Stream(q)
        PROVE  /\ pc'[r] = pc[r] /\ attempt'[r] = attempt[r]
               /\ gen'[r] = gen[r] /\ tokens'[r] = tokens[r]
    BY <2>3 DEF Stream, Generate, SearchDone, Token, StreamEnd, GraphRaises, SaveTurn, SaveFails,
       TypeOK, StreamTypeOK
  <2>4. QED
    BY <2>1, <2>2, <2>3 DEF Next, HandlerStep
<1>2. QED
  BY <1>1 DEF Stays, Rounds, Left, Place

LEMMA AwaitedStep ==
    ASSUME TypeOK, GeneratorsAreAwaited, [Next]_vars
    PROVE  GeneratorsAreAwaited'
<1> SUFFICES ASSUME NEW r \in Requests, pc'[r] \notin {"first", "stream"}
             PROVE  gen'[r] = "idle"
  BY DEF GeneratorsAreAwaited
<1> USE DEF TypeOK, StreamTypeOK
<1>1. CASE ~HandlerStep(r)
  BY <1>1, OthersStay DEF GeneratorsAreAwaited
<1>2. CASE Stream(r)
  BY <1>2 DEF Stream, Generate, SearchDone, Token, StreamEnd, GraphRaises, SaveTurn, SaveFails,
     GeneratorsAreAwaited
<1>3. CASE Attempt(r)
  BY <1>3 DEF Attempt, Goto
<1>4. CASE PublishChunk(r)
  BY <1>4 DEF PublishChunk, Publish, Goto, Drop
<1>5. CASE TtftTimeout(r) \/ AttemptFails(r) \/ GraphFails(r) \/ StreamDone(r)
  BY <1>5 DEF TtftTimeout, AttemptFails, GraphFails, StreamDone, Drop, Cancel
<1>6. CASE Receive(r) \/ Reject(r) \/ ReplyRejected(r) \/ Retry(r) \/ DeadLetter(r) \/ Intercept(r)
             \/ Complete(r) \/ ReplyCompleted(r) \/ ReportError(r) \/ ReplyError(r)
  BY <1>6 DEF Receive, Reject, ReplyRejected, Retry, DeadLetter, Intercept, Complete,
     ReplyCompleted, ReportError, ReplyError, streamVars, GeneratorsAreAwaited
<1>7. QED
  BY <1>1, <1>2, <1>3, <1>4, <1>5, <1>6 DEF HandlerStep, Handle

\* No handler goes on for ever: whatever the LLM streams and however attempts fail,
\* a request takes finitely many steps of _handle and stream_graph, for every
\* number of retries and tokens, because each one goes down in a well-founded order.
THEOREM HandlersTerminate == Spec => []StepsAreCounted /\ EveryStepCounts
<1>1. Init => GeneratorsAreAwaited
  BY DEF Init, StreamInit, GeneratorsAreAwaited
<1>2. TypeOK /\ GeneratorsAreAwaited /\ [Next]_vars => GeneratorsAreAwaited'
  BY AwaitedStep
<1>3. TypeOK /\ Bounded /\ GeneratorsAreAwaited /\ [Next]_vars
        => [\A r \in Requests : IF HandlerStep(r) THEN GoesDown(r) ELSE Stays(r)]_vars
  BY HandlerGoesDown, OthersStay
<1>4. QED
  BY <1>1, <1>2, <1>3, Counted, TypeInvariant, PTL DEF Spec, EveryStepCounts

-----------------------------------------------------------------------------
(* No handler stops short. *)

\* What the fairness has to carry on, by its guards: the handler, the timer of the
\* first token, the generator behind it.
HandleReady(r) ==
    \/ pc[r] \in Pcs \ {"new", "first", "stream", "done"}
    \/ pc[r] \in {"first", "stream"} /\ gen[r] \in {"yielded", "stopped"} \union Raised
TimerReady(r) == pc[r] = "first" /\ gen[r] \in Running
StreamReady(r) == pc[r] = "stream" /\ gen[r] \in Running

\* The steps are possible when their guards say so.
ReadyIsEnabled ==
    \A r \in Requests :
        /\ HandleReady(r) => ENABLED <<Handle(r)>>_vars
        /\ TimerReady(r) => ENABLED <<TtftTimeout(r)>>_vars
        /\ StreamReady(r) => ENABLED <<pc[r] = "stream" /\ Stream(r)>>_vars

\* A handler that awaits a generator has one, and a handler that is through has
\* announced a verdict, as long as the connection is there.
Awaits == \A r \in Requests : pc[r] \in {"first", "stream"} => gen[r] # "idle"
DoneIsDecided == \A r \in Requests : pc[r] = "done" /\ nc = "open" => VerdictsOf(r) # {}

LEMMA AwaitsStep ==
    ASSUME TypeOK, Awaits, [Next]_vars
    PROVE  Awaits'
<1> SUFFICES ASSUME NEW r \in Requests, pc'[r] \in {"first", "stream"}
             PROVE  gen'[r] # "idle"
  BY DEF Awaits
<1>type. pc \in [Requests -> Pcs] /\ gen \in [Requests -> Phases]
  BY DEF TypeOK, StreamTypeOK
<1>1. CASE ~HandlerStep(r)
  BY <1>1, OthersStay DEF Awaits
<1>2. CASE Stream(r)
  <2>1. pc' = pc /\ Generate(r)
    BY <1>2 DEF Stream
  <2>2. gen'[r] # "idle"
    BY <2>1, <1>type DEF Generate, SearchDone, Token, StreamEnd, GraphRaises, Raised, SaveTurn, SaveFails,
       Saving
  <2>3. QED
    BY <2>2
<1>3. CASE Attempt(r)
  BY <1>3, <1>type DEF Attempt, Start
<1>4. CASE PublishChunk(r)
  BY <1>4, <1>type DEF PublishChunk, Publish, Goto, Resume
<1>5. CASE HandlerStep(r) /\ ~(Stream(r) \/ Attempt(r) \/ PublishChunk(r))
  BY <1>5, <1>type DEF HandlerStep, Receive, Handle, Reject, ReplyRejected, AttemptFails, Retry, DeadLetter,
     GraphFails, StreamDone, Intercept, Complete, ReplyCompleted, ReportError, ReplyError, TtftTimeout,
     Publish, Respond, Goto
<1>6. QED
  BY <1>1, <1>2, <1>3, <1>4, <1>5

LEMMA DoneIsDecidedStep ==
    ASSUME IInv, Ledger, DoneIsDecided, [Next]_vars
    PROVE  DoneIsDecided'
<1> SUFFICES ASSUME NEW r \in Requests, pc'[r] = "done", nc' = "open"
             PROVE  VerdictsOf(r)' # {}
  BY DEF DoneIsDecided
<1>type. /\ pc \in [Requests -> Pcs] /\ sent \in [Requests -> [Subjects -> Nat]]
  BY DEF IInv, TypeOK
<1>nc. nc = "open"
  BY DEF Next, Close, Receive, Handle, Reject, ReplyRejected, Attempt, PublishChunk, AttemptFails,
     Retry, DeadLetter, GraphFails, StreamDone, Intercept, Complete, ReplyCompleted, ReportError,
     ReplyError, TtftTimeout, Stream, Background, vars
<1>stay. VerdictsOf(r) # {} => VerdictsOf(r)' # {}
  <2>1. VerdictsOf(r) # {} => sent'[r] = sent[r]
    BY VerdictStep
  <2>2. QED
    BY <2>1 DEF VerdictsOf
<1>0. CASE pc[r] = "done"
  BY <1>0, <1>nc, <1>stay DEF DoneIsDecided
<1>1. CASE ~HandlerStep(r)
  BY <1>1, <1>0, OthersStay DEF IInv
<1>2. CASE ReplyRejected(r) \/ ReplyCompleted(r) \/ ReplyError(r)
  <2>1. pc[r] \in {"rejectReply", "reply", "errorReply"}
    BY <1>2 DEF ReplyRejected, ReplyCompleted, ReplyError
  <2>2. VerdictsOf(r) # {}
    BY <2>1, <1>nc DEF Ledger, Accounted, VerdictsOf, Verdicts
  <2>3. QED
    BY <2>2, <1>stay
<1>3. ASSUME NEW v \in Verdicts, NEW next, NEW onRaise, Publish(r, v, next, onRaise)
      PROVE  VerdictsOf(r)' # {}
  <2>1. sent'[r][v] = sent[r][v] + 1 /\ sent[r][v] \in Nat
    BY <1>3, <1>nc, <1>type DEF Publish, Subjects
  <2>2. QED
    BY <2>1 DEF VerdictsOf
<1>4. CASE DeadLetter(r) \/ Intercept(r) \/ ReportError(r) \/ Reject(r) \/ Complete(r)
  BY <1>4, <1>3 DEF DeadLetter, Intercept, ReportError, Reject, Complete, Verdicts
<1>5. CASE Receive(r) \/ Attempt(r) \/ AttemptFails(r) \/ GraphFails(r) \/ StreamDone(r) \/ TtftTimeout(r)
  BY <1>5, <1>type DEF Receive, Attempt, AttemptFails, GraphFails, StreamDone, TtftTimeout, Goto
<1>6. CASE PublishChunk(r) \/ Retry(r)
  BY <1>6, <1>nc, <1>type DEF PublishChunk, Retry, Publish, Goto
<1>7. CASE Stream(r)
  BY <1>7, <1>0 DEF Stream
<1>8. QED
  BY <1>1, <1>2, <1>4, <1>5, <1>6, <1>7 DEF HandlerStep, Handle

LEMMA NeverStuck == Spec => [](TypeOK /\ Awaits /\ DoneIsDecided)
<1>1. Init => Awaits /\ DoneIsDecided
  BY DEF Init, Awaits, DoneIsDecided
<1>2. TypeOK /\ IInv /\ Ledger /\ Awaits /\ DoneIsDecided /\ [Next]_vars => Awaits' /\ DoneIsDecided'
  BY AwaitsStep, DoneIsDecidedStep
<1>3. QED
  BY <1>1, <1>2, TypeInvariant, VerdictInvariant, LedgerInvariant, PTL DEF Spec

Decided(r) == VerdictsOf(r) # {} \/ nc # "open"

\* What is ready stays so until the handler, its timer or its generator moves.
LEMMA ReadyStays ==
    ASSUME TypeOK, NEW r \in Requests, [Next]_vars
    PROVE  <<HandlerStep(r)>>_vars \/ UNCHANGED <<pc[r], gen[r]>>
<1>1. CASE ~HandlerStep(r)
  BY <1>1, OthersStay
<1>2. CASE UNCHANGED vars
  BY <1>2 DEF vars, streamVars
<1>3. QED
  BY <1>1, <1>2

SettlesOrGoesOn(r) ==
    [](pc[r] # "new" => <>Decided(r) \/ []<><<HandlerStep(r)>>_vars)

LEMMA RequestSettles ==
    ASSUME NEW r \in Requests
    PROVE  [](TypeOK /\ Awaits /\ DoneIsDecided) /\ [][Next]_vars /\ []ReadyIsEnabled /\ FairRequest(r)
             => SettlesOrGoesOn(r)
<1> DEFINE Taken == ~(pc[r] = "new")
<1>1. TypeOK /\ [Next]_vars => /\ <<HandlerStep(r)>>_vars \/ (HandleReady(r) => HandleReady(r)')
                               /\ <<HandlerStep(r)>>_vars \/ (TimerReady(r) => TimerReady(r)')
                               /\ <<HandlerStep(r)>>_vars \/ (StreamReady(r) => StreamReady(r)')
  BY ReadyStays DEF HandleReady, TimerReady, StreamReady
<1>2. /\ <<Handle(r)>>_vars => <<HandlerStep(r)>>_vars
      /\ <<TtftTimeout(r)>>_vars => <<HandlerStep(r)>>_vars
      /\ <<pc[r] = "stream" /\ Stream(r)>>_vars => <<HandlerStep(r)>>_vars
  BY DEF HandlerStep
<1>3. ReadyIsEnabled => /\ HandleReady(r) => ENABLED <<Handle(r)>>_vars
                        /\ TimerReady(r) => ENABLED <<TtftTimeout(r)>>_vars
                        /\ StreamReady(r) => ENABLED <<pc[r] = "stream" /\ Stream(r)>>_vars
  BY DEF ReadyIsEnabled
<1>4. TypeOK /\ Awaits /\ DoneIsDecided /\ Taken
        => Decided(r) \/ HandleReady(r) \/ TimerReady(r) \/ StreamReady(r)
  BY DEF TypeOK, StreamTypeOK, Awaits, DoneIsDecided, Decided, HandleReady, TimerReady, StreamReady, Phases
<1>5. TypeOK /\ [Next]_vars /\ Taken => Taken'
  <2> SUFFICES ASSUME TypeOK, [Next]_vars, Taken PROVE Taken'
    OBVIOUS
  <2>1. CASE HandlerStep(r)
    BY <2>1 DEF TypeOK, HandlerStep, Receive, Handle, Reject, ReplyRejected, Attempt, PublishChunk, AttemptFails,
       Retry, DeadLetter, GraphFails, StreamDone, Intercept, Complete, ReplyCompleted, ReportError,
       ReplyError, TtftTimeout, Stream, Publish, Respond, Goto
  <2>2. QED
    BY <2>1, OthersStay
<1>6. pc[r] # "new" <=> Taken
  OBVIOUS
<1> HIDE DEF Taken
<1>7. QED
  BY <1>1, <1>2, <1>3, <1>4, <1>5, <1>6, PTL DEF FairRequest, SettlesOrGoesOn

\* No handler stops short of its verdict: while the connection is there, a request
\* that has none goes on taking steps, of _handle, of its timer or of its generator,
\* whatever the memory and the LLM do before the first token.  By HandlersTerminate
\* each of these steps goes down in an order without endless descent: the second
\* case cannot be, which is Settles.
THEOREM HandlersNeverStall ==
    Spec /\ []Fairness /\ []ReadyIsEnabled => \A r \in Requests : SettlesOrGoesOn(r)
<1> SUFFICES ASSUME NEW r \in Requests
             PROVE  Spec /\ []Fairness /\ []ReadyIsEnabled => SettlesOrGoesOn(r)
  OBVIOUS
<1>1. Fairness => FairRequest(r)
  BY DEF Fairness
<1>2. [](TypeOK /\ Awaits /\ DoneIsDecided) /\ [][Next]_vars /\ []ReadyIsEnabled /\ FairRequest(r)
        => SettlesOrGoesOn(r)
  BY RequestSettles
<1>3. QED
  BY <1>1, <1>2, NeverStuck, PTL DEF Spec

=============================================================================
