--------------------------- MODULE PulsarHandler ---------------------------
(***************************************************************************)
(* The durable Pulsar consumer of the reasoner: PulsarHandler in           *)
(* pulsar_handler.py, on a Shared subscription.                            *)
(*                                                                         *)
(* A message that is received is held for this process until it is         *)
(* acknowledged or returned to the backlog: by a negative acknowledgement, *)
(* or because the client's connection is gone.  Each delivery is processed *)
(* in a task of its own that calls the graph, sends the result and         *)
(* acknowledges.  The request.received and inference.completed events are  *)
(* sent without waiting, never raise and are left out.                     *)
(***************************************************************************)
EXTENDS AgentGraph

CONSTANTS Messages,     \* messages on the request topic
          Deliveries    \* bound on their deliveries to this service

ASSUME DeliveriesAssumption == Deliveries \subseteq Calls

VARIABLES client,      \* the client: none, open, closed
          consuming,   \* the consume loop: running, cancelled, or nobody receives
          broker,      \* what the subscription knows of a message
          malformed,   \* messages that _process cannot parse
          message,     \* the message of a delivery
          process,     \* where _process stands with a delivery
          results,     \* results sent for a message
          doubtful     \* messages that went back while their task was past its start

pulsarVars == <<client, consuming, broker, malformed, message, process, results, doubtful>>

Working == {"parse", "graph", "send", "acknowledge", "nack"}

PulsarTypeOK ==
    /\ client \in {"none", "open", "closed"}
    /\ consuming \in {"running", "cancelled", "stopped"}
    /\ broker \in [Messages -> {"absent", "backlog", "held", "acked"}]
    /\ malformed \subseteq Messages
    /\ message \in [Deliveries -> Messages]
    /\ process \in [Deliveries -> Working \union {"unused", "ended"}]
    /\ results \in [Messages -> Nat]
    /\ doubtful \subseteq Messages

PulsarInit ==
    /\ client = "none"
    /\ consuming = "stopped"
    /\ broker = [m \in Messages |-> "absent"]
    /\ malformed = {}
    /\ message \in [Deliveries -> Messages]
    /\ process = [d \in Deliveries |-> "unused"]
    /\ results = [m \in Messages |-> 0]
    /\ doubtful = {}

-----------------------------------------------------------------------------
(* The broker, as the handler uses it. *)

Held == {m \in Messages : broker[m] = "held"}
BeingProcessed == {message[d] : d \in {e \in Deliveries : process[e] \in Working}}

\* Without its connection the service holds no message.
Redeliver ==
    /\ broker' = [m \in Messages |-> IF broker[m] = "held" THEN "backlog" ELSE broker[m]]
    /\ doubtful' = doubtful \union (Held \intersect BeingProcessed)

Produce(m) ==
    /\ broker[m] = "absent"
    /\ broker' = [broker EXCEPT ![m] = "backlog"]
    /\ malformed' \in {malformed, malformed \union {m}}
    /\ UNCHANGED <<client, consuming, message, process, results, doubtful, graphVars>>

\* Another replica of the service takes the message and handles it.
HandledElsewhere(m) ==
    /\ broker[m] = "backlog"
    /\ m \notin malformed
    /\ results' = [results EXCEPT ![m] = @ + 1]
    /\ broker' = [broker EXCEPT ![m] = "acked"]
    /\ UNCHANGED <<client, consuming, malformed, message, process, doubtful, graphVars>>

\* The connection breaks and the client restores it.
Reconnect ==
    /\ client = "open"
    /\ Held # {}
    /\ Redeliver
    /\ UNCHANGED <<client, consuming, malformed, message, process, results, graphVars>>

-----------------------------------------------------------------------------
(* The handler. *)

StartPulsar ==
    /\ client' = "open"
    /\ consuming' = "running"
    /\ UNCHANGED <<broker, malformed, message, process, results, doubtful>>

\* The loop receives a message and spawns its task.  The thread of a receive
\* that was waiting when the loop was cancelled may still take one message,
\* which nobody processes.
Receive(d) ==
    /\ client = "open" /\ consuming # "stopped"
    /\ process[d] = "unused"
    /\ broker[message[d]] = "backlog"
    /\ broker' = [broker EXCEPT ![message[d]] = "held"]
    /\ process' = [process EXCEPT ![d] = IF consuming = "running" THEN "parse" ELSE "ended"]
    /\ consuming' = IF consuming = "running" THEN "running" ELSE "stopped"
    /\ UNCHANGED <<client, malformed, message, results, doubtful, graphVars>>

Proceed(d, step) == process' = [process EXCEPT ![d] = step]

Parse(d) ==
    /\ process[d] = "parse"
    /\ IF message[d] \in malformed
       THEN Proceed(d, "nack") /\ UNCHANGED graphVars
       ELSE Proceed(d, "graph") /\ Invoke(d, "retrieve_context")
    /\ UNCHANGED <<client, consuming, broker, malformed, message, results, doubtful>>

\* Path A and an answer are sent and acknowledged, path B is not.
GraphEnds(d) ==
    /\ process[d] = "graph"
    /\ node[d] \in CallEnded
    /\ Proceed(d, IF node[d] = "raised" THEN "nack" ELSE "send")
    /\ UNCHANGED <<client, consuming, broker, malformed, message, results, doubtful, graphVars>>

\* Mutant of SendFails: the outcome of the send is not looked at.
SendFails_Ignored(d) ==
    /\ process[d] = "send"
    /\ Proceed(d, "acknowledge")
    /\ UNCHANGED <<client, consuming, broker, malformed, message, results, doubtful, graphVars>>

SendResult(d) ==
    /\ process[d] = "send"
    /\ client = "open"
    /\ Proceed(d, "acknowledge")
    /\ results' = [results EXCEPT ![message[d]] = @ + 1]
    /\ UNCHANGED <<client, consuming, broker, malformed, message, doubtful, graphVars>>

\* The send raises; it may have reached the topic before it did.
SendFails(d) ==
    /\ process[d] = "send"
    /\ Proceed(d, "nack")
    /\ \/ UNCHANGED <<results, doubtful>>
       \/ /\ client = "open"
          /\ results' = [results EXCEPT ![message[d]] = @ + 1]
          /\ doubtful' = doubtful \union {message[d]}
    /\ UNCHANGED <<client, consuming, broker, malformed, message, graphVars>>

\* Mutant of Acknowledge: it is forgotten.
Acknowledge_Forgotten(d) ==
    /\ process[d] = "acknowledge"
    /\ Proceed(d, "ended")
    /\ Forget({d})
    /\ UNCHANGED <<client, consuming, broker, malformed, message, results, doubtful>>

\* The acknowledgement arrives, or is lost with the connection.
Acknowledge(d) ==
    /\ process[d] = "acknowledge"
    /\ client = "open"
    /\ Proceed(d, "ended")
    /\ \/ broker' = [broker EXCEPT ![message[d]] = "acked"] /\ UNCHANGED doubtful
       \/ Redeliver
    /\ Forget({d})
    /\ UNCHANGED <<client, consuming, malformed, message, results>>

\* It raises: the result is out, and the message goes back all the same.
AcknowledgeFails(d) ==
    /\ process[d] = "acknowledge"
    /\ Proceed(d, "nack")
    /\ doubtful' = doubtful \union {message[d]}
    /\ UNCHANGED <<client, consuming, broker, malformed, message, results, graphVars>>

\* Mutant of Nack: the exception is logged and that is all.
Nack_Missing(d) ==
    /\ process[d] = "nack"
    /\ Proceed(d, "ended")
    /\ Forget({d})
    /\ UNCHANGED <<client, consuming, broker, malformed, message, results, doubtful>>

\* negative_acknowledge; a closed client raises out of the task.
Nack(d) ==
    /\ process[d] = "nack"
    /\ Proceed(d, "ended")
    /\ broker' = IF client = "open" /\ broker[message[d]] = "held"
                 THEN [broker EXCEPT ![message[d]] = "backlog"] ELSE broker
    /\ Forget({d})
    /\ UNCHANGED <<client, consuming, malformed, message, results, doubtful>>

\* close(): first the loop is cancelled, then the client closed; the tasks of
\* the messages in work go on without it.
StopConsuming ==
    /\ consuming = "running"
    /\ consuming' = "cancelled"
    /\ UNCHANGED <<client, broker, malformed, message, process, results, doubtful>>

CloseClient ==
    /\ client' = "closed"
    /\ consuming' = "stopped"
    /\ Redeliver
    /\ UNCHANGED <<malformed, message, process, results>>

\* The process ends.
PulsarExit ==
    /\ client' = "none"
    /\ consuming' = "stopped"
    /\ process' = [d \in Deliveries |-> IF process[d] = "unused" THEN "unused" ELSE "ended"]
    /\ Redeliver
    /\ UNCHANGED <<malformed, message, results>>

Process(d) ==
    \/ Receive(d) \/ Parse(d) \/ GraphEnds(d)
    \/ SendResult(d) \/ SendFails(d)
    \/ Acknowledge(d) \/ AcknowledgeFails(d) \/ Nack(d)

=============================================================================
