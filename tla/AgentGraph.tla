---------------------------- MODULE AgentGraph ----------------------------
(***************************************************************************)
(* One call of the reasoning graph that is not streamed: invoke_graph() in *)
(* graph.py, with the three nodes and the routers of build_graph().        *)
(*                                                                         *)
(* A call may retrieve knowledge first, then runs the graph, and saves the *)
(* human turn, then the ai turn.  The prompt and the texts are left out.   *)
(* The module has no Next of its own: the transports that call             *)
(* invoke_graph drive it.                                                  *)
(***************************************************************************)
EXTENDS Naturals

CONSTANTS Calls,         \* calls of invoke_graph
          MAX_RETRIES    \* MAX_RETRIES in graph.py

ASSUME MaxRetriesAssumption == MAX_RETRIES \in Nat \ {0}

VARIABLES node,          \* where a call stands
          error_count,   \* AgentState.error_count
          is_error,      \* AgentState.is_error
          rows,          \* turns the call has saved: the human one, then the ai one
          unsavedCall    \* the call swallowed a failed save

graphVars == <<node, error_count, is_error, rows, unsavedCall>>

Graph == {"retrieve_context", "error_handler", "generate_response"}
Finished == {"returned", "graceful"}     \* an answer, a GraphErrorResponse
CallEnded == Finished \union {"raised"}    \* or a RuntimeError
Nodes == Graph \union CallEnded \union {"idle", "search", "rerank", "persist"}

GraphTypeOK ==
    /\ node \in [Calls -> Nodes]
    /\ error_count \in [Calls -> 0..(MAX_RETRIES + 1)]
    /\ is_error \in [Calls -> BOOLEAN]
    /\ rows \in [Calls -> 0..2]
    /\ unsavedCall \in [Calls -> BOOLEAN]

GraphInit ==
    /\ node = [c \in Calls |-> "idle"]
    /\ error_count = [c \in Calls |-> 0]
    /\ is_error = [c \in Calls |-> FALSE]
    /\ rows = [c \in Calls |-> 0]
    /\ unsavedCall = [c \in Calls |-> FALSE]

At(c, n) == node' = [node EXCEPT ![c] = n]

\* invoke_graph(...): it searches first when it is given a retriever and stores.
Invoke(c, first) ==
    /\ node[c] = "idle"
    /\ At(c, first)
    /\ UNCHANGED <<error_count, is_error, rows, unsavedCall>>

\* The calls of a set are over, or gone with the process.
Forget(calls) ==
    /\ node' = [c \in Calls |-> IF c \in calls THEN "idle" ELSE node[c]]
    /\ error_count' = [c \in Calls |-> IF c \in calls THEN 0 ELSE error_count[c]]
    /\ is_error' = [c \in Calls |-> IF c \in calls THEN FALSE ELSE is_error[c]]
    /\ rows' = [c \in Calls |-> IF c \in calls THEN 0 ELSE rows[c]]
    /\ unsavedCall' = [c \in Calls |-> IF c \in calls THEN FALSE ELSE unsavedCall[c]]

-----------------------------------------------------------------------------

\* The hybrid search finds candidates, or none, or raises and is given up.
Search(c) ==
    /\ node[c] = "search"
    /\ At(c, "rerank") \/ At(c, "retrieve_context")
    /\ UNCHANGED <<error_count, is_error, rows, unsavedCall>>

\* The reranker, loaded on first use, answers or raises; either way the graph
\* starts, with knowledge or without.
Rerank(c) ==
    /\ node[c] = "rerank"
    /\ At(c, "retrieve_context")
    /\ UNCHANGED <<error_count, is_error, rows, unsavedCall>>

\* _route_after_retrieve: an error goes to error_handler.
RetrieveContext(c) ==
    /\ node[c] = "retrieve_context"
    /\ \/ At(c, "generate_response") /\ UNCHANGED error_count
       \/ At(c, "error_handler") /\ error_count' = [error_count EXCEPT ![c] = @ + 1]
    /\ UNCHANGED <<is_error, rows, unsavedCall>>

\* _route_after_error_handler: generate_response while retries remain, then END.
ErrorHandler(c) ==
    /\ node[c] = "error_handler"
    /\ error_count' = [error_count EXCEPT ![c] = @ + 1]
    /\ is_error' = [is_error EXCEPT ![c] = error_count[c] + 1 >= MAX_RETRIES]
    /\ At(c, IF error_count[c] + 1 < MAX_RETRIES THEN "generate_response" ELSE "persist")
    /\ UNCHANGED <<rows, unsavedCall>>

\* Mutant of GenerateResponse: an LLM error is routed to error_handler.
GenerateResponse_Routed(c) ==
    /\ node[c] = "generate_response"
    /\ \/ /\ At(c, "persist")
          /\ error_count' = [error_count EXCEPT ![c] = 0]
       \/ /\ At(c, "error_handler")
          /\ UNCHANGED error_count
    /\ is_error' = [is_error EXCEPT ![c] = FALSE]
    /\ UNCHANGED <<rows, unsavedCall>>

\* The LLM answers, the count is reset and the graph ends; an exception of the
\* LLM leaves the node, the graph and invoke_graph.
GenerateResponse(c) ==
    /\ node[c] = "generate_response"
    /\ \/ /\ At(c, "persist")
          /\ error_count' = [error_count EXCEPT ![c] = 0]
          /\ is_error' = [is_error EXCEPT ![c] = FALSE]
       \/ At(c, "raised") /\ UNCHANGED <<error_count, is_error>>
    /\ UNCHANGED <<rows, unsavedCall>>

\* Mutant of Persist: the ai turn is saved twice.
Persist_OneMore(c) ==
    /\ node[c] = "persist"
    /\ rows' = [rows EXCEPT ![c] = @ + 1]
    /\ IF rows[c] < 2 THEN UNCHANGED node
       ELSE At(c, IF is_error[c] THEN "graceful" ELSE "returned")
    /\ UNCHANGED <<error_count, is_error, unsavedCall>>

\* memory.save, twice; after the second the call ends.
Persist(c) ==
    /\ node[c] = "persist"
    /\ rows' = [rows EXCEPT ![c] = @ + 1]
    /\ IF rows[c] = 0 THEN UNCHANGED node
       ELSE At(c, IF is_error[c] THEN "graceful" ELSE "returned")
    /\ UNCHANGED <<error_count, is_error, unsavedCall>>

\* A save raises: what was still to be saved is given up, the answer is not.
PersistFails(c) ==
    /\ node[c] = "persist"
    /\ unsavedCall' = [unsavedCall EXCEPT ![c] = TRUE]
    /\ At(c, IF is_error[c] THEN "graceful" ELSE "returned")
    /\ UNCHANGED <<error_count, is_error, rows>>

GraphStep(c) ==
    \/ Search(c) \/ Rerank(c)
    \/ RetrieveContext(c) \/ ErrorHandler(c) \/ GenerateResponse(c)
    \/ Persist(c) \/ PersistFails(c)

-----------------------------------------------------------------------------

\* The answer of a call that ended is in the memory, unless a save failed.
CallIsSaved(c) == node[c] \in Finished => rows[c] = 2 \/ unsavedCall[c]

=============================================================================
