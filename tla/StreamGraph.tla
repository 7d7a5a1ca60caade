---------------------------- MODULE StreamGraph ----------------------------
(***************************************************************************)
(* The token generator of the reasoner: stream_graph() in graph.py.        *)
(*                                                                         *)
(* One generator at a time serves a request.  It searches the memory for   *)
(* context, streams the tokens of the LLM to whoever awaits it, and when   *)
(* the stream ends saves the human turn, then the ai turn, each shielded   *)
(* from cancellation.  A token is only counted; the context, the prompt    *)
(* and the texts are left out.  The module has no Next of its own: the     *)
(* transports that own a generator (NatsHandler) drive it.                 *)
(***************************************************************************)
EXTENDS Naturals

CONSTANTS Requests,    \* the messages that reach the service
          MaxTokens    \* bound on the tokens one LLM answer streams

ASSUME MaxTokensAssumption == MaxTokens \in Nat

VARIABLES gen,        \* where the generator of a request stands
          tokens,     \* tokens the current generator has yielded
          turns,      \* conversation rows committed for a request, per role
          detached,   \* shielded saves that outlived their generator
          unsaved     \* the current generator swallowed a failed save

streamVars == <<gen, tokens, turns, detached, unsaved>>

Roles == {"human", "ai"}
Raised == {"timeout", "failure"}    \* a TimeoutError, any other exception
Saving == {"saveHuman", "saveAi"}
Running == {"search", "llm"} \union Saving
Phases == Running \union Raised \union {"idle", "yielded", "stopped"}

RoleOf(phase) == IF phase = "saveHuman" THEN "human" ELSE "ai"

StreamTypeOK ==
    /\ gen \in [Requests -> Phases]
    /\ tokens \in [Requests -> 0..MaxTokens]
    /\ turns \in [Requests -> [Roles -> Nat]]
    /\ detached \in [Requests -> [Roles -> Nat]]
    /\ unsaved \in [Requests -> BOOLEAN]

StreamInit ==
    /\ gen = [r \in Requests |-> "idle"]
    /\ tokens = [r \in Requests |-> 0]
    /\ turns = [r \in Requests |-> [role \in Roles |-> 0]]
    /\ detached = [r \in Requests |-> [role \in Roles |-> 0]]
    /\ unsaved = [r \in Requests |-> FALSE]

-----------------------------------------------------------------------------
(* What the owner of the generator does to it. *)

\* stream_graph(...) is called and awaited for the first time.
Start(r) ==
    /\ gen' = [gen EXCEPT ![r] = "search"]
    /\ tokens' = [tokens EXCEPT ![r] = 0]
    /\ unsaved' = [unsaved EXCEPT ![r] = FALSE]
    /\ UNCHANGED <<turns, detached>>

\* The owner took the token and awaits the next one.
Resume(r) ==
    /\ gen' = [gen EXCEPT ![r] = "llm"]
    /\ UNCHANGED <<tokens, turns, detached, unsaved>>

\* The owner leaves a generator that is not running any more.
Drop(r) ==
    /\ gen' = [gen EXCEPT ![r] = "idle"]
    /\ UNCHANGED <<tokens, turns, detached, unsaved>>

\* The owner's await is cancelled: CancelledError surfaces where the generator
\* stands, passes its `except Exception`, and leaves a shielded save behind.
Cancel(r) ==
    /\ gen[r] \in Running
    /\ gen' = [gen EXCEPT ![r] = "idle"]
    /\ detached' = IF gen[r] \in Saving
                   THEN [detached EXCEPT ![r][RoleOf(gen[r])] = @ + 1]
                   ELSE detached
    /\ UNCHANGED <<tokens, turns, unsaved>>

-----------------------------------------------------------------------------
(* What the generator does while it is awaited. *)

\* memory.search answers; the graph starts.
SearchDone(r) ==
    /\ gen[r] = "search"
    /\ gen' = [gen EXCEPT ![r] = "llm"]
    /\ UNCHANGED <<tokens, turns, detached, unsaved>>

\* on_chat_model_stream with content: a token is yielded.
Token(r) ==
    /\ gen[r] = "llm"
    /\ tokens[r] < MaxTokens
    /\ gen' = [gen EXCEPT ![r] = "yielded"]
    /\ tokens' = [tokens EXCEPT ![r] = @ + 1]
    /\ UNCHANGED <<turns, detached, unsaved>>

\* Mutant of StreamEnd: both turns are saved in the background.
StreamEnd_SavesLater(r) ==
    /\ gen[r] = "llm"
    /\ gen' = [gen EXCEPT ![r] = "stopped"]
    /\ detached' = [detached EXCEPT ![r] = [role \in Roles |-> @[role] + 1]]
    /\ UNCHANGED <<tokens, turns, unsaved>>

\* The event stream ends, possibly without one token.
StreamEnd(r) ==
    /\ gen[r] = "llm"
    /\ gen' = [gen EXCEPT ![r] = "saveHuman"]
    /\ UNCHANGED <<tokens, turns, detached, unsaved>>

\* memory.search or the graph raises; nothing in stream_graph catches it.
GraphRaises(r) ==
    /\ gen[r] \in {"search", "llm"}
    /\ \E e \in Raised : gen' = [gen EXCEPT ![r] = e]
    /\ UNCHANGED <<tokens, turns, detached, unsaved>>

\* await asyncio.shield(memory.save(...)) commits a turn.
SaveTurn(r) ==
    /\ gen[r] \in Saving
    /\ turns' = [turns EXCEPT ![r][RoleOf(gen[r])] = @ + 1]
    /\ gen' = [gen EXCEPT ![r] = IF @ = "saveHuman" THEN "saveAi" ELSE "stopped"]
    /\ UNCHANGED <<tokens, detached, unsaved>>

\* Mutant of SaveFails: each save has a try of its own.
SaveFails_Continues(r) ==
    /\ gen[r] \in Saving
    /\ gen' = [gen EXCEPT ![r] = IF @ = "saveHuman" THEN "saveAi" ELSE "stopped"]
    /\ unsaved' = [unsaved EXCEPT ![r] = TRUE]
    /\ UNCHANGED <<tokens, turns, detached>>

\* A save raises: the failure is logged and the generator ends normally,
\* without the turns it had yet to save.
SaveFails(r) ==
    /\ gen[r] \in Saving
    /\ gen' = [gen EXCEPT ![r] = "stopped"]
    /\ unsaved' = [unsaved EXCEPT ![r] = TRUE]
    /\ UNCHANGED <<tokens, turns, detached>>

\* A save left behind by a cancelled generator commits or fails on its own.
DetachedSave(r, role) ==
    /\ detached[r][role] > 0
    /\ detached' = [detached EXCEPT ![r][role] = @ - 1]
    /\ \/ turns' = [turns EXCEPT ![r][role] = @ + 1]
       \/ turns' = turns
    /\ UNCHANGED <<gen, tokens, unsaved>>

\* The steps that need the memory or the LLM to answer.
Generate(r) ==
    \/ SearchDone(r)
    \/ Token(r)
    \/ StreamEnd(r)
    \/ GraphRaises(r)
    \/ SaveTurn(r)
    \/ SaveFails(r)

=============================================================================
