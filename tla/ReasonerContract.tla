------------------------- MODULE ReasonerContract -------------------------
(***************************************************************************)
(* What the NATS chat handlers promise to whoever sends them requests,     *)
(* without tokens, attempts, timers and subjects: a request gets at most   *)
(* one verdict, and its reply inbox at most one answer, which is that      *)
(* verdict.  Some verdicts are never answered.  The contract promises no   *)
(* answer in time: a requester has only its own timeout.                   *)
(***************************************************************************)
CONSTANT Requests

VARIABLES verdict,   \* what became of a request
          answer     \* what its reply inbox was told

contractVars == <<verdict, answer>>

Answered == {"completed", "rejected", "failed"}
Silent == {"intercepted", "deadLettered"}

ContractTypeOK ==
    /\ verdict \in [Requests -> Answered \union Silent \union {"none"}]
    /\ answer \in [Requests -> Answered \union {"none"}]

Init ==
    /\ verdict = [r \in Requests |-> "none"]
    /\ answer = [r \in Requests |-> "none"]

Decide(r) ==
    /\ verdict[r] = "none"
    /\ \E v \in Answered \union Silent : verdict' = [verdict EXCEPT ![r] = v]
    /\ UNCHANGED answer

Answer(r) ==
    /\ answer[r] = "none"
    /\ verdict[r] \in Answered
    /\ answer' = [answer EXCEPT ![r] = verdict[r]]
    /\ UNCHANGED verdict

Next == \E r \in Requests : Decide(r) \/ Answer(r)

Spec == Init /\ [][Next]_contractVars

=============================================================================
