--------------------------- MODULE BootstrapGate ---------------------------
(***************************************************************************)
(* What cortex promises about bootstrap runs, without phases and clients:  *)
(* one run at a time, no run twice; readiness changes at the end of a run, *)
(* once, before the next one may start, or is lost with the process.       *)
(***************************************************************************)
CONSTANT Runs

VARIABLES active,      \* the run in progress, as a set
          past,        \* the runs that ended
          concluded,   \* whether the run in progress has its result
          ready        \* what GET /ready answers

gateVars == <<active, past, concluded, ready>>

Init ==
    /\ active = {}
    /\ past = {}
    /\ concluded = FALSE
    /\ ready = FALSE

Start(r) ==
    /\ active = {}
    /\ r \notin past
    /\ active' = {r}
    /\ UNCHANGED <<past, concluded, ready>>

Conclude ==
    /\ active # {}
    /\ ~concluded
    /\ concluded' = TRUE
    /\ ready' \in BOOLEAN
    /\ UNCHANGED <<active, past>>

End ==
    /\ concluded
    /\ active' = {}
    /\ past' = past \union active
    /\ concluded' = FALSE
    /\ UNCHANGED ready

\* A new process; requests that were waiting to run are gone with the old one.
Restart ==
    /\ \E gone \in SUBSET Runs : past' = past \union active \union gone
    /\ active' = {}
    /\ concluded' = FALSE
    /\ ready' = FALSE

Next == (\E r \in Runs : Start(r)) \/ Conclude \/ End \/ Restart

Spec == Init /\ [][Next]_gateVars

=============================================================================
