--------------------------- MODULE CircuitBreaker ---------------------------
(***************************************************************************)
(* The circuit breakers cortex builds with gobreaker.Settings{Name: ...}:  *)
(* the defaults of the library, one trial call when half-open and no       *)
(* periodic reset.  A breaker is a record: its state, the consecutive      *)
(* failures, and the calls of the present generation that are in flight;   *)
(* a change of state begins a new generation, and the calls of an older    *)
(* one do not count any more.                                              *)
(***************************************************************************)
EXTENDS Naturals

CONSTANT TripAfter   \* consecutive failures the breaker tolerates

ASSUME TripAssumption == TripAfter \in Nat

States == {"closed", "open", "half-open"}

New(state) == [state |-> state, failures |-> 0, calls |-> {}]

\* beforeRequest: open refuses, half-open lets one call through.
Admits(b) == b.state = "closed" \/ (b.state = "half-open" /\ b.calls = {})

Admitted(b, c) == [b EXCEPT !.calls = @ \union {c}]

\* Mutant of Trips: off by one.
Trips_Late(failures) == failures > TripAfter + 1

\* ReadyToTrip is not set, so the default decides.
Trips(failures) == failures > TripAfter

Ended(b, c, failures) == [state |-> b.state, failures |-> failures, calls |-> b.calls \ {c}]

\* afterRequest.
Reported(b, c, ok) ==
    CASE c \notin b.calls -> b
      [] c \in b.calls /\ b.state = "half-open" -> New(IF ok THEN "closed" ELSE "open")
      [] c \in b.calls /\ b.state # "half-open" /\ ok -> Ended(b, c, 0)
      [] c \in b.calls /\ b.state # "half-open" /\ ~ok ->
            IF Trips(b.failures + 1) THEN New("open") ELSE Ended(b, c, b.failures + 1)

=============================================================================
