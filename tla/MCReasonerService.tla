------------------------- MODULE MCReasonerService -------------------------
(* Model checking of ReasonerService; the bounds are in the .cfg file. *)
EXTENDS ReasonerService

=============================================================================
