--------------------------- MODULE MCNatsHandler ---------------------------
(* Model checking of NatsHandler; the bounds are in MCNatsHandler.cfg. *)
EXTENDS NatsHandler

=============================================================================
