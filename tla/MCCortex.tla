----------------------------- MODULE MCCortex -----------------------------
(* Model checking of Cortex; the instance is in the .cfg files. *)
EXTENDS Cortex

=============================================================================
