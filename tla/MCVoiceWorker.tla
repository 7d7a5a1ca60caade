--------------------------- MODULE MCVoiceWorker ---------------------------
(* Model checking of VoiceWorker; the bounds are in the .cfg files. *)
EXTENDS VoiceWorker

=============================================================================
