--------------------------- MODULE MCContextCache ---------------------------
(* Model checking of ContextCache; the bounds are in the .cfg files. *)
EXTENDS ContextCache

CONSTANT alice

\* The id of bob is a pattern that matches alice and not itself, as "ali[c]e" is.
AlicesKeys == [u \in Users |-> {k \in Keys : k[1] = alice}]

=============================================================================
