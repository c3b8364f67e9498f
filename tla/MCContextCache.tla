--------------------------- MODULE MCContextCache ---------------------------
(* A small instance of ContextCache for TLC. *)
EXTENDS ContextCache

CONSTANTS s1, s2

TwoSummarisers == {s1, s2}

=============================================================================
