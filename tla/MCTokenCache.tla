----------------------------- MODULE MCTokenCache ----------------------------
(* A small instance of TokenCache for TLC. *)
EXTENDS TokenCache, TLC

CONSTANTS p1, p2, l1, l2

TwoPods == {p1, p2}
TwoLookups == {l1, l2}
Symmetry == Permutations(TwoPods) \cup Permutations(TwoLookups)

=============================================================================
