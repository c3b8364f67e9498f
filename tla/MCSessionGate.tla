--------------------------- MODULE MCSessionGate ---------------------------
(* Small instances of SessionGate.                                         *)
EXTENDS SessionGate, TLC
CONSTANTS s1, s2, s3, d1, p1, p2, u1, u2

\* s1 and s2 share a user and a pod; d1 is a direct session of the same user.
MCPodOf == [s \in Sessions |-> IF s = s3 THEN p2 ELSE p1]
MCUserOf == [s \in Sessions |-> IF s = s3 THEN u2 ELSE u1]

\* s1 and s2 are interchangeable.
Twins == Permutations({s1, s2})
=============================================================================
