--------------------------- MODULE MCOrchestration ---------------------------
(* Small instances of Orchestration for TLC. *)
EXTENDS Orchestration

CONSTANTS a1, a2, c1, u1

OneAgent == {a1}
TwoAgents == {a1, a2}
OneSub == {c1}
OneUnknown == {u1}
NoSlots == {}
Two == {2}
One == {1}

=============================================================================
