----------------------------- MODULE MCTaskStore -----------------------------
(* A small instance of TaskStore for TLC. *)
EXTENDS TaskStore

CONSTANTS owner, reaper, c1, p1, p2

OneCancel == {c1}
TwoPushes == {p1, p2}
NoPush == {}

\* auth-required is a state of A2A that them.tasks does not know.
SomeStates == {"working", "input-required", "completed", "auth-required"}

=============================================================================
