---------------------------- MODULE MCModelTurn ----------------------------
(* A small instance of ModelTurn for TLC. *)
EXTENDS ModelTurn

AllPaths == {"workflow", "runner"}
AllFamilies == {"anthropic", "openai"}

=============================================================================
