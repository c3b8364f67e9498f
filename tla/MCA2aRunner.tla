----------------------------- MODULE MCA2aRunner -----------------------------
(* Two messages of one context and two tool calls. *)
EXTENDS A2aRunner, TLC

CONSTANTS m1, m2, c1, c2

MCMsgs == {m1, m2}
MCCalls == {c1, c2}

Alike == Permutations(MCMsgs) \cup Permutations(MCCalls)

\* All but the history a message was given: no guard reads it, and the step
\* that loads it, which CleanHandover is about, starts without any.
WithoutPrior == <<at, rows, log, iteration, erred, views, order, faults, patchy>>
=============================================================================
