----------------------------- MODULE EventStream -----------------------------
(***************************************************************************)
(* What a client of a run may see, whatever its transport and its fate: the *)
(* run is introduced, its tokens come in order, and after the last word at  *)
(* most one event is still on its way.                                      *)
(***************************************************************************)
EXTENDS Naturals, Sequences

CONSTANT Clients

VARIABLE shown   \* what each client has been sent

Opening == {"start", "ready"}
LastWords == {"done", "error", "canceled", "terminated"}

Ended(s) == \E i \in DOMAIN s : s[i].kind \in LastWords

\* At most one event follows the first of the last words.
OnTime(s) == \A i \in DOMAIN s : s[i].kind \in LastWords => i = Len(s)

\* Whether e may be shown after s.
Follows(s, e) ==
  /\ OnTime(s)
  /\ s = <<>> => e.kind = "ready" \/ e.kind \in LastWords
  /\ e.kind \in Opening => \A i \in DOMAIN s : s[i].kind # "token"
  /\ e.kind = "token" =>
       /\ s[1].kind = "ready" /\ s[1].run = e.run
       /\ \A i \in DOMAIN s : s[i].kind = "token" => s[i].n < e.n

Show(c, e) == Follows(shown[c], e) /\ shown' = [shown EXCEPT ![c] = Append(@, e)]

Init == shown = [c \in Clients |-> <<>>]

\* One event at a time, to one client.
Next == \E c \in Clients :
          LET e == shown'[c][Len(shown'[c])] IN shown'[c] # shown[c] /\ Show(c, e)

Spec == Init /\ [][Next]_shown
=============================================================================
