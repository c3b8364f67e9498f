-------------------------- MODULE RemoteCallProofs --------------------------
(***************************************************************************)
(* RemoteCall, for any calls, agents, chains of middlewares, attempts and  *)
(* pieces of an answer: what an agent may receive through its guards, what *)
(* a polled call returns, what the rows say of it, what the session shows  *)
(* as active, and which chain a call is given.                             *)
(*                                                                         *)
(* Three definitions of RemoteCall are recursive functions over the first  *)
(* numbers: the layers of a chain, the turns of the consumer's loop, the   *)
(* steps of the remote task.  Iterated shows that such functions exist, so *)
(* that the equation of each can be used; Induct carries a fact along.     *)
(***************************************************************************)
EXTENDS RemoteCall, WellFoundedInduction, TLAPS

(***************************************************************************)
(* Recursive functions                                                     *)
(***************************************************************************)
\* Induction over the natural numbers, with the property as a set.
LEMMA Induct ==
  ASSUME NEW T, 0 \in T, \A n \in Nat : n \in T => n + 1 \in T
  PROVE  Nat \subseteq T
<1> DEFINE B == {n \in Nat : n \notin T}
<1> SUFFICES ASSUME B # {} PROVE FALSE
  OBVIOUS
<1> HIDE DEF B
<1>1. PICK x \in B : \A y \in B : ~(<<y, x>> \in OpToRel(<, Nat))
  <2>1. B \subseteq Nat
    BY DEF B
  <2>2. QED  BY <2>1, NatLessThanWellFounded, WFMin
<1>2. \A y \in B : ~(y < x)
  BY <1>1 DEF OpToRel, B
<1>3. x \in Nat /\ x # 0 /\ x - 1 \in Nat /\ x - 1 < x
  BY DEF B
<1>4. x - 1 \in T
  BY <1>2, <1>3 DEF B
<1>5. (x - 1) + 1 = x
  BY <1>3
<1>6. QED  BY <1>3, <1>4, <1>5 DEF B

\* A function that goes from base step by step.
IsIterate(f, n, base, turn) ==
  /\ f[0] = base /\ \A i \in 1 .. n : f[i] = turn[i][f[i - 1]]

LEMMA Iterated ==
  ASSUME NEW n \in Nat, NEW S, NEW base \in S, NEW turn \in [1 .. n -> [S -> S]]
  PROVE  \E f \in [0 .. n -> S] : IsIterate(f, n, base, turn)
<1> DEFINE T == {k \in Nat : k <= n => \E f \in [0 .. k -> S] : IsIterate(f, k, base, turn)}
<1>1. 0 \in T
  <2> DEFINE f == [i \in 0 .. 0 |-> base]
  <2>1. f \in [0 .. 0 -> S] /\ f[0] = base /\ 1 .. 0 = {}
    OBVIOUS
  <2>2. IsIterate(f, 0, base, turn)
    BY <2>1 DEF IsIterate
  <2>3. QED  BY <2>1, <2>2
<1>2. ASSUME NEW k \in Nat, k \in T, k + 1 <= n PROVE k + 1 \in T
  <2>1. PICK f \in [0 .. k -> S] : IsIterate(f, k, base, turn)
    BY <1>2
  <2> DEFINE next == turn[k + 1][f[k]]
             g == [i \in 0 .. k + 1 |-> IF i = k + 1 THEN next ELSE f[i]]
  <2>2. turn[k + 1] \in [S -> S] /\ f[k] \in S /\ next \in S
    BY <1>2
  <2>3. \A i \in 0 .. k : g[i] = f[i] /\ f[i] \in S
    BY <1>2
  <2>4. g[k + 1] = next
    BY <1>2
  <2>5. \A i \in 0 .. k + 1 : i \in 0 .. k \/ i = k + 1
    BY <1>2
  <2>6. g \in [0 .. k + 1 -> S]
    BY <2>2, <2>3, <2>4, <2>5
  <2> HIDE DEF g, next
  <2>7. ASSUME NEW i \in 1 .. k + 1 PROVE g[i] = turn[i][g[i - 1]]
    <3>1. i - 1 \in 0 .. k
      BY <1>2
    <3>2. CASE i = k + 1
      <4>1. i - 1 = k
        BY <1>2, <3>2
      <4>2. g[i - 1] = f[k]
        BY <2>3, <3>1, <4>1
      <4>3. QED  BY <2>4, <3>2, <4>2 DEF next
    <3>3. CASE i \in 1 .. k
      <4>1. f[i] = turn[i][f[i - 1]]
        BY <2>1, <3>3 DEF IsIterate
      <4>2. g[i] = f[i] /\ g[i - 1] = f[i - 1]
        BY <2>3, <3>1, <3>3
      <4>3. QED  BY <4>1, <4>2
    <3>4. i \in 1 .. k \/ i = k + 1
      BY <1>2
    <3>5. QED  BY <3>2, <3>3, <3>4
  <2>8. g[0] = base
    BY <1>2, <2>1, <2>3 DEF IsIterate
  <2>9. QED  BY <1>2, <2>6, <2>7, <2>8 DEF IsIterate
<1>3. \A k \in Nat : k \in T => k + 1 \in T
  <2>1. ASSUME NEW k \in Nat, k \in T, ~(k + 1 <= n) PROVE k + 1 \in T
    BY <2>1
  <2>2. QED  BY <1>2, <2>1
<1> HIDE DEF T
<1>4. n \in T
  BY <1>1, <1>3, Induct
<1>5. QED  BY <1>4 DEF T

\* The texts a message can be behind a layer.
Carried == Texts \cup {"redacted", "refused", "answered"}

LEMMA LayerIn ==
  ASSUME NEW req, NEW t \in Carried, NEW kind \in Kinds
  PROVE  Layer(req, t, kind) \in Carried
BY DEF Layer, Checked, Carried, Texts, Kinds

\* The equation of PassedBy.
LEMMA Layers ==
  ASSUME NEW c \in Calls, chain[c] \in Seq(Kinds), want[c].text \in Texts
  PROVE  /\ PassedBy(c)[0] = want[c].text
         /\ \A n \in 1 .. Len(chain[c]) :
              PassedBy(c)[n] = Layer(want[c], PassedBy(c)[n - 1], chain[c][n])
<1> DEFINE n == Len(chain[c])
           turn == [i \in 1 .. n |-> [t \in Carried |-> Layer(want[c], t, chain[c][i])]]
           Eq(f) == f = [i \in 0 .. n |-> IF i = 0 THEN want[c].text
                                          ELSE Layer(want[c], f[i - 1], chain[c][i])]
<1>1. n \in Nat /\ \A i \in 1 .. n : chain[c][i] \in Kinds
  OBVIOUS
<1>2. turn \in [1 .. n -> [Carried -> Carried]]
  BY <1>1, LayerIn
<1>3. want[c].text \in Carried
  BY DEF Carried
<1> HIDE DEF turn
<1>4. PICK f \in [0 .. n -> Carried] : IsIterate(f, n, want[c].text, turn)
  BY <1>1, <1>2, <1>3, Iterated
<1>5. ASSUME NEW i \in 0 .. n
      PROVE  f[i] = IF i = 0 THEN want[c].text ELSE Layer(want[c], f[i - 1], chain[c][i])
  <2>1. CASE i = 0
    BY <1>4, <2>1 DEF IsIterate
  <2>2. CASE i # 0
    <3>1. i \in 1 .. n /\ i - 1 \in 0 .. n
      BY <1>1, <2>2
    <3>2. f[i - 1] \in Carried
      BY <3>1
    <3>3. QED  BY <1>4, <2>2, <3>1, <3>2 DEF IsIterate, turn
  <2>3. QED  BY <2>1, <2>2
<1>6. Eq(f)
  BY <1>5
<1>7. PassedBy(c) = CHOOSE t : Eq(t)
  BY DEF PassedBy
<1>8. Eq(PassedBy(c))
  BY <1>6, <1>7
<1> DEFINE p == PassedBy(c)
<1>9. p = [i \in 0 .. n |-> IF i = 0 THEN want[c].text
                            ELSE Layer(want[c], p[i - 1], chain[c][i])]
  BY <1>8
<1> HIDE DEF p
<1>10. 0 \in 0 .. n /\ \A i \in 1 .. n : i \in 0 .. n /\ i # 0
  BY <1>1
<1> HIDE DEF n
<1>11. p[0] = want[c].text
  BY <1>9, <1>10
<1>12. \A i \in 1 .. n : p[i] = Layer(want[c], p[i - 1], chain[c][i])
  BY <1>9, <1>10
<1>13. QED  BY <1>11, <1>12 DEF p, n

(***************************************************************************)
(* The consumer's loop                                                     *)
(***************************************************************************)
\* The variables of the loop.
Locals == [text : Parted, files : Parted, outcome : {None, "completed", "failed"}]

LEMMA PiecesIn ==
  ASSUME NEW n \in 0 .. Chunks
  PROVE  Pieces(n) \in Parted /\ (n > 0 => Pieces(n) # <<>>)
<1>1. Chunks \in Nat /\ n \in Nat /\ 1 .. n \subseteq 1 .. Chunks
  BY RemoteCallAssumption
<1>2. Pieces(n) \in Parted
  BY <1>1 DEF Pieces, Parted
<1>3. n > 0 => 1 \in DOMAIN Pieces(n)
  BY <1>1 DEF Pieces
<1>4. QED  BY <1>2, <1>3

LEMMA TakenIn ==
  ASSUME NEW l \in Locals, NEW typed \in BOOLEAN, NEW ev \in Events
  PROVE  Taken(l, typed, ev) \in Locals
<1>1. ev.n \in 0 .. Chunks /\ Pieces(ev.n) \in Parted /\ (ev.kind = "token" => ev.n \in 1 .. Chunks)
  BY PiecesIn, RemoteCallAssumption DEF Events
<1>2. l.text \in Parted /\ l.files \in Parted
  BY DEF Locals
<1>3. /\ l.files \o Pieces(ev.n) \in Parted /\ l.text \o Pieces(ev.n) \in Parted
      /\ ev.kind = "token" => Append(l.text, ev.n) \in Parted
  BY <1>1, <1>2 DEF Parted
<1>4. CASE ev.kind = "artifact"
  <2>1. WithArtifact(l, typed, ev.n) \in Locals
    <3>1. CASE typed
      BY <1>3, <3>1 DEF WithArtifact, Locals
    <3>2. CASE ~typed /\ l.files = <<>>
      BY <1>3, <3>2 DEF WithArtifact, Locals
    <3>3. CASE ~typed /\ l.files # <<>>
      BY <1>2, <3>3 DEF WithArtifact, Locals
    <3>4. QED  BY <3>1, <3>2, <3>3
  <2>2. QED  BY <1>4, <2>1 DEF Taken
<1>5. CASE ev.kind = "token"
  BY <1>3, <1>5 DEF Taken, Locals
<1>6. CASE ev.kind = "done"
  <2>1. Result(l, ev.n) \in Parted
    BY <1>1, <1>2 DEF Result
  <2>2. QED  BY <1>6, <2>1 DEF Taken, Locals
<1>7. CASE ev.kind \in {"error", "status"}
  BY <1>7 DEF Taken, Locals
<1>8. QED  BY <1>4, <1>5, <1>6, <1>7 DEF Events

\* The equation of Loops.
LEMMA Turns ==
  ASSUME NEW c \in Calls, pending[c] \in Seq(Events), text[c] \in Parted, files[c] \in Parted,
         want[c].typed \in BOOLEAN
  PROVE  /\ Loops(c)[0] = [text |-> text[c], files |-> files[c], outcome |-> None]
         /\ \A n \in 1 .. Len(pending[c]) :
              Loops(c)[n] = Taken(Loops(c)[n - 1], want[c].typed, pending[c][n])
         /\ \A n \in 0 .. Len(pending[c]) : Loops(c)[n] \in Locals
<1> DEFINE n == Len(pending[c])
           base == [text |-> text[c], files |-> files[c], outcome |-> None]
           turn == [i \in 1 .. n |-> [l \in Locals |-> Taken(l, want[c].typed, pending[c][i])]]
           Eq(f) == f = [i \in 0 .. n |-> IF i = 0 THEN base
                                          ELSE Taken(f[i - 1], want[c].typed, pending[c][i])]
<1>1. n \in Nat /\ \A i \in 1 .. n : pending[c][i] \in Events
  OBVIOUS
<1>2. turn \in [1 .. n -> [Locals -> Locals]]
  BY <1>1, TakenIn
<1>3. base \in Locals
  BY DEF Locals
<1> HIDE DEF turn
<1>4. PICK f \in [0 .. n -> Locals] : IsIterate(f, n, base, turn)
  BY <1>1, <1>2, <1>3, Iterated
<1>5. ASSUME NEW i \in 0 .. n
      PROVE  f[i] = IF i = 0 THEN base ELSE Taken(f[i - 1], want[c].typed, pending[c][i])
  <2>1. CASE i = 0
    BY <1>4, <2>1 DEF IsIterate
  <2>2. CASE i # 0
    <3>1. i \in 1 .. n /\ i - 1 \in 0 .. n
      BY <1>1, <2>2
    <3>2. f[i - 1] \in Locals
      BY <3>1
    <3>3. QED  BY <1>4, <2>2, <3>1, <3>2 DEF IsIterate, turn
  <2>3. QED  BY <2>1, <2>2
<1>6. Eq(f)
  BY <1>5
<1>7. Loops(c) = CHOOSE l : Eq(l)
  BY DEF Loops
<1>8. Eq(Loops(c))
  BY <1>6, <1>7
<1> DEFINE p == Loops(c)
<1>9. p = [i \in 0 .. n |-> IF i = 0 THEN base
                            ELSE Taken(p[i - 1], want[c].typed, pending[c][i])]
  BY <1>8
<1> HIDE DEF p
<1>10. 0 \in 0 .. n /\ \A i \in 1 .. n : i \in 0 .. n /\ i # 0 /\ i - 1 \in 0 .. n
  BY <1>1
<1> HIDE DEF n, base
<1>11. p[0] = base /\ \A i \in 1 .. n : p[i] = Taken(p[i - 1], want[c].typed, pending[c][i])
  BY <1>9, <1>10
<1> DEFINE T == {k \in Nat : k <= n => p[k] \in Locals}
<1>12. 0 \in T
  BY <1>3, <1>11
<1>13. ASSUME NEW k \in Nat, k \in T PROVE k + 1 \in T
  <2> SUFFICES ASSUME k + 1 <= n PROVE p[k + 1] \in Locals
    BY <1>13
  <2>1. k + 1 \in 1 .. n /\ (k + 1) - 1 = k /\ p[k] \in Locals
    BY <1>1, <1>13
  <2>2. QED  BY <1>1, <1>11, <2>1, TakenIn
<1> HIDE DEF T
<1>14. \A k \in 0 .. n : p[k] \in Locals
  <2>1. Nat \subseteq T
    BY <1>12, <1>13, Induct
  <2>2. QED  BY <1>1, <2>1 DEF T
<1>15. QED  BY <1>11, <1>14 DEF p, n, base

(***************************************************************************)
(* The remote task                                                         *)
(***************************************************************************)
\* The states a task with r's message and n pieces to write can be in: complete
\* only with the whole of its answer.
Alike(r, n) ==
  {x \in Tasks : x.text = r.text /\ x.made <= n /\ (x.state = "completed" => x.made = n)}

LEMMA AfterAlike ==
  ASSUME NEW n \in 0 .. Chunks, NEW r, NEW x \in Alike(r, n)
  PROVE  After(x, n) \subseteq Alike(r, n)
<1>1. /\ x \in Tasks /\ x.text = r.text /\ Chunks \in Nat /\ x.made \in 0 .. Chunks
      /\ n \in Nat /\ n <= Chunks /\ x.made <= n
  BY RemoteCallAssumption DEF Alike, Tasks
<1>2. Starts(x) \subseteq Alike(r, n)
  BY <1>1 DEF Starts, Alike, Tasks, RemoteStates, Terminal
<1>3. Writes(x, n) \subseteq Alike(r, n)
  BY <1>1 DEF Writes, Alike, Tasks, RemoteStates, Terminal
<1>4. Finishes(x, n) \subseteq Alike(r, n)
  BY <1>1 DEF Finishes, Alike, Tasks, RemoteStates, Terminal
<1>5. Breaks(x) \subseteq Alike(r, n) /\ Asks(x) \subseteq Alike(r, n)
  BY <1>1 DEF Breaks, Asks, Alike, Tasks, RemoteStates, Terminal
<1>6. QED  BY <1>2, <1>3, <1>4, <1>5 DEF After

\* Wherever a task can be at the next look, it is alike.
LEMMA LaterAlike ==
  ASSUME NEW m \in 0 .. Chunks, NEW r \in Tasks, r \in Alike(r, m)
  PROVE  Later(r, m) \subseteq Alike(r, m)
<1> DEFINE n == Chunks + 3
           S == SUBSET Alike(r, m)
           next(R) == R \cup UNION {After(x, m) : x \in R}
           turn == [i \in 1 .. n |-> [R \in S |-> next(R)]]
           Eq(f) == f = [i \in 0 .. n |-> IF i = 0 THEN {r}
                                          ELSE f[i - 1] \cup UNION {After(x, m) : x \in f[i - 1]}]
<1>1. n \in Nat
  BY RemoteCallAssumption
<1>2. \A R \in S : next(R) \in S
  BY AfterAlike
<1>3. {r} \in S
  OBVIOUS
<1> HIDE DEF next
<1>4. turn \in [1 .. n -> [S -> S]]
  BY <1>2
<1> HIDE DEF turn, S, n
<1>5. PICK f \in [0 .. n -> S] : IsIterate(f, n, {r}, turn)
  BY <1>1, <1>3, <1>4, Iterated
<1>6. ASSUME NEW i \in 0 .. n
      PROVE  f[i] = IF i = 0 THEN {r} ELSE next(f[i - 1])
  <2>1. CASE i = 0
    BY <1>5, <2>1 DEF IsIterate
  <2>2. CASE i # 0
    <3>1. i \in 1 .. n /\ i - 1 \in 0 .. n
      BY <1>1, <2>2
    <3>2. f[i - 1] \in S
      BY <3>1
    <3>3. QED  BY <1>5, <2>2, <3>1, <3>2 DEF IsIterate, turn
  <2>3. QED  BY <2>1, <2>2
<1>7. Eq(f)
  BY <1>6 DEF next
<1> DEFINE p == CHOOSE h : Eq(h)
<1>8. Eq(p)
  BY <1>7
<1>9. Later(r, m) = p[n]
  BY DEF Later, n
<1> HIDE DEF p
<1>10. p = [i \in 0 .. n |-> IF i = 0 THEN {r} ELSE next(p[i - 1])]
  BY <1>8 DEF next
<1>11. 0 \in 0 .. n /\ \A i \in 1 .. n : i \in 0 .. n /\ i # 0
  BY <1>1
<1>12. p[0] = {r} /\ \A i \in 1 .. n : p[i] = next(p[i - 1])
  BY <1>10, <1>11
<1> DEFINE T == {k \in Nat : k <= n => p[k] \in S}
<1>13. 0 \in T
  BY <1>3, <1>12
<1>14. ASSUME NEW k \in Nat, k \in T PROVE k + 1 \in T
  <2> SUFFICES ASSUME k + 1 <= n PROVE p[k + 1] \in S
    BY <1>14
  <2>1. k + 1 \in 1 .. n /\ (k + 1) - 1 = k /\ p[k] \in S
    BY <1>1, <1>14
  <2>2. QED  BY <1>2, <1>12, <2>1
<1> HIDE DEF T
<1>15. n \in T
  BY <1>1, <1>13, <1>14, Induct
<1>16. QED  BY <1>1, <1>9, <1>15 DEF T, S

(***************************************************************************)
(* The invariant                                                           *)
(***************************************************************************)
Guards == {"block", "redact"}

\* An attempt that has no remote task, and one that has not written its answer.
Early == {"idle", "queued", "rows", "resolve", "fill", "submit", "lost", "over"}
Unanswered == {"rows", "resolve", "fill", "submit", "wait", "stream", "handle", "publish",
               "leave", "store"}
Unclosed == Unanswered \cup {"close", "finish"}

\* What the route and the place of a call tell of its attempt.
Located(c) ==
  /\ want[c].route = "runner" =>
       chain[c] = <<>> /\ pc[c] \notin {"resolve", "fill", "publish", "leave"}
  /\ view[c].mode = "stream" => want[c].route = "runner" /\ want[c].streams
  /\ pc[c] = "stream" => view[c].mode = "stream"
  /\ pc[c] \in Early => remote[c] = NoTask /\ view[c] = Unseen /\ pending[c] = <<>>
  /\ pc[c] = "handle" => pending[c] # <<>>

\* The end of a poll is the last thing reported, with the whole of the answer.
EndsWhole(c) ==
  view[c].mode = "poll" =>
    \A i \in DOMAIN pending[c] : pending[c][i].kind = "done" =>
      i = Len(pending[c]) /\ pending[c][i].n = want[c].pieces /\ remote[c].state = "completed"

\* Nothing comes of a polled answer without any piece.
Blank(c) ==
  view[c].mode = "poll" /\ want[c].pieces = 0 =>
    text[c] = <<>> /\ \A i \in DOMAIN pending[c] : pending[c][i].kind \notin {"artifact", "token"}

Whole(c) ==
  /\ remote[c].made <= want[c].pieces
  /\ remote[c].state = "completed" => remote[c].made = want[c].pieces
  /\ EndsWhole(c) /\ Blank(c)
  /\ pc[c] \in Early => text[c] = <<>>
  /\ pc[c] \in {"leave", "store"} /\ outcome[c] = "completed" /\ view[c].mode = "poll" =>
       remote[c].state = "completed" /\ text[c] = Pieces(want[c].pieces)

\* What of its text a call may send through a guard.
Lawful(c) == IF want[c].message THEN {"plain", "redacted"} ELSE {want[c].text}

Guarded(c) == ToSet(chain[c]) \cap Guards # {} => remote[c].text \in {"none"} \cup Lawful(c)

Recorded(c, k) == \E a \in answers[c] : a.attempt = k

\* One row of each kind per attempt.
RowsKept(c) ==
  /\ Len(child[c]) = attempt[c] /\ Len(step[c]) = attempt[c]
  /\ pc[c] \notin {"idle", "queued", "lost", "over"} => attempt[c] > 0
  /\ \A a \in answers[c] : a.attempt <= attempt[c]

\* What the rows of the current attempt say before they are final.
RowsOpen(c) ==
  /\ pc[c] \in Unanswered => ~Recorded(c, attempt[c])
  /\ pc[c] \in {"close", "finish"} =>
       /\ Recorded(c, attempt[c]) => outcome[c] = "completed"
       /\ outcome[c] = "completed" => want[c].streams \/ want[c].pieces = 0 \/ Recorded(c, attempt[c])
  /\ pc[c] \in Unanswered \cup {"close"} => child[c][attempt[c]] \notin Terminal
  /\ pc[c] \in {"finish", "return"} =>
       child[c][attempt[c]] = IF outcome[c] = "completed" THEN "completed" ELSE "failed"
  /\ pc[c] = "return" /\ outcome[c] = "completed" => step[c][attempt[c]] = "completed"
  /\ pc[c] \in Unclosed => step[c][attempt[c]] \notin Terminal
  /\ verdict[c] \in {"completed", "input-required"} => pc[c] = "over"

\* RowsAgree of one call.
RowsAgreeAt(c) ==
  /\ verdict[c] = "completed" => Last(child[c]) = "completed" /\ Last(step[c]) = "completed"
  /\ verdict[c] = "input-required" => Last(child[c]) = "failed"
  /\ \A k \in DOMAIN child[c] :
       /\ child[c][k] = "completed" => want[c].streams \/ want[c].pieces = 0 \/ Recorded(c, k)
       /\ child[c][k] = "failed" => ~Recorded(c, k)
       /\ step[c][k] \in Terminal => child[c][k] = step[c][k]

CallInv(c) ==
  /\ Located(c) /\ Whole(c) /\ Guarded(c)
  /\ RowsKept(c) /\ RowsOpen(c) /\ RowsAgreeAt(c)

IInv == TypeOK /\ stored = {} /\ \A c \in Calls : CallInv(c)

\* What a call's step does to the call, and to no other.
Same(d) ==
  /\ want'[d] = want[d] /\ pc'[d] = pc[d] /\ attempt'[d] = attempt[d]
  /\ child'[d] = child[d] /\ step'[d] = step[d] /\ answers'[d] = answers[d]
  /\ chain'[d] = chain[d] /\ remote'[d] = remote[d] /\ view'[d] = view[d]
  /\ pending'[d] = pending[d] /\ text'[d] = text[d] /\ files'[d] = files[d]
  /\ outcome'[d] = outcome[d] /\ verdict'[d] = verdict[d]

CallStep(c) == Steps(c) \/ Overdue(c) \/ Raise(c) \/ Crash(c)

LEMMA InitInv == Init => IInv
<1> SUFFICES ASSUME Init PROVE IInv
  OBVIOUS
<1>1. <<>> \in Parted /\ <<>> \in Chains /\ Chunks \in Nat /\ MaxAttempts \in Nat /\ Budget \in Nat
  BY RemoteCallAssumption DEF Parted
<1>2. NoTask \in Tasks
  BY <1>1 DEF NoTask, Tasks, RemoteStates
<1>3. TypeOK
  <2>1. /\ pc \in [Calls -> Places] /\ attempt \in [Calls -> 0 .. MaxAttempts]
        /\ chain \in [Calls -> Chains] /\ remote \in [Calls -> Tasks]
        /\ view \in [Calls -> [mode : {"poll", "stream"}, artifact : BOOLEAN]]
        /\ answers \in [Calls -> SUBSET [attempt : Nat, parts : Parted \ {<<>>}]]
        /\ text \in [Calls -> Parted] /\ files \in [Calls -> Parted]
    BY <1>1, <1>2 DEF Init, Places, Bracket, Unseen
  <2>2. /\ child \in [Calls -> Seq({"submitted", "working"} \cup Terminal)]
        /\ step \in [Calls -> Seq({"none", "running"} \cup Terminal)]
        /\ pending \in [Calls -> Seq(Events)]
    BY DEF Init
  <2>3. /\ outcome \in [Calls -> Outcomes \cup {None}] /\ verdict \in [Calls -> Outcomes \cup {None}]
        /\ wired \in [Agents -> Chains] /\ chainCache \in [Agents -> Chains \cup {None}]
    BY DEF Init
  <2>4. /\ active \subseteq Agents /\ orphaned \subseteq Agents
        /\ settled \in BOOLEAN /\ flushing \in BOOLEAN
    BY DEF Init
  <2>5. spent \in 0 .. Budget
    BY <1>1 DEF Init
  <2> DEFINE keys == Agents \X (Texts \cup {"redacted", "none"})
  <2>6. stored \subseteq keys
    <3> HIDE DEF keys
    <3>1. QED  BY DEF Init
  <2>7. want \in [Calls -> Requests]
    BY DEF Init
  <2>8. QED  BY <2>1, <2>2, <2>3, <2>4, <2>5, <2>6, <2>7 DEF TypeOK
<1>4. ASSUME NEW c \in Calls PROVE CallInv(c)
  <2>1. /\ pc[c] = "idle" /\ attempt[c] = 0 /\ child[c] = <<>> /\ step[c] = <<>>
        /\ answers[c] = {} /\ chain[c] = <<>> /\ remote[c] = NoTask /\ view[c] = Unseen
        /\ pending[c] = <<>> /\ text[c] = <<>> /\ outcome[c] = None /\ verdict[c] = None
        /\ want[c].pieces \in 0 .. Chunks /\ Chunks \in Nat
    BY RemoteCallAssumption DEF Init
  <2>2. ToSet(<<>>) = {}
    BY DEF ToSet
  <2>3. Located(c) /\ Whole(c) /\ Guarded(c) /\ RowsKept(c)
    BY <2>1, <2>2 DEF Located, Whole, EndsWhole, Blank, Guarded, RowsKept, NoTask, Unseen, Early
  <2>4. RowsOpen(c) /\ RowsAgreeAt(c)
    BY <2>1, RemoteCallAssumption DEF RowsOpen, RowsAgreeAt, Unanswered, Unclosed, Outcomes
  <2>5. QED  BY <2>3, <2>4 DEF CallInv
<1>5. QED  BY <1>3, <1>4 DEF Init, IInv

(***************************************************************************)
(* Types                                                                   *)
(***************************************************************************)
\* The row of the current attempt is written, and no other.
LEMMA LatestIn ==
  ASSUME NEW S, NEW s \in Seq(S), NEW x \in S
  PROVE  /\ Latest(s, x) \in Seq(S) /\ Len(Latest(s, x)) = Len(s)
         /\ DOMAIN Latest(s, x) = DOMAIN s
         /\ Len(s) > 0 => Latest(s, x)[Len(s)] = x
         /\ \A k \in DOMAIN s : k # Len(s) => Latest(s, x)[k] = s[k]
<1> DEFINE n == Len(s)  t == Latest(s, x)
<1>1. n \in Nat /\ DOMAIN s = 1 .. n /\ s \in [1 .. n -> S]
  OBVIOUS
<1>2. /\ t \in [1 .. n -> S] /\ (n \in 1 .. n => t[n] = x)
      /\ \A k \in 1 .. n : k # n => t[k] = s[k]
  BY <1>1 DEF Latest
<1>3. n > 0 => n \in 1 .. n
  BY <1>1
<1>4. t \in Seq(S) /\ Len(t) = n /\ DOMAIN t = 1 .. n
  <2>1. \A m \in Nat : \A f \in [1 .. m -> S] : f \in Seq(S) /\ Len(f) = m
    OBVIOUS
  <2> HIDE DEF t, n
  <2>2. QED  BY <1>1, <1>2, <2>1
<1>5. QED  BY <1>1, <1>2, <1>3, <1>4

LEMMA Values ==
  /\ <<>> \in Parted /\ <<>> \in Chains /\ <<>> \in Seq(Events) /\ NoTask \in Tasks
  /\ Unseen \in [mode : {"poll", "stream"}, artifact : BOOLEAN]
  /\ Chunks \in Nat /\ MaxAttempts \in Nat /\ Budget \in Nat /\ Chains \subseteq Seq(Kinds)
  /\ Event("error", 0) \in Events /\ Event("done", Chunks) \in Events
<1>1. Chunks \in Nat \ {0} /\ 0 \in 0 .. Chunks /\ Chunks \in 0 .. Chunks
  BY RemoteCallAssumption
<1>2. NoTask \in Tasks
  BY <1>1 DEF NoTask, Tasks, RemoteStates
<1>3. Event("error", 0) \in Events /\ Event("done", Chunks) \in Events
  BY <1>1 DEF Event, Events, RemoteStates
<1>4. QED  BY <1>1, <1>2, <1>3, RemoteCallAssumption DEF Unseen, Parted

\* What a request asks.
LEMMA Asked ==
  ASSUME TypeOK, NEW c \in Calls
  PROVE  /\ want[c].route \in Routes /\ want[c].text \in Texts /\ want[c].streams \in BOOLEAN
         /\ want[c].message \in BOOLEAN /\ want[c].pieces \in 0 .. Chunks
         /\ want[c].typed \in BOOLEAN /\ Agent(c) \in Agents
<1>1. want[c] \in [route : Routes, agent : Agents, text : Texts, message : BOOLEAN,
                   pieces : 0 .. Chunks, streams : BOOLEAN, typed : BOOLEAN]
  BY RemoteCallAssumption DEF TypeOK
<1>2. QED  BY <1>1 DEF Agent

LEMMA ForgetTypes ==
  ASSUME TypeOK, NEW c \in Calls, Forget(c)
  PROVE  /\ chain' \in [Calls -> Chains] /\ remote' \in [Calls -> Tasks]
         /\ view' \in [Calls -> [mode : {"poll", "stream"}, artifact : BOOLEAN]]
         /\ pending' \in [Calls -> Seq(Events)]
         /\ text' \in [Calls -> Parted] /\ files' \in [Calls -> Parted]
         /\ chain'[c] = <<>> /\ remote'[c] = NoTask /\ view'[c] = Unseen /\ pending'[c] = <<>>
         /\ text'[c] = <<>> /\ files'[c] = <<>>
         /\ \A d \in Calls : d # c =>
              /\ chain'[d] = chain[d] /\ remote'[d] = remote[d] /\ view'[d] = view[d]
              /\ pending'[d] = pending[d] /\ text'[d] = text[d] /\ files'[d] = files[d]
BY Values DEF TypeOK, Forget

\* The consumer's loop over the pending events.
LEMMA ConsumeTypes ==
  ASSUME TypeOK, NEW c \in Calls, Consume(c)
  PROVE  \E l \in Locals :
           /\ l = Loops(c)[Len(pending[c])]
           /\ pending' \in [Calls -> Seq(Events)] /\ pending'[c] = <<>>
           /\ text' \in [Calls -> Parted] /\ text'[c] = l.text
           /\ files' \in [Calls -> Parted] /\ files'[c] = l.files
           /\ outcome' \in [Calls -> Outcomes \cup {None}] /\ outcome'[c] = l.outcome
           /\ pc' \in [Calls -> Places]
           /\ pc'[c] = IF l.outcome # None THEN Done(c) ELSE Onward(c)
           /\ \A d \in Calls : d # c =>
                /\ pending'[d] = pending[d] /\ text'[d] = text[d] /\ files'[d] = files[d]
                /\ outcome'[d] = outcome[d] /\ pc'[d] = pc[d]
<1> DEFINE l == Loops(c)[Len(pending[c])]
<1>1. pending[c] \in Seq(Events) /\ text[c] \in Parted /\ files[c] \in Parted
      /\ want[c].typed \in BOOLEAN /\ Len(pending[c]) \in 0 .. Len(pending[c])
  BY Asked DEF TypeOK
<1>2. l \in Locals
  BY <1>1, Turns
<1>3. l.text \in Parted /\ l.files \in Parted /\ l.outcome \in Outcomes \cup {None}
  BY <1>2 DEF Locals, Outcomes
<1>4. Done(c) \in Places /\ Onward(c) \in Places
  BY DEF Done, Onward, Places, Bracket, Loop
<1>5. /\ pending' = [pending EXCEPT ![c] = <<>>] /\ text' = [text EXCEPT ![c] = l.text]
      /\ files' = [files EXCEPT ![c] = l.files] /\ outcome' = [outcome EXCEPT ![c] = l.outcome]
      /\ pc' = [pc EXCEPT ![c] = IF l.outcome # None THEN Done(c) ELSE Onward(c)]
  BY DEF Consume
<1> HIDE DEF l
<1>6. /\ pending' \in [Calls -> Seq(Events)] /\ pending'[c] = <<>>
      /\ text' \in [Calls -> Parted] /\ text'[c] = l.text
      /\ files' \in [Calls -> Parted] /\ files'[c] = l.files
      /\ outcome' \in [Calls -> Outcomes \cup {None}] /\ outcome'[c] = l.outcome
  BY <1>3, <1>5, Values DEF TypeOK
<1>7. pc' \in [Calls -> Places] /\ pc'[c] = IF l.outcome # None THEN Done(c) ELSE Onward(c)
  BY <1>4, <1>5 DEF TypeOK
<1>8. \A d \in Calls : d # c =>
        /\ pending'[d] = pending[d] /\ text'[d] = text[d] /\ files'[d] = files[d]
        /\ outcome'[d] = outcome[d] /\ pc'[d] = pc[d]
  BY <1>5 DEF TypeOK
<1>9. l = Loops(c)[Len(pending[c])]
  BY DEF l
<1>10. QED  BY <1>2, <1>6, <1>7, <1>8, <1>9

(***************************************************************************)
(* The middlewares                                                         *)
(***************************************************************************)
\* What a guard lets pass, or what no longer reaches the agent.
Harmless == {"plain", "redacted", "refused"}

\* As nothing is ever stored, no layer answers; and behind a guard nothing is
\* left of a message that it refuses or redacts, whatever the other layers are,
\* while an input without a message passes every layer as it is.
LEMMA PassedHarmless ==
  ASSUME TypeOK, stored = {}, NEW c \in Calls
  PROVE  /\ Passed(c) \in Carried \ {"answered"}
         /\ ~want[c].message => Passed(c) = want[c].text
         /\ want[c].message /\ ToSet(chain[c]) \cap Guards # {} => Passed(c) \in Harmless
<1> DEFINE n == Len(chain[c])
           p == PassedBy(c)
           Behind(k) == \E i \in 1 .. k : chain[c][i] \in Guards
           T == {k \in Nat : k <= n => /\ p[k] \in Carried \ {"answered"}
                                       /\ ~want[c].message => p[k] = want[c].text
                                       /\ want[c].message /\ Behind(k) => p[k] \in Harmless}
<1>1. chain[c] \in Seq(Kinds) /\ n \in Nat /\ \A i \in 1 .. n : chain[c][i] \in Kinds
  BY Values DEF TypeOK
<1>2. /\ p[0] = want[c].text /\ want[c].text \in Texts /\ want[c].message \in BOOLEAN
      /\ \A i \in 1 .. n : p[i] = Layer(want[c], p[i - 1], chain[c][i])
  BY <1>1, Asked, Layers
<1>3. ASSUME NEW t \in Carried \ {"answered"}, NEW kind \in Kinds
      PROVE  /\ Layer(want[c], t, kind) \in Carried \ {"answered"}
             /\ ~want[c].message => Layer(want[c], t, kind) = t
             /\ want[c].message /\ (kind \in Guards \/ t \in Harmless) =>
                  Layer(want[c], t, kind) \in Harmless
  BY DEF Layer, Checked, Carried, Texts, Kinds, Guards, Harmless
<1> HIDE DEF p, n
<1>4. 0 \in T
  BY <1>2 DEF Carried, Texts
<1>5. ASSUME NEW k \in Nat, k \in T PROVE k + 1 \in T
  <2> SUFFICES ASSUME k + 1 <= n
               PROVE  /\ p[k + 1] \in Carried \ {"answered"}
                      /\ ~want[c].message => p[k + 1] = want[c].text
                      /\ want[c].message /\ Behind(k + 1) => p[k + 1] \in Harmless
    OBVIOUS
  <2>1. k + 1 \in 1 .. n /\ (k + 1) - 1 = k /\ k <= n
    BY <1>1
  <2>2. /\ p[k] \in Carried \ {"answered"}
        /\ ~want[c].message => p[k] = want[c].text
        /\ want[c].message /\ Behind(k) => p[k] \in Harmless
        /\ p[k + 1] = Layer(want[c], p[k], chain[c][k + 1]) /\ chain[c][k + 1] \in Kinds
    BY <1>1, <1>2, <1>5, <2>1
  <2>3. Behind(k + 1) => Behind(k) \/ chain[c][k + 1] \in Guards
    <3>1. \A i \in 1 .. k + 1 : i \in 1 .. k \/ i = k + 1
      OBVIOUS
    <3>2. QED  BY <3>1
  <2>4. QED  BY <1>3, <2>2, <2>3
<1> HIDE DEF T
<1>6. n \in T
  BY <1>1, <1>4, <1>5, Induct
<1>7. Passed(c) = p[n]
  BY DEF Passed, p, n
<1>8. ToSet(chain[c]) \cap Guards # {} => Behind(n)
  BY <1>1 DEF ToSet, n
<1>9. QED  BY <1>1, <1>6, <1>7, <1>8 DEF T

\* What is sent through a guard is lawful.
LEMMA SentLawful ==
  ASSUME TypeOK, stored = {}, NEW c \in Calls, Passed(c) \notin {"refused", "answered"},
         ToSet(chain[c]) \cap Guards # {}
  PROVE  Passed(c) \in Lawful(c)
<1>1. want[c].message => Passed(c) \in Harmless
  BY PassedHarmless
<1>2. ~want[c].message => Passed(c) = want[c].text
  BY PassedHarmless
<1>3. QED  BY <1>1, <1>2 DEF Lawful, Harmless

(***************************************************************************)
(* What a look at the remote task gives                                    *)
(***************************************************************************)
LEMMA SeenReports ==
  ASSUME TypeOK, NEW c \in Calls, NEW r \in Tasks
  PROVE  /\ Seen(c, r) \in Seq(Events)
         /\ \A i \in DOMAIN Seen(c, r) :
              /\ Seen(c, r)[i].kind = "done" =>
                   /\ i = Len(Seen(c, r)) /\ Seen(c, r)[i].n = r.made
                   /\ r.state = "completed"
              /\ r.made = 0 => Seen(c, r)[i].kind \notin {"artifact", "token"}
<1> DEFINE a == IF r.state # remote[c].state THEN <<Status(r.state)>> ELSE <<>>
           b == IF r.made > 0 /\ ~view[c].artifact THEN <<Event("artifact", r.made)>> ELSE <<>>
           e == Ends(r.state, r.made)
<1>1. /\ r.made \in 0 .. Chunks /\ r.state \in RemoteStates
      /\ Status(r.state) \in Events /\ Status(r.state).kind = "status"
      /\ Event("artifact", r.made) \in Events /\ Event("artifact", r.made).kind = "artifact"
      /\ Event("done", r.made) \in Events /\ Event("done", r.made).n = r.made
      /\ Event("error", 0).kind = "error"
  BY Values DEF Tasks, Status, Event, Events, RemoteStates
<1>2. a \in Seq(Events) /\ \A i \in DOMAIN a : a[i].kind # "done"
  BY <1>1
<1>3. b \in Seq(Events) /\ \A i \in DOMAIN b : b[i].kind # "done"
  BY <1>1
<1>4. /\ e \in Seq(Events)
      /\ \A i \in DOMAIN e : e[i].kind = "done" =>
           i = 1 /\ Len(e) = 1 /\ e[i].n = r.made /\ r.state = "completed"
  <2>1. CASE r.state = "completed"
    <3>1. e = <<Event("done", r.made)>>
      BY <2>1 DEF Ends
    <3>2. /\ e \in Seq(Events) /\ Len(e) = 1
          /\ \A i \in DOMAIN e : i = 1 /\ e[i] = Event("done", r.made)
      BY <1>1, <3>1
    <3>3. QED  BY <1>1, <2>1, <3>2
  <2>2. CASE r.state = "failed"
    <3>1. e = <<Event("error", 0)>>
      BY <2>2 DEF Ends
    <3>2. Event("error", 0) \in Events
      BY Values
    <3>3. e \in Seq(Events) /\ \A i \in DOMAIN e : e[i] = Event("error", 0)
      BY <3>1, <3>2
    <3>4. QED  BY <1>1, <3>3
  <2>3. CASE r.state \notin {"completed", "failed"}
    <3>1. e = <<>>
      BY <2>3 DEF Ends
    <3>2. QED  BY <3>1
  <2>4. QED  BY <2>1, <2>2, <2>3
<1>5. Seen(c, r) = a \o b \o e
  BY DEF Seen
<1> HIDE DEF a, b, e
<1> DEFINE ab == a \o b
<1>6. ab \in Seq(Events) /\ \A i \in DOMAIN ab : ab[i].kind # "done"
  <2>1. ab \in Seq(Events)
    BY <1>2, <1>3
  <2>2. ASSUME NEW i \in DOMAIN ab PROVE ab[i].kind # "done"
    <3>1. CASE i \in DOMAIN a
      <4>1. ab[i] = a[i]
        BY <1>2, <1>3, <3>1
      <4>2. QED  BY <1>2, <3>1, <4>1
    <3>2. CASE i \notin DOMAIN a
      <4>1. i - Len(a) \in DOMAIN b /\ ab[i] = b[i - Len(a)]
        BY <1>2, <1>3, <3>2
      <4>2. QED  BY <1>3, <4>1
    <3>3. QED  BY <3>1, <3>2
  <2>3. QED  BY <2>1, <2>2
<1>7. Seen(c, r) = ab \o e
  BY <1>5
<1> HIDE DEF ab
<1>8. Seen(c, r) \in Seq(Events)
  BY <1>4, <1>6, <1>7
<1>9. ASSUME NEW i \in DOMAIN Seen(c, r), Seen(c, r)[i].kind = "done"
      PROVE  i = Len(Seen(c, r)) /\ Seen(c, r)[i].n = r.made /\ r.state = "completed"
  <2>1. i \notin DOMAIN ab
    <3> SUFFICES ASSUME i \in DOMAIN ab PROVE FALSE
      OBVIOUS
    <3>1. Seen(c, r)[i] = ab[i]
      BY <1>4, <1>6, <1>7
    <3>2. QED  BY <1>6, <1>9, <3>1
  <2>2. i - Len(ab) \in DOMAIN e /\ Seen(c, r)[i] = e[i - Len(ab)] /\ i \in Nat
    BY <1>4, <1>6, <1>7, <2>1
  <2>3. /\ i - Len(ab) = 1 /\ Len(e) = 1
        /\ e[i - Len(ab)].n = r.made /\ r.state = "completed"
    BY <1>4, <1>9, <2>2
  <2>4. Len(Seen(c, r)) = Len(ab) + Len(e) /\ Len(ab) \in Nat
    BY <1>4, <1>6, <1>7
  <2>5. QED  BY <2>2, <2>3, <2>4
<1>10. ASSUME NEW i \in DOMAIN Seen(c, r), r.made = 0
       PROVE  Seen(c, r)[i].kind \notin {"artifact", "token"}
  <2>1. Len(b) = 0 /\ \A k \in DOMAIN a : a[k].kind = "status"
    BY <1>1, <1>10 DEF a, b
  <2>2. \A k \in DOMAIN e : e[k].kind \in {"done", "error"}
    <3>1. e = <<>> \/ e = <<Event("done", r.made)>> \/ e = <<Event("error", 0)>>
      BY DEF e, Ends
    <3>2. QED  BY <3>1 DEF Event
  <2>3. Len(ab) = Len(a) /\ \A k \in DOMAIN ab : ab[k] = a[k] /\ k \in DOMAIN a
    BY <1>2, <1>3, <2>1 DEF ab
  <2>4. CASE i \in DOMAIN ab
    <3>1. Seen(c, r)[i] = ab[i]
      BY <1>4, <1>6, <1>7, <2>4
    <3>2. QED  BY <2>1, <2>3, <2>4, <3>1
  <2>5. CASE i \notin DOMAIN ab
    <3>1. i - Len(ab) \in DOMAIN e /\ Seen(c, r)[i] = e[i - Len(ab)]
      BY <1>4, <1>6, <1>7, <2>5
    <3>2. QED  BY <2>2, <3>1
  <2>6. QED  BY <2>4, <2>5
<1>11. QED  BY <1>8, <1>9, <1>10

\* The events of one step of the remote task, on its stream.
Streamed(c, r, whole) ==
  IF r.made > remote[c].made
  THEN (IF r.made = 1 THEN <<Event("artifact", 1)>> ELSE <<>>) \o <<Event("token", r.made)>>
  ELSE <<Status(r.state)>> \o Ends(r.state, IF whole THEN r.made ELSE 0)

LEMMA StreamReports ==
  ASSUME TypeOK, NEW c \in Calls, NEW r \in Tasks, NEW whole \in BOOLEAN
  PROVE  Streamed(c, r, whole) \in Seq(Events) /\ Streamed(c, r, whole) # <<>>
<1> DEFINE n == IF whole THEN r.made ELSE 0
<1>1. /\ r.made \in 0 .. Chunks /\ r.state \in RemoteStates /\ n \in 0 .. Chunks
      /\ remote[c].made \in 0 .. Chunks
  BY Values DEF Tasks, TypeOK
<1> HIDE DEF n
<1>2. /\ Status(r.state) \in Events /\ Event("error", 0) \in Events /\ Event("done", n) \in Events
  BY <1>1, Values DEF Status, Event, Events, RemoteStates
<1>3. CASE r.made > remote[c].made
  <2>1. Event("artifact", 1) \in Events /\ Event("token", r.made) \in Events
    BY <1>1, <1>3, Values, RemoteCallAssumption DEF Event, Events, RemoteStates
  <2>2. QED  BY <1>3, <2>1 DEF Streamed
<1>4. CASE ~(r.made > remote[c].made)
  <2>1. Ends(r.state, n) \in Seq(Events)
    <3>1. CASE r.state = "completed"
      BY <1>2, <3>1 DEF Ends
    <3>2. CASE r.state = "failed"
      BY <1>2, <3>2 DEF Ends
    <3>3. CASE r.state \notin {"completed", "failed"}
      BY <3>3 DEF Ends
    <3>4. QED  BY <3>1, <3>2, <3>3
  <2>2. Streamed(c, r, whole) = <<Status(r.state)>> \o Ends(r.state, n)
    BY <1>4 DEF Streamed, n
  <2>3. QED  BY <1>2, <2>1, <2>2
<1>5. QED  BY <1>3, <1>4

(***************************************************************************)
(* The steps of a call                                                     *)
(***************************************************************************)
\* Every step keeps the types, stores nothing, and leaves the other calls as
\* they are.
LEMMA CallTypes ==
  ASSUME TypeOK, stored = {}, NEW c \in Calls, CallInv(c), CallStep(c)
  PROVE  TypeOK' /\ stored' = {} /\ \A d \in Calls : d # c => Same(d)
<1> USE DEF TypeOK, Same, Places, Bracket, Loop
<1> DEFINE Goal == TypeOK' /\ stored' = {} /\ \A d \in Calls : d # c => Same(d)
<1>1. /\ Agent(c) \in Agents /\ MaxAttempts \in Nat /\ Budget \in Nat
      /\ want[c].pieces \in 0 .. Chunks
  BY Asked, Values
<1>2. CASE Begin(c)
  <2>1. attempt' \in [Calls -> 0 .. MaxAttempts]
    BY <1>1, <1>2 DEF Begin
  <2>2. /\ child' \in [Calls -> Seq({"submitted", "working"} \cup Terminal)]
        /\ step' \in [Calls -> Seq({"none", "running"} \cup Terminal)]
    BY <1>2 DEF Begin
  <2>3. pc' \in [Calls -> Places] /\ outcome' \in [Calls -> Outcomes \cup {None}]
    BY <1>2 DEF Begin
  <2>4. \A d \in Calls : d # c => Same(d)
    BY <1>2 DEF Begin, adapterVars
  <2>5. QED
    BY <1>2, <2>1, <2>2, <2>3, <2>4 DEF Begin, adapterVars, activeVars, wiringVars
<1>3. CASE Work(c)
  <2>1. /\ Latest(child[c], "working") \in Seq({"submitted", "working"} \cup Terminal)
        /\ Latest(step[c], "running") \in Seq({"none", "running"} \cup Terminal)
    BY LatestIn
  <2>2. QED
    BY <1>3, <2>1 DEF Work, adapterVars, consumerVars, activeVars, wiringVars
<1>4. CASE ReadChain(c)
  <2>1. chain' \in [Calls -> Chains] /\ \A d \in Calls : d # c => chain'[d] = chain[d]
    BY <1>1, <1>4 DEF ReadChain
  <2>2. active' \subseteq Agents /\ orphaned' \subseteq Agents
    BY <1>1, <1>4 DEF ReadChain, SetActiveAgent, activeVars
  <2>3. QED
    BY <1>4, <2>1, <2>2 DEF ReadChain, rowVars, adapterVars, consumerVars, wiringVars
<1>5. CASE FillChain(c)
  BY <1>1, <1>5 DEF FillChain, SetActiveAgent, rowVars, adapterVars, consumerVars
<1>6. CASE Intercept(c)
  <2>1. pending' \in [Calls -> Seq(Events)]
    <3>1. \E e \in Events : pending' = [pending EXCEPT ![c] = <<e>>]
      BY <1>6, Values DEF Intercept, Reports
    <3>2. QED  BY <3>1
  <2>2. QED
    BY <1>6, <2>1 DEF Intercept, Reports, rowVars, consumerVars, activeVars, wiringVars
<1>7. ASSUME NEW opens \in BOOLEAN, Submit(c, opens) PROVE Goal
  <2>1. Passed(c) \in Texts \cup {"none", "redacted"}
    BY <1>7, PassedHarmless DEF Submit, Carried
  <2>2. remote' \in [Calls -> Tasks] /\ \A d \in Calls : d # c => remote'[d] = remote[d]
    BY <1>7, <2>1, Values DEF Submit, Tasks, RemoteStates
  <2>3. /\ view' \in [Calls -> [mode : {"poll", "stream"}, artifact : BOOLEAN]]
        /\ \A d \in Calls : d # c => view'[d] = view[d]
    <3>1. PICK m \in {"poll", "stream"} : m = IF opens THEN "stream" ELSE "poll"
      OBVIOUS
    <3>2. view' = [view EXCEPT ![c].mode = m]
      BY <1>7, <3>1 DEF Submit
    <3>3. QED  BY <3>2
  <2>4. pc' \in [Calls -> Places] /\ \A d \in Calls : d # c => pc'[d] = pc[d]
    BY <1>7 DEF Submit
  <2>5. UNCHANGED <<want, attempt, rowVars, chain, pending, consumerVars, activeVars, wiringVars,
                    stored, spent>>
    BY <1>7 DEF Submit
  <2>6. QED
    BY <2>2, <2>3, <2>4, <2>5 DEF rowVars, consumerVars, activeVars, wiringVars
<1>8. CASE SubmitFails(c)
  <2>1. Passed(c) \in Texts \cup {"none", "redacted"}
    BY <1>8, PassedHarmless DEF SubmitFails, Carried
  <2>2. remote' \in [Calls -> Tasks] /\ \A d \in Calls : d # c => remote'[d] = remote[d]
    <3>1. CASE UNCHANGED remote
      BY <3>1
    <3>2. CASE remote' = [remote EXCEPT ![c].text = Passed(c)]
      <4>1. PICK t \in Texts \cup {"none", "redacted"} : t = Passed(c)
        BY <2>1
      <4>2. [remote[c] EXCEPT !.text = t] \in Tasks
        <5>1. remote[c] \in [state : RemoteStates, made : 0 .. Chunks,
                              text : Texts \cup {"none", "redacted"}]
          BY DEF Tasks
        <5>2. QED  BY <5>1 DEF Tasks
      <4>3. remote' = [remote EXCEPT ![c] = [remote[c] EXCEPT !.text = t]]
        BY <3>2, <4>1
      <4>4. QED  BY <4>2, <4>3
    <3>3. QED  BY <1>8, <3>1, <3>2 DEF SubmitFails
  <2>3. PICK e \in Events : Reports(c, <<e>>)
    BY <1>8, Values DEF SubmitFails
  <2>4. /\ pending' \in [Calls -> Seq(Events)] /\ pc' \in [Calls -> Places]
        /\ \A d \in Calls : d # c => pending'[d] = pending[d] /\ pc'[d] = pc[d]
    BY <2>3 DEF Reports
  <2>5. UNCHANGED <<want, attempt, rowVars, chain, view, consumerVars, activeVars, wiringVars,
                    stored, spent>>
    BY <1>8 DEF SubmitFails
  <2>6. QED
    BY <2>2, <2>4, <2>5 DEF rowVars, consumerVars, activeVars, wiringVars
<1>9. CASE Poll(c)
  <2>1. remote[c] \in Alike(remote[c], want[c].pieces)
    BY DEF CallInv, Whole, Alike
  <2>2. PICK r \in Tasks : /\ Reports(c, Seen(c, r))
                           /\ remote' = [remote EXCEPT ![c] = r]
                           /\ view' = [view EXCEPT ![c].artifact = @ \/ r.made > 0]
    BY <1>1, <1>9, <2>1, LaterAlike DEF Poll, Alike
  <2>3. Seen(c, r) \in Seq(Events)
    BY <2>2, SeenReports
  <2>4. pending' \in [Calls -> Seq(Events)] /\ \A d \in Calls : d # c => pending'[d] = pending[d]
    BY <2>2, <2>3 DEF Reports
  <2>5. /\ view' \in [Calls -> [mode : {"poll", "stream"}, artifact : BOOLEAN]]
        /\ \A d \in Calls : d # c => view'[d] = view[d]
    <3>1. PICK seen \in BOOLEAN : seen = (view[c].artifact \/ r.made > 0)
      OBVIOUS
    <3>2. view' = [view EXCEPT ![c].artifact = seen]
      BY <2>2, <3>1
    <3>3. QED  BY <3>2
  <2>6. remote' \in [Calls -> Tasks] /\ \A d \in Calls : d # c => remote'[d] = remote[d]
    BY <2>2
  <2>7. pc' \in [Calls -> Places] /\ \A d \in Calls : d # c => pc'[d] = pc[d]
    BY <2>2 DEF Reports
  <2>8. QED
    BY <1>9, <2>4, <2>5, <2>6, <2>7 DEF Poll, rowVars, consumerVars, activeVars, wiringVars
<1>10. CASE AskFails(c)
  <2>1. pending' = [pending EXCEPT ![c] = <<Event("error", 0)>>] /\ Event("error", 0) \in Events
    BY <1>10, Values DEF AskFails, Reports
  <2>2. QED
    BY <1>10, <2>1 DEF AskFails, Reports, rowVars, consumerVars, activeVars, wiringVars
<1>11. ASSUME NEW whole \in BOOLEAN, StreamEvent(c, whole) PROVE Goal
  <2>1. remote[c] \in Alike(remote[c], want[c].pieces)
    BY DEF CallInv, Whole, Alike
  <2>2. PICK r \in After(remote[c], want[c].pieces) :
           remote' = [remote EXCEPT ![c] = r] /\ Reports(c, Streamed(c, r, whole))
    BY <1>11 DEF StreamEvent, Streamed
  <2>3. r \in Tasks
    BY <1>1, <2>1, AfterAlike DEF Alike
  <2>4. Streamed(c, r, whole) \in Seq(Events)
    BY <2>3, StreamReports
  <2>5. /\ pending' \in [Calls -> Seq(Events)] /\ remote' \in [Calls -> Tasks]
        /\ pc' \in [Calls -> Places]
        /\ \A d \in Calls : d # c =>
             pending'[d] = pending[d] /\ remote'[d] = remote[d] /\ pc'[d] = pc[d]
    BY <2>2, <2>3, <2>4 DEF Reports
  <2>6. QED
    BY <1>11, <2>5 DEF StreamEvent, rowVars, consumerVars, activeVars, wiringVars
<1>12. CASE EndOfStream(c)
  <2>1. chain[c] = <<>>
    BY <1>12 DEF EndOfStream, CallInv, Located
  <2>2. CacheKeys(c) = {}
    BY <2>1 DEF CacheKeys
  <2>3. stored' = {}
    BY <1>12, <2>2 DEF EndOfStream
  <2>4. outcome' \in [Calls -> Outcomes \cup {None}]
    BY <1>12 DEF EndOfStream, Outcomes
  <2>5. QED
    BY <1>12, <2>3, <2>4 DEF EndOfStream, rowVars, adapterVars, activeVars, wiringVars
<1>13. CASE Consume(c) /\ UNCHANGED <<want, attempt, rowVars, chain, remote, view, verdict,
                                       activeVars, wiringVars, stored, spent>>
  <2>1. /\ pending' \in [Calls -> Seq(Events)] /\ text' \in [Calls -> Parted]
        /\ files' \in [Calls -> Parted] /\ outcome' \in [Calls -> Outcomes \cup {None}]
        /\ pc' \in [Calls -> Places]
        /\ \A d \in Calls : d # c =>
             /\ pending'[d] = pending[d] /\ text'[d] = text[d] /\ files'[d] = files[d]
             /\ outcome'[d] = outcome[d] /\ pc'[d] = pc[d]
    <3> HIDE DEF TypeOK, Places
    <3>1. QED  BY <1>13, ConsumeTypes
  <2>2. QED  BY <1>13, <2>1 DEF rowVars, activeVars, wiringVars
<1>14. CASE (Handle(c) \/ Published(c)) /\ ~Consume(c)
  <2>1. /\ pending' \in [Calls -> Seq(Events)]
        /\ \A d \in Calls : d # c => pending'[d] = pending[d]
    <3>1. pending[c] \in Seq(Events)
      OBVIOUS
    <3>2. pending[c] # <<>> => Tail(pending[c]) \in Seq(Events)
      BY <3>1
    <3>3. Handle(c) => pending[c] # <<>>
      BY DEF Handle, CallInv, Located
    <3>4. \E q \in Seq(Events) : pending' = [pending EXCEPT ![c] = q]
      <4>1. \/ pending' = [pending EXCEPT ![c] = <<>>]
            \/ pending' = [pending EXCEPT ![c] = Tail(pending[c])] /\ Handle(c)
            \/ pending' = pending
        BY <1>14 DEF Handle, Published
      <4>2. pending = [pending EXCEPT ![c] = pending[c]]
        OBVIOUS
      <4>3. QED  BY <3>1, <3>2, <3>3, <4>1, <4>2, Values
    <3>5. QED  BY <3>4
  <2>2. outcome' \in [Calls -> Outcomes \cup {None}]
    BY <1>14 DEF Handle, Published, Outcomes
  <2>3. pc' \in [Calls -> Places] /\ \A d \in Calls : d # c => pc'[d] = pc[d]
    BY <1>14 DEF Handle, Published
  <2>4. /\ text' = text /\ files' = files /\ \A d \in Calls : d # c => outcome'[d] = outcome[d]
    BY <1>14 DEF Handle, Published
  <2>5. UNCHANGED <<want, attempt, rowVars, chain, remote, view, verdict, activeVars, wiringVars,
                    stored, spent>>
    BY <1>14 DEF Handle, Published
  <2>6. QED
    BY <2>1, <2>2, <2>3, <2>4, <2>5 DEF rowVars, activeVars, wiringVars
<1>15. CASE DeadlineEscapes(c)
  <2>1. spent' \in 0 .. Budget
    BY <1>1, <1>15 DEF DeadlineEscapes, Spend
  <2>2. outcome' \in [Calls -> Outcomes \cup {None}]
    BY <1>15 DEF DeadlineEscapes, Outcomes
  <2>3. QED
    BY <1>15, <2>1, <2>2 DEF DeadlineEscapes, rowVars, adapterVars, activeVars, wiringVars
<1>16. CASE Leave(c)
  <2>1. active' \subseteq Agents /\ orphaned' \subseteq Agents
    BY <1>1, <1>16 DEF Leave, ClearActiveAgent
  <2>2. /\ pc' \in [Calls -> Places] /\ \A d \in Calls : d # c => pc'[d] = pc[d]
        /\ UNCHANGED <<want, attempt, rowVars, outcome, verdict, wiringVars, stored, spent>>
    BY <1>16 DEF Leave
  <2>3. CASE Forget(c)
    <3>1. /\ chain' \in [Calls -> Chains] /\ remote' \in [Calls -> Tasks]
          /\ view' \in [Calls -> [mode : {"poll", "stream"}, artifact : BOOLEAN]]
          /\ pending' \in [Calls -> Seq(Events)]
          /\ text' \in [Calls -> Parted] /\ files' \in [Calls -> Parted]
          /\ \A d \in Calls : d # c =>
               /\ chain'[d] = chain[d] /\ remote'[d] = remote[d] /\ view'[d] = view[d]
               /\ pending'[d] = pending[d] /\ text'[d] = text[d] /\ files'[d] = files[d]
      <4> HIDE DEF TypeOK
      <4>1. QED  BY <2>3, ForgetTypes
    <3>2. QED  BY <2>1, <2>2, <3>1 DEF rowVars, wiringVars
  <2>4. CASE UNCHANGED <<chain, adapterVars, text, files>>
    BY <2>1, <2>2, <2>4 DEF rowVars, wiringVars, adapterVars
  <2>5. QED  BY <1>16, <2>3, <2>4 DEF Leave
<1>17. CASE StoreAnswer(c)
  <2> DEFINE new == {[attempt |-> attempt[c], parts |-> p] :
                       p \in {q \in {Parts(c)} : outcome[c] = "completed" /\ q # <<>>}}
             Kept == [attempt : Nat, parts : Parted \ {<<>>}]
  <2>1. Parts(c) \in Parted /\ attempt[c] \in Nat
    BY <1>1 DEF Parts
  <2>2. new \subseteq Kept
    BY <2>1
  <2>3. answers' = [answers EXCEPT ![c] = @ \cup new]
    BY <1>17 DEF StoreAnswer
  <2> HIDE DEF new
  <2>4. /\ answers' \in [Calls -> SUBSET Kept]
        /\ \A d \in Calls : d # c => answers'[d] = answers[d]
    <3>1. answers \in [Calls -> SUBSET Kept] /\ answers[c] \cup new \in SUBSET Kept
      BY <2>2
    <3> HIDE DEF Kept
    <3>2. QED  BY <2>3, <3>1
  <2>5. QED
    BY <1>17, <2>4 DEF StoreAnswer, adapterVars, consumerVars, activeVars, wiringVars
<1>18. CASE CloseTask(c)
  <2>1. Latest(child[c], IF outcome[c] = "completed" THEN "completed" ELSE "failed")
          \in Seq({"submitted", "working"} \cup Terminal)
    BY LatestIn DEF Terminal
  <2>2. QED
    BY <1>18, <2>1 DEF CloseTask, adapterVars, consumerVars, activeVars, wiringVars
<1>19. CASE CloseStep(c)
  <2>1. /\ step' \in [Calls -> Seq({"none", "running"} \cup Terminal)]
        /\ \A d \in Calls : d # c => step'[d] = step[d]
    <3>1. outcome[c] \in Terminal =>
            Latest(step[c], outcome[c]) \in Seq({"none", "running"} \cup Terminal)
      BY LatestIn
    <3>2. QED  BY <1>19, <3>1 DEF CloseStep
  <2>2. QED
    BY <1>19, <2>1 DEF CloseStep, adapterVars, consumerVars, activeVars, wiringVars
<1>20. CASE GiveUp(c) \/ Overdue(c)
  <2>1. verdict' \in [Calls -> Outcomes \cup {None}]
    BY <1>20 DEF GiveUp, Overdue, Outcomes
  <2>2. \A d \in Calls : d # c => verdict'[d] = verdict[d]
    BY <1>20 DEF GiveUp, Overdue
  <2>3. pc' \in [Calls -> Places] /\ \A d \in Calls : d # c => pc'[d] = pc[d]
    <3>1. pc \in [Calls -> Places] /\ "over" \in Places
      OBVIOUS
    <3> HIDE DEF TypeOK, Places
    <3>2. pc' = pc \/ pc' = [pc EXCEPT ![c] = "over"]
      BY <1>20 DEF GiveUp, Overdue
    <3>3. QED  BY <3>1, <3>2
  <2>4. UNCHANGED <<want, attempt, rowVars, chain, adapterVars, text, files, outcome, activeVars,
                    wiringVars, stored, spent>>
    BY <1>20 DEF GiveUp, Overdue
  <2>5. QED
    BY <2>1, <2>2, <2>3, <2>4 DEF rowVars, adapterVars, activeVars, wiringVars
<1>21. CASE Crash(c) \/ Raise(c) \/ Return(c)
  <2>1. spent' \in 0 .. Budget
    BY <1>1, <1>21 DEF Crash, Raise, Return, Spend
  <2>2. active' \subseteq Agents /\ orphaned' \subseteq Agents
    BY <1>1, <1>21 DEF Crash, Raise, Return, ClearActiveAgent, activeVars
  <2>3. /\ pc' \in [Calls -> Places] /\ \A d \in Calls : d # c => pc'[d] = pc[d]
        /\ UNCHANGED <<want, attempt, rowVars, outcome, wiringVars, stored>>
        /\ Forget(c)
    BY <1>21 DEF Crash, Raise, Return
  <2>4. /\ verdict' \in [Calls -> Outcomes \cup {None}]
        /\ \A d \in Calls : d # c => verdict'[d] = verdict[d]
    BY <1>21 DEF Crash, Raise, Return
  <2>5. /\ chain' \in [Calls -> Chains] /\ remote' \in [Calls -> Tasks]
        /\ view' \in [Calls -> [mode : {"poll", "stream"}, artifact : BOOLEAN]]
        /\ pending' \in [Calls -> Seq(Events)]
        /\ text' \in [Calls -> Parted] /\ files' \in [Calls -> Parted]
        /\ \A d \in Calls : d # c =>
             /\ chain'[d] = chain[d] /\ remote'[d] = remote[d] /\ view'[d] = view[d]
             /\ pending'[d] = pending[d] /\ text'[d] = text[d] /\ files'[d] = files[d]
    <3> HIDE DEF TypeOK
    <3>1. QED  BY <2>3, ForgetTypes
  <2>6. QED
    BY <2>1, <2>2, <2>3, <2>4, <2>5 DEF rowVars, wiringVars
<1>22. Handle(c) => (Consume(c) /\ UNCHANGED <<want, attempt, rowVars, chain, remote, view, verdict,
                                       activeVars, wiringVars, stored, spent>>) \/ ~Consume(c)
  BY DEF Handle
<1>23. Published(c) => (Consume(c) /\ UNCHANGED <<want, attempt, rowVars, chain, remote, view, verdict,
                                       activeVars, wiringVars, stored, spent>>) \/ ~Consume(c)
  BY DEF Published
<1>24. CASE Enter(c)
  <2>1. active' \subseteq Agents /\ orphaned' \subseteq Agents
    BY <1>1, <1>24 DEF Enter, SetActiveAgent
  <2>2. QED
    BY <1>24, <2>1 DEF Enter, rowVars, adapterVars, consumerVars, wiringVars
<1>25. CASE ChainFails(c)
  <2>1. outcome' \in [Calls -> Outcomes \cup {None}]
    BY <1>25 DEF ChainFails, Outcomes
  <2>2. QED
    BY <1>25, <2>1 DEF ChainFails, rowVars, adapterVars, activeVars, wiringVars
<1>26. QED
  BY <1>2, <1>3, <1>4, <1>5, <1>6, <1>7, <1>8, <1>9, <1>10, <1>11, <1>12, <1>13, <1>14, <1>15, <1>16,
     <1>17, <1>18, <1>19, <1>20, <1>21, <1>22, <1>23, <1>24, <1>25
     DEF CallStep, Steps

LEMMA NoPieces == Pieces(0) = <<>>
BY DEF Pieces

\* A polled loop that ends completed has the whole of the answer.
LEMMA LoopWhole ==
  ASSUME TypeOK, NEW c \in Calls, EndsWhole(c), Blank(c), view[c].mode = "poll",
         NEW last, last = Loops(c)[Len(pending[c])]
  PROVE  /\ want[c].pieces = 0 => last.text = <<>>
         /\ last.outcome = "completed" =>
              remote[c].state = "completed" /\ last.text = Pieces(want[c].pieces)
<1> DEFINE n == Len(pending[c])
           p == Loops(c)
           q == pending[c]
           m == want[c].pieces
           T == {k \in Nat : k <= n =>
                   /\ m = 0 => p[k].text = <<>>
                   /\ p[k].outcome = "completed" =>
                        k = n /\ remote[c].state = "completed" /\ p[k].text = Pieces(m)}
<1>1. /\ q \in Seq(Events) /\ text[c] \in Parted /\ files[c] \in Parted
      /\ want[c].typed \in BOOLEAN /\ n \in Nat /\ DOMAIN q = 1 .. n
      /\ \A i \in 1 .. n : q[i] \in Events
      /\ m \in Nat
  <2>1. want[c].typed \in BOOLEAN /\ m \in 0 .. Chunks
    BY Asked DEF TypeOK
  <2>2. m \in Nat
    BY <2>1, Values
  <2>3. q \in Seq(Events) /\ text[c] \in Parted /\ files[c] \in Parted
    BY DEF TypeOK
  <2>4. n \in Nat /\ DOMAIN q = 1 .. n /\ \A i \in 1 .. n : q[i] \in Events
    BY <2>3
  <2>5. QED  BY <2>1, <2>2, <2>3, <2>4
<1>2. /\ p[0] = [text |-> text[c], files |-> files[c], outcome |-> None]
      /\ \A i \in 1 .. n : p[i] = Taken(p[i - 1], want[c].typed, q[i])
      /\ \A i \in 0 .. n : p[i] \in Locals
  BY <1>1, Turns
<1>3. /\ \A i \in 1 .. n : q[i].kind = "done" =>
           i = n /\ q[i].n = m /\ remote[c].state = "completed"
      /\ m = 0 => text[c] = <<>> /\ \A i \in 1 .. n : q[i].kind \notin {"artifact", "token"}
  BY <1>1 DEF EndsWhole, Blank
<1>4. ASSUME NEW l \in Locals, NEW ev \in Events, Taken(l, want[c].typed, ev).outcome = "completed"
      PROVE  /\ ev.kind = "done" \/ l.outcome = "completed"
             /\ ev.kind = "done" /\ ev.n = m /\ (m = 0 => l.text = <<>>) =>
                  Taken(l, want[c].typed, ev).text = Pieces(m)
  <2>1. CASE ev.kind = "done"
    <3>1. Taken(l, want[c].typed, ev).text = Result(l, ev.n)
      BY <2>1 DEF Taken, Locals
    <3>2. m > 0 => Result(l, m) = Pieces(m)
      BY DEF Result
    <3>3. m = 0 => Result(l, m) = l.text
      BY DEF Result
    <3>4. m > 0 \/ m = 0
      BY <1>1
    <3>5. QED  BY <2>1, <3>1, <3>2, <3>3, <3>4, NoPieces
  <2>2. CASE ev.kind = "artifact"
    BY <1>4, <2>2 DEF Taken, WithArtifact, Locals
  <2>3. CASE ev.kind \in {"token", "error", "status"}
    BY <1>4, <2>3 DEF Taken, Locals
  <2>4. QED  BY <2>1, <2>2, <2>3 DEF Events
<1>5. ASSUME NEW l \in Locals, NEW ev \in Events, m = 0, l.text = <<>>,
             ev.kind \notin {"artifact", "token"}, ev.kind = "done" => ev.n = m
      PROVE  Taken(l, want[c].typed, ev).text = <<>>
  BY <1>5 DEF Taken, Result, Locals, Events
<1> HIDE DEF n, p, q, m
<1>6. 0 \in T
  <2>1. p[0].text = text[c] /\ p[0].outcome = None
    BY <1>2
  <2>2. None # "completed"
    BY RemoteCallAssumption DEF Outcomes
  <2>3. QED  BY <1>3, <2>1, <2>2
<1>7. ASSUME NEW k \in Nat, k \in T PROVE k + 1 \in T
  <2> SUFFICES ASSUME k + 1 <= n
               PROVE  /\ m = 0 => p[k + 1].text = <<>>
                      /\ p[k + 1].outcome = "completed" =>
                           k + 1 = n /\ remote[c].state = "completed" /\ p[k + 1].text = Pieces(m)
    OBVIOUS
  <2>1. k + 1 \in 1 .. n /\ k \in 0 .. n /\ (k + 1) - 1 = k /\ k # n /\ k <= n
    BY <1>1
  <2>2. p[k + 1] = Taken(p[k], want[c].typed, q[k + 1]) /\ p[k] \in Locals /\ q[k + 1] \in Events
    BY <1>1, <1>2, <2>1
  <2>3. p[k].outcome # "completed" /\ (m = 0 => p[k].text = <<>>)
    BY <1>7, <2>1
  <2>4. m = 0 => p[k + 1].text = <<>>
    BY <1>3, <1>5, <2>1, <2>2, <2>3
  <2>5. ASSUME p[k + 1].outcome = "completed"
        PROVE  k + 1 = n /\ remote[c].state = "completed" /\ p[k + 1].text = Pieces(m)
    <3>1. q[k + 1].kind = "done"
      BY <1>4, <2>2, <2>3, <2>5
    <3>2. k + 1 = n /\ q[k + 1].n = m /\ remote[c].state = "completed"
      BY <1>3, <2>1, <3>1
    <3>3. QED  BY <1>4, <2>2, <2>3, <2>5, <3>1, <3>2
  <2>6. QED  BY <2>4, <2>5
<1> HIDE DEF T
<1>8. n \in T
  BY <1>1, <1>6, <1>7, Induct
<1>9. QED  BY <1>1, <1>8 DEF T, n, p, m

\* What only one call's rows and its attempt tell is kept while they are.
LEMMA Framed ==
  ASSUME NEW d \in Calls, CallInv(d), Same(d)
  PROVE  CallInv(d)'
<1> USE DEF CallInv, Same
<1>1. Located(d)' /\ Whole(d)' /\ Guarded(d)'
  BY DEF Located, Whole, EndsWhole, Blank, Guarded, Lawful
<1>2. RowsKept(d)' /\ RowsOpen(d)' /\ RowsAgreeAt(d)'
  BY DEF RowsKept, RowsOpen, RowsAgreeAt, Recorded
<1>3. QED  BY <1>1, <1>2

\* A step that leaves the exchange as it is and does not end the loop.
LEMMA Unmoved ==
  ASSUME NEW c \in Calls, Located(c), Whole(c), Guarded(c),
         want'[c] = want[c], chain'[c] = chain[c], remote'[c] = remote[c], view'[c] = view[c],
         pending'[c] = pending[c], text'[c] = text[c],
         want[c].route = "runner" => pc'[c] \notin {"resolve", "fill", "publish", "leave"},
         pc'[c] = "stream" => pc[c] = "stream",
         pc'[c] \in Early => pc[c] \in Early,
         pc'[c] = "handle" => pc[c] = "handle",
         pc'[c] \in {"leave", "store"} /\ outcome'[c] = "completed" /\ view[c].mode = "poll" =>
           pc[c] \in {"leave", "store"} /\ outcome[c] = "completed"
  PROVE  Located(c)' /\ Whole(c)' /\ Guarded(c)'
<1>1. Located(c)'
  BY DEF Located
<1>2. EndsWhole(c)' /\ Blank(c)'
  BY DEF Whole, EndsWhole, Blank
<1>3. Whole(c)'
  BY <1>2 DEF Whole
<1>4. Guarded(c)'
  BY DEF Guarded, Lawful
<1>5. QED  BY <1>1, <1>3, <1>4

\* A step that reports what it saw of the remote task.
LEMMA Moved ==
  ASSUME NEW c \in Calls, Located(c), Whole(c), Guarded(c),
         want'[c] = want[c], chain'[c] = chain[c], view'[c].mode = view[c].mode,
         text'[c] = text[c], pc'[c] = "handle", pending'[c] # <<>>,
         remote'[c].made <= want[c].pieces,
         remote'[c].state = "completed" => remote'[c].made = want[c].pieces,
         EndsWhole(c)', Blank(c)', Guarded(c)'
  PROVE  Located(c)' /\ Whole(c)' /\ Guarded(c)'
<1>1. Located(c)'
  BY DEF Located, Early
<1>2. Whole(c)'
  BY DEF Whole, Early
<1>3. QED  BY <1>1, <1>2

\* The loop goes on or ends.
LEMMA Consumed ==
  ASSUME TypeOK, NEW c \in Calls, Located(c), Whole(c), Guarded(c), Consume(c),
         pc[c] \in {"handle", "publish"}, UNCHANGED <<want, chain, remote, view>>
  PROVE  Located(c)' /\ Whole(c)' /\ Guarded(c)'
<1>1. PICK l \in Locals :
         /\ l = Loops(c)[Len(pending[c])] /\ pending'[c] = <<>> /\ text'[c] = l.text
         /\ outcome'[c] = l.outcome
         /\ pc'[c] = IF l.outcome # None THEN Done(c) ELSE Onward(c)
  BY ConsumeTypes
<1>2. /\ pc'[c] \in {"leave", "store", "stream", "wait"}
      /\ pc'[c] = "leave" => want[c].route = "activity"
      /\ pc'[c] = "stream" => view[c].mode = "stream"
  BY <1>1 DEF Done, Onward
<1>3. view[c].mode = "poll" =>
        /\ want[c].pieces = 0 => l.text = <<>>
        /\ l.outcome = "completed" =>
             remote[c].state = "completed" /\ l.text = Pieces(want[c].pieces)
  BY <1>1, LoopWhole DEF Whole
<1>4. Located(c)'
  BY <1>1, <1>2 DEF Located, Early
<1>5. EndsWhole(c)' /\ Blank(c)'
  BY <1>1, <1>3 DEF EndsWhole, Blank
<1>6. Whole(c)'
  BY <1>1, <1>2, <1>3, <1>5 DEF Whole, Early
<1>7. Guarded(c)'
  BY DEF Guarded, Lawful
<1>8. QED  BY <1>4, <1>6, <1>7

\* The locals of an attempt that is over.
LEMMA Forgotten ==
  ASSUME TypeOK, NEW c \in Calls, Forget(c), want' = want, pc'[c] \in {"lost", "over"}
  PROVE  Located(c)' /\ Whole(c)' /\ Guarded(c)'
<1>1. /\ chain'[c] = <<>> /\ remote'[c] = NoTask /\ view'[c] = Unseen /\ pending'[c] = <<>>
      /\ text'[c] = <<>>
  BY ForgetTypes
<1>2. ToSet(chain'[c]) = {} /\ want[c].pieces \in Nat
  BY <1>1, Asked, Values DEF ToSet
<1>3. Located(c)'
  BY <1>1 DEF Located, Unseen
<1>4. EndsWhole(c)' /\ Blank(c)'
  BY <1>1 DEF EndsWhole, Blank
<1>5. Whole(c)'
  BY <1>1, <1>2, <1>4 DEF Whole, NoTask
<1>6. Guarded(c)'
  BY <1>2 DEF Guarded
<1>7. QED  BY <1>3, <1>5, <1>6

\* The place, the answer and the message of the call that takes a step.
LEMMA OwnPlace ==
  ASSUME TypeOK, TypeOK', stored = {}, NEW c \in Calls, CallInv(c), CallStep(c)
  PROVE  Located(c)' /\ Whole(c)' /\ Guarded(c)'
<1> DEFINE Goal == Located(c)' /\ Whole(c)' /\ Guarded(c)'
<1>1. /\ Located(c) /\ Whole(c) /\ EndsWhole(c) /\ Blank(c) /\ Guarded(c)
      /\ want[c].pieces \in 0 .. Chunks /\ want[c].pieces \in Nat
  BY Asked, Values DEF CallInv, Whole
<1> HIDE DEF Goal
<1>2. ASSUME Enter(c) \/ Begin(c) \/ Work(c) PROVE Goal
  <2>1. /\ want' = want /\ chain' = chain /\ remote' = remote
        /\ view' = view /\ pending' = pending /\ text' = text
    BY <1>2 DEF Enter, Begin, Work, adapterVars, consumerVars
  <2>2. /\ pc[c] \in {"idle", "queued", "lost", "rows"}
        /\ pc'[c] \in {"queued", "rows", "resolve", "submit"}
        /\ pc'[c] = "resolve" => want[c].route = "activity"
    BY <1>2 DEF Enter, Begin, Work, TypeOK
  <2>3. QED  BY <1>1, <2>1, <2>2, Unmoved DEF Goal, Early
<1>3. ASSUME ReadChain(c) \/ FillChain(c) PROVE Goal
  <2>1. /\ want' = want /\ remote' = remote /\ view' = view /\ pending' = pending /\ text' = text
        /\ pc[c] \in {"resolve", "fill"} /\ pc'[c] \in {"fill", "submit"}
    BY <1>3 DEF ReadChain, FillChain, adapterVars, consumerVars, TypeOK
  <2>2. want[c].route # "runner"
    BY <1>1, <2>1 DEF Located
  <2>3. remote[c].text = "none"
    BY <1>1, <2>1 DEF Located, Early, NoTask
  <2>4. Located(c)' /\ Guarded(c)'
    BY <1>1, <2>1, <2>2, <2>3 DEF Located, Early, Guarded
  <2>5. EndsWhole(c)' /\ Blank(c)'
    BY <1>1, <2>1 DEF EndsWhole, Blank
  <2>6. Whole(c)'
    BY <1>1, <2>1, <2>5 DEF Whole, Early
  <2>7. QED  BY <2>4, <2>6 DEF Goal
<1>4. ASSUME ChainFails(c) PROVE Goal
  <2>1. /\ want' = want /\ chain' = chain /\ remote' = remote
        /\ view' = view /\ pending' = pending /\ text' = text
        /\ pc[c] = "resolve" /\ pc'[c] = "store" /\ outcome'[c] = "failed"
    BY <1>4 DEF ChainFails, adapterVars, TypeOK
  <2>2. QED  BY <1>1, <2>1, Unmoved DEF Goal, Early
<1>5. ASSUME Intercept(c) \/ SubmitFails(c) \/ AskFails(c) PROVE Goal
  <2>1. PICK e \in Events : e.kind = "error" /\ Reports(c, <<e>>)
    <3>1. CASE Intercept(c)
      <4>1. Passed(c) = "refused"
        BY <3>1, PassedHarmless DEF Intercept
      <4>2. QED  BY <3>1, <4>1, Values DEF Intercept, Event
    <3>2. CASE SubmitFails(c) \/ AskFails(c)
      BY <3>2, Values DEF SubmitFails, AskFails, Event
    <3>3. QED  BY <1>5, <3>1, <3>2
  <2>2. pending'[c] = <<e>> /\ pc'[c] = "handle"
    BY <2>1 DEF Reports, TypeOK
  <2>3. /\ want'[c] = want[c] /\ chain'[c] = chain[c] /\ view'[c] = view[c] /\ text'[c] = text[c]
        /\ remote'[c].state = remote[c].state /\ remote'[c].made = remote[c].made
        /\ remote'[c] = remote[c] \/ (SubmitFails(c) /\ remote'[c].text = Passed(c))
    <3>1. CASE Intercept(c) \/ AskFails(c)
      BY <3>1 DEF Intercept, AskFails, consumerVars, TypeOK
    <3>2. CASE SubmitFails(c)
      <4>1. /\ want' = want /\ chain' = chain /\ view' = view /\ text' = text
            /\ remote' = remote \/ remote' = [remote EXCEPT ![c].text = Passed(c)]
        BY <3>2 DEF SubmitFails, consumerVars
      <4>2. remote[c] \in [state : RemoteStates, made : 0 .. Chunks,
                           text : Texts \cup {"none", "redacted"}]
        BY DEF TypeOK, Tasks
      <4>3. QED  BY <3>2, <4>1, <4>2 DEF TypeOK
    <3>3. QED  BY <1>5, <3>1, <3>2
  <2>4. Lawful(c)' = Lawful(c)
    BY <2>3 DEF Lawful
  <2>5. Guarded(c)'
    <3>1. CASE remote'[c] = remote[c]
      BY <1>1, <2>3, <2>4, <3>1 DEF Guarded
    <3>2. CASE SubmitFails(c) /\ remote'[c].text = Passed(c)
      BY <2>3, <2>4, <3>2, SentLawful DEF SubmitFails, Guarded
    <3>3. QED  BY <2>3, <3>1, <3>2
  <2>6. /\ pending'[c] # <<>>
        /\ \A i \in DOMAIN pending'[c] : pending'[c][i].kind \notin {"done", "artifact", "token"}
    BY <2>1, <2>2
  <2>7. EndsWhole(c)'
    BY <2>6 DEF EndsWhole
  <2>8. Blank(c)'
    BY <1>1, <2>3, <2>6 DEF Blank
  <2>9. /\ remote'[c].made <= want[c].pieces
        /\ remote'[c].state = "completed" => remote'[c].made = want[c].pieces
    BY <1>1, <2>3 DEF Whole
  <2>10. QED  BY <1>1, <2>2, <2>3, <2>5, <2>6, <2>7, <2>8, <2>9, Moved DEF Goal
<1>6. ASSUME NEW opens \in BOOLEAN, Submit(c, opens) PROVE Goal
  <2>1. /\ want' = want /\ chain' = chain /\ text' = text /\ pending' = pending
        /\ remote'[c] = [state |-> "sent", made |-> 0, text |-> Passed(c)]
        /\ pc[c] = "submit" /\ pc'[c] = IF opens THEN "stream" ELSE "wait"
        /\ opens => want[c].route = "runner" /\ want[c].streams
    BY <1>6 DEF Submit, consumerVars, TypeOK
  <2>2. view'[c].mode = IF opens THEN "stream" ELSE "poll"
    <3>1. view[c] \in [mode : {"poll", "stream"}, artifact : BOOLEAN]
      BY DEF TypeOK
    <3>2. view' = [view EXCEPT ![c].mode = IF opens THEN "stream" ELSE "poll"]
      BY <1>6 DEF Submit
    <3>3. QED  BY <3>1, <3>2 DEF TypeOK
  <2>3. pending'[c] = <<>> /\ view[c].mode = "poll"
    BY <1>1, <2>1 DEF Located, Early, Unseen
  <2>4. Guarded(c)'
    BY <1>6, <2>1, SentLawful DEF Submit, Guarded, Lawful
  <2>5. Located(c)'
    BY <1>1, <2>1, <2>2 DEF Located, Early
  <2>6. EndsWhole(c)' /\ Blank(c)'
    BY <1>1, <2>1, <2>3 DEF EndsWhole, Blank
  <2>7. Whole(c)'
    BY <1>1, <2>1, <2>6 DEF Whole, Early
  <2>8. QED  BY <2>4, <2>5, <2>7 DEF Goal
<1>7. ASSUME Poll(c) PROVE Goal
  <2>1. remote[c] \in Alike(remote[c], want[c].pieces)
    BY <1>1 DEF Alike, TypeOK, Whole
  <2>2. PICK r \in Alike(remote[c], want[c].pieces) :
           /\ Seen(c, r) # <<>> /\ Reports(c, Seen(c, r))
           /\ remote' = [remote EXCEPT ![c] = r]
           /\ view' = [view EXCEPT ![c].artifact = @ \/ r.made > 0]
    BY <1>1, <1>7, <2>1, LaterAlike DEF Poll, TypeOK
  <2>3. /\ r \in Tasks /\ r.text = remote[c].text /\ r.made <= want[c].pieces /\ r.made \in Nat
        /\ r.state = "completed" => r.made = want[c].pieces
    BY <2>2, Values DEF Alike, Tasks
  <2>4. /\ pending'[c] = Seen(c, r) /\ pc'[c] = "handle" /\ remote'[c] = r /\ pc[c] = "wait"
        /\ want' = want /\ chain' = chain /\ text' = text
    BY <1>7, <2>2 DEF Poll, Reports, consumerVars, TypeOK
  <2>5. view'[c].mode = view[c].mode
    BY <2>2 DEF TypeOK
  <2>6. \A i \in DOMAIN Seen(c, r) :
          /\ Seen(c, r)[i].kind = "done" =>
               i = Len(Seen(c, r)) /\ Seen(c, r)[i].n = r.made /\ r.state = "completed"
          /\ r.made = 0 => Seen(c, r)[i].kind \notin {"artifact", "token"}
    BY <2>3, SeenReports
  <2>7. EndsWhole(c)'
    BY <2>3, <2>4, <2>6 DEF EndsWhole
  <2>8. Blank(c)'
    <3>1. want[c].pieces = 0 => r.made = 0
      BY <2>3
    <3>2. QED  BY <1>1, <2>4, <2>5, <2>6, <3>1 DEF Blank
  <2>9. Guarded(c)'
    BY <1>1, <2>3, <2>4 DEF Guarded, Lawful
  <2>10. QED  BY <1>1, <2>2, <2>3, <2>4, <2>5, <2>7, <2>8, <2>9, Moved DEF Goal
<1>8. ASSUME NEW whole \in BOOLEAN, StreamEvent(c, whole) PROVE Goal
  <2>1. remote[c] \in Alike(remote[c], want[c].pieces)
    BY <1>1 DEF Alike, TypeOK, Whole
  <2>2. PICK r \in After(remote[c], want[c].pieces) :
           remote' = [remote EXCEPT ![c] = r] /\ Reports(c, Streamed(c, r, whole))
    BY <1>8 DEF StreamEvent, Streamed
  <2>3. /\ r \in Tasks /\ r.text = remote[c].text /\ r.made <= want[c].pieces
        /\ r.state = "completed" => r.made = want[c].pieces
    BY <1>1, <2>1, <2>2, AfterAlike DEF Alike
  <2>4. Streamed(c, r, whole) # <<>>
    BY <2>3, StreamReports
  <2>5. /\ pending'[c] # <<>> /\ pc'[c] = "handle" /\ remote'[c] = r /\ pc[c] = "stream"
        /\ want' = want /\ chain' = chain /\ view' = view /\ text' = text
    BY <1>8, <2>2, <2>4 DEF StreamEvent, Reports, consumerVars, TypeOK
  <2>6. view'[c].mode # "poll"
    BY <1>1, <2>5 DEF Located
  <2>7. EndsWhole(c)' /\ Blank(c)'
    BY <2>6 DEF EndsWhole, Blank
  <2>8. Guarded(c)'
    BY <1>1, <2>3, <2>5 DEF Guarded, Lawful
  <2>9. QED  BY <1>1, <2>3, <2>5, <2>7, <2>8, Moved DEF Goal
<1>9. ASSUME EndOfStream(c) PROVE Goal
  <2>1. /\ pc[c] = "stream" /\ pc'[c] = "store" /\ want' = want /\ chain' = chain
        /\ view' = view /\ remote' = remote /\ pending' = pending /\ text' = text
    BY <1>9 DEF EndOfStream, adapterVars, TypeOK
  <2>2. view[c].mode # "poll"
    BY <1>1, <2>1 DEF Located
  <2>3. QED  BY <1>1, <2>1, <2>2, Unmoved DEF Goal, Early
<1>10. ASSUME Handle(c) \/ Published(c), Consume(c) PROVE Goal
  <2>1. pc[c] \in {"handle", "publish"} /\ UNCHANGED <<want, chain, remote, view>>
    BY <1>10 DEF Handle, Published
  <2>2. QED  BY <1>1, <1>10, <2>1, Consumed DEF Goal
<1>11. ASSUME Handle(c), ~Consume(c) PROVE Goal
  <2>1. /\ pc[c] = "handle" /\ want[c].route = "activity"
        /\ UNCHANGED <<want, chain, remote, view, text>> /\ pc'[c] = "publish"
        /\ pending'[c] = <<>> \/ pending'[c] = Tail(pending[c])
    BY <1>11 DEF Handle, TypeOK
  <2>2. pending[c] # <<>> /\ pending[c] \in Seq(Events)
    BY <1>1, <2>1 DEF TypeOK, Located
  <2>3. EndsWhole(c)' /\ Blank(c)'
    <3>1. CASE pending'[c] = <<>>
      BY <1>1, <2>1, <3>1 DEF EndsWhole, Blank
    <3>2. CASE pending'[c] = Tail(pending[c])
      <4>1. /\ Len(pending'[c]) = Len(pending[c]) - 1 /\ Len(pending[c]) \in Nat
            /\ \A i \in DOMAIN pending'[c] :
                 i \in Nat /\ i + 1 \in DOMAIN pending[c] /\ pending'[c][i] = pending[c][i + 1]
        BY <2>2, <3>2
      <4>2. QED  BY <1>1, <2>1, <4>1 DEF EndsWhole, Blank
    <3>3. QED  BY <2>1, <3>1, <3>2
  <2>4. Located(c)'
    BY <1>1, <2>1 DEF Located, Early
  <2>5. Whole(c)'
    BY <1>1, <2>1, <2>3 DEF Whole, Early
  <2>6. Guarded(c)'
    BY <1>1, <2>1 DEF Guarded, Lawful
  <2>7. QED  BY <2>4, <2>5, <2>6 DEF Goal
<1>12. ASSUME DeadlineEscapes(c) \/ (Published(c) /\ ~Consume(c)) PROVE Goal
  <2>1. /\ pc[c] = "publish" /\ pc'[c] = "leave" /\ outcome'[c] \in {"cancelled", "input-required"}
        /\ UNCHANGED <<want, chain, remote, view, pending, text>>
    BY <1>12 DEF DeadlineEscapes, Published, adapterVars, TypeOK
  <2>2. want[c].route # "runner"
    BY <1>1, <2>1 DEF Located
  <2>3. QED  BY <1>1, <2>1, <2>2, Unmoved DEF Goal, Early
<1>13. ASSUME (Leave(c) /\ outcome[c] = "cancelled") \/ Return(c) \/ Raise(c) \/ Crash(c) PROVE Goal
  <2>1. Forget(c) /\ want' = want
    BY <1>13 DEF Leave, Return, Raise, Crash
  <2>2. pc'[c] \in {"lost", "over"}
    BY <1>13 DEF Leave, Return, Raise, Crash, TypeOK
  <2>3. QED  BY <2>1, <2>2, Forgotten DEF Goal
<1>14. ASSUME Leave(c), outcome[c] # "cancelled" PROVE Goal
  <2>1. /\ pc[c] = "leave" /\ pc'[c] = "store" /\ outcome' = outcome /\ text' = text
        /\ UNCHANGED <<want, chain, remote, view, pending>>
    BY <1>14 DEF Leave, adapterVars, TypeOK
  <2>2. QED  BY <1>1, <2>1, Unmoved DEF Goal, Early
<1>15. ASSUME StoreAnswer(c) \/ CloseTask(c) \/ CloseStep(c) PROVE Goal
  <2>1. /\ pc[c] \in {"store", "close", "finish"} /\ pc'[c] \in {"close", "finish", "return"}
        /\ UNCHANGED <<want, chain, remote, view, pending, text>>
    BY <1>15 DEF StoreAnswer, CloseTask, CloseStep, adapterVars, consumerVars, TypeOK
  <2>2. QED  BY <1>1, <2>1, Unmoved DEF Goal, Early
<1>16. ASSUME GiveUp(c) \/ Overdue(c) PROVE Goal
  <2>1. /\ pc'[c] = pc[c] \/ (pc[c] = "lost" /\ pc'[c] = "over")
        /\ UNCHANGED <<want, chain, remote, view, pending, outcome, text>>
    BY <1>16 DEF GiveUp, Overdue, adapterVars, TypeOK
  <2>2. QED  BY <1>1, <2>1, Unmoved DEF Goal, Early, Located
<1>17. Goal
  BY <1>2, <1>3, <1>4, <1>5, <1>6, <1>7, <1>8, <1>9, <1>10, <1>11, <1>12, <1>13, <1>14, <1>15, <1>16
     DEF CallStep, Steps
<1>18. QED  BY <1>17 DEF Goal

(***************************************************************************)
(* The rows                                                                *)
(***************************************************************************)
\* A step that writes no row, before the answer is stored or into a crash.
LEMMA RowsLeft ==
  ASSUME NEW c \in Calls, RowsKept(c), RowsOpen(c), RowsAgreeAt(c),
         want'[c] = want[c], attempt'[c] = attempt[c], child'[c] = child[c], step'[c] = step[c],
         answers'[c] = answers[c], verdict'[c] = verdict[c], pc[c] \notin {"idle", "over"},
         (pc[c] \in Unanswered /\ pc'[c] \in Unanswered) \/ pc'[c] = "lost"
  PROVE  RowsKept(c)' /\ RowsOpen(c)' /\ RowsAgreeAt(c)'
<1>1. RowsKept(c)'
  BY DEF RowsKept, Unanswered
<1>2. Recorded(c, attempt[c])' <=> Recorded(c, attempt[c])
  BY DEF Recorded
<1>3. pc'[c] \notin {"idle", "queued", "close", "finish", "return", "over"}
  BY DEF Unanswered
<1>4. RowsOpen(c)'
  BY <1>2, <1>3 DEF RowsOpen, Unclosed, Unanswered
<1>5. RowsAgreeAt(c)'
  BY DEF RowsAgreeAt, Recorded
<1>6. QED  BY <1>1, <1>4, <1>5

\* A new attempt has rows of its own.
LEMMA BeginRows ==
  ASSUME TypeOK, NEW c \in Calls, CallInv(c), Begin(c)
  PROVE  RowsKept(c)' /\ RowsOpen(c)' /\ RowsAgreeAt(c)'
<1> DEFINE n == attempt[c]
<1>1. /\ n \in Nat /\ Len(child[c]) = n /\ Len(step[c]) = n
      /\ child[c] \in Seq({"submitted", "working"} \cup Terminal)
      /\ step[c] \in Seq({"none", "running"} \cup Terminal)
      /\ pc[c] \in {"idle", "queued", "lost"}
      /\ \A a \in answers[c] : a.attempt \in Nat /\ a.attempt <= n
    <2>1. /\ n \in Nat /\ child[c] \in Seq({"submitted", "working"} \cup Terminal)
        /\ step[c] \in Seq({"none", "running"} \cup Terminal)
    BY Values DEF TypeOK
  <2>2. Len(child[c]) = n /\ Len(step[c]) = n /\ \A a \in answers[c] : a.attempt <= n
    BY DEF CallInv, RowsKept
  <2>3. \A a \in answers[c] : a.attempt \in Nat
    BY DEF TypeOK
  <2>4. pc[c] \in {"idle", "queued", "lost"}
    BY DEF Begin
  <2>5. QED  BY <2>1, <2>2, <2>3, <2>4
<1>2. /\ attempt'[c] = n + 1 /\ pc'[c] = "rows"
      /\ child'[c] = Append(child[c], "submitted") /\ step'[c] = Append(step[c], "none")
  BY DEF TypeOK, Begin
<1>3. want'[c] = want[c] /\ answers'[c] = answers[c] /\ verdict'[c] = verdict[c]
  BY DEF Begin
<1>4. verdict[c] \notin {"completed", "input-required"}
  BY <1>1 DEF CallInv, RowsOpen
<1>5. /\ Len(child'[c]) = n + 1 /\ Len(step'[c]) = n + 1
      /\ DOMAIN child'[c] = 1 .. n + 1
      /\ child'[c][n + 1] = "submitted" /\ step'[c][n + 1] = "none"
      /\ \A k \in 1 .. n : child'[c][k] = child[c][k] /\ step'[c][k] = step[c][k]
      /\ DOMAIN child[c] = 1 .. n /\ n + 1 > 0
      /\ \A k \in 1 .. n + 1 : k \in 1 .. n \/ k = n + 1
  BY <1>1, <1>2
<1>6. \A a \in answers[c] : a.attempt # n + 1 /\ a.attempt <= n + 1
  BY <1>1
<1> HIDE DEF n
<1>7. RowsKept(c)'
  BY <1>2, <1>3, <1>5, <1>6 DEF RowsKept
<1>8. RowsOpen(c)'
  BY <1>2, <1>3, <1>4, <1>5, <1>6 DEF RowsOpen, Recorded, Unanswered, Unclosed, Terminal
<1>9. ASSUME NEW k \in 1 .. n + 1
      PROVE  /\ child'[c][k] = "completed" => want'[c].streams \/ want'[c].pieces = 0 \/ Recorded(c, k)'
             /\ child'[c][k] = "failed" => ~Recorded(c, k)'
             /\ step'[c][k] \in Terminal => child'[c][k] = step'[c][k]
  <2>1. CASE k = n + 1
    BY <1>5, <2>1 DEF Terminal
  <2>2. CASE k \in 1 .. n
    <3>1. child'[c][k] = child[c][k] /\ step'[c][k] = step[c][k] /\ k \in DOMAIN child[c]
      BY <1>5, <2>2
    <3>2. QED  BY <1>3, <3>1 DEF CallInv, RowsAgreeAt, Recorded
  <2>3. QED  BY <1>5, <2>1, <2>2
<1>10. RowsAgreeAt(c)'
  BY <1>3, <1>4, <1>5, <1>9 DEF RowsAgreeAt
<1>11. QED  BY <1>7, <1>8, <1>10

\* A step that writes the rows of the current attempt: what has to be shown
\* of the others is that they are as they were.
LEMMA LatestRows ==
  ASSUME TypeOK, NEW c \in Calls, RowsKept(c), RowsAgreeAt(c), attempt[c] > 0,
         want'[c] = want[c], attempt'[c] = attempt[c],
         DOMAIN child'[c] = DOMAIN child[c],
         \A k \in DOMAIN child[c] : k # attempt[c] =>
           /\ child'[c][k] = child[c][k] /\ step'[c][k] = step[c][k]
           /\ Recorded(c, k)' <=> Recorded(c, k),
         child'[c][attempt[c]] = "completed" => want[c].streams \/ want[c].pieces = 0 \/ Recorded(c, attempt[c])',
         child'[c][attempt[c]] = "failed" => ~Recorded(c, attempt[c])',
         step'[c][attempt[c]] \in Terminal => child'[c][attempt[c]] = step'[c][attempt[c]]
  PROVE  \A k \in DOMAIN child'[c] :
           /\ child'[c][k] = "completed" => want'[c].streams \/ want'[c].pieces = 0 \/ Recorded(c, k)'
           /\ child'[c][k] = "failed" => ~Recorded(c, k)'
           /\ step'[c][k] \in Terminal => child'[c][k] = step'[c][k]
<1> TAKE k \in DOMAIN child'[c]
<1>1. CASE k = attempt[c]
  BY <1>1
<1>2. CASE k # attempt[c]
  <2>1. /\ child'[c][k] = child[c][k] /\ step'[c][k] = step[c][k] /\ k \in DOMAIN child[c]
        /\ Recorded(c, k)' <=> Recorded(c, k)
    BY <1>2
  <2>2. QED  BY <2>1 DEF RowsAgreeAt
<1>3. QED  BY <1>1, <1>2

\* A row written as the current attempt's.
LEMMA Written ==
  ASSUME NEW S, NEW s \in Seq(S), NEW x \in S, NEW n, n = Len(s), n > 0, NEW t, t = Latest(s, x)
  PROVE  /\ Len(t) = n /\ DOMAIN t = DOMAIN s /\ t[n] = x
         /\ \A k \in DOMAIN s : k # n => t[k] = s[k]
<1>1. /\ Latest(s, x) \in Seq(S) /\ Len(Latest(s, x)) = Len(s)
      /\ DOMAIN Latest(s, x) = DOMAIN s
      /\ Len(s) > 0 => Latest(s, x)[Len(s)] = x
      /\ \A k \in DOMAIN s : k # Len(s) => Latest(s, x)[k] = s[k]
  BY LatestIn
<1>2. QED  BY <1>1

\* The rows of an attempt that is under way.
LEMMA UnderWay ==
  ASSUME TypeOK, NEW c \in Calls, CallInv(c), pc[c] \in Unclosed
  PROVE  /\ attempt[c] \in Nat /\ attempt[c] > 0 /\ attempt[c] \in DOMAIN child[c]
         /\ Len(child[c]) = attempt[c] /\ Len(step[c]) = attempt[c]
         /\ DOMAIN step[c] = DOMAIN child[c]
         /\ Last(child[c]) = child[c][attempt[c]] /\ Last(step[c]) = step[c][attempt[c]]
         /\ child[c] \in Seq({"submitted", "working"} \cup Terminal)
         /\ step[c] \in Seq({"none", "running"} \cup Terminal)
         /\ verdict[c] \notin {"completed", "input-required"}
<1>1. /\ attempt[c] \in Nat /\ child[c] \in Seq({"submitted", "working"} \cup Terminal)
      /\ step[c] \in Seq({"none", "running"} \cup Terminal)
  BY Values DEF TypeOK
<1>2. Len(child[c]) = attempt[c] /\ Len(step[c]) = attempt[c] /\ attempt[c] > 0
  BY DEF CallInv, RowsKept, Unclosed, Unanswered
<1>3. verdict[c] \notin {"completed", "input-required"}
  BY DEF CallInv, RowsOpen, Unclosed, Unanswered
<1>4. QED  BY <1>1, <1>2, <1>3 DEF Last

\* transition(child, "working") and record_step
LEMMA WorkRows ==
  ASSUME TypeOK, NEW c \in Calls, CallInv(c), Work(c)
  PROVE  RowsKept(c)' /\ RowsOpen(c)' /\ RowsAgreeAt(c)'
<1>0. PICK n : n = attempt[c]
  OBVIOUS
<1>1. pc[c] = "rows" /\ pc[c] \in Unclosed /\ pc[c] \in Unanswered
  BY DEF Work, Unclosed, Unanswered
<1>2. /\ n \in Nat /\ n > 0 /\ n \in DOMAIN child[c] /\ Len(child[c]) = n /\ Len(step[c]) = n
      /\ DOMAIN step[c] = DOMAIN child[c] /\ verdict[c] \notin {"completed", "input-required"}
  BY <1>0, <1>1, UnderWay
<1>3. /\ child'[c] = Latest(child[c], "working") /\ step'[c] = Latest(step[c], "running")
      /\ want'[c] = want[c] /\ attempt'[c] = n /\ answers'[c] = answers[c]
      /\ verdict'[c] = verdict[c] /\ pc'[c] \in {"resolve", "submit"}
  <2>1. /\ child'[c] = Latest(child[c], "working") /\ step'[c] = Latest(step[c], "running")
    BY DEF Work, TypeOK
  <2>2. pc'[c] \in {"resolve", "submit"}
    BY DEF Work, TypeOK
  <2>3. QED  BY <1>0, <2>1, <2>2 DEF Work, consumerVars
<1>4. /\ DOMAIN child'[c] = DOMAIN child[c] /\ Len(child'[c]) = n /\ child'[c][n] = "working"
      /\ \A k \in DOMAIN child[c] : k # n => child'[c][k] = child[c][k]
  <2>1. child[c] \in Seq({"submitted", "working"} \cup Terminal)
    BY <1>1, UnderWay
  <2>2. "working" \in {"submitted", "working"} \cup Terminal /\ Len(child[c]) = n
    BY <1>2
  <2>3. child'[c] = Latest(child[c], "working")
    BY <1>3
  <2>4. QED  BY <1>2, <2>1, <2>2, <2>3, Written
<1>5. /\ Len(step'[c]) = n /\ step'[c][n] = "running"
      /\ \A k \in DOMAIN step[c] : k # n => step'[c][k] = step[c][k]
  <2>1. step[c] \in Seq({"none", "running"} \cup Terminal)
    BY <1>1, UnderWay
  <2>2. "running" \in {"none", "running"} \cup Terminal /\ Len(step[c]) = n
    BY <1>2
  <2>3. step'[c] = Latest(step[c], "running")
    BY <1>3
  <2>4. QED  BY <1>2, <2>1, <2>2, <2>3, Written
<1>6. \A k : Recorded(c, k)' <=> Recorded(c, k)
  BY <1>3 DEF Recorded
<1>7. RowsKept(c)'
  BY <1>0, <1>2, <1>3, <1>4, <1>5 DEF RowsKept, CallInv
<1>8. RowsOpen(c)'
  <2>1. ~Recorded(c, n)'
    BY <1>0, <1>1, <1>6 DEF CallInv, RowsOpen
  <2>2. child'[c][n] \notin Terminal /\ step'[c][n] \notin Terminal
    BY <1>4, <1>5 DEF Terminal
  <2>3. pc'[c] \notin {"close", "finish", "return", "over"}
    BY <1>3
  <2>4. QED
    BY <1>2, <1>3, <2>1, <2>2, <2>3 DEF RowsOpen
<1>9. RowsAgreeAt(c)'
  <2>1. "working" \notin Terminal /\ "running" \notin Terminal
    BY DEF Terminal
  <2>2. \A k \in DOMAIN child[c] : k # n =>
           /\ child'[c][k] = child[c][k] /\ step'[c][k] = step[c][k]
           /\ Recorded(c, k)' <=> Recorded(c, k)
    BY <1>2, <1>4, <1>5, <1>6
  <2>3. \A k \in DOMAIN child'[c] :
           /\ child'[c][k] = "completed" => want'[c].streams \/ want'[c].pieces = 0 \/ Recorded(c, k)'
           /\ child'[c][k] = "failed" => ~Recorded(c, k)'
           /\ step'[c][k] \in Terminal => child'[c][k] = step'[c][k]
    BY <1>0, <1>2, <1>3, <1>4, <1>5, <2>1, <2>2, LatestRows DEF CallInv
  <2>4. QED  BY <1>2, <1>3, <2>3 DEF RowsAgreeAt
<1>10. QED  BY <1>7, <1>8, <1>9

\* record_and_cache_artifact: a completed call of an agent without a stream
\* has something to record.
LEMMA StoreRows ==
  ASSUME TypeOK, NEW c \in Calls, CallInv(c), StoreAnswer(c)
  PROVE  RowsKept(c)' /\ RowsOpen(c)' /\ RowsAgreeAt(c)'
<1>0. PICK n : n = attempt[c]
  OBVIOUS
<1>1. pc[c] = "store" /\ pc[c] \in Unclosed /\ pc[c] \in Unanswered /\ pc'[c] = "close"
  BY DEF StoreAnswer, Unclosed, Unanswered, TypeOK
<1>2. /\ n \in Nat /\ n > 0 /\ n \in DOMAIN child[c] /\ Len(child[c]) = n /\ Len(step[c]) = n
      /\ verdict[c] \notin {"completed", "input-required"}
  BY <1>0, <1>1, UnderWay
<1>3. /\ want'[c] = want[c] /\ attempt'[c] = n /\ child'[c] = child[c] /\ step'[c] = step[c]
      /\ verdict'[c] = verdict[c] /\ outcome'[c] = outcome[c]
  BY <1>0 DEF StoreAnswer, consumerVars
<1>4. PICK new : /\ answers'[c] = answers[c] \cup new
                 /\ \A a \in new : a.attempt = n /\ outcome[c] = "completed"
                 /\ outcome[c] = "completed" /\ Parts(c) # <<>> => \E a \in new : a.attempt = n
  <2> DEFINE kept == {[attempt |-> n, parts |-> p] :
                        p \in {q \in {Parts(c)} : outcome[c] = "completed" /\ q # <<>>}}
  <2>1. answers'[c] = answers[c] \cup kept
    BY <1>0 DEF StoreAnswer, TypeOK
  <2>2. \A a \in kept : a.attempt = n /\ outcome[c] = "completed"
    OBVIOUS
  <2>3. outcome[c] = "completed" /\ Parts(c) # <<>> => [attempt |-> n, parts |-> Parts(c)] \in kept
    OBVIOUS
  <2> HIDE DEF kept
  <2>4. outcome[c] = "completed" /\ Parts(c) # <<>> => \E a \in kept : a.attempt = n
    BY <2>3
  <2>5. QED  BY <2>1, <2>2, <2>4
<1>5. outcome[c] = "completed" /\ ~want[c].streams /\ want[c].pieces # 0 => Parts(c) # <<>>
  <2> SUFFICES ASSUME outcome[c] = "completed", ~want[c].streams, want[c].pieces # 0
               PROVE  Parts(c) # <<>>
    OBVIOUS
  <2>1. view[c].mode = "poll"
    BY DEF CallInv, Located, TypeOK
  <2>2. text[c] = Pieces(want[c].pieces)
    BY <1>1, <2>1 DEF CallInv, Whole
  <2>3. want[c].pieces \in 0 .. Chunks /\ want[c].pieces > 0
    BY Asked, RemoteCallAssumption
  <2>4. text[c] # <<>>
    BY <2>2, <2>3, PiecesIn
  <2>5. QED  BY <2>4 DEF Parts
<1>6. \A k : k # n => (Recorded(c, k)' <=> Recorded(c, k))
  BY <1>4 DEF Recorded
<1>7. Recorded(c, n)' => outcome[c] = "completed"
  <2>1. ~Recorded(c, n)
    BY <1>0, <1>1 DEF CallInv, RowsOpen
  <2>2. QED  BY <1>4, <2>1 DEF Recorded
<1>8. outcome[c] = "completed" => want[c].streams \/ want[c].pieces = 0 \/ Recorded(c, n)'
  BY <1>4, <1>5 DEF Recorded
<1>9. child[c][n] \notin Terminal /\ step[c][n] \notin Terminal
  BY <1>0, <1>1 DEF CallInv, RowsOpen
<1>10. RowsKept(c)'
  <2>1. \A a \in answers[c] : a.attempt <= n
    BY <1>0 DEF CallInv, RowsKept
  <2>2. \A a \in answers'[c] : a.attempt <= n
    BY <1>2, <1>4, <2>1
  <2>3. QED  BY <1>2, <1>3, <2>2 DEF RowsKept
<1>11. RowsOpen(c)'
  BY <1>1, <1>2, <1>3, <1>7, <1>8, <1>9 DEF RowsOpen, Unanswered, Unclosed
<1>12. RowsAgreeAt(c)'
  <2>1. \A k \in DOMAIN child[c] : k # n =>
           /\ child'[c][k] = child[c][k] /\ step'[c][k] = step[c][k]
           /\ Recorded(c, k)' <=> Recorded(c, k)
    BY <1>3, <1>6
  <2>2. /\ child'[c][n] \notin Terminal /\ step'[c][n] \notin Terminal
        /\ "completed" \in Terminal /\ "failed" \in Terminal
    BY <1>3, <1>9 DEF Terminal
  <2>3. \A k \in DOMAIN child'[c] :
           /\ child'[c][k] = "completed" => want'[c].streams \/ want'[c].pieces = 0 \/ Recorded(c, k)'
           /\ child'[c][k] = "failed" => ~Recorded(c, k)'
           /\ step'[c][k] \in Terminal => child'[c][k] = step'[c][k]
    BY <1>0, <1>2, <1>3, <2>1, <2>2, LatestRows DEF CallInv
  <2>4. QED  BY <1>2, <1>3, <2>3 DEF RowsAgreeAt
<1>13. QED  BY <1>10, <1>11, <1>12

\* transition(child, child_state)
LEMMA CloseTaskRows ==
  ASSUME TypeOK, NEW c \in Calls, CallInv(c), CloseTask(c)
  PROVE  RowsKept(c)' /\ RowsOpen(c)' /\ RowsAgreeAt(c)'
<1>0. PICK n : n = attempt[c]
  OBVIOUS
<1>1. pc[c] = "close" /\ pc[c] \in Unclosed /\ pc'[c] = "finish"
  BY DEF CloseTask, Unclosed, Unanswered, TypeOK
<1>2. /\ n \in Nat /\ n > 0 /\ n \in DOMAIN child[c] /\ Len(child[c]) = n /\ Len(step[c]) = n
      /\ verdict[c] \notin {"completed", "input-required"}
  BY <1>0, <1>1, UnderWay
<1>3. PICK s \in Terminal : s = IF outcome[c] = "completed" THEN "completed" ELSE "failed"
  BY DEF Terminal
<1>4. /\ want'[c] = want[c] /\ attempt'[c] = n /\ step'[c] = step[c] /\ answers'[c] = answers[c]
      /\ verdict'[c] = verdict[c] /\ outcome'[c] = outcome[c]
  BY <1>0 DEF CloseTask, consumerVars
<1>5. child'[c] = Latest(child[c], s)
  BY <1>3 DEF CloseTask, TypeOK
<1>6. /\ DOMAIN child'[c] = DOMAIN child[c] /\ Len(child'[c]) = n /\ child'[c][n] = s
      /\ \A k \in DOMAIN child[c] : k # n => child'[c][k] = child[c][k]
  <2>1. /\ child[c] \in Seq({"submitted", "working"} \cup Terminal)
        /\ s \in {"submitted", "working"} \cup Terminal /\ n = Len(child[c])
    BY <1>1, <1>2, UnderWay
  <2>2. QED  BY <1>2, <1>5, <2>1, Written
<1>7. \A k : Recorded(c, k)' <=> Recorded(c, k)
  BY <1>4 DEF Recorded
<1>8. /\ Recorded(c, n) => outcome[c] = "completed"
      /\ outcome[c] = "completed" => want[c].streams \/ want[c].pieces = 0 \/ Recorded(c, n)
      /\ step[c][n] \notin Terminal
  BY <1>0, <1>1 DEF CallInv, RowsOpen
<1>9. RowsKept(c)'
  BY <1>0, <1>2, <1>4, <1>6 DEF RowsKept, CallInv
<1>10. RowsOpen(c)'
  <2>1. pc'[c] \in Unclosed /\ pc'[c] \notin Unanswered \cup {"close", "return", "over"}
    BY <1>1 DEF Unclosed, Unanswered
  <2>2. QED
    BY <1>1, <1>2, <1>3, <1>4, <1>6, <1>7, <1>8, <2>1 DEF RowsOpen
<1>11. RowsAgreeAt(c)'
  <2>1. \A k \in DOMAIN child[c] : k # n =>
           /\ child'[c][k] = child[c][k] /\ step'[c][k] = step[c][k]
           /\ Recorded(c, k)' <=> Recorded(c, k)
    BY <1>4, <1>6, <1>7
  <2>2. /\ child'[c][n] = "completed" => want[c].streams \/ want[c].pieces = 0 \/ Recorded(c, n)'
        /\ child'[c][n] = "failed" => ~Recorded(c, n)'
        /\ step'[c][n] \notin Terminal
    BY <1>3, <1>4, <1>6, <1>7, <1>8
  <2>3. \A k \in DOMAIN child'[c] :
           /\ child'[c][k] = "completed" => want'[c].streams \/ want'[c].pieces = 0 \/ Recorded(c, k)'
           /\ child'[c][k] = "failed" => ~Recorded(c, k)'
           /\ step'[c][k] \in Terminal => child'[c][k] = step'[c][k]
    BY <1>0, <1>2, <1>4, <1>6, <2>1, <2>2, LatestRows DEF CallInv
  <2>4. QED  BY <1>2, <1>4, <2>3 DEF RowsAgreeAt
<1>12. QED  BY <1>9, <1>10, <1>11

\* complete_step
LEMMA CloseStepRows ==
  ASSUME TypeOK, NEW c \in Calls, CallInv(c), CloseStep(c)
  PROVE  RowsKept(c)' /\ RowsOpen(c)' /\ RowsAgreeAt(c)'
<1>0. PICK n : n = attempt[c]
  OBVIOUS
<1>1. pc[c] = "finish" /\ pc[c] \in Unclosed /\ pc'[c] = "return"
  BY DEF CloseStep, Unclosed, Unanswered, TypeOK
<1>2. /\ n \in Nat /\ n > 0 /\ n \in DOMAIN child[c] /\ Len(child[c]) = n /\ Len(step[c]) = n
      /\ DOMAIN step[c] = DOMAIN child[c] /\ Last(child[c]) = child[c][n]
      /\ verdict[c] \notin {"completed", "input-required"}
  BY <1>0, <1>1, UnderWay
<1>3. /\ want'[c] = want[c] /\ attempt'[c] = n /\ child'[c] = child[c] /\ answers'[c] = answers[c]
      /\ outcome'[c] = outcome[c] /\ verdict'[c] = verdict[c]
  BY <1>0 DEF CloseStep, consumerVars
<1>4. /\ DOMAIN step'[c] = DOMAIN step[c] /\ Len(step'[c]) = n
      /\ step'[c][n] = IF outcome[c] \in Terminal THEN outcome[c] ELSE step[c][n]
      /\ \A k \in DOMAIN step[c] : k # n => step'[c][k] = step[c][k]
  <2>1. CASE outcome[c] \in Terminal
    <3>1. step'[c] = Latest(step[c], outcome[c])
      BY <2>1 DEF CloseStep, TypeOK
    <3>2. /\ step[c] \in Seq({"none", "running"} \cup Terminal)
          /\ outcome[c] \in {"none", "running"} \cup Terminal /\ n = Len(step[c])
      BY <1>1, <1>2, <2>1, UnderWay
    <3>3. /\ DOMAIN step'[c] = DOMAIN step[c] /\ Len(step'[c]) = n /\ step'[c][n] = outcome[c]
          /\ \A k \in DOMAIN step[c] : k # n => step'[c][k] = step[c][k]
      BY <1>2, <3>1, <3>2, Written
    <3>4. QED  BY <2>1, <3>3
  <2>2. CASE outcome[c] \notin Terminal
    <3>1. step'[c] = step[c]
      BY <2>2 DEF CloseStep, TypeOK
    <3>2. QED  BY <1>2, <2>2, <3>1
  <2>3. QED  BY <2>1, <2>2
<1>6. \A k : Recorded(c, k)' <=> Recorded(c, k)
  BY <1>3 DEF Recorded
<1>7. /\ Recorded(c, n) => outcome[c] = "completed"
      /\ outcome[c] = "completed" => want[c].streams \/ want[c].pieces = 0 \/ Recorded(c, n)
      /\ step[c][n] \notin Terminal
      /\ child[c][n] = IF outcome[c] = "completed" THEN "completed" ELSE "failed"
  BY <1>0, <1>1 DEF CallInv, RowsOpen
<1>9. RowsKept(c)'
  BY <1>0, <1>2, <1>3, <1>4 DEF RowsKept, CallInv
<1>10. RowsOpen(c)'
  <2>1. pc'[c] \notin Unclosed /\ pc'[c] \notin Unanswered \cup {"close", "finish", "over"}
    BY <1>1 DEF Unanswered, Unclosed
  <2>2. outcome[c] = "completed" => step'[c][n] = "completed"
    BY <1>4 DEF Terminal
  <2>3. QED  BY <1>1, <1>2, <1>3, <1>7, <2>1, <2>2 DEF RowsOpen
<1>11. RowsAgreeAt(c)'
  <2>1. \A k \in DOMAIN child[c] : k # n =>
           /\ child'[c][k] = child[c][k] /\ step'[c][k] = step[c][k]
           /\ Recorded(c, k)' <=> Recorded(c, k)
    BY <1>2, <1>3, <1>4, <1>6
  <2>2. /\ child'[c][n] = "completed" => want[c].streams \/ want[c].pieces = 0 \/ Recorded(c, n)'
        /\ child'[c][n] = "failed" => ~Recorded(c, n)'
    BY <1>3, <1>6, <1>7
  <2>3. step'[c][n] \in Terminal => child'[c][n] = step'[c][n]
    <3>1. CASE outcome[c] \in Terminal
      BY <1>3, <1>4, <1>7, <3>1 DEF Terminal
    <3>2. CASE outcome[c] \notin Terminal
      BY <1>4, <1>7, <3>2
    <3>3. QED  BY <3>1, <3>2
  <2>4. \A k \in DOMAIN child'[c] :
           /\ child'[c][k] = "completed" => want'[c].streams \/ want'[c].pieces = 0 \/ Recorded(c, k)'
           /\ child'[c][k] = "failed" => ~Recorded(c, k)'
           /\ step'[c][k] \in Terminal => child'[c][k] = step'[c][k]
    BY <1>0, <1>2, <1>3, <2>1, <2>2, <2>3, LatestRows DEF CallInv
  <2>5. QED  BY <1>2, <1>3, <2>4 DEF RowsAgreeAt
<1>12. QED  BY <1>9, <1>10, <1>11

\* The report of the outcome.
LEMMA ReturnRows ==
  ASSUME TypeOK, NEW c \in Calls, CallInv(c), Return(c)
  PROVE  RowsKept(c)' /\ RowsOpen(c)' /\ RowsAgreeAt(c)'
<1>1. pc[c] = "return" /\ pc'[c] = "over"
  BY DEF Return, TypeOK
<1>2. /\ want'[c] = want[c] /\ attempt'[c] = attempt[c] /\ child'[c] = child[c]
      /\ step'[c] = step[c] /\ answers'[c] = answers[c] /\ outcome'[c] = outcome[c]
  BY DEF Return, rowVars
<1>3. \A k : Recorded(c, k)' <=> Recorded(c, k)
  BY <1>2 DEF Recorded
<1>4. verdict[c] \notin {"completed", "input-required"}
  BY <1>1 DEF CallInv, RowsOpen
<1>5. verdict'[c] \in {"completed", "input-required"} => verdict'[c] = outcome[c]
  BY <1>4 DEF Return, TypeOK
<1>6. /\ Len(child[c]) = attempt[c] /\ Len(step[c]) = attempt[c]
      /\ Last(child[c]) = child[c][attempt[c]] /\ Last(step[c]) = step[c][attempt[c]]
  BY DEF CallInv, RowsKept, Last
<1>7. /\ outcome[c] = "completed" => Last(child[c]) = "completed" /\ Last(step[c]) = "completed"
      /\ outcome[c] = "input-required" => Last(child[c]) = "failed"
  BY <1>1, <1>6 DEF CallInv, RowsOpen
<1>8. RowsKept(c)'
  BY <1>1, <1>2 DEF RowsKept, CallInv
<1>9. RowsOpen(c)'
  BY <1>1 DEF RowsOpen, Unanswered, Unclosed
<1>10. RowsAgreeAt(c)'
  <2>1. /\ verdict'[c] = "completed" => Last(child'[c]) = "completed" /\ Last(step'[c]) = "completed"
        /\ verdict'[c] = "input-required" => Last(child'[c]) = "failed"
    BY <1>2, <1>5, <1>7
  <2>2. QED  BY <1>2, <1>3, <2>1 DEF CallInv, RowsAgreeAt
<1>11. QED  BY <1>8, <1>9, <1>10

\* A call Temporal gives up, or that is overdue, failed.
LEMMA GivenUpRows ==
  ASSUME TypeOK, NEW c \in Calls, CallInv(c), GiveUp(c) \/ Overdue(c)
  PROVE  RowsKept(c)' /\ RowsOpen(c)' /\ RowsAgreeAt(c)'
<1>1. /\ want'[c] = want[c] /\ attempt'[c] = attempt[c] /\ child'[c] = child[c]
      /\ step'[c] = step[c] /\ answers'[c] = answers[c] /\ outcome'[c] = outcome[c]
  BY DEF GiveUp, Overdue, rowVars
<1>2. pc[c] # "over" /\ verdict[c] \notin {"completed", "input-required"}
  BY DEF GiveUp, Overdue, CallInv, RowsOpen
<1>3. verdict'[c] \notin {"completed", "input-required"}
  BY <1>2 DEF GiveUp, Overdue, TypeOK
<1>4. pc'[c] = pc[c] \/ (pc'[c] = "over" /\ pc[c] = "lost")
  BY DEF GiveUp, Overdue, TypeOK
<1>5. \A k : Recorded(c, k)' <=> Recorded(c, k)
  BY <1>1 DEF Recorded
<1>6. RowsKept(c)'
  BY <1>1, <1>4 DEF RowsKept, CallInv
<1>7. RowsOpen(c)'
  <2>1. CASE pc'[c] = "over"
    BY <1>3, <2>1 DEF RowsOpen, Unanswered, Unclosed
  <2>2. CASE pc'[c] = pc[c]
    <3>1. Recorded(c, attempt[c])' <=> Recorded(c, attempt[c])
      BY <1>1 DEF Recorded
    <3>2. QED  BY <1>1, <1>3, <2>2, <3>1 DEF CallInv, RowsOpen
  <2>3. QED  BY <1>4, <2>1, <2>2
<1>8. RowsAgreeAt(c)'
  BY <1>1, <1>3, <1>5 DEF RowsAgreeAt, CallInv
<1>9. QED  BY <1>6, <1>7, <1>8

\* A call of the runner that waits has no rows.
LEMMA EnterRows ==
  ASSUME TypeOK, NEW c \in Calls, CallInv(c), Enter(c)
  PROVE  RowsKept(c)' /\ RowsOpen(c)' /\ RowsAgreeAt(c)'
<1>1. pc[c] = "idle" /\ pc'[c] = "queued"
  BY DEF Enter, TypeOK
<1>2. /\ want'[c] = want[c] /\ attempt'[c] = attempt[c] /\ child'[c] = child[c]
      /\ step'[c] = step[c] /\ answers'[c] = answers[c] /\ verdict'[c] = verdict[c]
  BY DEF Enter, rowVars, consumerVars
<1>3. RowsKept(c)'
  BY <1>1, <1>2 DEF RowsKept, CallInv
<1>4. RowsOpen(c)'
  BY <1>1, <1>2 DEF RowsOpen, CallInv, Unanswered, Unclosed
<1>5. RowsAgreeAt(c)'
  BY <1>2 DEF RowsAgreeAt, CallInv, Recorded
<1>6. QED  BY <1>3, <1>4, <1>5

\* The rows of the call that takes a step.
LEMMA OwnRows ==
  ASSUME TypeOK, stored = {}, NEW c \in Calls, CallInv(c), CallStep(c)
  PROVE  RowsKept(c)' /\ RowsOpen(c)' /\ RowsAgreeAt(c)'
<1> DEFINE Goal == RowsKept(c)' /\ RowsOpen(c)' /\ RowsAgreeAt(c)'
           Left == /\ want'[c] = want[c] /\ attempt'[c] = attempt[c] /\ child'[c] = child[c]
                   /\ step'[c] = step[c] /\ answers'[c] = answers[c] /\ verdict'[c] = verdict[c]
                   /\ pc[c] \notin {"idle", "over"}
                   /\ (pc[c] \in Unanswered /\ pc'[c] \in Unanswered) \/ pc'[c] = "lost"
<1>1. Left => Goal
  BY RowsLeft DEF CallInv
<1>2. pc \in [Calls -> Places]
  BY DEF TypeOK
<1> USE DEF Unanswered, rowVars, consumerVars
<1>3. ASSUME ReadChain(c) \/ FillChain(c) \/ ChainFails(c) PROVE Left
  <2>1. pc[c] \in {"resolve", "fill"} /\ pc'[c] \in {"fill", "submit", "store"}
    BY <1>2, <1>3 DEF ReadChain, FillChain, ChainFails
  <2>2. UNCHANGED <<want, attempt, rowVars, verdict>>
    BY <1>3 DEF ReadChain, FillChain, ChainFails
  <2>3. QED  BY <2>1, <2>2
<1>4. ASSUME Intercept(c) \/ SubmitFails(c) \/ AskFails(c) PROVE Left
  <2>1. pc[c] \in {"submit", "wait", "stream"} /\ pc'[c] = "handle"
    BY <1>2, <1>4 DEF Intercept, SubmitFails, AskFails, Reports
  <2>2. UNCHANGED <<want, attempt, rowVars, verdict>>
    BY <1>4 DEF Intercept, SubmitFails, AskFails
  <2>3. QED  BY <2>1, <2>2
<1>5. ASSUME NEW opens \in BOOLEAN, Submit(c, opens) PROVE Left
  <2>1. pc[c] = "submit" /\ pc'[c] \in {"stream", "wait"}
    BY <1>2, <1>5 DEF Submit
  <2>2. UNCHANGED <<want, attempt, rowVars, verdict>>
    BY <1>5 DEF Submit
  <2>3. QED  BY <2>1, <2>2
<1>6. ASSUME Poll(c) PROVE Left
  <2>1. pc[c] = "wait" /\ pc'[c] = "handle"
    BY <1>2, <1>6 DEF Poll, Reports
  <2>2. UNCHANGED <<want, attempt, rowVars, verdict>>
    BY <1>6 DEF Poll
  <2>3. QED  BY <2>1, <2>2
<1>7. ASSUME NEW whole \in BOOLEAN, StreamEvent(c, whole) PROVE Left
  <2>1. pc[c] = "stream" /\ pc'[c] = "handle"
    BY <1>2, <1>7 DEF StreamEvent, Reports
  <2>2. UNCHANGED <<want, attempt, rowVars, verdict>>
    BY <1>7 DEF StreamEvent
  <2>3. QED  BY <2>1, <2>2
<1>8. ASSUME EndOfStream(c) \/ DeadlineEscapes(c) PROVE Left
  <2>1. pc[c] \in {"stream", "publish"} /\ pc'[c] \in {"store", "leave"}
    BY <1>2, <1>8 DEF EndOfStream, DeadlineEscapes
  <2>2. UNCHANGED <<want, attempt, rowVars, verdict>>
    BY <1>8 DEF EndOfStream, DeadlineEscapes
  <2>3. QED  BY <2>1, <2>2
<1>9. ASSUME Handle(c) \/ Published(c) PROVE Left
  <2>1. pc[c] \in {"handle", "publish"}
    BY <1>9 DEF Handle, Published
  <2>2. pc'[c] \in {"leave", "publish", "store", "wait", "stream"}
    <3>1. CASE Consume(c)
      BY <1>2, <3>1 DEF Consume, Done, Onward
    <3>2. CASE ~Consume(c)
      BY <1>2, <1>9, <3>2 DEF Handle, Published
    <3>3. QED  BY <3>1, <3>2
  <2>3. UNCHANGED <<want, attempt, rowVars, verdict>>
    BY <1>9 DEF Handle, Published
  <2>4. QED  BY <2>1, <2>2, <2>3
<1>10. ASSUME Leave(c) PROVE Left
  <2>1. pc[c] = "leave" /\ pc'[c] \in {"store", "lost"}
    BY <1>2, <1>10 DEF Leave
  <2>2. UNCHANGED <<want, attempt, rowVars, verdict>>
    BY <1>10 DEF Leave
  <2>3. QED  BY <2>1, <2>2
<1>11. ASSUME Crash(c) \/ Raise(c) PROVE Left
  <2>1. pc[c] \notin {"idle", "over"} /\ pc'[c] = "lost"
    BY <1>2, <1>11 DEF Crash, Raise
  <2>2. UNCHANGED <<want, attempt, rowVars, verdict>>
    BY <1>11 DEF Crash, Raise
  <2>3. QED  BY <2>1, <2>2
<1>12. ASSUME \/ Begin(c) \/ Work(c) \/ StoreAnswer(c) \/ CloseTask(c) \/ CloseStep(c)
              \/ Return(c) \/ GiveUp(c) \/ Overdue(c)
       PROVE  Goal
  BY <1>12, BeginRows, WorkRows, StoreRows, CloseTaskRows, CloseStepRows, ReturnRows, GivenUpRows
<1> HIDE DEF Goal
<1>13. ASSUME Enter(c) PROVE Goal
  BY <1>13, EnterRows DEF Goal
<1> HIDE DEF Left
<1>14. Goal
  BY <1>1, <1>3, <1>4, <1>5, <1>6, <1>7, <1>8, <1>9, <1>10, <1>11, <1>12, <1>13 DEF CallStep, Steps
<1>15. QED  BY <1>14 DEF Goal

(***************************************************************************)
(* The administrator, and all steps together                               *)
(***************************************************************************)
LEMMA EnvironmentKeeps ==
  ASSUME TypeOK, Environment
  PROVE  TypeOK' /\ stored' = stored /\ \A d \in Calls : Same(d)
<1> DEFINE Goal == TypeOK' /\ stored' = stored /\ \A d \in Calls : Same(d)
<1>1. ASSUME NEW w \in [Agents -> Chains], NEW owes \in BOOLEAN, Rewire(w, owes) PROVE Goal
  <2>1. spent' \in 0 .. Budget
    BY <1>1, Values DEF Rewire, Spend, TypeOK
  <2>2. UNCHANGED <<want, pc, attempt, rowVars, chain, adapterVars, consumerVars, activeVars,
                    chainCache, stored>>
    BY <1>1 DEF Rewire
  <2>3. wired' \in [Agents -> Chains] /\ flushing' \in BOOLEAN /\ settled' \in BOOLEAN
    BY <1>1 DEF Rewire
  <2>4. TypeOK'
    BY <2>1, <2>2, <2>3 DEF TypeOK, rowVars, adapterVars, consumerVars, activeVars
  <2>5. QED
    BY <2>2, <2>4 DEF Same, rowVars, adapterVars, consumerVars
<1>2. ASSUME NEW ok \in BOOLEAN, Flush(ok) PROVE Goal
  <2>1. UNCHANGED <<want, pc, attempt, rowVars, chain, adapterVars, consumerVars, activeVars,
                    wired, stored, spent>>
    BY <1>2 DEF Flush
  <2>2. chainCache' \in [Agents -> Chains \cup {None}]
    BY <1>2 DEF Flush, TypeOK
  <2>3. flushing' \in BOOLEAN /\ settled' \in BOOLEAN
    BY <1>2 DEF Flush, ReadersAgree
  <2>4. TypeOK'
    BY <2>1, <2>2, <2>3 DEF TypeOK, rowVars, adapterVars, consumerVars, activeVars
  <2>5. QED
    BY <2>1, <2>4 DEF Same, rowVars, adapterVars, consumerVars
<1>3. ASSUME NEW a \in Agents, NEW new \in Chains PROVE [wired EXCEPT ![a] = new] \in [Agents -> Chains]
  BY DEF TypeOK
<1>4. QED
  BY <1>1, <1>2, <1>3 DEF Environment, Recompile, PutWirings, UpdateDef

\* The invariant is inductive.
LEMMA Inductive == IInv /\ [Next]_vars => IInv'
<1> SUFFICES ASSUME IInv, [Next]_vars PROVE IInv'
  OBVIOUS
<1>1. TypeOK /\ stored = {} /\ \A c \in Calls : CallInv(c)
  BY DEF IInv
<1>2. ASSUME NEW c \in Calls, CallStep(c) PROVE IInv'
  <2>1. CallInv(c)
    BY <1>1
  <2>2. TypeOK' /\ stored' = {} /\ \A d \in Calls : d # c => Same(d)
    BY <1>1, <1>2, <2>1, CallTypes
  <2>3. Located(c)' /\ Whole(c)' /\ Guarded(c)'
    BY <1>1, <1>2, <2>1, <2>2, OwnPlace
  <2>4. RowsKept(c)' /\ RowsOpen(c)' /\ RowsAgreeAt(c)'
    BY <1>1, <1>2, <2>1, OwnRows
  <2>5. CallInv(c)'
    BY <2>3, <2>4 DEF CallInv
  <2>6. \A d \in Calls : d # c => CallInv(d)'
    BY <1>1, <2>2, Framed
  <2>7. QED  BY <2>2, <2>5, <2>6 DEF IInv
<1>3. CASE Environment
  <2>1. TypeOK' /\ stored' = {} /\ \A d \in Calls : Same(d)
    BY <1>1, <1>3, EnvironmentKeeps
  <2>2. \A d \in Calls : CallInv(d)'
    BY <1>1, <2>1, Framed
  <2>3. QED  BY <2>1, <2>2 DEF IInv
<1>4. CASE UNCHANGED vars
  <2>1. stored' = stored /\ \A d \in Calls : Same(d)
    BY <1>4 DEF vars, rowVars, adapterVars, consumerVars, Same
  <2>2. TypeOK'
    BY <1>1, <1>4 DEF TypeOK, vars, rowVars, adapterVars, consumerVars, activeVars, wiringVars
  <2>3. \A d \in Calls : CallInv(d)'
    BY <1>1, <2>1, Framed
  <2>4. QED  BY <1>1, <2>1, <2>2, <2>3 DEF IInv
<1>5. QED  BY <1>2, <1>3, <1>4 DEF Next, CallStep

LEMMA Invariant == Spec => []IInv
BY InitInv, Inductive, PTL DEF Spec

-----------------------------------------------------------------------------
\* Every variable has its type: in particular the chain of an attempt is one
\* an administrator may choose, and an agent is only sent a text of a call or
\* one a guard redacted.
THEOREM TypeCorrect == Spec => []TypeOK
<1>1. IInv => TypeOK
  BY DEF IInv
<1>2. QED  BY <1>1, Invariant, PTL

\* The cache middleware never stores an answer: only a stream that ends
\* without a last event would make it, and no call that reads a stream goes
\* through a chain.
THEOREM NeverStored == Spec => [](stored = {})
<1>1. IInv => stored = {}
  BY DEF IInv
<1>2. QED  BY <1>1, Invariant, PTL

\* A polled call that counts as completed carries the whole answer, each piece
\* once and in order, whatever the number of its pieces.
THEOREM PollsAreWhole == Spec => []PolledWhole
<1>1. IInv => PolledWhole
  BY DEF IInv, CallInv, Whole, PolledWhole
<1>2. QED  BY <1>1, Invariant, PTL

\* What a call was reported as is what its rows say, over any number of
\* attempts, and a row says completed only when the artifact is there.
THEOREM RowsInAgreement == Spec => []RowsAgree
<1>1. IInv => RowsAgree
  BY DEF IInv, CallInv, RowsAgreeAt, RowsAgree, Recorded
<1>2. QED  BY <1>1, Invariant, PTL

\* A guard anywhere in a chain of any length keeps what it refuses or redacts
\* from the agent.
THEOREM GuardsHold == Spec => []GuardHeld
<1>1. IInv => GuardHeld
  BY DEF IInv, CallInv, Guarded, Guards, Lawful, GuardHeld
<1>2. QED  BY <1>1, Invariant, PTL

-----------------------------------------------------------------------------
\* How a step may treat the set of active agents: it leaves the set alone and
\* its call in the bracket, or its entry an orphan; it adds the agent of a call
\* that shows it, or fails to; or it clears the entry of its agent.
LEMMA ActiveStep ==
  ASSUME TypeOK, NEW c \in Calls, CallInv(c), CallStep(c)
  PROVE  \/ /\ active' = active /\ orphaned \subseteq orphaned'
            /\ Showing(c) => Showing(c)' \/ Agent(c) \in orphaned'
         \/ active' = active \cup {Agent(c)} /\ orphaned' = orphaned /\ Showing(c)'
         \/ active' = active \ {Agent(c)} /\ orphaned' = orphaned \ {Agent(c)}
<1> DEFINE Goal ==
         \/ /\ active' = active /\ orphaned \subseteq orphaned'
            /\ Showing(c) => Showing(c)' \/ Agent(c) \in orphaned'
         \/ active' = active \cup {Agent(c)} /\ orphaned' = orphaned /\ Showing(c)'
         \/ active' = active \ {Agent(c)} /\ orphaned' = orphaned \ {Agent(c)}
<1>1. pc \in [Calls -> Places]
  BY DEF TypeOK
<1>2. want' = want
  BY DEF CallStep, Steps, Enter, Begin, Work, ReadChain, FillChain, ChainFails, Intercept, Submit,
     SubmitFails, Poll, AskFails, StreamEvent, EndOfStream, Handle, Published, DeadlineEscapes,
     Leave, StoreAnswer, CloseTask, CloseStep, Return, GiveUp, Overdue, Raise, Crash
<1>3. want[c].route \in {"activity", "runner"}
  BY Asked DEF Routes
<1>4. want[c].route = "runner" => pc[c] \notin {"resolve", "fill", "publish", "leave"}
  BY DEF CallInv, Located
<1>5. pc[c] = "stream" => want[c].route = "runner"
  BY DEF CallInv, Located
<1> DEFINE Kept == active' = active /\ orphaned' = orphaned
           Calling == Loop \cup {"rows", "store", "close", "finish", "return"}
<1>6. ASSUME Kept, Showing(c) => Showing(c)' PROVE Goal
  BY <1>6
<1>7. ASSUME ClearActiveAgent(Agent(c)) PROVE Goal
  BY <1>7 DEF ClearActiveAgent
<1>8. Showing(c) <=> pc[c] \in Bracket(want[c].route)
  BY DEF Showing
<1>9. Showing(c)' <=> pc'[c] \in Bracket(want[c].route)
  BY <1>2 DEF Showing
<1>10. /\ Bracket("activity") = Loop
       /\ Bracket("runner") = Calling \cup {"queued"}
       /\ \A route : Loop \subseteq Bracket(route)
  BY DEF Bracket
<1> HIDE DEF Goal, Calling
<1> USE DEF Loop, activeVars
<1>11. ASSUME Enter(c) PROVE Goal
  <2>1. want[c].route = "runner" /\ pc'[c] = "queued" /\ pc[c] = "idle"
    BY <1>1, <1>11 DEF Enter
  <2>2. Showing(c)'
    BY <1>9, <1>10, <2>1
  <2>3. QED  BY <1>6, <1>11, <2>2 DEF Enter, SetActiveAgent, Goal
<1>12. ASSUME Begin(c) \/ Work(c) PROVE Goal
  <2>1. Kept
    BY <1>12 DEF Begin, Work
  <2>2. pc[c] \in {"idle", "lost", "queued", "rows"} /\ pc'[c] \in {"rows", "submit", "resolve"}
    BY <1>1, <1>12 DEF Begin, Work
  <2>3. pc'[c] = "resolve" => want[c].route = "activity"
    BY <1>1, <1>12 DEF Begin, Work
  <2>4. Showing(c) => Showing(c)'
    <3>1. CASE want[c].route = "activity"
      BY <1>8, <1>10, <2>2, <3>1
    <3>2. CASE want[c].route = "runner"
      BY <1>9, <1>10, <2>2, <2>3, <3>2 DEF Calling
    <3>3. QED  BY <1>3, <3>1, <3>2
  <2>5. QED  BY <1>6, <2>1, <2>4
<1>13. ASSUME ReadChain(c) \/ FillChain(c) \/ ChainFails(c) PROVE Goal
  <2>1. want[c].route = "activity" /\ pc[c] \notin Loop
    BY <1>3, <1>4, <1>13 DEF ReadChain, FillChain, ChainFails
  <2>2. ~Showing(c)
    BY <1>8, <1>10, <2>1
  <2>3. CASE Kept
    BY <1>6, <2>2, <2>3
  <2>4. CASE SetActiveAgent(Agent(c)) /\ pc'[c] = "submit"
    <3>1. Showing(c)'
      BY <1>9, <1>10, <2>4
    <3>2. QED  BY <1>6, <2>2, <2>4, <3>1 DEF SetActiveAgent, Goal
  <2>5. QED  BY <1>1, <1>13, <2>3, <2>4 DEF ReadChain, FillChain, ChainFails
<1>14. ASSUME Kept, pc'[c] \in Loop PROVE Goal
  BY <1>6, <1>9, <1>10, <1>14
<1>15. ASSUME Kept, pc'[c] \in Calling, want[c].route = "runner" PROVE Goal
  BY <1>6, <1>9, <1>10, <1>15
<1>16. ASSUME Kept, pc[c] \notin Loop, want[c].route = "activity" PROVE Goal
  BY <1>6, <1>8, <1>10, <1>16
<1>17. ASSUME Intercept(c) \/ SubmitFails(c) \/ AskFails(c) \/ Poll(c) PROVE Goal
  <2>1. Kept
    BY <1>17 DEF Intercept, SubmitFails, AskFails, Poll
  <2>2. pc'[c] = "handle"
    BY <1>1, <1>17 DEF Intercept, SubmitFails, AskFails, Poll, Reports
  <2>3. QED  BY <1>14, <2>1, <2>2
<1>18. ASSUME NEW opens \in BOOLEAN, Submit(c, opens) PROVE Goal
  <2>1. Kept /\ pc'[c] \in {"stream", "wait"}
    BY <1>1, <1>18 DEF Submit
  <2>2. QED  BY <1>14, <2>1
<1>19. ASSUME NEW whole \in BOOLEAN, StreamEvent(c, whole) PROVE Goal
  <2>1. Kept /\ pc'[c] = "handle"
    BY <1>1, <1>19 DEF StreamEvent, Reports
  <2>2. QED  BY <1>14, <2>1
<1>20. ASSUME EndOfStream(c) PROVE Goal
  <2>1. Kept /\ pc[c] = "stream" /\ pc'[c] = "store"
    BY <1>1, <1>20 DEF EndOfStream
  <2>2. QED  BY <1>5, <1>15, <2>1 DEF Calling
<1>21. ASSUME Handle(c) \/ Published(c) PROVE Goal
  <2>1. Kept
    BY <1>21 DEF Handle, Published
  <2>2. pc'[c] \in Loop \/ (pc'[c] = "store" /\ want[c].route = "runner")
    <3>1. CASE Consume(c)
      BY <1>1, <1>3, <3>1 DEF Consume, Done, Onward
    <3>2. CASE ~Consume(c)
      BY <1>1, <1>21, <3>2 DEF Handle, Published
    <3>3. QED  BY <3>1, <3>2
  <2>3. QED  BY <1>14, <1>15, <2>1, <2>2 DEF Calling
<1>22. ASSUME DeadlineEscapes(c) PROVE Goal
  <2>1. Kept /\ pc'[c] = "leave"
    BY <1>1, <1>22 DEF DeadlineEscapes
  <2>2. QED  BY <1>14, <2>1
<1>23. ASSUME Leave(c) PROVE Goal
  BY <1>7, <1>23 DEF Leave
<1>24. ASSUME StoreAnswer(c) \/ CloseTask(c) \/ CloseStep(c) PROVE Goal
  <2>1. Kept /\ pc[c] \notin Loop /\ pc'[c] \in {"close", "finish", "return"}
    BY <1>1, <1>24 DEF StoreAnswer, CloseTask, CloseStep
  <2>2. QED  BY <1>3, <1>15, <1>16, <2>1 DEF Calling
<1>25. ASSUME Return(c) \/ Raise(c) PROVE Goal
  <2>1. CASE want[c].route = "runner"
    BY <1>7, <1>25, <2>1 DEF Return, Raise
  <2>2. CASE want[c].route # "runner"
    <3>1. Kept /\ pc[c] \notin Loop
      BY <1>25, <2>2 DEF Return, Raise
    <3>2. QED  BY <1>3, <1>16, <2>2, <3>1
  <2>3. QED  BY <2>1, <2>2
<1>26. ASSUME GiveUp(c) \/ Overdue(c) PROVE Goal
  <2>1. Kept
    BY <1>26 DEF GiveUp, Overdue
  <2>2. pc'[c] = pc[c] \/ (pc[c] = "lost" /\ want[c].route = "activity")
    BY <1>26 DEF GiveUp, Overdue
  <2>3. QED  BY <1>6, <1>8, <1>9, <1>16, <2>1, <2>2
<1>27. ASSUME Crash(c) PROVE Goal
  <2>1. active' = active /\ orphaned \subseteq orphaned'
    BY <1>27 DEF Crash
  <2>2. Showing(c) => Agent(c) \in orphaned'
    BY <1>27 DEF Crash
  <2>3. QED  BY <2>1, <2>2 DEF Goal
<1>28. Goal
  BY <1>11, <1>12, <1>13, <1>17, <1>18, <1>19, <1>20, <1>21, <1>22, <1>23, <1>24, <1>25, <1>26, <1>27
     DEF CallStep, Steps
<1>29. QED  BY <1>28 DEF Goal

\* The session shows an agent as active only while a call shows it, by either
\* route, but for the entries a crash or a failed clear left, however many calls
\* share the agent's entry.
THEOREM ActiveOnlyWhileRunning == Spec => []ActiveMeansRunning
<1> DEFINE Shown(a) == a \in orphaned \/ \E d \in Calls : Showing(d) /\ Agent(d) = a
           AInv == \A a \in active : Shown(a)
<1>1. Init => AInv
  BY DEF Init
<1>2. IInv /\ AInv /\ [Next]_vars => AInv'
  <2> SUFFICES ASSUME IInv, AInv, [Next]_vars PROVE AInv'
    OBVIOUS
  <2>1. ASSUME NEW c \in Calls, CallStep(c) PROVE AInv'
    <3>1. TypeOK /\ CallInv(c) /\ \A d \in Calls : d # c => Same(d)
      BY <2>1, CallTypes DEF IInv
    <3>2. \A d \in Calls : d # c => (Showing(d)' <=> Showing(d))
      BY <3>1 DEF Same, Showing
    <3>3. \A d \in Calls : Agent(d)' = Agent(d)
      BY <2>1 DEF Agent, CallStep, Steps, Enter, Begin, Work, ReadChain, FillChain, ChainFails,
         Intercept, Submit, SubmitFails, Poll, AskFails, StreamEvent, EndOfStream, Handle, Published,
         DeadlineEscapes, Leave, StoreAnswer, CloseTask, CloseStep, Return, GiveUp, Overdue, Raise,
         Crash
    <3>4. SUFFICES ASSUME NEW a \in active' PROVE Shown(a)'
      OBVIOUS
    <3>5. CASE /\ active' = active /\ orphaned \subseteq orphaned'
               /\ Showing(c) => Showing(c)' \/ Agent(c) \in orphaned'
      BY <3>2, <3>3, <3>4, <3>5
    <3>6. CASE active' = active \cup {Agent(c)} /\ orphaned' = orphaned /\ Showing(c)'
      BY <3>2, <3>3, <3>4, <3>6
    <3>7. CASE active' = active \ {Agent(c)} /\ orphaned' = orphaned \ {Agent(c)}
      BY <3>2, <3>3, <3>4, <3>7
    <3>8. QED  BY <2>1, <3>1, <3>5, <3>6, <3>7, ActiveStep
  <2>2. CASE Environment
    <3>1. UNCHANGED <<active, orphaned, want, pc>>
      BY <2>2 DEF Environment, Recompile, PutWirings, UpdateDef, Rewire, Flush, activeVars
    <3>2. QED  BY <3>1 DEF Showing, Agent
  <2>3. CASE UNCHANGED vars
    BY <2>3 DEF vars, activeVars, Showing, Agent
  <2>4. QED  BY <2>1, <2>2, <2>3 DEF Next, CallStep
<1>3. AInv => ActiveMeansRunning
  BY DEF ActiveMeansRunning
<1> HIDE DEF AInv
<1>4. QED  BY <1>1, <1>2, <1>3, Invariant, PTL DEF Spec

-----------------------------------------------------------------------------
\* What a call's step does to the chains: it resolves none, it takes the rows,
\* or it caches what it took.
LEMMA WiringStep ==
  ASSUME TypeOK, NEW c \in Calls, CallStep(c)
  PROVE  /\ wired' = wired /\ settled' = settled
         /\ \/ chainCache' = chainCache /\ pc'[c] # "fill"
            \/ chainCache' = chainCache /\ pc'[c] = pc[c] /\ chain'[c] = chain[c]
            \/ chainCache' = chainCache /\ chain'[c] = wired[Agent(c)]
            \/ /\ pc[c] = "fill" /\ pc'[c] # "fill"
               /\ chainCache' = [chainCache EXCEPT ![Agent(c)] = chain[c]]
<1>1. pc \in [Calls -> Places]
  BY DEF TypeOK
<1>2. wired' = wired /\ settled' = settled
  BY DEF CallStep, Steps, Enter, Begin, Work, ReadChain, FillChain, ChainFails, Intercept, Submit, SubmitFails, Poll,
     AskFails, StreamEvent, EndOfStream, Handle, Published, DeadlineEscapes, Leave, StoreAnswer,
     CloseTask, CloseStep, Return, GiveUp, Overdue, Raise, Crash, wiringVars
<1>3. CASE FillChain(c)
  BY <1>1, <1>2, <1>3 DEF FillChain
<1>4. CASE ReadChain(c)
  <2>1. chainCache' = chainCache
    BY <1>4 DEF ReadChain, wiringVars
  <2>2. pc'[c] # "fill" \/ chain'[c] = wired[Agent(c)]
    BY <1>1, <1>4 DEF ReadChain, TypeOK
  <2>3. QED  BY <1>2, <2>1, <2>2
<1>5. CASE CallStep(c) /\ ~FillChain(c) /\ ~ReadChain(c)
  <2>1. chainCache' = chainCache
    BY <1>5 DEF CallStep, Steps, Enter, Begin, Work, ChainFails, Intercept, Submit, SubmitFails, Poll,
       AskFails, StreamEvent, EndOfStream, Handle, Published, DeadlineEscapes, Leave, StoreAnswer,
       CloseTask, CloseStep, Return, GiveUp, Overdue, Raise, Crash, wiringVars
  <2>2. CASE Overdue(c)
    BY <1>2, <2>1, <2>2 DEF Overdue
  <2>3. CASE ~Overdue(c)
    <3>1. ASSUME NEW opens \in BOOLEAN, Submit(c, opens) PROVE pc'[c] # "fill"
      BY <1>1, <3>1 DEF Submit
    <3>2. ASSUME NEW whole \in BOOLEAN, StreamEvent(c, whole) PROVE pc'[c] # "fill"
      BY <1>1, <3>2 DEF StreamEvent, Reports
    <3>3. ASSUME Enter(c) \/ Begin(c) \/ Work(c) \/ ChainFails(c) \/ Intercept(c) \/ SubmitFails(c) \/ Poll(c) \/ AskFails(c)
          PROVE  pc'[c] # "fill"
      BY <1>1, <3>3 DEF Enter, Begin, Work, ChainFails, Intercept, SubmitFails, Poll, AskFails,
         Reports
    <3>4. ASSUME Handle(c) \/ Published(c) PROVE pc'[c] # "fill"
      BY <1>1, <3>4 DEF Handle, Published, Consume, Done, Onward
    <3>5. ASSUME EndOfStream(c) \/ DeadlineEscapes(c) \/ Leave(c) \/ StoreAnswer(c)
                 \/ CloseTask(c) \/ CloseStep(c) \/ Return(c) \/ GiveUp(c) \/ Raise(c)
                 \/ Crash(c)
          PROVE  pc'[c] # "fill"
      BY <1>1, <3>5 DEF EndOfStream, DeadlineEscapes, Leave, StoreAnswer, CloseTask, CloseStep,
         Return, GiveUp, Raise, Crash
    <3>6. pc'[c] # "fill"
      BY <1>5, <2>3, <3>1, <3>2, <3>3, <3>4, <3>5 DEF CallStep, Steps
    <3>7. QED  BY <1>2, <2>1, <3>6
  <2>4. QED  BY <2>2, <2>3
<1>6. QED  BY <1>3, <1>4, <1>5

\* After a flush that succeeded while no lookup held older rows, and until the
\* next edit, no call is given a chain that is not wired, and the cache holds
\* none: a lookup that fills the cache in between fills it with the rows.
THEOREM WiringsHold == Spec => []WiringHolds
<1> DEFINE Fresh(a) == chainCache[a] \in {None, wired[a]}
           Read(d) == pc[d] = "fill" => chain[d] = wired[Agent(d)]
           WInv == settled => (\A d \in Calls : Read(d)) /\ \A a \in Agents : Fresh(a)
<1>1. Init => WInv
  BY DEF Init
<1>2. IInv /\ WInv /\ [Next]_vars => WInv'
  <2> SUFFICES ASSUME IInv, WInv, [Next]_vars PROVE WInv'
    OBVIOUS
  <2>1. ASSUME NEW c \in Calls, CallStep(c) PROVE WInv'
    <3>1. TypeOK /\ CallInv(c) /\ (\A d \in Calls : d # c => Same(d)) /\ Agent(c) \in Agents
      BY <2>1, CallTypes, Asked DEF IInv
    <3>2. wired' = wired /\ settled' = settled
      BY <2>1, <3>1, WiringStep
    <3>3. \A d \in Calls : Agent(d)' = Agent(d)
      BY <2>1 DEF Agent, CallStep, Steps, Enter, Begin, Work, ReadChain, FillChain, ChainFails, Intercept, Submit,
         SubmitFails, Poll, AskFails, StreamEvent, EndOfStream, Handle, Published,
         DeadlineEscapes, Leave, StoreAnswer, CloseTask, CloseStep, Return, GiveUp, Overdue, Raise, Crash
    <3> SUFFICES ASSUME settled PROVE (\A d \in Calls : Read(d)') /\ \A a \in Agents : Fresh(a)'
      BY <3>2
    <3>4. Read(c) /\ \A a \in Agents : Fresh(a)
      OBVIOUS
    <3>5. \A d \in Calls : d # c => Read(d)'
      BY <3>1, <3>2, <3>3 DEF Same
    <3>6. \/ chainCache' = chainCache /\ pc'[c] # "fill"
          \/ chainCache' = chainCache /\ pc'[c] = pc[c] /\ chain'[c] = chain[c]
          \/ chainCache' = chainCache /\ chain'[c] = wired[Agent(c)]
          \/ /\ pc[c] = "fill" /\ pc'[c] # "fill"
             /\ chainCache' = [chainCache EXCEPT ![Agent(c)] = chain[c]]
      BY <2>1, <3>1, WiringStep
    <3>7. Read(c)'
      BY <3>2, <3>3, <3>4, <3>6
    <3>8. \A a \in Agents : Fresh(a)'
      <4>1. CASE chainCache' = chainCache
        BY <3>2, <3>4, <4>1
      <4>2. CASE pc[c] = "fill" /\ chainCache' = [chainCache EXCEPT ![Agent(c)] = chain[c]]
        <5>1. chain[c] = wired[Agent(c)]
          BY <3>4, <4>2
        <5>2. chainCache \in [Agents -> Chains \cup {None}]
          BY <3>1 DEF TypeOK
        <5>3. QED  BY <3>2, <3>4, <4>2, <5>1, <5>2
      <4>3. QED  BY <3>6, <4>1, <4>2
    <3>9. QED  BY <3>5, <3>7, <3>8
  <2>2. CASE Environment
    <3>1. ASSUME NEW w, NEW owes, Rewire(w, owes) PROVE WInv'
      BY <3>1 DEF Rewire
    <3>2. ASSUME NEW ok \in BOOLEAN, Flush(ok) PROVE WInv'
      <4>1. UNCHANGED <<want, pc, chain, wired>> /\ settled' = (ok /\ ReadersAgree(wired))
        BY <3>2 DEF Flush
      <4>2. ok => chainCache' = [a \in Agents |-> None]
        BY <3>2 DEF Flush
      <4>3. QED  BY <4>1, <4>2 DEF ReadersAgree, Agent
    <3>3. QED  BY <2>2, <3>1, <3>2 DEF Environment, Recompile, PutWirings, UpdateDef
  <2>3. CASE UNCHANGED vars
    BY <2>3 DEF vars, wiringVars, Agent
  <2>4. QED  BY <2>1, <2>2, <2>3 DEF Next, CallStep
<1>3. WInv => WiringHolds
  BY DEF WiringHolds, ReadersAgree
<1> HIDE DEF WInv
<1>4. QED  BY <1>1, <1>2, <1>3, Invariant, PTL DEF Spec
=============================================================================
