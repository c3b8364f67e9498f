--------------------------- MODULE ModelTurnProofs ---------------------------
(***************************************************************************)
(* Proofs about ModelTurn, for any numbers of calls, pieces, attempts and  *)
(* iterations and any window, and for conversations without end: how the   *)
(* calls of a stream are assembled, which planning requests are refused,   *)
(* and what the repair of a history takes away.                            *)
(*                                                                         *)
(* The properties speak of one request; the invariant of what it is built  *)
(* from.  A turn is told by the number of its message and its iteration.   *)
(* The numbers go round, so the invariant says for each transcript whose   *)
(* turns it holds (Own), and that those in one window differ; so the turns *)
(* of the joined window still have their own results only, and the repair  *)
(* can be read off row by row.                                             *)
(***************************************************************************)
EXTENDS ModelTurn, FiniteSetTheorems, WellFoundedInduction, TLAPS

(***************************************************************************)
(* Numbers and sequences: FlattenSeq joins its parts by a recursive        *)
(* function, so induction and iteration come first.                        *)
(***************************************************************************)
\* Induction over the natural numbers, with the property as a set.
LEMMA Induct ==
  ASSUME NEW T, 0 \in T, \A n \in Nat : n \in T => n + 1 \in T
  PROVE  Nat \subseteq T
<1> DEFINE B == {n \in Nat : n \notin T}
<1> SUFFICES ASSUME B # {} PROVE FALSE
  OBVIOUS
<1> HIDE DEF B
<1>1. PICK x \in B : \A y \in B : ~(<<y, x>> \in OpToRel(<, Nat))
  <2>1. B \subseteq Nat
    BY DEF B
  <2>2. QED  BY <2>1, NatLessThanWellFounded, WFMin
<1>2. \A y \in B : ~(y < x)
  BY <1>1 DEF OpToRel, B
<1>3. x \in Nat /\ x # 0 /\ x - 1 \in Nat /\ x - 1 < x
  BY DEF B
<1>4. x - 1 \in T
  BY <1>2, <1>3 DEF B
<1>5. (x - 1) + 1 = x
  BY <1>3
<1>6. QED  BY <1>3, <1>4, <1>5 DEF B

\* A function that goes from base step by step.
IsIterate(f, n, base, grow) ==
  /\ f[0] = base /\ \A i \in 1 .. n : f[i] = grow[i][f[i - 1]]

LEMMA Iterated ==
  ASSUME NEW n \in Nat, NEW S, NEW base \in S, NEW grow \in [1 .. n -> [S -> S]]
  PROVE  \E f \in [0 .. n -> S] : IsIterate(f, n, base, grow)
<1> DEFINE T == {k \in Nat : k <= n => \E f \in [0 .. k -> S] : IsIterate(f, k, base, grow)}
<1>1. 0 \in T
  <2> DEFINE f == [i \in 0 .. 0 |-> base]
  <2>1. f \in [0 .. 0 -> S] /\ f[0] = base /\ 1 .. 0 = {}
    OBVIOUS
  <2>2. IsIterate(f, 0, base, grow)
    BY <2>1 DEF IsIterate
  <2>3. QED  BY <2>1, <2>2
<1>2. ASSUME NEW k \in Nat, k \in T, k + 1 <= n PROVE k + 1 \in T
  <2>1. PICK f \in [0 .. k -> S] : IsIterate(f, k, base, grow)
    BY <1>2
  <2> DEFINE next == grow[k + 1][f[k]]
             g == [i \in 0 .. k + 1 |-> IF i = k + 1 THEN next ELSE f[i]]
  <2>2. grow[k + 1] \in [S -> S] /\ f[k] \in S /\ next \in S
    BY <1>2
  <2>3. \A i \in 0 .. k : g[i] = f[i] /\ f[i] \in S
    BY <1>2
  <2>4. g[k + 1] = next
    BY <1>2
  <2>5. \A i \in 0 .. k + 1 : i \in 0 .. k \/ i = k + 1
    BY <1>2
  <2>6. g \in [0 .. k + 1 -> S]
    BY <2>2, <2>3, <2>4, <2>5
  <2> HIDE DEF g, next
  <2>7. ASSUME NEW i \in 1 .. k + 1 PROVE g[i] = grow[i][g[i - 1]]
    <3>1. i - 1 \in 0 .. k
      BY <1>2
    <3>2. CASE i = k + 1
      <4>1. i - 1 = k
        BY <1>2, <3>2
      <4>2. g[i - 1] = f[k]
        BY <2>3, <3>1, <4>1
      <4>3. QED  BY <2>4, <3>2, <4>2 DEF next
    <3>3. CASE i \in 1 .. k
      <4>1. f[i] = grow[i][f[i - 1]]
        BY <2>1, <3>3 DEF IsIterate
      <4>2. g[i] = f[i] /\ g[i - 1] = f[i - 1]
        BY <2>3, <3>1, <3>3
      <4>3. QED  BY <4>1, <4>2
    <3>4. i \in 1 .. k \/ i = k + 1
      BY <1>2
    <3>5. QED  BY <3>2, <3>3, <3>4
  <2>8. g[0] = base
    BY <1>2, <2>1, <2>3 DEF IsIterate
  <2>9. QED  BY <1>2, <2>6, <2>7, <2>8 DEF IsIterate
<1>3. \A k \in Nat : k \in T => k + 1 \in T
  <2>1. ASSUME NEW k \in Nat, k \in T, ~(k + 1 <= n) PROVE k + 1 \in T
    BY <2>1
  <2>2. QED  BY <1>2, <2>1
<1> HIDE DEF T
<1>4. n \in T
  BY <1>1, <1>3, Induct
<1>5. QED  BY <1>4 DEF T

(***************************************************************************)
(* Joining sequences                                                       *)
(***************************************************************************)
LEMMA Concatenated ==
  ASSUME NEW S, NEW s \in Seq(S), NEW t \in Seq(S)
  PROVE  /\ s \o t \in Seq(S) /\ Len(s \o t) = Len(s) + Len(t)
         /\ Len(s) \in Nat /\ Len(t) \in Nat
         /\ \A i \in 1 .. Len(s) : (s \o t)[i] = s[i]
         /\ \A i \in 1 .. Len(t) : (s \o t)[Len(s) + i] = t[i]
         /\ \A i \in 1 .. Len(s \o t) :
              i \in 1 .. Len(s) \/ \E k \in 1 .. Len(t) : i = Len(s) + k
<1>1. s \o t \in Seq(S) /\ Len(s \o t) = Len(s) + Len(t) /\ Len(s) \in Nat /\ Len(t) \in Nat
  OBVIOUS
<1>2. \A i \in 1 .. Len(s) : (s \o t)[i] = s[i]
  OBVIOUS
<1>3. \A i \in 1 .. Len(t) : (s \o t)[Len(s) + i] = t[i]
  OBVIOUS
<1>4. ASSUME NEW i \in 1 .. Len(s \o t), i \notin 1 .. Len(s)
      PROVE  \E k \in 1 .. Len(t) : i = Len(s) + k
  <2>1. i - Len(s) \in 1 .. Len(t) /\ i = Len(s) + (i - Len(s))
    BY <1>1, <1>4
  <2>2. QED  BY <2>1
<1>5. QED  BY <1>1, <1>2, <1>3, <1>4

\* c[n] joins the first n sequences of f.
Joins(c, f, S) ==
  /\ c \in [0 .. Len(f) -> Seq(S)] /\ c[0] = <<>>
  /\ \A n \in 1 .. Len(f) : c[n] = c[n - 1] \o f[n]

LEMMA Flattened ==
  ASSUME NEW S, NEW f \in Seq(Seq(S))
  PROVE  \E c : Joins(c, f, S) /\ FlattenSeq(f) = c[Len(f)]
<1>1. CASE Len(f) = 0
  <2> DEFINE c == [n \in 0 .. Len(f) |-> <<>>]
  <2>1. Joins(c, f, S)
    <3>1. 1 .. Len(f) = {}
      BY <1>1
    <3>2. <<>> \in Seq(S) /\ 0 \in 0 .. Len(f)
      BY <1>1
    <3>3. QED  BY <3>1, <3>2 DEF Joins
  <2>2. FlattenSeq(f) = f /\ f = <<>> /\ c[Len(f)] = <<>>
    BY <1>1 DEF FlattenSeq
  <2>3. QED  BY <2>1, <2>2
<1>2. CASE Len(f) # 0
  <2> DEFINE N == Len(f)
             add == [i \in 1 .. N |-> [s \in Seq(S) |-> s \o f[i]]]
             Eq(g) == g = [i \in 1 .. N |-> IF i = 1 THEN f[i] ELSE g[i - 1] \o f[i]]
  <2>1. N \in Nat /\ N > 0 /\ \A i \in 1 .. N : f[i] \in Seq(S)
    BY <1>2
  <2>2. add \in [1 .. N -> [Seq(S) -> Seq(S)]]
    BY <2>1
  <2>3. <<>> \in Seq(S)
    OBVIOUS
  <2>4. \A i \in 1 .. N, s \in Seq(S) : add[i][s] = s \o f[i]
    OBVIOUS
  <2> HIDE DEF add
  <2>5. PICK c \in [0 .. N -> Seq(S)] : IsIterate(c, N, <<>>, add)
    BY <2>1, <2>2, <2>3, Iterated
  <2>6. ASSUME NEW n \in 1 .. N PROVE n - 1 \in 0 .. N /\ c[n] = c[n - 1] \o f[n]
    <3>1. n - 1 \in 0 .. N /\ c[n] = add[n][c[n - 1]]
      BY <2>1, <2>5 DEF IsIterate
    <3>2. QED  BY <2>4, <2>5, <3>1
  <2>7. c[0] = <<>>
    BY <2>5 DEF IsIterate
  <2>8. Joins(c, f, S)
    BY <2>5, <2>6, <2>7 DEF Joins
  <2> DEFINE g == [i \in 1 .. N |-> c[i]]
  <2>9. ASSUME NEW i \in 1 .. N PROVE g[i] = IF i = 1 THEN f[i] ELSE g[i - 1] \o f[i]
    <3>1. CASE i = 1
      <4>1. i - 1 = 0
        BY <3>1
      <4>2. c[i] = <<>> \o f[i]
        BY <2>6, <2>7, <4>1, Zenon
      <4>3. f[i] \in Seq(S)
        BY <2>1
      <4>4. c[i] = f[i]
        BY <4>2, <4>3
      <4>5. g[i] = c[i]
        OBVIOUS
      <4>6. QED  BY <3>1, <4>4, <4>5, Zenon
    <3>2. CASE i # 1
      <4>1. i - 1 \in 1 .. N
        BY <2>1, <3>2
      <4>2. QED  BY <2>6, <3>2, <4>1
    <3>3. QED  BY <3>1, <3>2
  <2>10. Eq(g)
    BY <2>9
  <2> DEFINE h == CHOOSE h : Eq(h)
  <2>11. Eq(h)
    BY <2>10
  <2>12. FlattenSeq(f) = h[N]
    BY <1>2 DEF FlattenSeq
  <2> HIDE DEF h, g
  <2>13. \A i \in 1 .. N : h[i] = IF i = 1 THEN f[i] ELSE h[i - 1] \o f[i]
    BY <2>11
  <2> DEFINE T == {i \in Nat : i + 1 <= N => h[i + 1] = c[i + 1]}
  <2>14. 0 \in T
    <3>1. 1 \in 1 .. N /\ 1 - 1 = 0 /\ 0 + 1 = 1
      BY <2>1
    <3>2. h[1] = f[1] /\ c[1] = <<>> \o f[1] /\ f[1] \in Seq(S)
      BY <2>1, <2>6, <2>7, <2>13, <3>1
    <3>3. h[1] = c[1]
      BY <3>2
    <3>4. QED  BY <3>1, <3>3
  <2>15. ASSUME NEW i \in Nat, i \in T PROVE i + 1 \in T
    <3>1. ASSUME (i + 1) + 1 <= N PROVE h[(i + 1) + 1] = c[(i + 1) + 1]
      <4>1. i + 1 <= N /\ (i + 1) + 1 \in 1 .. N /\ (i + 1) + 1 # 1
            /\ ((i + 1) + 1) - 1 = i + 1
        BY <2>1, <3>1
      <4>2. h[i + 1] = c[i + 1]
        BY <2>15, <4>1
      <4>3. h[(i + 1) + 1] = h[((i + 1) + 1) - 1] \o f[(i + 1) + 1]
        BY <2>13, <4>1
      <4>4. c[(i + 1) + 1] = c[((i + 1) + 1) - 1] \o f[(i + 1) + 1]
        BY <2>6, <4>1
      <4>5. QED  BY <4>1, <4>2, <4>3, <4>4
    <3>2. QED  BY <3>1
  <2>16. Nat \subseteq T
    <3> HIDE DEF T
    <3>1. QED  BY <2>14, <2>15, Induct
  <2>17. h[N] = c[N]
    <3>1. N - 1 \in Nat /\ (N - 1) + 1 = N /\ N <= N
      BY <2>1
    <3>2. N - 1 \in T
      BY <2>16, <3>1
    <3>3. QED  BY <3>1, <3>2
  <2>18. QED  BY <2>8, <2>12, <2>17
<1>3. QED  BY <1>1, <1>2

\* What is joined from sequences of S is a sequence of S.
LEMMA FlattenedType ==
  ASSUME NEW S, NEW f \in Seq(Seq(S))
  PROVE  FlattenSeq(f) \in Seq(S)
<1>1. PICK c : Joins(c, f, S) /\ FlattenSeq(f) = c[Len(f)]
  BY Flattened
<1>2. Len(f) \in 0 .. Len(f)
  OBVIOUS
<1>3. QED  BY <1>1, <1>2 DEF Joins

(***************************************************************************)
(* The invariant                                                           *)
(***************************************************************************)
Kinds == {"user", "calls", "results", "answer"}
Forms == {"text", "uses", "nested", "results", "reply"}
RowSet ==
  {r \in [kind : Kinds, by : {"none", "anthropic", "openai"}, turn : Nat \X Nat] :
     r.kind = "calls" => r.by # "none"}
MsgSet == [form : Forms, turn : Nat \X Nat]
TaskSet == [rows : Seq(RowSet), patchy : BOOLEAN]

TypeInv ==
  /\ stage \in {"idle", "plan", "stream", "fanout"}
  /\ path \in Paths /\ family \in Families
  /\ tasks \in Seq(TaskSet) /\ Len(tasks) <= Kept
  /\ rows \in Seq(RowSet) /\ prior \in Seq(MsgSet) /\ memory \in Seq(MsgSet)
  /\ iteration \in Nat /\ attempt \in Nat
  /\ sent \in [Index -> 0 .. Pieces + 1] /\ acc \in [Index -> Seq(Nat \X Nat)]
  /\ serial \in 0 .. Kept
  /\ truncated \in BOOLEAN /\ patchy \in BOOLEAN
  /\ streak \in 0 .. Kept

\* The number of the message that began a messages before number s, and how
\* long ago, in messages, that of a remembered task began.
Back(s, a) == IF a <= s THEN s - a ELSE s + Kept + 1 - a
Age(i) == Len(tasks) - i + (IF stage = "idle" THEN 0 ELSE 1)

\* A transcript holds turns of its own message only; if nothing of it was lost,
\* calls and their results follow each other, but for the last calls.
OfTurn(r) == r.kind \in {"calls", "results"}
Own(rs, s) == \A j \in 1 .. Len(rs) : OfTurn(rs[j]) => rs[j].turn[1] = s
Paired(rs) ==
  /\ \A j \in 1 .. Len(rs) :
       /\ rs[j].kind = "calls" =>
            j = Len(rs) \/ rs[j + 1] = Row("results", rs[j].by, rs[j].turn)
       /\ rs[j].kind = "results" =>
            j > 1 /\ rs[j - 1] = Row("calls", rs[j].by, rs[j].turn)
  /\ \A j, k \in 1 .. Len(rs) :
       rs[j].kind = "calls" /\ rs[k].kind = "calls" /\ rs[j].turn = rs[k].turn => j = k

TasksInv ==
  \A i \in 1 .. Len(tasks) :
    /\ Own(tasks[i].rows, Back(serial, Age(i)))
    /\ ~tasks[i].patchy => Paired(tasks[i].rows)

IdleInv == stage = "idle" => rows = <<>> /\ iteration = 0 /\ ~patchy

\* The transcript of the message that is being served.
Reached(r) == IF stage = "stream" THEN r.turn[2] < iteration ELSE r.turn[2] <= iteration
RowsInv ==
  stage # "idle" =>
    /\ Own(rows, serial)
    /\ \A j \in 1 .. Len(rows) : rows[j].kind # "answer" /\ (OfTurn(rows[j]) => Reached(rows[j]))
    /\ stage = "plan" /\ iteration = 0 => rows = <<UserRow>>
    /\ stage # "plan" => iteration > 0
    /\ ~patchy => Paired(rows) /\ rows # <<>>
    /\ ~patchy /\ stage \in {"plan", "stream"} => rows[Len(rows)].kind # "calls"
    /\ ~patchy /\ stage = "fanout" => rows[Len(rows)] = Row("calls", family, Turn)

\* What the workflow has in memory for a row of this message.
InMemory(f, r) == IF r.kind = "results" THEN Msg("results", r.turn) ELSE Native(f, r)
Remembered == [j \in 1 .. Len(rows) |-> InMemory(family, rows[j])]

\* What a request is built from.
SentInv ==
  /\ stage # "idle" /\ ~patchy =>
       /\ prior = History(path, family)
       /\ path = "workflow" => memory = prior \o Remembered
  /\ stage = "plan" /\ iteration = 0 =>
       /\ prior = <<>> \/ prior = History(path, family)
       /\ path = "workflow" => memory = Append(prior, Msg("text", NoTurn))

\* Refused messages leave their user row and nothing else.
StreakInv ==
  /\ streak > 0 => stage = "idle" \/ (stage = "plan" /\ iteration = 0)
  /\ HistoryWindow > 0 => streak <= HistoryWindow /\ streak <= Len(tasks)
  /\ HistoryWindow > 0 =>
       \A i \in 1 .. Len(tasks) : Len(tasks) - streak < i => tasks[i].rows = <<UserRow>>

\* The fragments of each call are in the order they came; calls began in order.
StreamInv ==
  \A i \in Index :
    /\ acc[i] = [k \in 1 .. sent[i] |-> <<i, k>>]
    /\ sent[i] > 0 /\ i > 1 => sent[i - 1] > 0

IInv ==
  /\ TypeInv /\ TasksInv /\ IdleInv /\ RowsInv /\ SentInv /\ StreakInv /\ StreamInv
  /\ CallsAssembled

(***************************************************************************)
(* The k-th of a set of positions                                          *)
(***************************************************************************)
Place(S, i) == Cardinality({j \in S : j <= i})

\* Places grow with the positions, and one by one where the positions do.
LEMMA PlacesGrow ==
  ASSUME NEW S \in SUBSET Nat, IsFiniteSet(S), NEW i \in S
  PROVE  /\ Place(S, i) \in 1 .. Cardinality(S)
         /\ \A j \in S : i < j => Place(S, i) < Place(S, j)
         /\ i + 1 \in S => Place(S, i + 1) = Place(S, i) + 1
<1> DEFINE Up(k) == {j \in S : j <= k}
<1>0. \A k \in S : k \in Nat
  OBVIOUS
<1>1. ASSUME NEW k \in Nat
      PROVE  /\ IsFiniteSet(Up(k)) /\ Cardinality(Up(k)) \in Nat
             /\ Cardinality(Up(k)) <= Cardinality(S)
  <2>1. Up(k) \subseteq S
    OBVIOUS
  <2>2. QED  BY <2>1, FS_Subset, FS_CardinalityType
<1>2. Cardinality(S) \in Nat /\ i \in Nat
  BY FS_CardinalityType
<1>3. Place(S, i) # 0
  <2>1. i \in Up(i)
    BY <1>2
  <2>2. QED  BY <1>1, <1>2, <2>1, FS_EmptySet DEF Place
<1>4. ASSUME NEW j \in S, i < j PROVE Place(S, i) < Place(S, j)
  <2>1. j \in Nat /\ \A k \in S : k <= i => k <= j
    BY <1>2, <1>4, <1>0
  <2>1a. Up(i) \subseteq Up(j)
    BY <2>1
  <2>1b. j \in Up(j) /\ j \notin Up(i)
    BY <1>2, <1>4, <2>1
  <2> HIDE DEF Up
  <2>2. Up(i) # Up(j)
    BY <2>1b
  <2>3. /\ Cardinality(Up(i)) \in Nat /\ Cardinality(Up(j)) \in Nat
        /\ Cardinality(Up(i)) <= Cardinality(Up(j)) /\ Cardinality(Up(i)) # Cardinality(Up(j))
    BY <1>1, <1>2, <2>1, <2>1a, <2>2, FS_Subset
  <2>4. QED  BY <2>3 DEF Place, Up
<1>5. ASSUME i + 1 \in S PROVE Place(S, i + 1) = Place(S, i) + 1
  <2>0. \A k \in S : k <= i + 1 <=> k <= i \/ k = i + 1
    BY <1>0, <1>2
  <2>1. Up(i + 1) = Up(i) \cup {i + 1} /\ i + 1 \notin Up(i)
    <3>1. ~(i + 1 <= i)
      BY <1>2
    <3>2. QED  BY <1>5, <2>0, <3>1
  <2> HIDE DEF Up
  <2>2. Cardinality(Up(i + 1)) = Cardinality(Up(i)) + 1
    BY <1>1, <1>2, <2>1, FS_AddElement
  <2>3. QED  BY <2>2 DEF Place, Up
<1>6. QED  BY <1>1, <1>2, <1>3, <1>4, <1>5 DEF Place

\* Nth and Place are each other's inverse.
LEMMA NthPlace ==
  ASSUME NEW S \in SUBSET Nat, IsFiniteSet(S)
  PROVE  /\ \A i \in S : Place(S, i) \in 1 .. Cardinality(S) /\ Nth(S, Place(S, i)) = i
         /\ \A k \in 1 .. Cardinality(S) : Nth(S, k) \in S /\ Place(S, Nth(S, k)) = k
<1>0. \A k \in S : k \in Nat
  OBVIOUS
<1>1. \A i \in S : Place(S, i) \in 1 .. Cardinality(S)
  BY PlacesGrow
<1>2. ASSUME NEW i \in S, NEW j \in S, i # j PROVE Place(S, i) # Place(S, j)
  <2>1. i \in Nat /\ j \in Nat /\ (i < j \/ j < i)
    BY <1>0, <1>2
  <2>2. Place(S, i) \in Nat /\ Place(S, j) \in Nat
    BY <1>1
  <2>3. CASE i < j
    BY <2>2, <2>3, PlacesGrow
  <2>4. CASE j < i
    BY <2>2, <2>4, PlacesGrow
  <2>5. QED  BY <2>1, <2>3, <2>4
<1> DEFINE place == [i \in S |-> Place(S, i)]
<1>3. place \in [S -> 1 .. Cardinality(S)]
  BY <1>1
<1>4. IsInjective(place)
  BY <1>2 DEF IsInjective
<1>5. {place[i] : i \in S} = 1 .. Cardinality(S)
  <2> DEFINE R == {place[i] : i \in S}
  <2>1. R \subseteq 1 .. Cardinality(S)
    BY <1>3
  <2>2. Cardinality(S) \in Nat
    BY FS_CardinalityType
  <2>3. IsFiniteSet(1 .. Cardinality(S)) /\ Cardinality(1 .. Cardinality(S)) = Cardinality(S)
    BY <2>2, FS_Interval
  <2>4. place \in Injection(S, R)
    BY <1>3, <1>4 DEF Injection, IsInjective
  <2>5. place \in Surjection(S, R)
    BY <1>3 DEF Surjection
  <2>6. IsFiniteSet(R)
    BY <2>1, <2>3, FS_Subset
  <2>7. Cardinality(S) = Cardinality(R)
    BY <2>4, <2>5, <2>6, FS_Bijection DEF Bijection, ExistsBijection
  <2>8. QED  BY <2>1, <2>3, <2>7, FS_Subset
<1>6. ASSUME NEW k \in 1 .. Cardinality(S) PROVE Nth(S, k) \in S /\ Place(S, Nth(S, k)) = k
  <2>1. PICK i \in S : place[i] = k
    BY <1>5
  <2>2. Place(S, i) = k
    BY <2>1
  <2>3. QED  BY <2>2 DEF Place, Nth
<1>7. QED  BY <1>1, <1>2, <1>6

(***************************************************************************)
(* _sanitize_history                                                       *)
(***************************************************************************)
\* The repair keeps the messages of KeptIn, in their order and nothing else.
LEMMA SanitizeIs ==
  ASSUME NEW S, NEW h \in Seq(S)
  PROVE  /\ Sanitize(h) \in Seq(S)
         /\ \A i \in KeptIn(h) :
              /\ Place(KeptIn(h), i) \in 1 .. Len(Sanitize(h))
              /\ Sanitize(h)[Place(KeptIn(h), i)] = h[i]
              /\ i + 1 \in KeptIn(h) =>
                   Place(KeptIn(h), i + 1) = Place(KeptIn(h), i) + 1
         /\ \A k \in 1 .. Len(Sanitize(h)) :
              \E i \in KeptIn(h) : k = Place(KeptIn(h), i) /\ Sanitize(h)[k] = h[i]
<1> DEFINE K == KeptIn(h)
           n == Cardinality(K)
<1>1. K \subseteq 1 .. Len(h) /\ Len(h) \in Nat
  BY DEF KeptIn
<1>2. IsFiniteSet(K) /\ K \in SUBSET Nat
  <2>1. IsFiniteSet(1 .. Len(h))
    BY <1>1, FS_Interval
  <2>2. \A i \in 1 .. Len(h) : i \in Nat
    OBVIOUS
  <2>3. QED  BY <1>1, <2>1, <2>2, FS_Subset
<1>3. n \in Nat
  BY <1>2, FS_CardinalityType
<1> HIDE DEF K
<1>4. /\ \A i \in K : Place(K, i) \in 1 .. n /\ Nth(K, Place(K, i)) = i
      /\ \A k \in 1 .. n : Nth(K, k) \in K /\ Place(K, Nth(K, k)) = k
  BY <1>2, NthPlace
<1>5. \A i \in K : i + 1 \in K => Place(K, i + 1) = Place(K, i) + 1
  BY <1>2, PlacesGrow
<1>6. \A i \in K : h[i] \in S
  BY <1>1
<1> HIDE DEF n
<1>7. Sanitize(h) = [k \in 1 .. n |-> h[Nth(K, k)]]
  BY DEF Sanitize, K, n
<1>8. Sanitize(h) \in Seq(S) /\ Len(Sanitize(h)) = n
  BY <1>3, <1>4, <1>6, <1>7
<1>9. \A i \in K : Sanitize(h)[Place(K, i)] = h[i]
  BY <1>4, <1>7
<1>10. \A k \in 1 .. n : Sanitize(h)[k] = h[Nth(K, k)]
  BY <1>7
<1>11. QED  BY <1>4, <1>5, <1>8, <1>9, <1>10 DEF K

\* What deserialize_history makes of a row.
LEMMA NativeIs ==
  ASSUME NEW f \in {"anthropic", "openai"}, NEW r \in RowSet
  PROVE  /\ Native(f, r) \in MsgSet
         /\ r.kind \in {"user", "answer"} => Native(f, r) = Msg("text", NoTurn)
         /\ r.kind = "calls" =>
              Native(f, r) = Msg(IF r.by = "openai" THEN "nested" ELSE "uses", r.turn)
         /\ r.kind = "results" =>
              Native(f, r) = Msg(IF f = "openai" THEN "reply" ELSE "results", r.turn)
         /\ r.kind \in Kinds /\ (r.kind = "calls" => r.by \in {"anthropic", "openai"})
<1>1. r.kind \in Kinds /\ r.by \in {"none", "anthropic", "openai"} /\ r.turn \in Nat \X Nat
  BY DEF RowSet
<1>2. NoTurn \in Nat \X Nat
  BY DEF NoTurn
<1>3. CASE r.kind \in {"user", "answer"}
  BY <1>1, <1>2, <1>3 DEF Native, Msg, MsgSet, Forms, Kinds
<1>4. CASE r.kind = "calls"
  BY <1>1, <1>4 DEF Native, Msg, MsgSet, Forms, Kinds, RowSet
<1>5. CASE r.kind = "results"
  BY <1>1, <1>5 DEF Native, Msg, MsgSet, Forms, Kinds
<1>6. QED  BY <1>1, <1>3, <1>4, <1>5 DEF Kinds

\* The form of a message tells the kind of its row.
LEMMA FormIs ==
  ASSUME NEW f \in {"anthropic", "openai"}, NEW r \in RowSet
  PROVE  /\ Native(f, r).form = "text" <=> r.kind \in {"user", "answer"}
         /\ Native(f, r).form = "uses" <=> r.kind = "calls" /\ r.by = "anthropic"
         /\ Native(f, r).form = "nested" <=> r.kind = "calls" /\ r.by = "openai"
         /\ Native(f, r).form = "results" <=> r.kind = "results" /\ f = "anthropic"
         /\ Native(f, r).form \in Forms
         /\ Native(f, r).form = "uses" => Native(f, r).turn = r.turn
         /\ Native(f, r).form = "results" => Native(f, r).turn = r.turn
<1>1. r.kind \in Kinds /\ (r.kind = "calls" => r.by \in {"anthropic", "openai"})
  BY NativeIs
<1>2. CASE r.kind \in {"user", "answer"}
  BY <1>2, NativeIs DEF Msg, Forms
<1>3. CASE r.kind = "calls"
  BY <1>1, <1>3, NativeIs DEF Msg, Forms
<1>4. CASE r.kind = "results"
  BY <1>4, NativeIs DEF Msg, Forms
<1>5. QED  BY <1>1, <1>2, <1>3, <1>4 DEF Kinds

LEMMA DeserializeIs ==
  ASSUME NEW f \in {"anthropic", "openai"}, NEW w \in Seq(RowSet)
  PROVE  /\ Deserialize(f, w) \in Seq(MsgSet) /\ Len(Deserialize(f, w)) = Len(w)
         /\ \A j \in 1 .. Len(w) : Deserialize(f, w)[j] = Native(f, w[j]) /\ w[j] \in RowSet
<1>1. Len(w) \in Nat /\ \A j \in 1 .. Len(w) : w[j] \in RowSet
  OBVIOUS
<1>2. \A j \in 1 .. Len(w) : Native(f, w[j]) \in MsgSet
  BY <1>1, NativeIs
<1>3. Deserialize(f, w) = [j \in 1 .. Len(w) |-> Native(f, w[j])]
  BY DEF Deserialize
<1>4. QED  BY <1>1, <1>2, <1>3

(***************************************************************************)
(* Joined transcripts                                                      *)
(***************************************************************************)
\* Every result follows its calls, and calls precede their results or have none
\* anywhere: what is left of Paired when transcripts are joined.
Followed(w, j) == j < Len(w) /\ w[j + 1] = Row("results", w[j].by, w[j].turn)
Unanswered(w, r) == \A k \in 1 .. Len(w) : w[k].kind = "results" => w[k].turn # r.turn
Chained(w) ==
  \A j \in 1 .. Len(w) :
    /\ w[j].kind = "calls" => Followed(w, j) \/ Unanswered(w, w[j])
    /\ w[j].kind = "results" => j > 1 /\ w[j - 1] = Row("calls", w[j].by, w[j].turn)
Serials(w, A) == \A j \in 1 .. Len(w) : OfTurn(w[j]) => w[j].turn[1] \in A

LEMMA PairedChained ==
  ASSUME NEW w \in Seq(RowSet), Paired(w)
  PROVE  Chained(w)
<1>1. ASSUME NEW j \in 1 .. Len(w), w[j].kind = "calls", ~Followed(w, j)
      PROVE  Unanswered(w, w[j])
  <2> SUFFICES ASSUME NEW k \in 1 .. Len(w), w[k].kind = "results", w[k].turn = w[j].turn
               PROVE  FALSE
    BY DEF Unanswered
  <2>1. j = Len(w)
    BY <1>1 DEF Paired, Followed
  <2>2. k > 1 /\ w[k - 1] = Row("calls", w[k].by, w[k].turn) /\ k - 1 \in 1 .. Len(w)
    BY DEF Paired
  <2>3. w[k - 1].kind = "calls" /\ w[k - 1].turn = w[j].turn
    BY <2>2 DEF Row
  <2>4. k - 1 = j
    BY <1>1, <2>2, <2>3 DEF Paired
  <2>5. QED  BY <2>1, <2>4
<1>2. \A j \in 1 .. Len(w) :
        w[j].kind = "results" => j > 1 /\ w[j - 1] = Row("calls", w[j].by, w[j].turn)
  BY DEF Paired
<1>3. QED  BY <1>1, <1>2 DEF Chained

LEMMA ChainedBoth ==
  ASSUME NEW s \in Seq(RowSet), NEW t \in Seq(RowSet), NEW A, NEW B,
         \A x \in A : x \notin B,
         Chained(s), Chained(t), Serials(s, A), Serials(t, B)
  PROVE  Chained(s \o t) /\ Serials(s \o t, A \cup B)
<1> DEFINE w == s \o t
<1>1. /\ w \in Seq(RowSet) /\ Len(w) = Len(s) + Len(t) /\ Len(s) \in Nat /\ Len(t) \in Nat
      /\ \A i \in 1 .. Len(s) : w[i] = s[i]
      /\ \A i \in 1 .. Len(t) : w[Len(s) + i] = t[i]
      /\ \A i \in 1 .. Len(w) : i \in 1 .. Len(s) \/ \E k \in 1 .. Len(t) : i = Len(s) + k
  BY Concatenated
<1> HIDE DEF w
<1>2. Serials(w, A \cup B)
  <2>1. ASSUME NEW j \in 1 .. Len(w), OfTurn(w[j]) PROVE w[j].turn[1] \in A \cup B
    <3>1. CASE j \in 1 .. Len(s)
      BY <1>1, <2>1, <3>1 DEF Serials
    <3>2. ASSUME NEW k \in 1 .. Len(t), j = Len(s) + k PROVE w[j].turn[1] \in B
      <4>1. w[j] = t[k]
        BY <1>1, <3>2
      <4>2. QED  BY <2>1, <4>1 DEF Serials
    <3>3. QED  BY <1>1, <3>1, <3>2
  <2>2. QED  BY <2>1 DEF Serials
<1>3. ASSUME NEW j \in 1 .. Len(w), w[j].kind = "calls"
      PROVE  Followed(w, j) \/ Unanswered(w, w[j])
  <2>1. CASE j \in 1 .. Len(s)
    <3>1. w[j] = s[j] /\ s[j].kind = "calls" /\ s[j].turn[1] \in A
      BY <1>1, <1>3, <2>1 DEF Serials, OfTurn
    <3>2. CASE Followed(s, j)
      <4>1. j < Len(s) /\ j + 1 \in 1 .. Len(s) /\ j < Len(w)
        BY <1>1, <2>1, <3>2 DEF Followed
      <4>2. w[j + 1] = s[j + 1]
        BY <1>1, <4>1
      <4>3. QED  BY <3>1, <3>2, <4>1, <4>2 DEF Followed
    <3>3. CASE Unanswered(s, s[j])
      <4>1. ASSUME NEW k \in 1 .. Len(w), w[k].kind = "results" PROVE w[k].turn # w[j].turn
        <5>1. CASE k \in 1 .. Len(s)
          BY <1>1, <3>1, <3>3, <4>1, <5>1 DEF Unanswered
        <5>2. ASSUME NEW l \in 1 .. Len(t), k = Len(s) + l PROVE w[k].turn # w[j].turn
          <6>1. w[k] = t[l] /\ t[l].kind = "results"
            BY <1>1, <4>1, <5>2
          <6>2. t[l].turn[1] \in B
            BY <6>1 DEF Serials, OfTurn
          <6>3. QED  BY <3>1, <6>1, <6>2
        <5>3. QED  BY <1>1, <5>1, <5>2
      <4>2. QED  BY <4>1 DEF Unanswered
    <3>4. QED  BY <2>1, <3>1, <3>2, <3>3 DEF Chained
  <2>2. ASSUME NEW i \in 1 .. Len(t), j = Len(s) + i
        PROVE  Followed(w, j) \/ Unanswered(w, w[j])
    <3>1. w[j] = t[i] /\ t[i].kind = "calls"
      BY <1>1, <1>3, <2>2
    <3>2. t[i].turn[1] \in B
      BY <3>1 DEF Serials, OfTurn
    <3>3. CASE Followed(t, i)
      <4>1. i < Len(t) /\ i + 1 \in 1 .. Len(t) /\ j + 1 = Len(s) + (i + 1) /\ j < Len(w)
        BY <1>1, <2>2, <3>3 DEF Followed
      <4>2. w[j + 1] = t[i + 1]
        BY <1>1, <4>1
      <4>3. QED  BY <3>1, <3>3, <4>1, <4>2 DEF Followed
    <3>4. CASE Unanswered(t, t[i])
      <4>1. ASSUME NEW k \in 1 .. Len(w), w[k].kind = "results" PROVE w[k].turn # w[j].turn
        <5>1. CASE k \in 1 .. Len(s)
          <6>1. w[k] = s[k] /\ s[k].turn[1] \in A
            BY <1>1, <4>1, <5>1 DEF Serials, OfTurn
          <6>2. QED  BY <3>1, <3>2, <6>1
        <5>2. ASSUME NEW l \in 1 .. Len(t), k = Len(s) + l PROVE w[k].turn # w[j].turn
          <6>1. w[k] = t[l] /\ t[l].kind = "results"
            BY <1>1, <4>1, <5>2
          <6>2. QED  BY <3>1, <3>4, <6>1 DEF Unanswered
        <5>3. QED  BY <1>1, <5>1, <5>2
      <4>2. QED  BY <4>1 DEF Unanswered
    <3>5. QED  BY <3>1, <3>3, <3>4 DEF Chained
  <2>3. QED  BY <1>1, <2>1, <2>2
<1>4. ASSUME NEW j \in 1 .. Len(w), w[j].kind = "results"
      PROVE  j > 1 /\ w[j - 1] = Row("calls", w[j].by, w[j].turn)
  <2>1. CASE j \in 1 .. Len(s)
    <3>1. w[j] = s[j] /\ j > 1 /\ s[j - 1] = Row("calls", s[j].by, s[j].turn)
      BY <1>1, <1>4, <2>1 DEF Chained
    <3>2. j - 1 \in 1 .. Len(s)
      BY <1>1, <2>1, <3>1
    <3>3. QED  BY <1>1, <3>1, <3>2
  <2>2. ASSUME NEW i \in 1 .. Len(t), j = Len(s) + i
        PROVE  j > 1 /\ w[j - 1] = Row("calls", w[j].by, w[j].turn)
    <3>1. w[j] = t[i]
      BY <1>1, <2>2
    <3>2. i > 1 /\ t[i - 1] = Row("calls", t[i].by, t[i].turn)
      BY <1>4, <3>1 DEF Chained
    <3>3. i - 1 \in 1 .. Len(t) /\ j - 1 = Len(s) + (i - 1) /\ j > 1
      BY <1>1, <2>2, <3>2
    <3>4. w[j - 1] = t[i - 1]
      BY <1>1, <3>3
    <3>5. QED  BY <3>1, <3>2, <3>3, <3>4
  <2>3. QED  BY <1>1, <2>1, <2>2
<1>5. QED  BY <1>2, <1>3, <1>4 DEF Chained, w

\* Transcripts of different messages keep their shape when they are joined.
LEMMA JoinedChained ==
  ASSUME NEW f \in Seq(Seq(RowSet)), NEW num \in [1 .. Len(f) -> Nat],
         \A m, n \in 1 .. Len(f) : num[m] = num[n] => m = n,
         \A m \in 1 .. Len(f) : Paired(f[m]) /\ Own(f[m], num[m])
  PROVE  /\ Chained(FlattenSeq(f))
         /\ Serials(FlattenSeq(f), {num[m] : m \in 1 .. Len(f)})
<1>1. PICK c : Joins(c, f, RowSet) /\ FlattenSeq(f) = c[Len(f)]
  BY Flattened
<1> DEFINE N(n) == {num[m] : m \in 1 .. n}
           Good(n) == Chained(c[n]) /\ Serials(c[n], N(n))
           T == {n \in Nat : n <= Len(f) => Good(n)}
<1>2. 0 \in T
  <2>1. c[0] = <<>>
    BY <1>1 DEF Joins
  <2>2. 1 .. Len(c[0]) = {}
    BY <2>1
  <2>3. QED  BY <2>2 DEF Chained, Serials
<1>3. ASSUME NEW n \in Nat, n \in T, n + 1 <= Len(f) PROVE Good(n + 1)
  <2>1. n + 1 \in 1 .. Len(f) /\ n \in 0 .. Len(f) /\ (n + 1) - 1 = n
    BY <1>3
  <2>2. c[n] \in Seq(RowSet) /\ f[n + 1] \in Seq(RowSet) /\ c[n + 1] = c[n] \o f[n + 1]
    <3>1. c[n] \in Seq(RowSet) /\ c[n + 1] = c[n] \o f[n + 1]
      BY <1>1, <2>1, Zenon DEF Joins
    <3>2. \A k \in 1 .. Len(f) : f[k] \in Seq(RowSet)
      OBVIOUS
    <3>3. QED  BY <2>1, <3>1, <3>2, Zenon
  <2>3. Chained(c[n]) /\ Serials(c[n], N(n))
    BY <1>3, <2>1
  <2>4. Chained(f[n + 1])
    BY <2>1, <2>2, PairedChained
  <2>5. Serials(f[n + 1], {num[n + 1]})
    BY <2>1 DEF Own, Serials
  <2>6. \A x \in N(n) : x \notin {num[n + 1]}
    <3>1. \A m \in 1 .. n : m \in 1 .. Len(f) /\ m # n + 1
      BY <2>1
    <3>2. QED  BY <2>1, <3>1
  <2>7. N(n) \cup {num[n + 1]} = N(n + 1)
    <3>1. \A m \in 1 .. n + 1 : m \in 1 .. n \/ m = n + 1
      OBVIOUS
    <3>2. n + 1 \in 1 .. n + 1 /\ \A m \in 1 .. n : m \in 1 .. n + 1
      OBVIOUS
    <3>3. QED  BY <3>1, <3>2
  <2> HIDE DEF N
  <2>8. Chained(c[n] \o f[n + 1]) /\ Serials(c[n] \o f[n + 1], N(n) \cup {num[n + 1]})
    BY <2>2, <2>3, <2>4, <2>5, <2>6, ChainedBoth
  <2>9. QED  BY <2>2, <2>7, <2>8
<1>4. Nat \subseteq T
  <2> HIDE DEF Good
  <2>1. ASSUME NEW n \in Nat, n \in T PROVE n + 1 \in T
    BY <1>3, <2>1
  <2> HIDE DEF T
  <2>2. QED  BY <1>2, <2>1, Induct
<1>5. Len(f) \in Nat
  OBVIOUS
<1>6. Good(Len(f))
  <2>1. Len(f) \in T
    BY <1>4, <1>5
  <2>2. QED  BY <1>5, <2>1
<1>7. QED  BY <1>1, <1>6

(***************************************************************************)
(* What the providers accept                                               *)
(***************************************************************************)
LEMMA OrphanIs ==
  ASSUME NEW f \in {"anthropic", "openai"}, NEW w \in Seq(RowSet), NEW j \in 1 .. Len(w)
  PROVE  Orphan(Deserialize(f, w), j) <=>
           /\ w[j].kind = "calls" /\ w[j].by = "anthropic"
           /\ f = "openai" \/ Unanswered(w, w[j])
<1> DEFINE h == Deserialize(f, w)
<1>1. /\ h \in Seq(MsgSet) /\ Len(h) = Len(w)
      /\ \A k \in 1 .. Len(w) : h[k] = Native(f, w[k]) /\ w[k] \in RowSet
  BY DeserializeIs
<1> HIDE DEF h
<1>2. h[j].form = "uses" <=> w[j].kind = "calls" /\ w[j].by = "anthropic"
  BY <1>1, FormIs
<1>3. h[j].form = "uses" => h[j].turn = w[j].turn
  BY <1>1, FormIs
<1>4. ASSUME NEW k \in 1 .. Len(w), NEW t
      PROVE  h[k] = Msg("results", t) <=> f = "anthropic" /\ w[k].kind = "results" /\ w[k].turn = t
  <2>1. h[k] = Msg("results", t) => h[k].form = "results" /\ h[k].turn = t
    BY DEF Msg
  <2>2. h[k].form = "results" <=> f = "anthropic" /\ w[k].kind = "results"
    BY <1>1, FormIs
  <2>3. h[k].form = "results" => h[k].turn = w[k].turn
    BY <1>1, FormIs
  <2>4. ASSUME f = "anthropic", w[k].kind = "results", w[k].turn = t
        PROVE  h[k] = Msg("results", t)
    BY <1>1, <2>4, NativeIs
  <2>5. QED  BY <2>1, <2>2, <2>3, <2>4
<1>5. ASSUME NEW t PROVE Msg("results", t) \in ToSet(h) <=> \E k \in 1 .. Len(w) : h[k] = Msg("results", t)
  BY <1>1 DEF ToSet
<1>6. Msg("results", w[j].turn) \in ToSet(h) <=> f = "anthropic" /\ ~Unanswered(w, w[j])
  BY <1>4, <1>5 DEF Unanswered
<1>7. QED  BY <1>2, <1>3, <1>6 DEF Orphan, h

\* The repair takes away orphans only: no results follow one.
LEMMA KeptIs ==
  ASSUME NEW f \in {"anthropic", "openai"}, NEW w \in Seq(RowSet), Chained(w)
  PROVE  KeptIn(Deserialize(f, w)) = {j \in 1 .. Len(w) : ~Orphan(Deserialize(f, w), j)}
<1> DEFINE h == Deserialize(f, w)
<1>1. /\ h \in Seq(MsgSet) /\ Len(h) = Len(w)
      /\ \A k \in 1 .. Len(w) : h[k] = Native(f, w[k]) /\ w[k] \in RowSet
  BY DeserializeIs
<1>2. ASSUME NEW j \in 1 .. Len(w) PROVE ~(h[j].form = "results" /\ j > 1 /\ Orphan(h, j - 1))
  <2> SUFFICES ASSUME h[j].form = "results", j > 1, Orphan(h, j - 1) PROVE FALSE
    OBVIOUS
  <2>1. w[j].kind = "results" /\ f = "anthropic"
    <3>1. h[j] = Native(f, w[j]) /\ w[j] \in RowSet
      BY <1>1, Zenon
    <3>2. QED  BY <3>1, FormIs
  <2>2. w[j - 1] = Row("calls", w[j].by, w[j].turn)
    BY <2>1 DEF Chained
  <2>3. j - 1 \in 1 .. Len(w)
    OBVIOUS
  <2>4. Unanswered(w, w[j - 1])
    BY <2>1, <2>3, OrphanIs
  <2>5. QED  BY <2>1, <2>2, <2>4 DEF Unanswered, Row
<1> HIDE DEF h
<1>3. DOMAIN h = 1 .. Len(w)
  BY <1>1
<1>4. QED  BY <1>2, <1>3 DEF KeptIn, h

LEMMA AcceptedBoth ==
  ASSUME NEW s \in Seq(MsgSet), NEW t \in Seq(MsgSet),
         Accepts("anthropic", s), Accepts("anthropic", t)
  PROVE  Accepts("anthropic", s \o t)
<1> DEFINE w == s \o t
           At(h, i) ==
             /\ h[i].form \in {"text", "uses", "results"}
             /\ h[i].form = "uses" => i < Len(h) /\ h[i + 1] = Msg("results", h[i].turn)
             /\ h[i].form = "results" => i > 1 /\ h[i - 1] = Msg("uses", h[i].turn)
<1>1. /\ w \in Seq(MsgSet) /\ Len(w) = Len(s) + Len(t) /\ Len(s) \in Nat /\ Len(t) \in Nat
      /\ \A i \in 1 .. Len(s) : w[i] = s[i]
      /\ \A i \in 1 .. Len(t) : w[Len(s) + i] = t[i]
      /\ \A i \in 1 .. Len(w) : i \in 1 .. Len(s) \/ \E k \in 1 .. Len(t) : i = Len(s) + k
  BY Concatenated
<1>2. (\A i \in 1 .. Len(s) : At(s, i)) /\ (\A i \in 1 .. Len(t) : At(t, i))
  <2>1. DOMAIN s = 1 .. Len(s) /\ DOMAIN t = 1 .. Len(t)
    OBVIOUS
  <2>2. QED  BY <2>1 DEF Accepts
<1> HIDE DEF w
<1>3. ASSUME NEW i \in 1 .. Len(s) PROVE At(w, i)
  <2>1. w[i] = s[i]
    BY <1>1
  <2>2. ASSUME s[i].form = "uses" PROVE i < Len(w) /\ w[i + 1] = Msg("results", w[i].turn)
    <3>1. i < Len(s) /\ s[i + 1] = Msg("results", s[i].turn)
      BY <1>2, <2>2
    <3>2. i + 1 \in 1 .. Len(s) /\ i < Len(w)
      BY <1>1, <3>1
    <3>3. QED  BY <1>1, <2>1, <3>1, <3>2
  <2>3. ASSUME s[i].form = "results" PROVE i > 1 /\ w[i - 1] = Msg("uses", w[i].turn)
    <3>1. i > 1 /\ s[i - 1] = Msg("uses", s[i].turn)
      BY <1>2, <2>3
    <3>2. i - 1 \in 1 .. Len(s)
      BY <1>1, <3>1
    <3>3. QED  BY <1>1, <2>1, <3>1, <3>2
  <2>4. QED  BY <1>2, <2>1, <2>2, <2>3
<1>4. ASSUME NEW k \in 1 .. Len(t) PROVE At(w, Len(s) + k)
  <2>1. w[Len(s) + k] = t[k]
    BY <1>1
  <2>2. ASSUME t[k].form = "uses"
        PROVE  Len(s) + k < Len(w) /\ w[(Len(s) + k) + 1] = Msg("results", w[Len(s) + k].turn)
    <3>1. k < Len(t) /\ t[k + 1] = Msg("results", t[k].turn)
      BY <1>2, <2>2
    <3>2. k + 1 \in 1 .. Len(t) /\ Len(s) + k < Len(w) /\ (Len(s) + k) + 1 = Len(s) + (k + 1)
      BY <1>1, <3>1
    <3>3. QED  BY <1>1, <2>1, <3>1, <3>2
  <2>3. ASSUME t[k].form = "results"
        PROVE  Len(s) + k > 1 /\ w[(Len(s) + k) - 1] = Msg("uses", w[Len(s) + k].turn)
    <3>1. k > 1 /\ t[k - 1] = Msg("uses", t[k].turn)
      BY <1>2, <2>3
    <3>2. k - 1 \in 1 .. Len(t) /\ Len(s) + k > 1 /\ (Len(s) + k) - 1 = Len(s) + (k - 1)
      BY <1>1, <3>1
    <3>3. QED  BY <1>1, <2>1, <3>1, <3>2
  <2>4. QED  BY <1>2, <2>1, <2>2, <2>3
<1>5. \A i \in 1 .. Len(w) : At(w, i)
  BY <1>1, <1>3, <1>4
<1>6. DOMAIN w = 1 .. Len(w)
  BY <1>1
<1>7. QED  BY <1>5, <1>6 DEF Accepts, w

\* Anthropic takes a whole transcript of its own calls, and a repaired one.
LEMMA ChainAccepted ==
  ASSUME NEW w \in Seq(RowSet), Chained(w),
         \A j \in 1 .. Len(w) :
           w[j].kind = "calls" => w[j].by = "anthropic" /\ ~Unanswered(w, w[j])
  PROVE  Accepts("anthropic", Deserialize("anthropic", w))
<1> DEFINE h == Deserialize("anthropic", w)
<1>1. /\ h \in Seq(MsgSet) /\ Len(h) = Len(w)
      /\ \A k \in 1 .. Len(w) : h[k] = Native("anthropic", w[k]) /\ w[k] \in RowSet
  BY DeserializeIs
<1> HIDE DEF h
<1>2. DOMAIN h = 1 .. Len(w)
  BY <1>1
<1>3. ASSUME NEW i \in 1 .. Len(w)
      PROVE  /\ h[i].form \in {"text", "uses", "results"}
             /\ h[i].form = "uses" => i < Len(h) /\ h[i + 1] = Msg("results", h[i].turn)
             /\ h[i].form = "results" => i > 1 /\ h[i - 1] = Msg("uses", h[i].turn)
  <2>1. h[i] = Native("anthropic", w[i]) /\ w[i] \in RowSet
    BY <1>1
  <2>2. w[i].kind \in Kinds
    BY <2>1, NativeIs
  <2>3. CASE w[i].kind \in {"user", "answer"}
    BY <2>1, <2>3, NativeIs DEF Msg
  <2>4. CASE w[i].kind = "calls"
    <3>1. h[i] = Msg("uses", w[i].turn)
      BY <2>1, <2>4, NativeIs
    <3>2. i < Len(w) /\ w[i + 1] = Row("results", w[i].by, w[i].turn)
      BY <2>4 DEF Chained, Followed
    <3>3. i + 1 \in 1 .. Len(w)
      BY <3>2
    <3>4. h[i + 1] = Msg("results", w[i].turn)
      <4>1. w[i + 1].kind = "results" /\ w[i + 1].turn = w[i].turn
        BY <3>2 DEF Row
      <4>2. QED  BY <1>1, <3>3, <4>1, NativeIs
    <3>5. QED  BY <1>1, <3>1, <3>2, <3>4 DEF Msg
  <2>5. CASE w[i].kind = "results"
    <3>1. h[i] = Msg("results", w[i].turn)
      BY <2>1, <2>5, NativeIs
    <3>2. i > 1 /\ w[i - 1] = Row("calls", w[i].by, w[i].turn)
      BY <2>5 DEF Chained
    <3>3. i - 1 \in 1 .. Len(w)
      BY <3>2
    <3>4. w[i - 1].kind = "calls" /\ w[i - 1].turn = w[i].turn
      BY <3>2 DEF Row
    <3>5. h[i - 1] = Msg("uses", w[i].turn)
      BY <1>1, <3>3, <3>4, NativeIs
    <3>6. QED  BY <3>1, <3>2, <3>5 DEF Msg
  <2>6. QED  BY <2>2, <2>3, <2>4, <2>5 DEF Kinds
<1>4. QED  BY <1>2, <1>3 DEF Accepts, h

LEMMA RepairAccepted ==
  ASSUME NEW w \in Seq(RowSet), Chained(w),
         \A j \in 1 .. Len(w) : w[j].kind = "calls" => w[j].by = "anthropic"
  PROVE  Accepts("anthropic", Sanitize(Deserialize("anthropic", w)))
<1> DEFINE h == Deserialize("anthropic", w)
           K == KeptIn(h)
           z == Sanitize(h)
<1>1. /\ h \in Seq(MsgSet) /\ Len(h) = Len(w)
      /\ \A k \in 1 .. Len(w) : h[k] = Native("anthropic", w[k]) /\ w[k] \in RowSet
  BY DeserializeIs
<1>2. K = {j \in 1 .. Len(w) : ~Orphan(h, j)}
  BY KeptIs
<1>3. \A j \in 1 .. Len(w) :
        Orphan(h, j) <=> w[j].kind = "calls" /\ w[j].by = "anthropic" /\ Unanswered(w, w[j])
  BY OrphanIs
<1> HIDE DEF h
<1>4. /\ z \in Seq(MsgSet)
      /\ \A i \in K : Place(K, i) \in 1 .. Len(z) /\ z[Place(K, i)] = h[i]
      /\ \A i \in K : i + 1 \in K => Place(K, i + 1) = Place(K, i) + 1
      /\ \A k \in 1 .. Len(z) : \E i \in K : k = Place(K, i) /\ z[k] = h[i]
  BY <1>1, SanitizeIs
<1> HIDE DEF K, z
<1>5. ASSUME NEW k \in 1 .. Len(z)
      PROVE  /\ z[k].form \in {"text", "uses", "results"}
             /\ z[k].form = "uses" => k < Len(z) /\ z[k + 1] = Msg("results", z[k].turn)
             /\ z[k].form = "results" => k > 1 /\ z[k - 1] = Msg("uses", z[k].turn)
  <2>1. PICK i \in K : k = Place(K, i) /\ z[k] = h[i]
    BY <1>4
  <2>2. i \in 1 .. Len(w) /\ ~Orphan(h, i) /\ h[i] = Native("anthropic", w[i]) /\ w[i] \in RowSet
    BY <1>1, <1>2
  <2>3. w[i].kind \in Kinds
    BY <2>2, NativeIs
  <2>4. CASE w[i].kind \in {"user", "answer"}
    BY <2>1, <2>2, <2>4, NativeIs DEF Msg
  <2>5. CASE w[i].kind = "calls"
    <3>1. h[i] = Msg("uses", w[i].turn)
      BY <2>2, <2>5, NativeIs
    <3>2. i < Len(w) /\ w[i + 1] = Row("results", w[i].by, w[i].turn)
      BY <1>3, <2>2, <2>5 DEF Chained, Followed
    <3>3. i + 1 \in 1 .. Len(w) /\ w[i + 1].kind = "results" /\ w[i + 1].turn = w[i].turn
      BY <2>2, <3>2 DEF Row
    <3>4. i + 1 \in K
      BY <1>2, <1>3, <3>3
    <3>5. h[i + 1] = Msg("results", w[i].turn)
      BY <1>1, <3>3, NativeIs
    <3>6. Place(K, i + 1) = k + 1
      BY <1>4, <2>1, <3>4
    <3>7. k + 1 \in 1 .. Len(z) /\ z[k + 1] = h[i + 1]
      BY <1>4, <3>4, <3>6
    <3>8. k < Len(z)
      BY <3>7
    <3>9. QED  BY <2>1, <3>1, <3>5, <3>7, <3>8 DEF Msg
  <2>6. CASE w[i].kind = "results"
    <3>1. h[i] = Msg("results", w[i].turn)
      BY <2>2, <2>6, NativeIs
    <3>2. i > 1 /\ w[i - 1] = Row("calls", w[i].by, w[i].turn)
      BY <2>2, <2>6 DEF Chained
    <3>3. /\ i - 1 \in 1 .. Len(w) /\ (i - 1) + 1 = i
          /\ w[i - 1].kind = "calls" /\ w[i - 1].turn = w[i].turn
      BY <2>2, <3>2 DEF Row
    <3>4. h[i - 1] = Msg("uses", w[i].turn)
      BY <1>1, <3>3, NativeIs
    <3>5. ~Unanswered(w, w[i - 1])
      BY <2>2, <2>6, <3>3 DEF Unanswered
    <3>6. i - 1 \in K
      BY <1>2, <1>3, <3>3, <3>5
    <3>7. k = Place(K, i - 1) + 1
      BY <1>4, <2>1, <3>3, <3>6
    <3>8. Place(K, i - 1) \in 1 .. Len(z) /\ z[Place(K, i - 1)] = h[i - 1]
      BY <1>4, <3>6
    <3>9. k > 1 /\ k - 1 = Place(K, i - 1)
      BY <3>7, <3>8
    <3>10. QED  BY <2>1, <3>1, <3>4, <3>8, <3>9 DEF Msg
  <2>7. QED  BY <2>3, <2>4, <2>5, <2>6 DEF Kinds
<1>6. DOMAIN z = 1 .. Len(z)
  BY <1>4
<1>7. QED  BY <1>5, <1>6 DEF Accepts, h, z

(***************************************************************************)
(* The window                                                              *)
(***************************************************************************)
\* The numbers of the last Kept messages and of this one all differ.
LEMMA BackDiffers ==
  ASSUME NEW s \in 0 .. Kept, NEW a \in 0 .. Kept, NEW b \in 0 .. Kept, a # b
  PROVE  Back(s, a) # Back(s, b) /\ Back(s, a) \in 0 .. Kept
<1>1. Kept \in Nat
  BY ConstantsAssumption
<1>2. QED  BY <1>1 DEF Back

LEMMA RecentIs ==
  ASSUME tasks \in Seq(TaskSet)
  PROVE  /\ Recent \in Seq(TaskSet) /\ Len(Recent) \in Nat /\ Len(Recent) <= Len(tasks)
         /\ \A m \in 1 .. Len(Recent) :
              /\ Len(tasks) - Len(Recent) + m \in 1 .. Len(tasks)
              /\ Recent[m] = tasks[Len(tasks) - Len(Recent) + m]
         /\ HistoryWindow > 0 => Len(Recent) <= HistoryWindow
<1>1. HistoryWindow \in Nat /\ Len(tasks) \in Nat
  BY ConstantsAssumption
<1>2. CASE HistoryWindow > 0 /\ Len(tasks) > HistoryWindow
  <2> DEFINE L == Len(tasks)
             H == HistoryWindow
  <2>1. Recent = SubSeq(tasks, L - H + 1, L)
    BY <1>2 DEF Recent, LastOf
  <2>2. /\ L - H + 1 \in 1 .. L /\ L \in 1 .. L /\ L - (L - H + 1) + 1 = H
    BY <1>1, <1>2
  <2>3. \A i \in L - H + 1 .. L : tasks[i] \in TaskSet
    BY <1>1, <1>2
  <2>4. Recent = [m \in 1 .. H |-> tasks[L - H + 1 + m - 1]]
    BY <1>1, <2>1, <2>2
  <2>5. \A m \in 1 .. H : L - H + 1 + m - 1 = L - H + m /\ L - H + m \in 1 .. L
    BY <1>1, <1>2
  <2>6. Recent = [m \in 1 .. H |-> tasks[L - H + m]]
    BY <2>4, <2>5
  <2>7. \A m \in 1 .. H : tasks[L - H + m] \in TaskSet
    BY <2>5
  <2>8. Recent \in Seq(TaskSet) /\ Len(Recent) = H
    BY <1>1, <2>6, <2>7
  <2>9. QED  BY <1>1, <1>2, <2>5, <2>6, <2>8
<1>3. CASE ~(HistoryWindow > 0 /\ Len(tasks) > HistoryWindow)
  <2>1. Recent = tasks
    BY <1>3 DEF Recent
  <2>2. \A m \in 1 .. Len(tasks) : Len(tasks) - Len(tasks) + m = m
    BY <1>1
  <2>3. QED  BY <1>1, <1>3, <2>1, <2>2
<1>4. QED  BY <1>2, <1>3

LEMMA ToSetIs ==
  ASSUME NEW S, NEW s \in Seq(S)
  PROVE  ToSet(s) = {s[i] : i \in 1 .. Len(s)}
<1>1. DOMAIN s = 1 .. Len(s)
  OBVIOUS
<1>2. QED  BY <1>1, Zenon DEF ToSet

LEMMA ToSetBoth ==
  ASSUME NEW S, NEW s \in Seq(S), NEW t \in Seq(S)
  PROVE  ToSet(s \o t) = ToSet(s) \cup ToSet(t)
<1> DEFINE w == s \o t
<1>1. /\ w \in Seq(S) /\ Len(w) = Len(s) + Len(t) /\ Len(s) \in Nat /\ Len(t) \in Nat
      /\ \A i \in 1 .. Len(s) : w[i] = s[i]
      /\ \A i \in 1 .. Len(t) : w[Len(s) + i] = t[i]
      /\ \A i \in 1 .. Len(w) : i \in 1 .. Len(s) \/ \E k \in 1 .. Len(t) : i = Len(s) + k
  BY Concatenated
<1> HIDE DEF w
<1>2. /\ ToSet(s) = {s[i] : i \in 1 .. Len(s)} /\ ToSet(t) = {t[i] : i \in 1 .. Len(t)}
      /\ ToSet(w) = {w[i] : i \in 1 .. Len(w)}
  BY <1>1, ToSetIs
<1>3. ASSUME NEW i \in 1 .. Len(w) PROVE w[i] \in ToSet(s) \cup ToSet(t)
  BY <1>1, <1>2
<1>4. ASSUME NEW i \in 1 .. Len(s) PROVE s[i] \in ToSet(w)
  <2>1. i \in 1 .. Len(w) /\ w[i] = s[i]
    BY <1>1
  <2>2. QED  BY <1>2, <2>1
<1>5. ASSUME NEW i \in 1 .. Len(t) PROVE t[i] \in ToSet(w)
  <2>1. Len(s) + i \in 1 .. Len(w) /\ w[Len(s) + i] = t[i]
    BY <1>1
  <2>2. QED  BY <1>2, <2>1
<1>6. QED  BY <1>2, <1>3, <1>4, <1>5 DEF w

LEMMA RecentRowsType ==
  ASSUME tasks \in Seq(TaskSet)
  PROVE  /\ [i \in DOMAIN Recent |-> Recent[i].rows] \in Seq(Seq(RowSet))
         /\ Len([i \in DOMAIN Recent |-> Recent[i].rows]) = Len(Recent)
         /\ RecentRows \in Seq(RowSet)
<1>1. Recent \in Seq(TaskSet) /\ Len(Recent) \in Nat
  BY RecentIs
<1>2. DOMAIN Recent = 1 .. Len(Recent) /\ \A i \in 1 .. Len(Recent) : Recent[i] \in TaskSet
  BY <1>1
<1>3. \A i \in 1 .. Len(Recent) : Recent[i].rows \in Seq(RowSet)
  BY <1>2 DEF TaskSet
<1>4. [i \in DOMAIN Recent |-> Recent[i].rows] = [i \in 1 .. Len(Recent) |-> Recent[i].rows]
  BY <1>2
<1>5. /\ [i \in DOMAIN Recent |-> Recent[i].rows] \in Seq(Seq(RowSet))
      /\ Len([i \in DOMAIN Recent |-> Recent[i].rows]) = Len(Recent)
  BY <1>1, <1>3, <1>4
<1>6. QED  BY <1>5, FlattenedType DEF RecentRows

\* Transcripts of which nothing was lost chain up, and their turns are not those
\* of the message that is being served.
LEMMA RecentChained ==
  ASSUME TypeInv, TasksInv, stage # "idle", \A i \in DOMAIN Recent : ~Recent[i].patchy
  PROVE  Chained(RecentRows) /\ \E A : serial \notin A /\ Serials(RecentRows, A)
<1> DEFINE f == [i \in DOMAIN Recent |-> Recent[i].rows]
           L == Len(tasks)
           N == Len(Recent)
           age(m) == N - m + 1
           num == [m \in 1 .. N |-> Back(serial, age(m))]
<1>0. /\ tasks \in Seq(TaskSet) /\ L <= Kept /\ L \in Nat /\ Kept \in Nat
      /\ serial \in 0 .. Kept
  BY ConstantsAssumption DEF TypeInv
<1>1. /\ Recent \in Seq(TaskSet) /\ N \in Nat /\ N <= L
      /\ \A m \in 1 .. N : L - N + m \in 1 .. L /\ Recent[m] = tasks[L - N + m]
  BY <1>0, RecentIs
<1>2. f \in Seq(Seq(RowSet)) /\ Len(f) = N
  BY <1>0, RecentRowsType
<1>3. DOMAIN Recent = 1 .. N
  BY <1>1
<1>4. \A m \in 1 .. N : f[m] = tasks[L - N + m].rows /\ ~tasks[L - N + m].patchy
  BY <1>1, <1>3
<1> HIDE DEF f, L, N
<1>5. \A m \in 1 .. N : age(m) \in 0 .. Kept /\ age(m) # 0
  BY <1>0, <1>1
<1>6. ASSUME NEW m \in 1 .. N PROVE Age(L - N + m) = age(m)
  <2>1. Age(L - N + m) = L - (L - N + m) + 1
    BY DEF Age, L
  <2>2. QED  BY <1>0, <1>1, <2>1
<1>7. \A m \in 1 .. N : Back(serial, age(m)) \in 0 .. Kept
  <2> HIDE DEF age
  <2>1. QED  BY <1>0, <1>5 DEF Back
<1>8. num \in [1 .. N -> Nat]
  <2> HIDE DEF age
  <2>1. \A x \in 0 .. Kept : x \in Nat
    OBVIOUS
  <2>2. QED  BY <1>7, <2>1
<1>9. \A m, n \in 1 .. N : num[m] = num[n] => m = n
  <2> SUFFICES ASSUME NEW m \in 1 .. N, NEW n \in 1 .. N, m # n PROVE num[m] # num[n]
    OBVIOUS
  <2>1. age(m) # age(n)
    BY <1>1
  <2>2. Back(serial, age(m)) # Back(serial, age(n))
    BY <1>0, <1>5, <2>1, BackDiffers
  <2>3. QED  BY <2>2
<1>10. ASSUME NEW m \in 1 .. N PROVE Paired(f[m]) /\ Own(f[m], num[m])
  <2>1. L - N + m \in 1 .. Len(tasks)
    BY <1>1 DEF L
  <2>2. Own(tasks[L - N + m].rows, Back(serial, Age(L - N + m))) /\ Paired(tasks[L - N + m].rows)
    BY <1>4, <2>1 DEF TasksInv
  <2>3. num[m] = Back(serial, Age(L - N + m))
    BY <1>6
  <2>4. QED  BY <1>4, <2>2, <2>3
<1> DEFINE A == {num[m] : m \in 1 .. N}
<1>11. serial \notin A
  <2>1. Back(serial, 0) = serial
    BY <1>0 DEF Back
  <2>2. \A m \in 1 .. N : Back(serial, age(m)) # Back(serial, 0)
    <3> HIDE DEF age
    <3>1. 0 \in 0 .. Kept
      BY <1>0
    <3>2. QED  BY <1>0, <1>5, <3>1, BackDiffers
  <2>3. QED  BY <2>1, <2>2
<1> HIDE DEF num
<1>12. Chained(FlattenSeq(f)) /\ Serials(FlattenSeq(f), A)
  BY <1>2, <1>8, <1>9, <1>10, JoinedChained
<1>13. RecentRows = FlattenSeq(f)
  BY DEF RecentRows, f
<1>14. QED  BY <1>11, <1>12, <1>13

\* In the loop every turn of this message is answered.
LEMMA RowsChained ==
  ASSUME TypeInv, RowsInv, stage = "plan", ~patchy
  PROVE  /\ rows \in Seq(RowSet) /\ Chained(rows) /\ Serials(rows, {serial})
         /\ \A j \in 1 .. Len(rows) :
              rows[j].kind = "calls" => ~Unanswered(rows, rows[j])
<1>1. rows \in Seq(RowSet)
  BY DEF TypeInv
<1>2. Paired(rows) /\ rows # <<>> /\ rows[Len(rows)].kind # "calls" /\ Own(rows, serial)
  BY DEF RowsInv
<1>3. ASSUME NEW j \in 1 .. Len(rows), rows[j].kind = "calls"
      PROVE  ~Unanswered(rows, rows[j])
  <2>1. j # Len(rows)
    BY <1>2, <1>3
  <2>2. rows[j + 1] = Row("results", rows[j].by, rows[j].turn) /\ j + 1 \in 1 .. Len(rows)
    BY <1>1, <1>2, <1>3, <2>1 DEF Paired
  <2>3. QED  BY <2>2 DEF Unanswered, Row
<1>4. Chained(rows)
  BY <1>1, <1>2, PairedChained
<1>5. QED  BY <1>1, <1>2, <1>3, <1>4 DEF Own, Serials

LEMMA RememberedIs ==
  ASSUME NEW w \in Seq(RowSet), w = rows, family \in {"anthropic", "openai"}
  PROVE  /\ Remembered \in Seq(MsgSet) /\ Len(Remembered) = Len(w)
         /\ \A j \in 1 .. Len(w) : Remembered[j] = InMemory(family, w[j])
         /\ family = "anthropic" => Remembered = Deserialize(family, rows)
<1>1. Len(w) \in Nat /\ \A j \in 1 .. Len(w) : w[j] \in RowSet
  OBVIOUS
<1>2. ASSUME NEW r \in RowSet
      PROVE  /\ InMemory(family, r) \in MsgSet
             /\ family = "anthropic" => InMemory(family, r) = Native(family, r)
  <2>1. r.turn \in Nat \X Nat
    BY DEF RowSet
  <2>2. Msg("results", r.turn) \in MsgSet
    BY <2>1 DEF Msg, MsgSet, Forms
  <2>3. Native(family, r) \in MsgSet
    BY NativeIs
  <2>4. r.kind = "results" /\ family = "anthropic" => Native(family, r) = Msg("results", r.turn)
    BY NativeIs
  <2>5. QED  BY <2>2, <2>3, <2>4 DEF InMemory
<1>3. Remembered = [j \in 1 .. Len(w) |-> InMemory(family, w[j])]
  BY DEF Remembered
<1>4. \A j \in 1 .. Len(w) : InMemory(family, w[j]) \in MsgSet
  BY <1>1, <1>2
<1>5. Remembered \in Seq(MsgSet) /\ Len(Remembered) = Len(w)
  BY <1>1, <1>3, <1>4
<1>6. ASSUME family = "anthropic" PROVE Remembered = Deserialize(family, rows)
  <2>1. \A j \in 1 .. Len(w) : InMemory(family, w[j]) = Native(family, w[j])
    BY <1>1, <1>2, <1>6
  <2>2. DOMAIN rows = 1 .. Len(w)
    OBVIOUS
  <2>3. Deserialize(family, rows) = [j \in 1 .. Len(w) |-> Native(family, w[j])]
    BY <2>2 DEF Deserialize
  <2>4. QED  BY <1>3, <2>1, <2>3
<1>7. QED  BY <1>3, <1>5, <1>6

\* What is known of the transcripts and of the request when one is about to be
\* sent and nothing of the window was lost.
LEMMA WindowIs ==
  ASSUME TypeInv, TasksInv, RowsInv, stage = "plan", AllWritten
  PROVE  /\ family \in {"anthropic", "openai"} /\ path \in {"workflow", "runner"}
         /\ RecentRows \in Seq(RowSet) /\ rows \in Seq(RowSet)
         /\ Chained(RecentRows) /\ Chained(rows)
         /\ \A j \in 1 .. Len(rows) : rows[j].kind = "calls" => ~Unanswered(rows, rows[j])
         /\ \A j \in 1 .. Len(RecentRows) : RecentRows[j].kind = "calls" =>
              (Cut(RecentRows[j]) <=> Unanswered(RecentRows, RecentRows[j]))
         /\ \A j \in 1 .. Len(rows) : ~Cut(rows[j])
         /\ \A j \in 1 .. Len(Window) :
              \/ \E k \in 1 .. Len(RecentRows) : Window[j] = RecentRows[k]
              \/ \E k \in 1 .. Len(rows) : Window[j] = rows[k]
         /\ \A k \in 1 .. Len(RecentRows) : \E j \in DOMAIN Window : Window[j] = RecentRows[k]
         /\ \A k \in 1 .. Len(rows) : \E j \in DOMAIN Window : Window[j] = rows[k]
         /\ DOMAIN Window = 1 .. Len(Window)
<1>1. family \in {"anthropic", "openai"} /\ path \in {"workflow", "runner"}
  BY ConstantsAssumption DEF TypeInv
<1>2. ~patchy /\ \A i \in DOMAIN Recent : ~Recent[i].patchy
  BY DEF AllWritten
<1>3. /\ rows \in Seq(RowSet) /\ Chained(rows) /\ Serials(rows, {serial})
      /\ \A j \in 1 .. Len(rows) : rows[j].kind = "calls" => ~Unanswered(rows, rows[j])
  BY <1>2, RowsChained
<1>4. RecentRows \in Seq(RowSet)
  BY RecentRowsType DEF TypeInv
<1>5. Chained(RecentRows) /\ \E A : serial \notin A /\ Serials(RecentRows, A)
  BY <1>2, RecentChained
<1>6. \A j \in 1 .. Len(RecentRows) : OfTurn(RecentRows[j]) => RecentRows[j].turn[1] # serial
  BY <1>5 DEF Serials
<1>7. \A j \in 1 .. Len(rows) : OfTurn(rows[j]) => rows[j].turn[1] = serial
  BY <1>3 DEF Serials
<1> DEFINE R == RecentRows
<1>8. /\ Window \in Seq(RowSet) /\ Len(Window) = Len(R) + Len(rows)
      /\ Len(R) \in Nat /\ Len(rows) \in Nat
      /\ \A i \in 1 .. Len(R) : Window[i] = R[i]
      /\ \A i \in 1 .. Len(rows) : Window[Len(R) + i] = rows[i]
      /\ \A i \in 1 .. Len(Window) :
           i \in 1 .. Len(R) \/ \E k \in 1 .. Len(rows) : i = Len(R) + k
  BY <1>3, <1>4, Concatenated DEF Window
<1>9. DOMAIN Window = 1 .. Len(Window)
  BY <1>8
<1> HIDE DEF R
<1>10. \A k \in 1 .. Len(R) : k \in DOMAIN Window /\ Window[k] = R[k]
  BY <1>8, <1>9
<1>11. \A k \in 1 .. Len(rows) : Len(R) + k \in DOMAIN Window /\ Window[Len(R) + k] = rows[k]
  BY <1>8, <1>9
<1>12. \A j \in 1 .. Len(Window) :
         \/ \E k \in 1 .. Len(R) : Window[j] = R[k]
         \/ \E k \in 1 .. Len(rows) : Window[j] = rows[k]
  BY <1>8
<1>13. ASSUME NEW j \in 1 .. Len(R), R[j].kind = "calls"
       PROVE  Cut(R[j]) <=> Unanswered(R, R[j])
  <2>1. R[j].turn[1] # serial
    BY <1>6, <1>13 DEF OfTurn, R
  <2>2. ASSUME NEW k \in 1 .. Len(rows), rows[k].kind = "results"
        PROVE  rows[k].turn # R[j].turn
    <3>1. rows[k].turn[1] = serial
      BY <1>7, <2>2 DEF OfTurn
    <3>2. QED  BY <2>1, <3>1
  <2>3. ASSUME ~Unanswered(R, R[j]) PROVE TurnOf("results", R[j].turn)
    <3>1. PICK k \in 1 .. Len(R) : R[k].kind = "results" /\ R[k].turn = R[j].turn
      BY <2>3 DEF Unanswered
    <3>2. QED  BY <1>10, <3>1 DEF TurnOf
  <2>4. ASSUME Unanswered(R, R[j]) PROVE ~TurnOf("results", R[j].turn)
    <3> SUFFICES ASSUME NEW i \in DOMAIN Window, Window[i].kind = "results",
                        Window[i].turn = R[j].turn
                 PROVE  FALSE
      BY DEF TurnOf
    <3>1. \A k \in 1 .. Len(R) : R[k].kind = "results" => R[k].turn # R[j].turn
      BY <2>4 DEF Unanswered
    <3>2. QED  BY <1>9, <1>12, <2>2, <3>1
  <2>5. QED  BY <1>13, <2>3, <2>4 DEF Cut
<1>14. ASSUME NEW j \in 1 .. Len(rows) PROVE ~Cut(rows[j])
  <2> SUFFICES ASSUME rows[j].kind = "calls" PROVE TurnOf("results", rows[j].turn)
    BY DEF Cut
  <2>1. PICK k \in 1 .. Len(rows) : rows[k].kind = "results" /\ rows[k].turn = rows[j].turn
    BY <1>3 DEF Unanswered
  <2>2. QED  BY <1>11, <2>1 DEF TurnOf
<1>15. QED  BY <1>1, <1>3, <1>4, <1>5, <1>9, <1>10, <1>11, <1>12, <1>13, <1>14 DEF R

LEMMA RequestIs ==
  ASSUME TypeInv, SentInv, stage = "plan", AllWritten
  PROVE  /\ path = "runner" =>
              Request = Deserialize(family, RecentRows) \o Deserialize(family, rows)
         /\ path = "workflow" =>
              Request = Sanitize(Deserialize(family, RecentRows)) \o Remembered
<1>1. ~patchy
  BY DEF AllWritten
<1>2. prior = History(path, family) /\ (path = "workflow" => memory = prior \o Remembered)
  BY <1>1 DEF SentInv
<1>3. /\ path = "workflow" => prior = Sanitize(Deserialize(family, RecentRows))
      /\ path = "runner" => prior = Deserialize(family, RecentRows)
  BY <1>2 DEF History
<1>4. QED  BY <1>2, <1>3 DEF Request

(***************************************************************************)
(* What the invariant says of a request                                    *)
(***************************************************************************)
\* In front of Anthropic every row of the window but a turn that was cut short
\* is in the request.
LEMMA AnsweredKept ==
  ASSUME TypeInv, TasksInv, RowsInv, SentInv
  PROVE  AnsweredTurnsKept
<1> SUFFICES ASSUME stage = "plan", AllWritten, family = "anthropic",
                    NEW j \in DOMAIN Window, ~Cut(Window[j])
             PROVE  Native(family, Window[j]) \in ToSet(Request)
  BY DEF AnsweredTurnsKept
<1> DEFINE R == RecentRows
           P == Deserialize(family, R)
           T == Deserialize(family, rows)
<1>1. /\ family \in {"anthropic", "openai"} /\ path \in {"workflow", "runner"}
      /\ R \in Seq(RowSet) /\ rows \in Seq(RowSet) /\ Chained(R)
      /\ \A k \in 1 .. Len(R) : R[k].kind = "calls" => (Cut(R[k]) <=> Unanswered(R, R[k]))
      /\ DOMAIN Window = 1 .. Len(Window)
      /\ \A l \in 1 .. Len(Window) :
           (\E k \in 1 .. Len(R) : Window[l] = R[k]) \/ (\E k \in 1 .. Len(rows) : Window[l] = rows[k])
  BY WindowIs
<1>2. /\ P \in Seq(MsgSet) /\ Len(P) = Len(R)
      /\ \A k \in 1 .. Len(R) : P[k] = Native(family, R[k])
  BY <1>1, DeserializeIs
<1>3. /\ T \in Seq(MsgSet) /\ Len(T) = Len(rows)
      /\ \A k \in 1 .. Len(rows) : T[k] = Native(family, rows[k])
  BY <1>1, DeserializeIs
<1>4. \A k \in 1 .. Len(R) : R[k].kind # "calls" \/ ~Unanswered(R, R[k]) => ~Orphan(P, k)
  BY <1>1, OrphanIs
<1>5. KeptIn(P) = {k \in 1 .. Len(R) : ~Orphan(P, k)}
  BY <1>1, KeptIs
<1>6. Remembered = T
  BY <1>1, RememberedIs
<1>7. (path = "runner" => Request = P \o T) /\ (path = "workflow" => Request = Sanitize(P) \o T)
  BY <1>6, RequestIs
<1> HIDE DEF R, P, T
<1>8. /\ Sanitize(P) \in Seq(MsgSet)
      /\ \A i \in KeptIn(P) :
           /\ Place(KeptIn(P), i) \in 1 .. Len(Sanitize(P))
           /\ Sanitize(P)[Place(KeptIn(P), i)] = P[i]
  BY <1>2, SanitizeIs
<1>9. /\ ToSet(P) = {P[i] : i \in 1 .. Len(P)} /\ ToSet(T) = {T[i] : i \in 1 .. Len(T)}
      /\ ToSet(Sanitize(P)) = {Sanitize(P)[i] : i \in 1 .. Len(Sanitize(P))}
  BY <1>2, <1>3, <1>8, ToSetIs
<1>10. ToSet(Request) = ToSet(IF path = "runner" THEN P ELSE Sanitize(P)) \cup ToSet(T)
  <2>1. ToSet(P \o T) = ToSet(P) \cup ToSet(T)
    BY <1>2, <1>3, ToSetBoth
  <2>2. ToSet(Sanitize(P) \o T) = ToSet(Sanitize(P)) \cup ToSet(T)
    BY <1>3, <1>8, ToSetBoth
  <2>3. CASE path = "runner"
    BY <1>7, <2>1, <2>3
  <2>4. CASE path = "workflow"
    BY <1>7, <2>2, <2>4
  <2>5. QED  BY <1>1, <2>3, <2>4
<1>11. ASSUME NEW k \in 1 .. Len(rows), Window[j] = rows[k]
       PROVE  Native(family, Window[j]) \in ToSet(T)
  BY <1>3, <1>9, <1>11
<1>12. ASSUME NEW k \in 1 .. Len(R), Window[j] = R[k]
       PROVE  Native(family, Window[j]) \in ToSet(IF path = "runner" THEN P ELSE Sanitize(P))
  <2>1. Native(family, Window[j]) = P[k]
    BY <1>2, <1>12
  <2>2. P[k] \in ToSet(P)
    BY <1>2, <1>9
  <2>3. k \in KeptIn(P)
    BY <1>1, <1>4, <1>5, <1>12
  <2>4. P[k] \in ToSet(Sanitize(P))
    BY <1>8, <1>9, <2>3
  <2>5. QED  BY <2>1, <2>2, <2>4
<1>13. QED  BY <1>1, <1>10, <1>11, <1>12

LEMMA AcceptsForms ==
  ASSUME NEW h \in Seq(MsgSet)
  PROVE  /\ Accepts("openai", h) <=> \A x \in ToSet(h) : x.form = "text"
         /\ Accepts("anthropic", h) =>
              \A x \in ToSet(h) :
                /\ x.form \in {"text", "uses", "results"}
                /\ x.form = "uses" => Msg("results", x.turn) \in ToSet(h)
<1>1. ToSet(h) = {h[i] : i \in 1 .. Len(h)} /\ DOMAIN h = 1 .. Len(h)
  BY ToSetIs
<1>2. Accepts("openai", h) <=> \A x \in ToSet(h) : x.form = "text"
  BY <1>1 DEF Accepts
<1>3. ASSUME Accepts("anthropic", h), NEW i \in 1 .. Len(h)
      PROVE  /\ h[i].form \in {"text", "uses", "results"}
             /\ h[i].form = "uses" => Msg("results", h[i].turn) \in ToSet(h)
  <2>1. /\ h[i].form \in {"text", "uses", "results"}
        /\ h[i].form = "uses" => i < Len(h) /\ h[i + 1] = Msg("results", h[i].turn)
    BY <1>1, <1>3 DEF Accepts
  <2>2. i < Len(h) => i + 1 \in 1 .. Len(h)
    OBVIOUS
  <2>3. QED  BY <1>1, <2>1, <2>2
<1>4. QED  BY <1>1, <1>2, <1>3

\* A transcript without calls is plain text.
LEMMA TextOnly ==
  ASSUME NEW f \in {"anthropic", "openai"}, NEW w \in Seq(RowSet), Chained(w)
  PROVE  /\ (\A j \in 1 .. Len(w) : w[j].kind \in {"user", "answer"}) <=>
              (\A j \in 1 .. Len(w) : w[j].kind # "calls")
         /\ (\A x \in ToSet(Deserialize(f, w)) : x.form = "text") <=>
              (\A j \in 1 .. Len(w) : w[j].kind # "calls")
<1>1. \A j \in 1 .. Len(w) : w[j] \in RowSet /\ w[j].kind \in Kinds
  BY NativeIs
<1>2. ASSUME NEW j \in 1 .. Len(w), w[j].kind = "results"
      PROVE  j - 1 \in 1 .. Len(w) /\ w[j - 1].kind = "calls"
  <2>1. j > 1 /\ w[j - 1] = Row("calls", w[j].by, w[j].turn)
    BY <1>2 DEF Chained
  <2>2. QED  BY <2>1 DEF Row
<1>3. (\A j \in 1 .. Len(w) : w[j].kind \in {"user", "answer"}) <=>
        (\A j \in 1 .. Len(w) : w[j].kind # "calls")
  BY <1>1, <1>2 DEF Kinds
<1>4. /\ Deserialize(f, w) \in Seq(MsgSet) /\ Len(Deserialize(f, w)) = Len(w)
      /\ \A j \in 1 .. Len(w) : Deserialize(f, w)[j] = Native(f, w[j])
  BY DeserializeIs
<1>5. \A j \in 1 .. Len(w) : Native(f, w[j]).form = "text" <=> w[j].kind \in {"user", "answer"}
  BY <1>1, FormIs
<1>6. ToSet(Deserialize(f, w)) = {Deserialize(f, w)[j] : j \in 1 .. Len(w)}
  BY <1>4, ToSetIs
<1>7. QED  BY <1>3, <1>4, <1>5, <1>6

\* What the repair leaves for OpenAI is text only if every turn of the
\* transcript is one of Anthropic that was cut short.
LEMMA RepairedText ==
  ASSUME NEW w \in Seq(RowSet), Chained(w)
  PROVE  (\A x \in ToSet(Sanitize(Deserialize("openai", w))) : x.form = "text") <=>
           \A j \in 1 .. Len(w) :
             w[j].kind = "calls" => w[j].by = "anthropic" /\ Unanswered(w, w[j])
<1> DEFINE h == Deserialize("openai", w)
           z == Sanitize(h)
           K == KeptIn(h)
           G == \A j \in 1 .. Len(w) :
                  w[j].kind = "calls" => w[j].by = "anthropic" /\ Unanswered(w, w[j])
<1>1. /\ h \in Seq(MsgSet) /\ Len(h) = Len(w)
      /\ \A k \in 1 .. Len(w) : h[k] = Native("openai", w[k]) /\ w[k] \in RowSet
  BY DeserializeIs
<1>2. K = {j \in 1 .. Len(w) : ~Orphan(h, j)}
  BY KeptIs
<1>3. \A j \in 1 .. Len(w) : Orphan(h, j) <=> w[j].kind = "calls" /\ w[j].by = "anthropic"
  BY OrphanIs
<1> HIDE DEF h
<1>4. /\ z \in Seq(MsgSet)
      /\ \A i \in K : Place(K, i) \in 1 .. Len(z) /\ z[Place(K, i)] = h[i]
      /\ \A k \in 1 .. Len(z) : \E i \in K : k = Place(K, i) /\ z[k] = h[i]
  BY <1>1, SanitizeIs
<1> HIDE DEF K, z
<1>5. ToSet(z) = {z[k] : k \in 1 .. Len(z)}
  BY <1>4, ToSetIs
<1>6. \A j \in 1 .. Len(w) : h[j].form = "text" <=> w[j].kind \in {"user", "answer"}
  BY <1>1, FormIs
<1>7. \A j \in K : h[j] \in ToSet(z)
  BY <1>4, <1>5
<1>8. \A j \in 1 .. Len(w) :
        w[j].kind \in Kinds /\ (w[j].kind = "calls" => w[j].by \in {"anthropic", "openai"})
  BY <1>1, NativeIs
<1>9. ASSUME \A x \in ToSet(z) : x.form = "text", NEW j \in 1 .. Len(w), w[j].kind = "calls"
      PROVE  w[j].by = "anthropic" /\ Unanswered(w, w[j])
  <2>1. j \notin K
    BY <1>6, <1>7, <1>9
  <2>2. w[j].by = "anthropic"
    BY <1>2, <1>3, <2>1
  <2>3. ASSUME NEW k \in 1 .. Len(w), w[k].kind = "results" PROVE FALSE
    <3>1. k \in K
      BY <1>2, <1>3, <2>3
    <3>2. QED  BY <1>6, <1>7, <1>9, <2>3, <3>1
  <2>4. QED  BY <2>2, <2>3 DEF Unanswered
<1>10. ASSUME G, NEW k \in 1 .. Len(z) PROVE z[k].form = "text"
  <2>1. PICK i \in K : z[k] = h[i]
    BY <1>4
  <2>2. i \in 1 .. Len(w) /\ w[i].kind # "calls"
    BY <1>2, <1>3, <1>10
  <2>3. ASSUME w[i].kind = "results" PROVE FALSE
    <3>1. i > 1 /\ w[i - 1] = Row("calls", w[i].by, w[i].turn)
      BY <2>2, <2>3 DEF Chained
    <3>2. i - 1 \in 1 .. Len(w) /\ w[i - 1].kind = "calls" /\ w[i - 1].turn = w[i].turn
      BY <2>2, <3>1 DEF Row
    <3>3. Unanswered(w, w[i - 1])
      BY <1>10, <3>2
    <3>4. QED  BY <2>2, <2>3, <3>2, <3>3 DEF Unanswered
  <2>4. w[i].kind \in {"user", "answer"}
    BY <1>8, <2>2, <2>3 DEF Kinds
  <2>5. QED  BY <1>6, <2>1, <2>2, <2>4
<1>11. QED  BY <1>5, <1>9, <1>10 DEF h, z

\* A planning request is refused exactly in the cases RefusedExactly tells.
LEMMA RefusedAsTold ==
  ASSUME TypeInv, TasksInv, RowsInv, SentInv
  PROVE  RefusedExactly
<1> SUFFICES ASSUME stage = "plan", AllWritten
             PROVE  LET turns == {Window[j] : j \in {i \in DOMAIN Window : Window[i].kind = "calls"}}
                    IN Accepts(family, Request) <=>
                         \A r \in turns :
                           /\ r.by = "anthropic"
                           /\ Cut(r) => path = "workflow"
                           /\ ~Cut(r) => family = "anthropic"
  BY DEF RefusedExactly
<1> DEFINE R == RecentRows
           Fine(r) == /\ r.by = "anthropic"
                      /\ Cut(r) => path = "workflow"
                      /\ ~Cut(r) => family = "anthropic"
           AllFine == /\ \A k \in 1 .. Len(R) : R[k].kind = "calls" => Fine(R[k])
                      /\ \A k \in 1 .. Len(rows) : rows[k].kind = "calls" => Fine(rows[k])
<1>1. /\ family \in {"anthropic", "openai"} /\ path \in {"workflow", "runner"}
      /\ R \in Seq(RowSet) /\ rows \in Seq(RowSet) /\ Chained(R) /\ Chained(rows)
      /\ \A j \in 1 .. Len(rows) : rows[j].kind = "calls" => ~Unanswered(rows, rows[j])
      /\ \A k \in 1 .. Len(R) : R[k].kind = "calls" => (Cut(R[k]) <=> Unanswered(R, R[k]))
      /\ \A j \in 1 .. Len(rows) : ~Cut(rows[j])
      /\ DOMAIN Window = 1 .. Len(Window)
      /\ \A l \in 1 .. Len(Window) :
           (\E k \in 1 .. Len(R) : Window[l] = R[k]) \/ (\E k \in 1 .. Len(rows) : Window[l] = rows[k])
      /\ \A k \in 1 .. Len(R) : \E j \in DOMAIN Window : Window[j] = R[k]
      /\ \A k \in 1 .. Len(rows) : \E j \in DOMAIN Window : Window[j] = rows[k]
  BY WindowIs
<1> DEFINE turns == {Window[j] : j \in {i \in DOMAIN Window : Window[i].kind = "calls"}}
<1>0. (\A r \in turns : Fine(r)) <=> AllFine
  <2> HIDE DEF Fine, R
  <2>1. ASSUME \A r \in turns : Fine(r), NEW k \in 1 .. Len(R), R[k].kind = "calls"
        PROVE  Fine(R[k])
    <3>1. PICK j \in DOMAIN Window : Window[j] = R[k]
      BY <1>1
    <3>2. Window[j] \in turns
      BY <2>1, <3>1
    <3>3. QED  BY <2>1, <3>1, <3>2
  <2>2. ASSUME \A r \in turns : Fine(r), NEW k \in 1 .. Len(rows), rows[k].kind = "calls"
        PROVE  Fine(rows[k])
    <3>1. PICK j \in DOMAIN Window : Window[j] = rows[k]
      BY <1>1
    <3>2. Window[j] \in turns
      BY <2>2, <3>1
    <3>3. QED  BY <2>2, <3>1, <3>2
  <2>3. ASSUME AllFine, NEW j \in DOMAIN Window, Window[j].kind = "calls" PROVE Fine(Window[j])
    <3>1. j \in 1 .. Len(Window)
      BY <1>1
    <3>2. (\E k \in 1 .. Len(R) : Window[j] = R[k]) \/ (\E k \in 1 .. Len(rows) : Window[j] = rows[k])
      BY <1>1, <3>1
    <3>3. QED  BY <2>3, <3>2
  <2>4. QED  BY <2>1, <2>2, <2>3
<1> SUFFICES Accepts(family, Request) <=> AllFine
  BY <1>0
<1> HIDE DEF turns
<1>2. /\ path = "runner" => Request = Deserialize(family, R) \o Deserialize(family, rows)
      /\ path = "workflow" => Request = Sanitize(Deserialize(family, R)) \o Remembered
  BY RequestIs
<1> DEFINE P == Deserialize(family, R)
           T == Deserialize(family, rows)
<1>3. /\ P \in Seq(MsgSet) /\ Len(P) = Len(R)
      /\ \A k \in 1 .. Len(R) : P[k] = Native(family, R[k]) /\ R[k] \in RowSet
      /\ T \in Seq(MsgSet) /\ Len(T) = Len(rows)
      /\ \A k \in 1 .. Len(rows) : T[k] = Native(family, rows[k]) /\ rows[k] \in RowSet
  BY <1>1, DeserializeIs
<1>4. /\ Remembered \in Seq(MsgSet) /\ Len(Remembered) = Len(rows)
      /\ \A j \in 1 .. Len(rows) : Remembered[j] = InMemory(family, rows[j])
      /\ family = "anthropic" => Remembered = T
  BY <1>1, RememberedIs
<1>5. Sanitize(P) \in Seq(MsgSet)
  BY <1>3, SanitizeIs
<1>6. /\ ToSet(P) = {P[i] : i \in 1 .. Len(P)} /\ ToSet(T) = {T[i] : i \in 1 .. Len(T)}
      /\ ToSet(Remembered) = {Remembered[i] : i \in 1 .. Len(Remembered)}
      /\ ToSet(Sanitize(P)) = {Sanitize(P)[i] : i \in 1 .. Len(Sanitize(P))}
  BY <1>3, <1>4, <1>5, ToSetIs
<1>7. /\ (\A x \in ToSet(P) : x.form = "text") <=> (\A j \in 1 .. Len(R) : R[j].kind # "calls")
      /\ (\A x \in ToSet(T) : x.form = "text") <=>
           (\A j \in 1 .. Len(rows) : rows[j].kind # "calls")
      /\ (\A j \in 1 .. Len(rows) : rows[j].kind \in {"user", "answer"}) <=>
           (\A j \in 1 .. Len(rows) : rows[j].kind # "calls")
  BY <1>1, TextOnly
<1>8. CASE family = "openai" /\ path = "runner"
  <2>1. Request \in Seq(MsgSet) /\ ToSet(Request) = ToSet(P) \cup ToSet(T)
    <3>1. Request = P \o T
      BY <1>2, <1>8
    <3>2. P \o T \in Seq(MsgSet)
      BY <1>3
    <3>3. QED  BY <1>3, <3>1, <3>2, ToSetBoth
  <2>2. Accepts("openai", Request) <=> \A x \in ToSet(Request) : x.form = "text"
    BY <2>1, AcceptsForms
  <2>3. AllFine <=> /\ \A j \in 1 .. Len(R) : R[j].kind # "calls"
                    /\ \A j \in 1 .. Len(rows) : rows[j].kind # "calls"
    BY <1>8
  <2> HIDE DEF R, P, T, AllFine
  <2>4. QED  BY <1>7, <1>8, <2>1, <2>2, <2>3
<1>9. CASE family = "openai" /\ path = "workflow"
  <2>1. Request \in Seq(MsgSet) /\ ToSet(Request) = ToSet(Sanitize(P)) \cup ToSet(Remembered)
    <3>1. Request = Sanitize(P) \o Remembered
      BY <1>2, <1>9
    <3>2. Sanitize(P) \o Remembered \in Seq(MsgSet)
      BY <1>4, <1>5
    <3>3. QED  BY <1>4, <1>5, <3>1, <3>2, ToSetBoth
  <2>2. Accepts("openai", Request) <=> \A x \in ToSet(Request) : x.form = "text"
    BY <2>1, AcceptsForms
  <2>3. (\A x \in ToSet(Sanitize(P)) : x.form = "text") <=>
          \A j \in 1 .. Len(R) :
            R[j].kind = "calls" => R[j].by = "anthropic" /\ Unanswered(R, R[j])
    BY <1>1, <1>9, RepairedText
  <2>4. ASSUME NEW r \in RowSet PROVE InMemory(family, r).form = "text" <=> r.kind \in {"user", "answer"}
    <3>1. Native(family, r).form = "text" <=> r.kind \in {"user", "answer"}
      BY <1>9, FormIs
    <3>2. QED  BY <3>1 DEF InMemory, Msg
  <2>5. (\A x \in ToSet(Remembered) : x.form = "text") <=>
          \A j \in 1 .. Len(rows) : rows[j].kind # "calls"
    <3>1. \A j \in 1 .. Len(rows) :
            Remembered[j].form = "text" <=> rows[j].kind \in {"user", "answer"}
      BY <1>3, <1>4, <2>4
    <3>2. QED  BY <1>4, <1>6, <1>7, <3>1
  <2>6. AllFine <=> /\ \A j \in 1 .. Len(R) :
                         R[j].kind = "calls" => R[j].by = "anthropic" /\ Unanswered(R, R[j])
                    /\ \A j \in 1 .. Len(rows) : rows[j].kind # "calls"
    BY <1>1, <1>9
  <2> HIDE DEF R, P, T, AllFine
  <2>7. QED  BY <1>9, <2>1, <2>2, <2>3, <2>5, <2>6
<1>10. CASE family = "anthropic"
  <2> DEFINE F == IF path = "runner" THEN P ELSE Sanitize(P)
  <2>1. F \in Seq(MsgSet) /\ Request = F \o T
    BY <1>1, <1>2, <1>3, <1>4, <1>5, <1>10
  <2>2. Request \in Seq(MsgSet) /\ ToSet(Request) = ToSet(F) \cup ToSet(T)
    <3> HIDE DEF F, T
    <3>1. F \o T \in Seq(MsgSet)
      BY <1>3, <2>1
    <3>2. QED  BY <1>3, <2>1, <3>1, ToSetBoth
  <2>3. Accepts("anthropic", Request) =>
          \A x \in ToSet(Request) :
            /\ x.form \in {"text", "uses", "results"}
            /\ x.form = "uses" => Msg("results", x.turn) \in ToSet(Request)
    BY <2>2, AcceptsForms
  <2>4. \A k \in 1 .. Len(rows) : T[k] \in ToSet(Request)
    BY <1>3, <1>6, <2>2
  <2>5. ASSUME NEW k \in 1 .. Len(R), R[k].by # "anthropic" \/ path = "runner"
        PROVE  P[k] \in ToSet(Request)
    <3>1. P[k] \in ToSet(P)
      BY <1>3, <1>6
    <3>2. ASSUME R[k].by # "anthropic" PROVE P[k] \in ToSet(Sanitize(P))
      <4>1. ~Orphan(P, k)
        BY <1>1, <3>2, OrphanIs
      <4>2. k \in KeptIn(P)
        BY <1>1, <4>1, KeptIs
      <4>3. /\ Place(KeptIn(P), k) \in 1 .. Len(Sanitize(P))
            /\ Sanitize(P)[Place(KeptIn(P), k)] = P[k]
        BY <1>3, <4>2, SanitizeIs
      <4>4. QED  BY <1>6, <4>3
    <3>3. QED  BY <2>2, <2>5, <3>1, <3>2
  <2>6. ASSUME Accepts(family, Request) PROVE AllFine
    <3>1. \A x \in ToSet(Request) :
            /\ x.form \in {"text", "uses", "results"}
            /\ x.form = "uses" => Msg("results", x.turn) \in ToSet(Request)
      BY <1>10, <2>3, <2>6
    <3>2. ASSUME NEW r \in RowSet, r.kind = "calls", r.by # "anthropic"
          PROVE  Native(family, r).form \notin {"text", "uses", "results"}
      <4>1. r.by = "openai"
        BY <3>2, NativeIs
      <4>2. QED  BY <1>1, <3>2, <4>1, NativeIs DEF Msg
    <3>3. ASSUME NEW k \in 1 .. Len(rows), rows[k].kind = "calls" PROVE Fine(rows[k])
      <4>1. rows[k].by = "anthropic"
        BY <1>3, <2>4, <3>1, <3>2, <3>3
      <4>2. QED  BY <1>1, <1>10, <4>1
    <3>4. ASSUME NEW k \in 1 .. Len(R), R[k].kind = "calls" PROVE Fine(R[k])
      <4>1. R[k].by = "anthropic"
        BY <1>3, <2>5, <3>1, <3>2, <3>4
      <4>2. ASSUME path = "runner" PROVE ~Cut(R[k])
        <5>1. P[k] \in ToSet(Request) /\ P[k] = Msg("uses", R[k].turn)
          BY <1>3, <1>10, <2>5, <3>4, <4>1, <4>2, NativeIs
        <5>2. Msg("results", R[k].turn) \in ToSet(P) \cup ToSet(T)
          BY <2>2, <3>1, <4>2, <5>1 DEF Msg
        <5>3. ASSUME NEW w \in Seq(RowSet), NEW l \in 1 .. Len(w),
                     Native(family, w[l]) = Msg("results", R[k].turn)
              PROVE  w[l].kind = "results" /\ w[l].turn = R[k].turn
          <6>1. Native(family, w[l]).form = "results" /\ Native(family, w[l]).turn = R[k].turn
            BY <5>3 DEF Msg
          <6>2. w[l] \in RowSet
            OBVIOUS
          <6>3. QED  BY <1>1, <6>1, <6>2, FormIs
        <5>4. ASSUME NEW l \in 1 .. Len(R), P[l] = Msg("results", R[k].turn)
              PROVE  ~Cut(R[k])
          <6>1. R[l].kind = "results" /\ R[l].turn = R[k].turn
            BY <1>1, <1>3, <5>3, <5>4
          <6>2. QED  BY <1>1, <3>4, <6>1 DEF Unanswered
        <5>5. ASSUME NEW l \in 1 .. Len(rows), T[l] = Msg("results", R[k].turn)
              PROVE  ~Cut(R[k])
          <6>1. rows[l].kind = "results" /\ rows[l].turn = R[k].turn
            BY <1>1, <1>3, <5>3, <5>5
          <6>2. PICK j \in DOMAIN Window : Window[j] = rows[l]
            BY <1>1
          <6>3. QED  BY <6>1, <6>2 DEF Cut, TurnOf
        <5>6. QED  BY <1>3, <1>6, <5>2, <5>4, <5>5
      <4>3. QED  BY <1>1, <1>10, <4>1, <4>2
    <3>5. QED  BY <3>3, <3>4
  <2>7. ASSUME AllFine PROVE Accepts(family, Request)
    <3>1. Accepts("anthropic", T)
      BY <1>1, <1>10, <2>7, ChainAccepted
    <3>2. Accepts("anthropic", F)
      <4>1. CASE path = "runner"
        <5>1. \A k \in 1 .. Len(R) :
                R[k].kind = "calls" => R[k].by = "anthropic" /\ ~Unanswered(R, R[k])
          BY <1>1, <2>7, <4>1
        <5>2. QED  BY <1>1, <1>10, <4>1, <5>1, ChainAccepted
      <4>2. CASE path = "workflow"
        <5>1. \A k \in 1 .. Len(R) : R[k].kind = "calls" => R[k].by = "anthropic"
          BY <2>7
        <5>2. QED  BY <1>1, <1>10, <4>2, <5>1, RepairAccepted
      <4>3. QED  BY <1>1, <4>1, <4>2
    <3> HIDE DEF F, T
    <3>3. QED  BY <1>3, <1>10, <2>1, <3>1, <3>2, AcceptedBoth
  <2>8. QED  BY <2>6, <2>7
<1>11. QED  BY <1>1, <1>8, <1>9, <1>10

(***************************************************************************)
(* A conversation gets out of it by itself                                 *)
(***************************************************************************)
\* After a window's length of refused messages the history is plain text.
LEMMA StreakAccepted ==
  ASSUME TypeInv, RowsInv, SentInv, StreakInv, stage = "plan", iteration = 0,
         HistoryWindow > 0, streak = HistoryWindow
  PROVE  Accepts(family, Request)
<1> DEFINE Text == {Msg("text", NoTurn)}
           f == [i \in DOMAIN Recent |-> Recent[i].rows]
           N == Len(Recent)
<1>1. /\ tasks \in Seq(TaskSet) /\ family \in {"anthropic", "openai"}
      /\ path \in {"workflow", "runner"}
      /\ HistoryWindow \in Nat /\ Len(tasks) \in Nat
  BY ConstantsAssumption DEF TypeInv
<1>2. /\ Recent \in Seq(TaskSet) /\ N \in Nat /\ N <= HistoryWindow
      /\ \A m \in 1 .. N : /\ Len(tasks) - N + m \in 1 .. Len(tasks)
                           /\ Recent[m] = tasks[Len(tasks) - N + m]
  BY <1>1, RecentIs
<1>3. ASSUME NEW m \in 1 .. N PROVE Recent[m].rows = <<UserRow>>
  <2>1. Len(tasks) - streak < Len(tasks) - N + m
    BY <1>1, <1>2
  <2>2. \A i \in 1 .. Len(tasks) : Len(tasks) - streak < i => tasks[i].rows = <<UserRow>>
    BY DEF StreakInv
  <2>3. QED  BY <1>2, <2>1, <2>2
<1>4. DOMAIN Recent = 1 .. N
  BY <1>2
<1>5. <<UserRow>> \in Seq({UserRow})
  OBVIOUS
<1>6. f \in Seq(Seq({UserRow}))
  <2>1. f = [i \in 1 .. N |-> <<UserRow>>]
    BY <1>3, <1>4
  <2>2. ASSUME NEW S, NEW x \in S PROVE [i \in 1 .. N |-> x] \in Seq(S)
    BY <1>2
  <2> HIDE DEF f, N
  <2>3. QED  BY <1>5, <2>1, <2>2
<1>7. RecentRows \in Seq({UserRow})
  BY <1>6, FlattenedType DEF RecentRows
<1>8. Native(family, UserRow) = Msg("text", NoTurn)
  BY DEF Native, UserRow, Row
<1>9. ASSUME NEW w \in Seq({UserRow}) PROVE Deserialize(family, w) \in Seq(Text)
  <2>1. Len(w) \in Nat /\ \A j \in 1 .. Len(w) : w[j] = UserRow
    OBVIOUS
  <2>2. \A j \in 1 .. Len(w) : Native(family, w[j]) \in Text
    BY <1>8, <2>1
  <2>3. Deserialize(family, w) = [j \in 1 .. Len(w) |-> Native(family, w[j])]
    BY DEF Deserialize
  <2> HIDE DEF Text
  <2>4. QED  BY <2>1, <2>2, <2>3
<1> HIDE DEF Text
<1>10. prior \in Seq(Text)
  <2>1. Sanitize(Deserialize(family, RecentRows)) \in Seq(Text)
    BY <1>7, <1>9, SanitizeIs
  <2>2. <<>> \in Seq(Text)
    OBVIOUS
  <2>3. History(path, family) \in Seq(Text)
    BY <1>1, <1>7, <1>9, <2>1 DEF History
  <2>4. QED  BY <2>2, <2>3 DEF SentInv
<1>11. Request \in Seq(Text)
  <2>1. CASE path = "workflow"
    <3>1. memory = Append(prior, Msg("text", NoTurn)) /\ Msg("text", NoTurn) \in Text
      BY <2>1 DEF SentInv, Text
    <3>2. Append(prior, Msg("text", NoTurn)) \in Seq(Text)
      BY <1>10, <3>1
    <3>3. QED  BY <2>1, <3>1, <3>2 DEF Request
  <2>2. CASE path = "runner"
    <3>1. rows = <<UserRow>>
      BY DEF RowsInv
    <3>2. Deserialize(family, rows) \in Seq(Text)
      BY <1>5, <1>9, <3>1
    <3>3. prior \o Deserialize(family, rows) \in Seq(Text)
      BY <1>10, <3>2
    <3>4. QED  BY <2>2, <3>3 DEF Request
  <2>3. QED  BY <1>1, <2>1, <2>2
<1>12. DOMAIN Request = 1 .. Len(Request) /\ \A i \in 1 .. Len(Request) : Request[i] \in Text
  BY <1>11
<1>13. \A i \in DOMAIN Request : Request[i].form = "text"
  BY <1>12 DEF Text, Msg
<1>14. QED  BY <1>1, <1>13 DEF Accepts

(***************************************************************************)
(* Appending to transcripts                                                *)
(***************************************************************************)
LEMMA Appended ==
  ASSUME NEW S, NEW s \in Seq(S), NEW x \in S
  PROVE  /\ Append(s, x) \in Seq(S) /\ Len(Append(s, x)) = Len(s) + 1 /\ Len(s) \in Nat
         /\ \A i \in 1 .. Len(s) : Append(s, x)[i] = s[i]
         /\ Append(s, x)[Len(s) + 1] = x
         /\ \A i \in 1 .. Len(s) + 1 : i \in 1 .. Len(s) \/ i = Len(s) + 1
OBVIOUS

LEMMA RowType ==
  ASSUME TypeInv, NEW kind \in Kinds
  PROVE  Row(kind, family, Turn) \in RowSet /\ Turn \in Nat \X Nat
<1>1. family \in {"anthropic", "openai"} /\ serial \in Nat /\ iteration \in Nat
  BY ConstantsAssumption DEF TypeInv
<1>2. Turn \in Nat \X Nat
  BY <1>1 DEF Turn
<1>3. QED  BY <1>1, <1>2 DEF Row, RowSet

LEMMA UserRowType == UserRow \in RowSet
BY DEF UserRow, Row, RowSet, NoTurn, Kinds

\* A row that fits keeps a transcript paired.
LEMMA PairedAppend ==
  ASSUME NEW rs \in Seq(RowSet), Paired(rs), rs # <<>>,
         NEW by, NEW turn, NEW kind \in Kinds, Row(kind, by, turn) \in RowSet,
         IF kind = "results" THEN rs[Len(rs)] = Row("calls", by, turn)
         ELSE rs[Len(rs)].kind # "calls",
         kind = "calls" =>
           \A j \in 1 .. Len(rs) : rs[j].kind = "calls" => rs[j].turn # turn
  PROVE  Paired(Append(rs, Row(kind, by, turn)))
<1> DEFINE r == Row(kind, by, turn)
           w == Append(rs, r)
           L == Len(rs)
<1>1. /\ w \in Seq(RowSet) /\ Len(w) = L + 1 /\ L \in Nat
      /\ \A i \in 1 .. L : w[i] = rs[i]
      /\ w[L + 1] = r
      /\ \A i \in 1 .. L + 1 : i \in 1 .. L \/ i = L + 1
  BY Appended
<1>2. L \in 1 .. L /\ r.kind = kind /\ r.by = by /\ r.turn = turn
  <2>1. L # 0
    OBVIOUS
  <2>2. QED  BY <1>1, <2>1 DEF Row
<1> HIDE DEF r, w, L
<1>3. ASSUME NEW j \in 1 .. L + 1, w[j].kind = "calls"
      PROVE  j = L + 1 \/ w[j + 1] = Row("results", w[j].by, w[j].turn)
  <2> SUFFICES ASSUME j \in 1 .. L PROVE w[j + 1] = Row("results", w[j].by, w[j].turn)
    BY <1>1
  <2>1. w[j] = rs[j]
    BY <1>1
  <2>2. CASE j = L
    <3>1. kind = "results" /\ rs[L] = Row("calls", by, turn)
      BY <1>3, <2>1, <2>2 DEF L
    <3>2. w[L + 1] = Row("results", by, turn)
      BY <1>1, <3>1 DEF r
    <3>3. QED  BY <2>1, <2>2, <3>1, <3>2 DEF Row
  <2>3. CASE j # L
    <3>1. rs[j + 1] = Row("results", rs[j].by, rs[j].turn)
      BY <1>3, <2>1, <2>3 DEF Paired, L
    <3>2. j + 1 \in 1 .. L
      BY <1>1, <2>3
    <3>3. w[j + 1] = rs[j + 1]
      BY <1>1, <3>2
    <3>4. QED  BY <2>1, <3>1, <3>3
  <2>4. QED  BY <2>2, <2>3
<1>4. ASSUME NEW j \in 1 .. L + 1, w[j].kind = "results"
      PROVE  j > 1 /\ w[j - 1] = Row("calls", w[j].by, w[j].turn)
  <2>1. CASE j = L + 1
    <3>1. kind = "results" /\ w[j] = r
      BY <1>1, <1>2, <1>4, <2>1
    <3>2. j - 1 = L /\ j > 1 /\ w[L] = rs[L]
      BY <1>1, <1>2, <2>1
    <3>3. rs[L] = Row("calls", by, turn)
      BY <3>1 DEF L
    <3>4. QED  BY <1>2, <3>1, <3>2, <3>3
  <2>2. CASE j \in 1 .. L
    <3>1. j > 1 /\ rs[j - 1] = Row("calls", rs[j].by, rs[j].turn) /\ w[j] = rs[j]
      BY <1>1, <1>4, <2>2 DEF Paired, L
    <3>2. j - 1 \in 1 .. L
      BY <1>1, <2>2, <3>1
    <3>3. QED  BY <1>1, <3>1, <3>2
  <2>3. QED  BY <1>1, <2>1, <2>2
<1>5. ASSUME NEW j \in 1 .. L + 1, NEW k \in 1 .. L + 1,
             w[j].kind = "calls", w[k].kind = "calls", w[j].turn = w[k].turn
      PROVE  j = k
  <2>1. \A i \in 1 .. L : w[i].kind = "calls" /\ kind = "calls" => w[i].turn # turn
    BY <1>1 DEF L
  <2>2. CASE j \in 1 .. L /\ k \in 1 .. L
    BY <1>1, <1>5, <2>2 DEF Paired, L
  <2>3. CASE j = L + 1 /\ k \in 1 .. L
    BY <1>1, <1>2, <1>5, <2>1, <2>3
  <2>4. CASE j \in 1 .. L /\ k = L + 1
    BY <1>1, <1>2, <1>5, <2>1, <2>4
  <2>5. QED  BY <1>1, <2>2, <2>3, <2>4
<1>6. QED  BY <1>1, <1>3, <1>4, <1>5 DEF Paired, w, r

(***************************************************************************)
(* The invariant: a message begins and ends                                *)
(***************************************************************************)
LEMMA Initial == Init => IInv
<1> SUFFICES ASSUME Init PROVE IInv
  OBVIOUS
<1> USE DEF Init
<1>1. /\ Kept \in Nat \ {0} /\ Pieces \in Nat \ {0} /\ HistoryWindow \in Nat
  BY ConstantsAssumption
<1>2. TypeInv
  <2>1. <<>> \in Seq(TaskSet) /\ Len(<<>>) = 0 /\ <<>> \in Seq(RowSet) /\ <<>> \in Seq(MsgSet)
        /\ <<>> \in Seq(Nat \X Nat)
    OBVIOUS
  <2>2. Nothing \in [Index -> Seq(Nat \X Nat)]
    BY <2>1 DEF Nothing
  <2>3. [i \in Index |-> 0] \in [Index -> 0 .. Pieces + 1]
    BY <1>1
  <2>4. stage \in {"idle", "plan", "stream", "fanout"} /\ truncated \in BOOLEAN
        /\ patchy \in BOOLEAN
    OBVIOUS
  <2>5. iteration \in Nat /\ attempt \in Nat /\ serial \in 0 .. Kept /\ streak \in 0 .. Kept
    BY <1>1
  <2>6. Len(tasks) <= Kept /\ path \in Paths /\ family \in Families
    BY <1>1, <2>1
  <2>7. tasks = <<>> /\ rows = <<>> /\ prior = <<>> /\ memory = <<>>
        /\ sent = [i \in Index |-> 0] /\ acc = Nothing
    OBVIOUS
  <2> QED  BY <2>1, <2>2, <2>3, <2>4, <2>5, <2>6, <2>7 DEF TypeInv
<1>3. TasksInv
  <2>1. 1 .. Len(tasks) = {}
    OBVIOUS
  <2>2. QED  BY <2>1 DEF TasksInv
<1>4. IdleInv /\ RowsInv /\ SentInv /\ CallsAssembled
  BY DEF IdleInv, RowsInv, SentInv, CallsAssembled
<1>5. StreakInv
  <2>1. 1 .. Len(tasks) = {} /\ Len(tasks) = 0
    OBVIOUS
  <2>2. QED  BY <1>1, <2>1 DEF StreakInv
<1>6. StreamInv
  <2>1. \A i \in Index : sent[i] = 0 /\ acc[i] = <<>>
    BY DEF Nothing
  <2>2. [k \in 1 .. 0 |-> k] = <<>>
    OBVIOUS
  <2>3. ASSUME NEW i \in Index PROVE acc[i] = [k \in 1 .. sent[i] |-> <<i, k>>]
    <3>1. 1 .. sent[i] = {}
      BY <2>1
    <3>2. [k \in {} |-> <<i, k>>] = <<>>
      OBVIOUS
    <3>3. QED  BY <2>1, <3>1, <3>2
  <2>4. QED  BY <2>1, <2>3 DEF StreamInv
<1>7. QED  BY <1>2, <1>3, <1>4, <1>5, <1>6 DEF IInv

Trimmed(all) == IF Len(all) > Kept THEN LastOf(all, Kept) ELSE all

\* z continues s with t, and has lost its first if it was full.
Follows(z, s, t) ==
  /\ z \in Seq(TaskSet) /\ Len(z) \in 1 .. Kept /\ Len(s) \in Nat
  /\ Len(z) = Len(s) + 1 \/ (Len(z) = Kept /\ Len(s) = Kept)
  /\ z[Len(z)] = t
  /\ \A i \in 1 .. Len(z) :
       i # Len(z) => /\ Len(s) + 1 - (Len(z) - i) \in 1 .. Len(s)
                     /\ z[i] = s[Len(s) + 1 - (Len(z) - i)]

LEMMA TrimmedIs ==
  ASSUME NEW s \in Seq(TaskSet), Len(s) <= Kept, NEW t \in TaskSet,
         NEW z, z = Trimmed(Append(s, t))
  PROVE  Follows(z, s, t)
<1> DEFINE all == Append(s, t)
           L == Len(s)
<1>1. /\ all \in Seq(TaskSet) /\ Len(all) = L + 1 /\ L \in Nat
      /\ \A i \in 1 .. L : all[i] = s[i]
      /\ all[L + 1] = t
  BY Appended
<1>2. Kept \in Nat /\ Kept > 0
  BY ConstantsAssumption
<1> HIDE DEF all, L
<1>3. CASE L + 1 > Kept
  <2>1. L = Kept /\ L - L + 1 = 1 /\ L + 1 - L + 1 = 2
    BY <1>1, <1>2, <1>3 DEF L
  <2>2. z = SubSeq(all, 2, L + 1)
    <3>1. Len(all) - Kept + 1 = 2
      BY <1>1, <1>2, <2>1
    <3>2. z = SubSeq(all, Len(all) - Kept + 1, Len(all))
      BY <1>1, <1>3 DEF Trimmed, LastOf, all
    <3>3. QED  BY <1>1, <3>1, <3>2
  <2>3. z = [i \in 1 .. L |-> all[i + 1]]
    <3>1. SubSeq(all, 2, L + 1) = [i \in 1 .. (L + 1) - 2 + 1 |-> all[2 + i - 1]]
      BY <1>1
    <3>2. (L + 1) - 2 + 1 = L
      BY <1>1
    <3>3. \A i \in 1 .. L : 2 + i - 1 = i + 1
      OBVIOUS
    <3>4. QED  BY <2>2, <3>1, <3>2, <3>3
  <2>4. \A i \in 1 .. L : i + 1 \in 1 .. Len(all)
    BY <1>1
  <2>5. \A i \in 1 .. L : all[i + 1] \in TaskSet
    BY <1>1, <2>4
  <2>6. z \in Seq(TaskSet) /\ Len(z) = L
    BY <1>1, <2>3, <2>5
  <2>7. z[L] = t
    BY <1>1, <1>2, <2>1, <2>3
  <2>8. ASSUME NEW i \in 1 .. L, i # L
        PROVE  L + 1 - (L - i) \in 1 .. L /\ z[i] = s[L + 1 - (L - i)]
    <3>1. L + 1 - (L - i) = i + 1 /\ i + 1 \in 1 .. L
      BY <1>1, <2>8
    <3>2. QED  BY <1>1, <2>3, <3>1
  <2>9. QED  BY <1>1, <1>2, <2>1, <2>6, <2>7, <2>8 DEF L, Follows
<1>4. CASE ~(L + 1 > Kept)
  <2>1. z = all
    BY <1>1, <1>4 DEF Trimmed, all
  <2>2. ASSUME NEW i \in 1 .. L + 1, i # L + 1
        PROVE  L + 1 - (L + 1 - i) \in 1 .. L /\ z[i] = s[L + 1 - (L + 1 - i)]
    <3>1. L + 1 - (L + 1 - i) = i /\ i \in 1 .. L
      BY <1>1, <2>2
    <3>2. QED  BY <1>1, <2>1, <3>1
  <2>3. L + 1 \in 1 .. Kept
    BY <1>1, <1>2, <1>4
  <2>4. QED  BY <1>1, <2>1, <2>2, <2>3 DEF L, Follows
<1>5. QED  BY <1>3, <1>4

\* The end of a message: its transcript joins the others, the oldest may leave.
LEMMA CloseKeeps ==
  ASSUME IInv, stage # "idle", NEW tr \in Seq(RowSet), NEW hit \in BOOLEAN,
         Own(tr, serial), ~hit => Paired(tr), Close(tr, hit),
         streak' = 0 \/ /\ tr = <<UserRow>> /\ streak' \in 1 .. Kept /\ streak' <= streak + 1
                        /\ HistoryWindow > 0 => streak' <= HistoryWindow
  PROVE  IInv'
<1> DEFINE t == [rows |-> tr, patchy |-> hit]
           L == Len(tasks)
           L1 == Len(tasks')
<1>0. /\ tasks \in Seq(TaskSet) /\ L <= Kept /\ Kept \in Nat /\ HistoryWindow \in Nat
      /\ serial \in 0 .. Kept /\ streak \in 0 .. Kept /\ Pieces \in Nat /\ HistoryWindow < Kept
  BY ConstantsAssumption DEF IInv, TypeInv
<1>1. t \in TaskSet
  BY DEF TaskSet
<1>2. tasks' = Trimmed(Append(tasks, t))
  BY DEF Close, Trimmed
<1> HIDE DEF t
<1>3. /\ tasks' \in Seq(TaskSet) /\ L1 \in 1 .. Kept /\ L \in Nat
      /\ L1 = L + 1 \/ (L1 = Kept /\ L = Kept)
      /\ tasks'[L1] = t
      /\ \A i \in 1 .. L1 :
           i # L1 => L + 1 - (L1 - i) \in 1 .. L /\ tasks'[i] = tasks[L + 1 - (L1 - i)]
  <2>1. Follows(tasks', tasks, t)
    BY <1>0, <1>1, <1>2, TrimmedIs
  <2>2. QED  BY <2>1, Zenon DEF Follows
<1>4. /\ stage' = "idle" /\ rows' = <<>> /\ prior' = <<>> /\ memory' = <<>>
      /\ iteration' = 0 /\ attempt' = 1 /\ patchy' = FALSE
      /\ path' = path /\ family' = family /\ serial' = serial
      /\ sent' = [i \in Index |-> 0] /\ acc' = Nothing /\ truncated' = FALSE
  BY DEF Close, NoStream
<1>5. TypeInv'
  <2>1. <<>> \in Seq(RowSet) /\ <<>> \in Seq(MsgSet) /\ <<>> \in Seq(Nat \X Nat)
    OBVIOUS
  <2>2. acc' \in [Index -> Seq(Nat \X Nat)]
    BY <1>4, <2>1 DEF Nothing
  <2>3. sent' \in [Index -> 0 .. Pieces + 1]
    BY <1>0, <1>4
  <2>4. streak' \in 0 .. Kept
    BY <1>0
  <2>5. path' \in Paths /\ family' \in Families /\ serial' \in 0 .. Kept
    BY <1>0, <1>4 DEF IInv, TypeInv
  <2>6. Len(tasks') <= Kept
    BY <1>3
  <2>7. iteration' \in Nat /\ attempt' \in Nat
    BY <1>4
  <2>8. QED  BY <1>3, <1>4, <2>1, <2>2, <2>3, <2>4, <2>5, <2>6, <2>7 DEF TypeInv
<1>6. TasksInv'
  <2> SUFFICES ASSUME NEW i \in 1 .. L1
               PROVE  /\ Own(tasks'[i].rows, Back(serial', Age(i)'))
                      /\ ~tasks'[i].patchy => Paired(tasks'[i].rows)
    BY DEF TasksInv
  <2>1. Age(i)' = L1 - i
    <3>1. Age(i)' = L1 - i + 0
      BY <1>4 DEF Age
    <3>2. QED  BY <1>3, <3>1
  <2>2. CASE i = L1
    <3>1. L1 - i = 0
      BY <1>3, <2>2
    <3>2. Back(serial', 0) = serial
      BY <1>0, <1>4 DEF Back
    <3>3. tasks'[i].rows = tr /\ tasks'[i].patchy = hit
      BY <1>3, <2>2 DEF t
    <3>4. QED  BY <2>1, <3>1, <3>2, <3>3
  <2>3. CASE i # L1
    <3> DEFINE k == L + 1 - (L1 - i)
    <3>1. k \in 1 .. L /\ tasks'[i] = tasks[k]
      BY <1>3, <2>3
    <3>2. Age(k) = L - k + 1
      BY DEF Age
    <3>3. Age(k) = L1 - i
      BY <1>3, <3>1, <3>2
    <3> HIDE DEF k
    <3>4. /\ Own(tasks[k].rows, Back(serial, Age(k)))
          /\ ~tasks[k].patchy => Paired(tasks[k].rows)
      BY <3>1 DEF IInv, TasksInv
    <3>5. QED  BY <1>4, <2>1, <3>1, <3>3, <3>4
  <2>4. QED  BY <2>2, <2>3
<1>7. IdleInv' /\ RowsInv' /\ SentInv' /\ CallsAssembled'
  BY <1>4 DEF IdleInv, RowsInv, SentInv, CallsAssembled
<1>8. StreakInv'
  <2>1. CASE streak' = 0
    <3>1. \A i \in 1 .. L1 : ~(L1 - streak' < i)
      BY <1>3, <2>1
    <3>2. QED  BY <1>0, <1>3, <2>1, <3>1 DEF StreakInv
  <2>2. CASE streak' # 0
    <3>1. /\ tr = <<UserRow>> /\ streak' \in 1 .. Kept /\ streak' <= streak + 1
          /\ HistoryWindow > 0 => streak' <= HistoryWindow
      BY <2>2
    <3>2. ASSUME HistoryWindow > 0 PROVE streak' <= L1
      <4>1. streak <= L
        BY <3>2 DEF IInv, StreakInv
      <4>2. QED  BY <1>0, <1>3, <3>1, <3>2, <4>1
    <3>3. ASSUME HistoryWindow > 0, NEW i \in 1 .. L1, L1 - streak' < i
          PROVE  tasks'[i].rows = <<UserRow>>
      <4>1. CASE i = L1
        BY <1>3, <3>1, <4>1 DEF t
      <4>2. CASE i # L1
        <5> DEFINE k == L + 1 - (L1 - i)
        <5>1. k \in 1 .. L /\ tasks'[i] = tasks[k]
          BY <1>3, <4>2
        <5>2. L - streak < k
          BY <1>0, <1>3, <3>1, <3>3
        <5> HIDE DEF k
        <5>3. tasks[k].rows = <<UserRow>>
          BY <3>3, <5>1, <5>2 DEF IInv, StreakInv
        <5>4. QED  BY <5>1, <5>3
      <4>3. QED  BY <4>1, <4>2
    <3>4. QED  BY <1>4, <3>1, <3>2, <3>3 DEF StreakInv
  <2>3. QED  BY <2>1, <2>2
<1>9. StreamInv'
  <2>1. \A i \in Index : sent'[i] = 0 /\ acc'[i] = <<>>
    BY <1>4 DEF Nothing
  <2>2. ASSUME NEW i \in Index PROVE acc'[i] = [k \in 1 .. sent'[i] |-> <<i, k>>]
    <3>1. 1 .. sent'[i] = {}
      BY <2>1
    <3>2. [k \in {} |-> <<i, k>>] = <<>>
      OBVIOUS
    <3>3. QED  BY <2>1, <3>1, <3>2
  <2>3. \A i \in Index : ~(sent'[i] > 0)
    BY <2>1
  <2>4. QED  BY <2>2, <2>3, Zenon DEF StreamInv
<1>10. QED  BY <1>5, <1>6, <1>7, <1>8, <1>9 DEF IInv

LEMMA HistoryType ==
  ASSUME TypeInv, NEW p, NEW f \in {"anthropic", "openai"}
  PROVE  History(p, f) \in Seq(MsgSet)
<1>1. RecentRows \in Seq(RowSet)
  BY RecentRowsType DEF TypeInv
<1>2. Deserialize(f, RecentRows) \in Seq(MsgSet)
  BY <1>1, DeserializeIs
<1>3. Sanitize(Deserialize(f, RecentRows)) \in Seq(MsgSet)
  BY <1>2, SanitizeIs
<1>4. QED  BY <1>2, <1>3 DEF History

\* One message later every remembered task is one message older.
LEMMA BackNext ==
  ASSUME NEW s \in 0 .. Kept, NEW a \in 0 .. Kept, a < Kept
  PROVE  Back((s + 1) % (Kept + 1), a + 1) = Back(s, a)
<1>1. Kept \in Nat
  BY ConstantsAssumption
<1>2. CASE s = Kept
  <2>1. (s + 1) % (Kept + 1) = 0
    BY <1>1, <1>2
  <2>2. QED  BY <1>1, <1>2, <2>1 DEF Back
<1>3. CASE s < Kept
  <2>1. (s + 1) % (Kept + 1) = s + 1
    BY <1>1, <1>3
  <2>2. QED  BY <1>1, <1>3, <2>1 DEF Back
<1>4. QED  BY <1>1, <1>2, <1>3

LEMMA StartKeeps ==
  ASSUME IInv, NEW p \in Paths, NEW f \in Families, NEW lost \in BOOLEAN, Start(p, f, lost)
  PROVE  IInv'
<1> USE DEF Start
<1>0. /\ tasks \in Seq(TaskSet) /\ Len(tasks) <= Kept /\ Len(tasks) \in Nat /\ Kept \in Nat
      /\ serial \in 0 .. Kept /\ stage = "idle" /\ iteration = 0
      /\ f \in {"anthropic", "openai"} /\ tasks' = tasks
  BY ConstantsAssumption DEF IInv, TypeInv, IdleInv
<1>1. prior' \in Seq(MsgSet) /\ prior' \in {<<>>, History(p, f)}
  <2>1. History(p, f) \in Seq(MsgSet)
    BY <1>0, HistoryType DEF IInv
  <2>2. <<>> \in Seq(MsgSet)
    OBVIOUS
  <2>3. QED  BY <2>1, <2>2
<1>2. Msg("text", NoTurn) \in MsgSet
  BY DEF Msg, MsgSet, NoTurn, Forms
<1>3. memory' \in Seq(MsgSet) /\ (p = "workflow" => memory' = Append(prior', Msg("text", NoTurn)))
  <2>1. Append(prior', Msg("text", NoTurn)) \in Seq(MsgSet)
    BY <1>1, <1>2
  <2>2. <<>> \in Seq(MsgSet)
    OBVIOUS
  <2>3. QED  BY <2>1, <2>2
<1>4. rows' \in Seq(RowSet) /\ rows' = <<UserRow>>
  BY UserRowType
<1>5. serial' \in 0 .. Kept
  BY <1>0
<1>6. TypeInv'
  <2>1. stage' \in {"idle", "plan", "stream", "fanout"} /\ patchy' \in BOOLEAN
    OBVIOUS
  <2>2. path' \in Paths /\ family' \in Families
    OBVIOUS
  <2>3. /\ tasks' = tasks /\ iteration' = iteration /\ attempt' = attempt /\ sent' = sent
        /\ acc' = acc /\ truncated' = truncated /\ streak' = streak
    BY DEF stream
  <2>4. QED  BY <1>1, <1>3, <1>4, <1>5, <2>1, <2>2, <2>3 DEF IInv, TypeInv
<1>7. TasksInv'
  <2> SUFFICES ASSUME NEW i \in 1 .. Len(tasks)
               PROVE  /\ Own(tasks[i].rows, Back(serial', Age(i)'))
                      /\ ~tasks[i].patchy => Paired(tasks[i].rows)
    BY <1>0 DEF TasksInv
  <2>1. Age(i) = Len(tasks) - i /\ Age(i)' = Len(tasks) - i + 1
    <3>1. Age(i) = Len(tasks) - i + 0
      BY <1>0 DEF Age
    <3>2. Age(i)' = Len(tasks) - i + 1
      BY <1>0 DEF Age
    <3>3. QED  BY <1>0, <3>1, <3>2
  <2>2. Len(tasks) - i \in 0 .. Kept /\ Len(tasks) - i < Kept
    BY <1>0
  <2>3. Back(serial', Len(tasks) - i + 1) = Back(serial, Len(tasks) - i)
    BY <1>0, <2>2, BackNext
  <2>4. QED  BY <2>1, <2>3 DEF IInv, TasksInv
<1>8. IdleInv' /\ CallsAssembled'
  BY DEF IdleInv, CallsAssembled
<1>9. UserRow.kind = "user"
  BY DEF UserRow, Row
<1>10. /\ Len(rows') = 1 /\ rows'[1] = UserRow /\ rows' # <<>>
       /\ \A j \in 1 .. Len(rows') : j = 1 /\ rows'[j] = UserRow
  BY <1>4
<1>11. RowsInv'
  <2>1. Paired(rows') /\ Own(rows', serial')
    BY <1>9, <1>10 DEF Paired, Own, OfTurn
  <2>2. rows'[Len(rows')].kind # "calls"
    BY <1>9, <1>10
  <2>3. \A j \in 1 .. Len(rows') : rows'[j].kind # "answer" /\ ~OfTurn(rows'[j])
    BY <1>9, <1>10 DEF OfTurn
  <2>4. stage' = "plan"
    OBVIOUS
  <2>5. QED  BY <1>4, <1>10, <2>1, <2>2, <2>3, <2>4 DEF RowsInv
<1>12. SentInv'
  <2>1. History(path, family)' = History(p, f)
    <3>1. Recent' = Recent
      BY <1>0 DEF Recent, LastOf
    <3>2. RecentRows' = RecentRows
      BY <3>1 DEF RecentRows
    <3>3. path' = p /\ family' = f
      OBVIOUS
    <3>4. QED  BY <3>2, <3>3 DEF History
  <2>2. Remembered' = <<Msg("text", NoTurn)>>
    <3>1. Native(f, UserRow) = Msg("text", NoTurn)
      BY <1>9 DEF Native
    <3>2. InMemory(family', UserRow) = Msg("text", NoTurn)
      BY <1>9, <3>1 DEF InMemory
    <3>3. Remembered' = [j \in 1 .. Len(rows') |-> InMemory(family', rows'[j])]
      BY DEF Remembered
    <3>4. Remembered' = [j \in 1 .. 1 |-> Msg("text", NoTurn)]
      BY <1>10, <3>2, <3>3
    <3>5. QED  BY <3>4
  <2>3. Append(prior', Msg("text", NoTurn)) = prior' \o <<Msg("text", NoTurn)>>
    BY <1>1
  <2>4. ~patchy' => prior' = History(p, f)
    OBVIOUS
  <2>5. path' = p
    OBVIOUS
  <2>6. QED  BY <1>1, <1>3, <2>1, <2>2, <2>3, <2>4, <2>5 DEF SentInv
<1>13. StreakInv'
  BY <1>0 DEF IInv, StreakInv
<1>14. StreamInv'
  BY DEF IInv, StreamInv, stream
<1>15. QED  BY <1>6, <1>7, <1>8, <1>11, <1>12, <1>13, <1>14 DEF IInv

(***************************************************************************)
(* The planning call                                                       *)
(***************************************************************************)
LEMMA AskKeeps ==
  ASSUME IInv, Ask
  PROVE  IInv'
<1>0. /\ stage = "plan" /\ iteration \in Nat /\ HistoryWindow \in Nat /\ Kept \in Nat
      /\ HistoryWindow < Kept /\ streak \in 0 .. Kept
      /\ rows \in Seq(RowSet) /\ patchy \in BOOLEAN
  BY ConstantsAssumption DEF IInv, TypeInv, Ask
<1>1. CASE Accepts(family, Request)
  <2>1. /\ stage' = "stream" /\ iteration' = iteration + 1 /\ streak' = 0
        /\ path' = path /\ family' = family /\ prior' = prior /\ tasks' = tasks
        /\ rows' = rows /\ memory' = memory /\ attempt' = attempt
        /\ sent' = sent /\ acc' = acc /\ calls' = calls /\ truncated' = truncated
        /\ serial' = serial /\ patchy' = patchy
    BY <1>1 DEF Ask, message, stream
  <2>2. TypeInv'
    <3>1. iteration' \in Nat /\ streak' \in 0 .. Kept
      BY <1>0, <2>1
    <3>2. QED  BY <2>1, <3>1 DEF IInv, TypeInv
  <2>3. TasksInv'
    <3>1. \A i : Age(i)' = Age(i)
      BY <1>0, <2>1 DEF Age
    <3>2. QED  BY <2>1, <3>1 DEF IInv, TasksInv
  <2>4. IdleInv' /\ CallsAssembled'
    BY <2>1 DEF IdleInv, CallsAssembled
  <2>5. RowsInv'
    <3>1. \A j \in 1 .. Len(rows) : rows[j].kind # "answer" /\ (OfTurn(rows[j]) => Reached(rows[j]))
      BY <1>0 DEF IInv, RowsInv
    <3>2. ASSUME NEW j \in 1 .. Len(rows), OfTurn(rows[j]) PROVE Reached(rows[j])'
      <4>1. rows[j] \in RowSet
        BY <1>0
      <4>2. rows[j].turn[2] \in Nat
        BY <4>1 DEF RowSet
      <4>3. rows[j].turn[2] <= iteration
        BY <1>0, <3>1, <3>2 DEF Reached
      <4>4. rows[j].turn[2] < iteration + 1
        BY <1>0, <4>2, <4>3
      <4>5. QED  BY <2>1, <4>4 DEF Reached
    <3>3. iteration' > 0
      BY <1>0, <2>1
    <3>4. /\ Own(rows, serial) /\ (~patchy => Paired(rows) /\ rows # <<>>)
          /\ ~patchy => rows[Len(rows)].kind # "calls"
      BY <1>0 DEF IInv, RowsInv
    <3>5. QED  BY <2>1, <3>1, <3>2, <3>3, <3>4 DEF RowsInv
  <2>6. SentInv'
    <3>1. Recent' = Recent
      BY <2>1 DEF Recent, LastOf
    <3>2. RecentRows' = RecentRows
      BY <3>1 DEF RecentRows
    <3>3. History(path, family)' = History(path, family)
      BY <2>1, <3>2 DEF History
    <3>4. Remembered' = Remembered
      BY <2>1 DEF Remembered, InMemory
    <3>5. QED  BY <1>0, <2>1, <3>3, <3>4 DEF IInv, SentInv
  <2>7. StreakInv'
    <3>1. tasks' = tasks /\ streak' = 0 /\ Len(tasks) \in Nat
      BY <2>1 DEF IInv, TypeInv
    <3>2. \A i \in 1 .. Len(tasks) : ~(Len(tasks) - 0 < i)
      BY <3>1
    <3>3. QED  BY <1>0, <3>1, <3>2 DEF StreakInv
  <2>8. StreamInv'
    BY <2>1 DEF IInv, StreamInv
  <2>9. QED  BY <2>2, <2>3, <2>4, <2>5, <2>6, <2>7, <2>8 DEF IInv
<1>2. CASE ~Accepts(family, Request)
  <2>1. Close(rows, patchy)
        /\ streak' = IF iteration > 0 THEN 0 ELSE IF streak < Kept THEN streak + 1 ELSE streak
    BY <1>2 DEF Ask
  <2>2. Own(rows, serial) /\ (~patchy => Paired(rows)) /\ (iteration = 0 => rows = <<UserRow>>)
    BY <1>0 DEF IInv, RowsInv
  <2>3. ASSUME iteration = 0, HistoryWindow > 0 PROVE streak < HistoryWindow
    <3>1. streak <= HistoryWindow
      BY <2>3 DEF IInv, StreakInv
    <3>2. streak # HistoryWindow
      BY <1>0, <1>2, <2>3, StreakAccepted DEF IInv
    <3>3. QED  BY <1>0, <3>1, <3>2
  <2>4. \/ streak' = 0
        \/ /\ rows = <<UserRow>> /\ streak' \in 1 .. Kept /\ streak' <= streak + 1
           /\ HistoryWindow > 0 => streak' <= HistoryWindow
    <3>1. CASE iteration > 0
      BY <2>1, <3>1
    <3>2. CASE iteration = 0
      <4>1. streak' = (IF streak < Kept THEN streak + 1 ELSE streak) /\ rows = <<UserRow>>
        BY <1>0, <2>1, <2>2, <3>2
      <4>2. HistoryWindow > 0 => streak < HistoryWindow
        BY <2>3, <3>2
      <4>3. QED  BY <1>0, <4>1, <4>2
    <3>3. QED  BY <1>0, <3>1, <3>2
  <2>5. stage # "idle"
    BY <1>0
  <2>6. QED  BY <1>0, <2>1, <2>2, <2>4, <2>5, CloseKeeps
<1>3. QED  BY <1>1, <1>2

(***************************************************************************)
(* The stream                                                              *)
(***************************************************************************)
\* The calls begun are the first ones, so that the k-th is call k.
LEMMA BegunIs ==
  ASSUME TypeInv, StreamInv
  PROVE  /\ Begun = {i \in Index : sent[i] > 0} /\ IsFiniteSet(Begun)
         /\ Begun \in SUBSET Nat /\ Begun \subseteq Index
         /\ \A k \in Begun : Place(Begun, k) = k
<1>1. /\ MaxCalls \in Nat /\ Pieces \in Nat /\ sent \in [Index -> 0 .. Pieces + 1]
      /\ \A i \in Index : i \in Nat /\ i >= 1
  BY ConstantsAssumption DEF TypeInv, Index
<1>2. ASSUME NEW i \in Index PROVE acc[i] # <<>> <=> sent[i] > 0
  <2>1. acc[i] = [k \in 1 .. sent[i] |-> <<i, k>>] /\ sent[i] \in Nat
    BY <1>1 DEF StreamInv
  <2>2. CASE sent[i] = 0
    <3>1. 1 .. sent[i] = {}
      BY <2>2
    <3>2. [k \in {} |-> <<i, k>>] = <<>>
      OBVIOUS
    <3>3. QED  BY <2>1, <2>2, <3>1, <3>2
  <2>3. CASE sent[i] > 0
    <3>1. DOMAIN acc[i] = 1 .. sent[i] /\ 1 \in 1 .. sent[i]
      BY <2>1, <2>3
    <3>2. DOMAIN <<>> = {}
      OBVIOUS
    <3>3. acc[i] # <<>>
      BY <3>1, <3>2
    <3>4. QED  BY <2>3, <3>3
  <2>4. QED  BY <2>1, <2>2, <2>3
<1>3. Begun = {i \in Index : sent[i] > 0}
  BY <1>2 DEF Begun
<1>4. Begun \subseteq Index /\ Begun \in SUBSET Nat
  BY <1>1, <1>3
<1>5. IsFiniteSet(Begun)
  <2>1. IsFiniteSet(1 .. MaxCalls)
    BY <1>1, FS_Interval
  <2>2. QED  BY <1>4, <2>1, FS_Subset DEF Index
<1>6. ASSUME NEW k \in Begun PROVE Place(Begun, k) = k
  <2> DEFINE T == {d \in Nat : k - d >= 1 => k - d \in Begun}
  <2>0. k \in Nat /\ k \in Index
    BY <1>1, <1>4
  <2>1. 0 \in T
    <3>1. k - 0 = k
      BY <2>0
    <3>2. QED  BY <3>1
  <2>2. ASSUME NEW d \in Nat, d \in T PROVE d + 1 \in T
    <3> SUFFICES ASSUME k - (d + 1) >= 1 PROVE k - (d + 1) \in Begun
      OBVIOUS
    <3>1. k - d >= 1 /\ k - d > 1 /\ k - (d + 1) = (k - d) - 1
      BY <2>0
    <3>2. k - d \in Begun
      BY <2>2, <3>1
    <3>3. k - d \in Index /\ sent[k - d] > 0
      BY <1>3, <3>2
    <3>4. sent[(k - d) - 1] > 0
      BY <3>1, <3>3 DEF StreamInv
    <3>5. (k - d) - 1 \in Index
      BY <1>1, <3>1, <3>3 DEF Index
    <3>6. QED  BY <1>3, <3>1, <3>4, <3>5
  <2>3. Nat \subseteq T
    <3> HIDE DEF T
    <3>1. QED  BY <2>1, <2>2, Induct
  <2>4. ASSUME NEW j \in 1 .. k PROVE j \in Begun
    <3>1. k - j \in Nat /\ k - (k - j) = j
      BY <2>0
    <3>2. k - j \in T
      BY <2>3, <3>1
    <3>3. QED  BY <3>1, <3>2
  <2>5. {j \in Begun : j <= k} = 1 .. k
    <3>1. \A j \in Begun : j \in Nat /\ j >= 1
      BY <1>1, <1>4
    <3>2. \A j \in Begun : j <= k => j \in 1 .. k
      BY <2>0, <3>1
    <3>3. \A j \in 1 .. k : j <= k
      BY <2>0
    <3>4. QED  BY <2>4, <3>2, <3>3
  <2>6. Cardinality(1 .. k) = k
    <3>1. k >= 1
      BY <1>1, <2>0
    <3>2. Cardinality(1 .. k) = k - 1 + 1
      BY <2>0, <3>1, FS_Interval
    <3>3. QED  BY <2>0, <3>2
  <2>7. QED  BY <2>5, <2>6 DEF Place
<1>7. QED  BY <1>3, <1>4, <1>5, <1>6

LEMMA AssembledIs ==
  ASSUME TypeInv, StreamInv, NEW cut \in BOOLEAN,
         cut \/ \A i \in Index : sent[i] \in {0, Pieces + 1}
  PROVE  /\ \A k \in DOMAIN Assembled :
              /\ Assembled[k].index = k
              /\ Assembled[k].input = "whole" \/ cut
         /\ Len(Assembled) = Cardinality({i \in Index : sent[i] > 0})
<1> DEFINE n == Cardinality(Begun)
<1>1. /\ Begun = {i \in Index : sent[i] > 0} /\ IsFiniteSet(Begun) /\ Begun \in SUBSET Nat
      /\ Begun \subseteq Index /\ \A k \in Begun : Place(Begun, k) = k
  BY BegunIs
<1>2. \A k \in 1 .. n : Nth(Begun, k) \in Begun /\ Place(Begun, Nth(Begun, k)) = k
  BY <1>1, NthPlace
<1>3. \A k \in 1 .. n : Nth(Begun, k) = k /\ k \in Begun
  BY <1>1, <1>2
<1>4. n \in Nat
  BY <1>1, FS_CardinalityType
<1> HIDE DEF n
<1>5. Assembled = [k \in 1 .. n |-> LET i == Nth(Begun, k) IN Call(i, acc[i] = Whole(i))]
  BY DEF Assembled, n
<1>6. DOMAIN Assembled = 1 .. n /\ Len(Assembled) = n
  BY <1>4, <1>5
<1>7. ASSUME NEW k \in 1 .. n
      PROVE  Assembled[k].index = k /\ (Assembled[k].input = "whole" \/ cut)
  <2>1. Assembled[k] = Call(k, acc[k] = Whole(k))
    BY <1>3, <1>5
  <2>2. Assembled[k].index = k
    BY <2>1 DEF Call
  <2>3. ASSUME ~cut PROVE Assembled[k].input = "whole"
    <3>1. k \in Index /\ sent[k] > 0
      BY <1>1, <1>3
    <3>2. sent[k] = Pieces + 1
      BY <2>3, <3>1
    <3>3. acc[k] = Whole(k)
      BY <3>1, <3>2 DEF StreamInv, Whole
    <3>4. QED  BY <2>1, <3>3 DEF Call
  <2>4. QED  BY <2>2, <2>3
<1>8. QED  BY <1>1, <1>6, <1>7 DEF n

LEMMA FragmentKeeps ==
  ASSUME IInv, NEW i \in Index, Fragment(i)
  PROVE  IInv'
<1>1. /\ stage = "stream" /\ stage' = stage /\ path' = path /\ family' = family
      /\ prior' = prior /\ tasks' = tasks /\ rows' = rows /\ memory' = memory
      /\ iteration' = iteration /\ attempt' = attempt /\ truncated' = truncated
      /\ serial' = serial /\ patchy' = patchy /\ streak' = streak
      /\ sent' = [sent EXCEPT ![i] = @ + 1]
      /\ acc' = [acc EXCEPT ![i] = Append(@, <<i, sent'[i]>>)]
      /\ sent[i] <= Pieces /\ (i > 1 => sent[i - 1] > 0)
  BY DEF Fragment, Accumulate, message
<1>2. /\ sent \in [Index -> 0 .. Pieces + 1] /\ acc \in [Index -> Seq(Nat \X Nat)]
      /\ Pieces \in Nat /\ sent[i] \in Nat /\ i \in Nat
  BY ConstantsAssumption DEF IInv, TypeInv, Index
<1>3. sent'[i] = sent[i] + 1 /\ acc'[i] = Append(acc[i], <<i, sent[i] + 1>>)
  BY <1>1, <1>2
<1>4. TypeInv'
  <2>1. sent' \in [Index -> 0 .. Pieces + 1]
    <3>1. sent[i] + 1 \in 0 .. Pieces + 1
      BY <1>1, <1>2
    <3>2. QED  BY <1>1, <1>2, <3>1
  <2>2. acc' \in [Index -> Seq(Nat \X Nat)]
    <3>1. acc[i] \in Seq(Nat \X Nat) /\ <<i, sent[i] + 1>> \in Nat \X Nat
      BY <1>2
    <3>2. Append(acc[i], <<i, sent[i] + 1>>) \in Seq(Nat \X Nat)
      BY <3>1
    <3>3. acc' = [acc EXCEPT ![i] = Append(acc[i], <<i, sent[i] + 1>>)]
      BY <1>1, <1>3
    <3> QED  BY <1>2, <3>2, <3>3
  <2>3. QED  BY <1>1, <2>1, <2>2 DEF IInv, TypeInv
<1>5. StreamInv'
  <2> SUFFICES ASSUME NEW j \in Index
               PROVE  /\ acc'[j] = [k \in 1 .. sent'[j] |-> <<j, k>>]
                      /\ sent'[j] > 0 /\ j > 1 => sent'[j - 1] > 0
    BY DEF StreamInv
  <2>1. /\ acc[j] = [k \in 1 .. sent[j] |-> <<j, k>>]
        /\ sent[j] > 0 /\ j > 1 => sent[j - 1] > 0
    BY DEF IInv, StreamInv
  <2>2. acc'[j] = [k \in 1 .. sent'[j] |-> <<j, k>>]
    <3>1. CASE j = i
      <4>1. \A n \in Nat : Append([k \in 1 .. n |-> <<i, k>>], <<i, n + 1>>)
                             = [k \in 1 .. n + 1 |-> <<i, k>>]
        OBVIOUS
      <4>2. acc'[i] = [k \in 1 .. sent[i] + 1 |-> <<i, k>>]
        BY <1>2, <1>3, <2>1, <3>1, <4>1, Zenon
      <4>3. QED  BY <1>3, <3>1, <4>2, Zenon
    <3>2. CASE j # i
      BY <1>1, <1>2, <2>1, <3>2
    <3>3. QED  BY <3>1, <3>2
  <2>3. ASSUME sent'[j] > 0, j > 1 PROVE sent'[j - 1] > 0
    <3>1. j - 1 \in Index /\ sent[j - 1] \in Nat
      BY <1>2, <2>3, ConstantsAssumption DEF Index
    <3>2. sent[j - 1] > 0
      BY <1>1, <1>2, <2>1, <2>3
    <3>3. sent'[j - 1] >= sent[j - 1]
      BY <1>1, <1>2, <3>1
    <3>4. QED  BY <1>1, <1>2, <3>1, <3>2, <3>3
  <2>4. QED  BY <2>2, <2>3
<1>6. TasksInv'
  <2>1. \A k : Age(k)' = Age(k)
    BY <1>1 DEF Age
  <2>2. QED  BY <1>1, <2>1 DEF IInv, TasksInv
<1>7. IdleInv' /\ CallsAssembled'
  BY <1>1 DEF IdleInv, CallsAssembled
<1>8. RowsInv'
  <2>1. Turn' = Turn /\ \A r : Reached(r)' = Reached(r)
    BY <1>1 DEF Turn, Reached
  <2>2. QED  BY <1>1, <2>1 DEF IInv, RowsInv
<1>9. SentInv'
  <2>1. History(path, family)' = History(path, family)
    <3>1. Recent' = Recent
      BY <1>1 DEF Recent, LastOf
    <3>2. RecentRows' = RecentRows
      BY <3>1 DEF RecentRows
    <3>3. QED  BY <1>1, <3>2 DEF History
  <2>2. Remembered' = Remembered
    BY <1>1 DEF Remembered
  <2>3. QED  BY <1>1, <2>1, <2>2 DEF IInv, SentInv
<1>10. StreakInv'
  BY <1>1 DEF IInv, StreakInv
<1>11. QED  BY <1>4, <1>5, <1>6, <1>7, <1>8, <1>9, <1>10 DEF IInv

(***************************************************************************)
(* A turn                                                                  *)
(***************************************************************************)
Mind(f, w) == [j \in 1 .. Len(w) |-> InMemory(f, w[j])]

\* A row more in the transcript is a message more in memory.
LEMMA RememberedNext ==
  ASSUME NEW f \in {"anthropic", "openai"}, NEW w \in Seq(RowSet), NEW r \in RowSet,
         NEW q \in Seq(MsgSet)
  PROVE  q \o Mind(f, Append(w, r)) = Append(q \o Mind(f, w), InMemory(f, r))
<1> DEFINE g == [j \in 1 .. Len(w) |-> InMemory(f, w[j])]
           v == Append(w, r)
           x == InMemory(f, r)
<1>1. /\ Len(v) = Len(w) + 1 /\ Len(w) \in Nat
      /\ \A i \in 1 .. Len(w) : v[i] = w[i]
      /\ v[Len(w) + 1] = r
      /\ \A i \in 1 .. Len(w) + 1 : i \in 1 .. Len(w) \/ i = Len(w) + 1
  BY Appended
<1>2. \A k \in RowSet : InMemory(f, k) \in MsgSet
  <2> SUFFICES ASSUME NEW k \in RowSet PROVE InMemory(f, k) \in MsgSet
    OBVIOUS
  <2>1. k.turn \in Nat \X Nat
    BY DEF RowSet
  <2>2. Msg("results", k.turn) \in MsgSet
    BY <2>1 DEF Msg, MsgSet, Forms
  <2>3. QED  BY <2>2, NativeIs DEF InMemory
<1>3. g \in Seq(MsgSet) /\ Len(g) = Len(w) /\ x \in MsgSet
  <2>1. \A i \in 1 .. Len(w) : w[i] \in RowSet
    OBVIOUS
  <2>2. QED  BY <1>1, <1>2, <2>1
<1> HIDE DEF v, x
<1>4. [j \in 1 .. Len(v) |-> InMemory(f, v[j])] = Append(g, x)
  <2>1. /\ Append(g, x) \in Seq(MsgSet) /\ Len(Append(g, x)) = Len(w) + 1
        /\ \A i \in 1 .. Len(w) : Append(g, x)[i] = g[i]
        /\ Append(g, x)[Len(w) + 1] = x
    BY <1>3, Appended
  <2>2. \A i \in 1 .. Len(w) + 1 : Append(g, x)[i] = InMemory(f, v[i])
    BY <1>1, <2>1 DEF x
  <2>3. Append(g, x) = [j \in 1 .. Len(w) + 1 |-> Append(g, x)[j]]
    <3>1. ASSUME NEW S, NEW s \in Seq(S) PROVE s = [j \in 1 .. Len(s) |-> s[j]]
      OBVIOUS
    <3> HIDE DEF g
    <3>2. Append(g, x) = [j \in 1 .. Len(Append(g, x)) |-> Append(g, x)[j]]
      BY <2>1, <3>1
    <3>3. QED  BY <2>1, <3>2
  <2> HIDE DEF g
  <2>4. QED  BY <1>1, <2>2, <2>3
<1> HIDE DEF g
<1>5. q \o Append(g, x) = Append(q \o g, x)
  BY <1>3
<1>6. QED  BY <1>4, <1>5 DEF g, v, x, Mind

\* The tasks do not move while a message is served, nor does what its history is.
LEMMA Serving ==
  ASSUME stage # "idle", stage' # "idle", tasks' = tasks, serial' = serial,
         path' = path, family' = family, TasksInv
  PROVE  TasksInv' /\ History(path, family)' = History(path, family)
<1>1. TasksInv'
  <2>1. \A k : Age(k)' = Age(k)
    BY DEF Age
  <2>2. QED  BY <2>1 DEF TasksInv
<1>2. History(path, family)' = History(path, family)
  <2>1. Recent' = Recent
    BY DEF Recent, LastOf
  <2>2. RecentRows' = RecentRows
    BY <2>1 DEF RecentRows
  <2>3. QED  BY <2>2 DEF History
<1>3. QED  BY <1>1, <1>2

\* A turn with calls is stored and remembered, or the message is patchy.
LEMMA CallsKeep ==
  ASSUME IInv, stage = "stream", NEW made, NEW cut \in BOOLEAN, NEW bad \in BOOLEAN,
         TurnCalls(made, cut, bad), UNCHANGED <<sent, acc>>,
         \A k \in DOMAIN made : made[k].index = k /\ (made[k].input = "whole" \/ cut),
         family = "openai" => Len(made) = Cardinality({i \in Index : sent[i] > 0})
  PROVE  IInv'
<1> DEFINE row == Row("calls", family, Turn)
<1>1. /\ stage' = "fanout" /\ calls' = made /\ truncated' = cut
      /\ rows' = Record("calls", bad) /\ memory' = Remember(bad)
      /\ patchy' = (patchy \/ bad) /\ attempt' = 1
      /\ path' = path /\ family' = family /\ prior' = prior /\ tasks' = tasks
      /\ iteration' = iteration /\ sent' = sent /\ acc' = acc /\ serial' = serial
      /\ streak' = streak
  BY DEF TurnCalls, message
<1>2. /\ rows \in Seq(RowSet) /\ memory \in Seq(MsgSet) /\ prior \in Seq(MsgSet)
      /\ family \in {"anthropic", "openai"} /\ patchy \in BOOLEAN /\ iteration \in Nat
      /\ serial \in 0 .. Kept
  BY ConstantsAssumption DEF IInv, TypeInv
<1>3. row \in RowSet
  BY RowType DEF IInv, Kinds
<1>4. row.kind = "calls" /\ row.turn = <<serial, iteration>> /\ row.by = family
  BY DEF Row, Turn
<1> HIDE DEF row
<1>5. rows' = IF bad THEN rows ELSE Append(rows, row)
  BY <1>1 DEF Record, row
<1>6. /\ Append(rows, row) \in Seq(RowSet) /\ Len(Append(rows, row)) = Len(rows) + 1
      /\ Len(rows) \in Nat
      /\ \A i \in 1 .. Len(rows) : Append(rows, row)[i] = rows[i]
      /\ Append(rows, row)[Len(rows) + 1] = row
      /\ \A i \in 1 .. Len(rows) + 1 : i \in 1 .. Len(rows) \/ i = Len(rows) + 1
  BY <1>2, <1>3, Appended
<1>7. /\ Own(rows, serial) /\ iteration > 0
      /\ \A j \in 1 .. Len(rows) :
           rows[j].kind # "answer" /\ (OfTurn(rows[j]) => rows[j].turn[2] < iteration)
      /\ ~patchy => /\ Paired(rows) /\ rows # <<>>
                    /\ rows[Len(rows)].kind # "calls"
  BY DEF IInv, RowsInv, Reached
<1>8. TypeInv'
  <2>1. rows' \in Seq(RowSet)
    BY <1>2, <1>5, <1>6
  <2>2. memory' \in Seq(MsgSet)
    <3>1. Native(family, row) \in MsgSet
      BY <1>2, <1>3, NativeIs
    <3>2. Append(memory, Native(family, row)) \in Seq(MsgSet)
      BY <1>2, <3>1
    <3>3. QED  BY <1>1, <1>2, <3>2 DEF Remember, row
  <2>3. patchy' \in BOOLEAN /\ attempt' \in Nat
    BY <1>1, <1>2
  <2>4. QED  BY <1>1, <2>1, <2>2, <2>3 DEF IInv, TypeInv
<1>9. TasksInv' /\ History(path, family)' = History(path, family)
  BY <1>1, Serving DEF IInv
<1>10. IdleInv' /\ StreamInv'
  BY <1>1 DEF IInv, IdleInv, StreamInv
<1>11. CallsAssembled'
  BY <1>1 DEF CallsAssembled
<1>12. RowsInv'
  <2>1. \A j \in 1 .. Len(rows') : rows'[j] = row \/ \E k \in 1 .. Len(rows) : rows'[j] = rows[k]
    BY <1>5, <1>6
  <2>2. \A j \in 1 .. Len(rows) : OfTurn(rows[j]) => rows[j].turn[1] = serial
    BY <1>7 DEF Own
  <2>3. Own(rows', serial)
    BY <1>4, <2>1, <2>2 DEF Own
  <2>4. ASSUME NEW j \in 1 .. Len(rows')
        PROVE  rows'[j].kind # "answer" /\ (OfTurn(rows'[j]) => rows'[j].turn[2] <= iteration)
    <3>1. CASE rows'[j] = row
      BY <1>2, <1>4, <3>1
    <3>2. ASSUME NEW k \in 1 .. Len(rows), rows'[j] = rows[k]
          PROVE  rows'[j].kind # "answer" /\ (OfTurn(rows'[j]) => rows'[j].turn[2] <= iteration)
      <4>1. rows[k] \in RowSet
        BY <1>2
      <4>2. rows[k].turn[2] \in Nat
        BY <4>1 DEF RowSet
      <4>3. QED  BY <1>2, <1>7, <3>2, <4>2
    <3>3. QED  BY <2>1, <3>1, <3>2
  <2>5. ASSUME ~patchy' PROVE /\ Paired(rows') /\ rows' # <<>>
                              /\ rows'[Len(rows')] = Row("calls", family, Turn)
    <3>1. ~patchy /\ ~bad /\ rows' = Append(rows, row)
      BY <1>1, <1>5, <2>5
    <3>2. \A j \in 1 .. Len(rows) : rows[j].kind = "calls" => rows[j].turn # Turn
      <4>1. \A j \in 1 .. Len(rows) : rows[j].kind = "calls" => rows[j].turn[2] # iteration
        <5> SUFFICES ASSUME NEW j \in 1 .. Len(rows), rows[j].kind = "calls"
                     PROVE  rows[j].turn[2] # iteration
          OBVIOUS
        <5>1. rows[j] \in RowSet
          BY <1>2
        <5>2. rows[j].turn[2] \in Nat
          BY <5>1 DEF RowSet
        <5>3. rows[j].turn[2] < iteration
          BY <1>7 DEF OfTurn
        <5>4. QED  BY <1>2, <5>2, <5>3
      <4>2. Turn[2] = iteration
        BY DEF Turn
      <4>3. QED  BY <4>1, <4>2
    <3>3. Paired(Append(rows, Row("calls", family, Turn)))
      <4>1. Row("calls", family, Turn) \in RowSet /\ "calls" \in Kinds
        BY <1>3 DEF row, Kinds
      <4>2. QED  BY <1>2, <1>7, <3>1, <3>2, <4>1, PairedAppend
    <3>4. rows' # <<>> /\ rows'[Len(rows')] = row
      BY <1>6, <3>1
    <3>5. QED  BY <3>1, <3>3, <3>4 DEF row
  <2>6. Turn' = Turn
    BY <1>1 DEF Turn
  <2>7. QED  BY <1>1, <1>7, <2>3, <2>4, <2>5, <2>6 DEF RowsInv, Reached
<1>13. SentInv'
  <2> SUFFICES ASSUME ~patchy'
               PROVE  /\ prior = History(path, family)
                      /\ path = "workflow" => memory' = prior \o Remembered'
    BY <1>1, <1>9 DEF SentInv
  <2>1. ~patchy /\ ~bad /\ rows' = Append(rows, row)
    BY <1>1, <1>5
  <2>2. prior = History(path, family) /\ (path = "workflow" => memory = prior \o Remembered)
    BY <2>1 DEF IInv, SentInv
  <2>3. ASSUME path = "workflow" PROVE memory' = prior \o Remembered'
    <3>1. memory' = Append(memory, Native(family, row))
      BY <1>1, <2>1, <2>3 DEF Remember, row
    <3>2. InMemory(family, row) = Native(family, row)
      BY <1>4 DEF InMemory
    <3>3. Remembered' = Mind(family, Append(rows, row)) /\ Remembered = Mind(family, rows)
      BY <1>1, <2>1 DEF Remembered, Mind
    <3>4. prior \o Remembered' = Append(prior \o Remembered, InMemory(family, row))
      BY <1>2, <1>3, <3>3, RememberedNext
    <3>5. QED  BY <2>2, <2>3, <3>1, <3>2, <3>4
  <2>4. QED  BY <2>2, <2>3
<1>14. StreakInv'
  <2>1. streak = 0
    BY DEF IInv, StreakInv, TypeInv
  <2>2. QED  BY <1>1, <2>1 DEF IInv, StreakInv
<1>15. QED  BY <1>8, <1>9, <1>10, <1>11, <1>12, <1>13, <1>14 DEF IInv

LEMMA AnswersKeep ==
  ASSUME IInv, stage = "stream", NEW bad \in BOOLEAN, TurnAnswers(bad)
  PROVE  IInv'
<1> DEFINE tr == IF family = "openai" THEN rows ELSE Record("answer", bad)
           row == Row("answer", family, Turn)
<1>1. /\ rows \in Seq(RowSet) /\ patchy \in BOOLEAN /\ streak' = streak /\ streak = 0
      /\ Close(tr, patchy \/ bad)
  BY DEF TurnAnswers, IInv, TypeInv, StreakInv
<1>2. row \in RowSet /\ row.kind = "answer" /\ "answer" \in Kinds
  <2>1. "answer" \in Kinds
    BY DEF Kinds
  <2>2. row \in RowSet
    BY <2>1, RowType DEF IInv
  <2>3. QED  BY <2>1, <2>2 DEF Row
<1>3. Own(rows, serial) /\ (~patchy => Paired(rows) /\ rows # <<>> /\ rows[Len(rows)].kind # "calls")
  BY DEF IInv, RowsInv
<1> HIDE DEF row
<1>4. /\ Append(rows, row) \in Seq(RowSet) /\ Len(Append(rows, row)) = Len(rows) + 1
      /\ \A i \in 1 .. Len(rows) : Append(rows, row)[i] = rows[i]
      /\ Append(rows, row)[Len(rows) + 1] = row
      /\ \A i \in 1 .. Len(rows) + 1 : i \in 1 .. Len(rows) \/ i = Len(rows) + 1
  BY <1>1, <1>2, Appended
<1>5. tr = rows \/ (~bad /\ tr = Append(rows, row))
  BY DEF Record, row
<1>6. tr \in Seq(RowSet)
  BY <1>1, <1>4, <1>5
<1>7. Own(tr, serial)
  <2>1. CASE tr = rows
    BY <1>3, <2>1
  <2>2. CASE tr = Append(rows, row)
    <3>1. \A i \in 1 .. Len(rows) : OfTurn(rows[i]) => rows[i].turn[1] = serial
      BY <1>3 DEF Own
    <3>2. ~OfTurn(row)
      BY <1>2 DEF OfTurn
    <3> HIDE DEF tr
    <3>3. QED  BY <1>4, <2>2, <3>1, <3>2 DEF Own
  <2>3. QED  BY <1>5, <2>1, <2>2
<1>8. ASSUME ~(patchy \/ bad) PROVE Paired(tr)
  <2>1. Paired(rows)
    BY <1>3, <1>8
  <2>2. Paired(Append(rows, row))
    <3>1. Paired(Append(rows, Row("answer", family, Turn)))
      BY <1>1, <1>2, <1>3, <1>8, PairedAppend DEF row
    <3>2. QED  BY <3>1 DEF row
  <2>3. QED  BY <1>5, <2>1, <2>2
<1> HIDE DEF tr
<1>9. (patchy \/ bad) \in BOOLEAN
  BY <1>1
<1>10. QED  BY <1>1, <1>6, <1>7, <1>8, <1>9, CloseKeeps

LEMMA FinishKeeps ==
  ASSUME IInv, NEW cut \in BOOLEAN, NEW bad \in BOOLEAN
  PROVE  /\ FinishOpenAI(cut, bad) => IInv'
         /\ \A n \in 0 .. MaxCalls : FinishAnthropic(n, cut, bad) => IInv'
<1>1. ASSUME FinishOpenAI(cut, bad) PROVE IInv'
  <2>1. /\ stage = "stream" /\ family = "openai"
        /\ cut \/ \A i \in Index : sent[i] \in {0, Pieces + 1}
        /\ IF Assembled = <<>> THEN ~bad /\ TurnAnswers(bad) ELSE TurnCalls(Assembled, cut, bad)
    BY <1>1 DEF FinishOpenAI
  <2>2. CASE Assembled = <<>>
    BY <2>1, <2>2, AnswersKeep
  <2>3. CASE Assembled # <<>>
    <3>1. TurnCalls(Assembled, cut, bad)
      BY <2>1, <2>3
    <3>2. UNCHANGED <<sent, acc>>
      BY <3>1 DEF TurnCalls
    <3>3. /\ \A k \in DOMAIN Assembled :
               Assembled[k].index = k /\ (Assembled[k].input = "whole" \/ cut)
          /\ Len(Assembled) = Cardinality({i \in Index : sent[i] > 0})
      BY <2>1, AssembledIs DEF IInv
    <3>4. QED  BY <2>1, <3>1, <3>2, <3>3, CallsKeep
  <2>4. QED  BY <2>2, <2>3
<1>2. ASSUME NEW n \in 0 .. MaxCalls, FinishAnthropic(n, cut, bad) PROVE IInv'
  <2>1. /\ stage = "stream" /\ family = "anthropic"
        /\ IF n = 0 THEN TurnAnswers(bad) ELSE TurnCalls(Blocks(n, cut), cut, bad)
    BY <1>2 DEF FinishAnthropic
  <2>2. CASE n = 0
    BY <2>1, <2>2, AnswersKeep
  <2>3. CASE n # 0
    <3>1. TurnCalls(Blocks(n, cut), cut, bad)
      BY <2>1, <2>3
    <3>2. UNCHANGED <<sent, acc>>
      BY <3>1 DEF TurnCalls
    <3>3. \A k \in DOMAIN Blocks(n, cut) :
            Blocks(n, cut)[k].index = k /\ (Blocks(n, cut)[k].input = "whole" \/ cut)
      BY DEF Blocks, Call
    <3>4. QED  BY <2>1, <3>1, <3>2, <3>3, CallsKeep
  <2>4. QED  BY <2>2, <2>3
<1>3. QED  BY <1>1, <1>2

\* A message that ends with the transcript it has.
LEMMA ClosedAsIs ==
  ASSUME IInv, stage \in {"stream", "fanout"} \/ (stage = "plan" /\ iteration >= MaxIterations),
         Close(rows, patchy), UNCHANGED streak
  PROVE  IInv'
<1>1. /\ rows \in Seq(RowSet) /\ patchy \in BOOLEAN /\ stage # "idle"
      /\ streak \in 0 .. Kept /\ Kept \in Nat /\ HistoryWindow \in Nat /\ iteration \in Nat
  BY ConstantsAssumption DEF IInv, TypeInv
<1>2. Own(rows, serial) /\ (~patchy => Paired(rows))
  BY <1>1 DEF IInv, RowsInv
<1>3. \/ streak' = 0
      \/ /\ rows = <<UserRow>> /\ streak' \in 1 .. Kept /\ streak' <= streak + 1
         /\ HistoryWindow > 0 => streak' <= HistoryWindow
  <2>1. CASE streak = 0
    BY <2>1
  <2>2. CASE streak # 0
    <3>1. stage = "plan" /\ iteration = 0
      BY <1>1, <2>2 DEF IInv, StreakInv
    <3>2. rows = <<UserRow>>
      BY <3>1 DEF IInv, RowsInv
    <3>3. HistoryWindow > 0 => streak <= HistoryWindow
      BY DEF IInv, StreakInv
    <3>4. QED  BY <1>1, <2>2, <3>2, <3>3
  <2>3. QED  BY <2>1, <2>2
<1>4. QED  BY <1>1, <1>2, <1>3, CloseKeeps

\* An attempt more begins its stream anew.
LEMMA RetryKeeps ==
  ASSUME IInv, stage = "stream", attempt' = attempt + 1, NoStream,
         UNCHANGED <<stage, message, tasks, rows, memory, iteration, serial, patchy, streak>>
  PROVE  IInv'
<1>1. /\ stage' = stage /\ path' = path /\ family' = family /\ prior' = prior
      /\ tasks' = tasks /\ rows' = rows /\ memory' = memory /\ iteration' = iteration
      /\ serial' = serial /\ patchy' = patchy /\ streak' = streak
      /\ sent' = [i \in Index |-> 0] /\ acc' = Nothing /\ truncated' = FALSE
  BY DEF message, NoStream
<1>2. TypeInv'
  <2>1. <<>> \in Seq(Nat \X Nat) /\ Pieces \in Nat /\ attempt \in Nat
    BY ConstantsAssumption DEF IInv, TypeInv
  <2>2. acc' \in [Index -> Seq(Nat \X Nat)] /\ sent' \in [Index -> 0 .. Pieces + 1]
    BY <1>1, <2>1 DEF Nothing
  <2>3. attempt' \in Nat
    BY <2>1
  <2>4. QED  BY <1>1, <2>2, <2>3 DEF IInv, TypeInv
<1>3. TasksInv' /\ History(path, family)' = History(path, family)
  BY <1>1, Serving DEF IInv
<1>4. IdleInv' /\ CallsAssembled'
  BY <1>1 DEF IdleInv, CallsAssembled
<1>5. RowsInv'
  <2>1. Turn' = Turn /\ \A r : Reached(r)' = Reached(r)
    BY <1>1 DEF Turn, Reached
  <2>2. QED  BY <1>1, <2>1 DEF IInv, RowsInv
<1>6. SentInv'
  <2>1. Remembered' = Remembered
    BY <1>1 DEF Remembered
  <2>2. QED  BY <1>1, <1>3, <2>1 DEF IInv, SentInv
<1>7. StreakInv'
  BY <1>1 DEF IInv, StreakInv
<1>8. StreamInv'
  <2>1. \A i \in Index : sent'[i] = 0 /\ acc'[i] = <<>>
    BY <1>1 DEF Nothing
  <2>2. ASSUME NEW i \in Index PROVE acc'[i] = [k \in 1 .. sent'[i] |-> <<i, k>>]
    <3>1. 1 .. sent'[i] = {}
      BY <2>1
    <3>2. [k \in {} |-> <<i, k>>] = <<>>
      OBVIOUS
    <3>3. QED  BY <2>1, <3>1, <3>2
  <2>3. \A i \in Index : ~(sent'[i] > 0)
    BY <2>1
  <2>4. QED  BY <2>2, <2>3, Zenon DEF StreamInv
<1>9. QED  BY <1>2, <1>3, <1>4, <1>5, <1>6, <1>7, <1>8 DEF IInv

\* The results of a turn follow its calls, in the store and in memory.
LEMMA AnsweredKeeps ==
  ASSUME IInv, NEW bad \in BOOLEAN, Answered(bad)
  PROVE  IInv'
<1> DEFINE row == Row("results", family, Turn)
<1>1. /\ stage = "fanout" /\ stage' = "plan"
      /\ rows' = Record("results", bad)
      /\ memory' = IF path = "workflow" THEN Append(memory, Msg("results", Turn)) ELSE memory
      /\ patchy' = (patchy \/ bad)
      /\ path' = path /\ family' = family /\ prior' = prior /\ tasks' = tasks
      /\ iteration' = iteration /\ attempt' = attempt /\ serial' = serial /\ streak' = streak
      /\ sent' = [i \in Index |-> 0] /\ acc' = Nothing /\ truncated' = FALSE
  BY DEF Answered, message, NoStream
<1>2. /\ rows \in Seq(RowSet) /\ memory \in Seq(MsgSet) /\ prior \in Seq(MsgSet)
      /\ family \in {"anthropic", "openai"} /\ patchy \in BOOLEAN /\ iteration \in Nat
      /\ serial \in 0 .. Kept
  BY ConstantsAssumption DEF IInv, TypeInv
<1>3. row \in RowSet /\ Turn \in Nat \X Nat /\ "results" \in Kinds
  <2>1. "results" \in Kinds
    BY DEF Kinds
  <2>2. QED  BY <2>1, RowType DEF IInv
<1>4. row.kind = "results" /\ row.turn = Turn /\ row.by = family
  BY DEF Row
<1> HIDE DEF row
<1>5. rows' = IF bad THEN rows ELSE Append(rows, row)
  BY <1>1 DEF Record, row
<1>6. /\ Append(rows, row) \in Seq(RowSet) /\ Len(Append(rows, row)) = Len(rows) + 1
      /\ Len(rows) \in Nat
      /\ \A i \in 1 .. Len(rows) : Append(rows, row)[i] = rows[i]
      /\ Append(rows, row)[Len(rows) + 1] = row
      /\ \A i \in 1 .. Len(rows) + 1 : i \in 1 .. Len(rows) \/ i = Len(rows) + 1
  BY <1>2, <1>3, Appended
<1>7. /\ Own(rows, serial) /\ iteration > 0
      /\ \A j \in 1 .. Len(rows) :
           rows[j].kind # "answer" /\ (OfTurn(rows[j]) => rows[j].turn[2] <= iteration)
      /\ ~patchy => /\ Paired(rows) /\ rows # <<>>
                    /\ rows[Len(rows)] = Row("calls", family, Turn)
  BY <1>1 DEF IInv, RowsInv, Reached
<1>8. TypeInv'
  <2>1. rows' \in Seq(RowSet)
    BY <1>2, <1>5, <1>6
  <2>2. memory' \in Seq(MsgSet)
    <3>1. Msg("results", Turn) \in MsgSet
      BY <1>3 DEF Msg, MsgSet, Forms
    <3>2. Append(memory, Msg("results", Turn)) \in Seq(MsgSet)
      BY <1>2, <3>1
    <3>3. QED  BY <1>1, <1>2, <3>2
  <2>3. patchy' \in BOOLEAN
    BY <1>1, <1>2
  <2>4. <<>> \in Seq(Nat \X Nat) /\ Pieces \in Nat
    BY ConstantsAssumption
  <2>5. acc' \in [Index -> Seq(Nat \X Nat)] /\ sent' \in [Index -> 0 .. Pieces + 1]
    BY <1>1, <2>4 DEF Nothing
  <2>6. QED  BY <1>1, <2>1, <2>2, <2>3, <2>5 DEF IInv, TypeInv
<1>9. TasksInv' /\ History(path, family)' = History(path, family)
  BY <1>1, Serving DEF IInv
<1>10. IdleInv' /\ CallsAssembled'
  BY <1>1 DEF IdleInv, CallsAssembled
<1>11. StreamInv'
  <2>1. \A i \in Index : sent'[i] = 0 /\ acc'[i] = <<>>
    BY <1>1 DEF Nothing
  <2>2. ASSUME NEW i \in Index PROVE acc'[i] = [k \in 1 .. sent'[i] |-> <<i, k>>]
    <3>1. 1 .. sent'[i] = {}
      BY <2>1
    <3>2. [k \in {} |-> <<i, k>>] = <<>>
      OBVIOUS
    <3>3. QED  BY <2>1, <3>1, <3>2
  <2>3. \A i \in Index : ~(sent'[i] > 0)
    BY <2>1
  <2>4. QED  BY <2>2, <2>3, Zenon DEF StreamInv
<1>12. RowsInv'
  <2>1. \A j \in 1 .. Len(rows') : rows'[j] = row \/ \E k \in 1 .. Len(rows) : rows'[j] = rows[k]
    BY <1>5, <1>6
  <2>2. \A j \in 1 .. Len(rows) : OfTurn(rows[j]) => rows[j].turn[1] = serial
    BY <1>7 DEF Own
  <2>3. Turn[1] = serial /\ Turn[2] = iteration
    BY DEF Turn
  <2>4. Own(rows', serial)
    BY <1>4, <2>1, <2>2, <2>3 DEF Own
  <2>5. ASSUME NEW j \in 1 .. Len(rows')
        PROVE  rows'[j].kind # "answer" /\ (OfTurn(rows'[j]) => rows'[j].turn[2] <= iteration)
    <3>1. CASE rows'[j] = row
      <4>1. row.kind # "answer"
        BY <1>4
      <4>2. row.turn[2] <= iteration
        BY <1>2, <1>4, <2>3
      <4>3. QED  BY <3>1, <4>1, <4>2
    <3>2. ASSUME NEW k \in 1 .. Len(rows), rows'[j] = rows[k]
          PROVE  rows'[j].kind # "answer" /\ (OfTurn(rows'[j]) => rows'[j].turn[2] <= iteration)
      BY <1>7, <3>2
    <3>3. QED  BY <2>1, <3>1, <3>2
  <2>6. ASSUME ~patchy' PROVE /\ Paired(rows') /\ rows' # <<>>
                              /\ rows'[Len(rows')].kind # "calls"
    <3>1. ~patchy /\ ~bad /\ rows' = Append(rows, row)
      BY <1>1, <1>5, <2>6
    <3>2. Paired(Append(rows, Row("results", family, Turn)))
      <4>1. Row("results", family, Turn) \in RowSet
        BY <1>3 DEF row
      <4>2. QED  BY <1>2, <1>3, <1>7, <3>1, <4>1, PairedAppend
    <3>3. rows' # <<>> /\ rows'[Len(rows')] = row
      BY <1>6, <3>1
    <3>4. QED  BY <1>4, <3>1, <3>2, <3>3 DEF row
  <2>7. iteration # 0
    BY <1>2, <1>7
  <2>8. QED  BY <1>1, <2>4, <2>5, <2>6, <2>7 DEF RowsInv, Reached
<1>13. SentInv'
  <2>1. iteration # 0
    BY <1>2, <1>7
  <2> SUFFICES ASSUME ~patchy'
               PROVE  /\ prior = History(path, family)
                      /\ path = "workflow" => memory' = prior \o Remembered'
    BY <1>1, <1>9, <2>1 DEF SentInv
  <2>2. ~patchy /\ ~bad /\ rows' = Append(rows, row)
    BY <1>1, <1>5
  <2>3. prior = History(path, family) /\ (path = "workflow" => memory = prior \o Remembered)
    BY <1>1, <2>2 DEF IInv, SentInv
  <2>4. ASSUME path = "workflow" PROVE memory' = prior \o Remembered'
    <3>1. memory' = Append(memory, Msg("results", Turn))
      BY <1>1, <2>4
    <3>2. InMemory(family, row) = Msg("results", Turn)
      BY <1>4 DEF InMemory
    <3>3. Remembered' = Mind(family, Append(rows, row)) /\ Remembered = Mind(family, rows)
      BY <1>1, <2>2 DEF Remembered, Mind
    <3>4. prior \o Remembered' = Append(prior \o Remembered, InMemory(family, row))
      BY <1>2, <1>3, <3>3, RememberedNext
    <3>5. QED  BY <2>3, <2>4, <3>1, <3>2, <3>4
  <2>5. QED  BY <2>3, <2>4
<1>14. StreakInv'
  <2>1. streak = 0
    BY <1>1 DEF IInv, StreakInv, TypeInv
  <2>2. QED  BY <1>1, <2>1 DEF IInv, StreakInv
<1>15. QED  BY <1>8, <1>9, <1>10, <1>11, <1>12, <1>13, <1>14 DEF IInv

(***************************************************************************)
(* The theorems                                                            *)
(***************************************************************************)
LEMMA Inductive == IInv /\ [Next]_vars => IInv'
<1> SUFFICES ASSUME IInv, [Next]_vars PROVE IInv'
  OBVIOUS
<1>1. ASSUME NEW p \in Paths, NEW f \in Families, NEW lost \in BOOLEAN, Start(p, f, lost)
      PROVE  IInv'
  BY <1>1, StartKeeps
<1>2. CASE Ask
  BY <1>2, AskKeeps
<1>3. CASE Exhausted
  BY <1>3, ClosedAsIs DEF Exhausted
<1>4. CASE StreamFails
  BY <1>4, RetryKeeps, ClosedAsIs DEF StreamFails
<1>5. CASE CutShort
  BY <1>5, ClosedAsIs DEF CutShort
<1>6. ASSUME NEW i \in Index, Fragment(i) PROVE IInv'
  BY <1>6, FragmentKeeps
<1>7. ASSUME NEW bad \in BOOLEAN, Answered(bad) PROVE IInv'
  BY <1>7, AnsweredKeeps
<1>8. ASSUME NEW bad \in BOOLEAN, NEW cut \in BOOLEAN, FinishOpenAI(cut, bad) PROVE IInv'
  BY <1>8, FinishKeeps
<1>9. ASSUME NEW bad \in BOOLEAN, NEW cut \in BOOLEAN, NEW n \in 0 .. MaxCalls,
             FinishAnthropic(n, cut, bad)
      PROVE  IInv'
  BY <1>9, FinishKeeps
<1>10. CASE UNCHANGED vars
  <2>1. /\ stage' = stage /\ path' = path /\ family' = family /\ prior' = prior
        /\ tasks' = tasks /\ rows' = rows /\ memory' = memory /\ iteration' = iteration
        /\ attempt' = attempt /\ sent' = sent /\ acc' = acc /\ calls' = calls
        /\ truncated' = truncated /\ serial' = serial /\ patchy' = patchy /\ streak' = streak
    BY <1>10 DEF vars, message, stream
  <2>2. /\ TypeInv' /\ IdleInv' /\ StreakInv' /\ StreamInv' /\ CallsAssembled'
    BY <2>1 DEF IInv, TypeInv, IdleInv, StreakInv, StreamInv, CallsAssembled
  <2>3. TasksInv'
    <3>1. \A k : Age(k)' = Age(k)
      BY <2>1 DEF Age
    <3>2. QED  BY <2>1, <3>1 DEF IInv, TasksInv
  <2>4. RowsInv'
    <3>1. Turn' = Turn /\ \A r : Reached(r)' = Reached(r)
      BY <2>1 DEF Turn, Reached
    <3>2. QED  BY <2>1, <3>1 DEF IInv, RowsInv
  <2>5. SentInv'
    <3>1. Recent' = Recent
      BY <2>1 DEF Recent, LastOf
    <3>2. RecentRows' = RecentRows
      BY <3>1 DEF RecentRows
    <3>3. History(path, family)' = History(path, family)
      BY <2>1, <3>2 DEF History
    <3>4. Remembered' = Remembered
      BY <2>1 DEF Remembered
    <3>5. QED  BY <2>1, <3>3, <3>4 DEF IInv, SentInv
  <2>6. QED  BY <2>2, <2>3, <2>4, <2>5 DEF IInv
<1>11. QED  BY <1>1, <1>2, <1>3, <1>4, <1>5, <1>6, <1>7, <1>8, <1>9, <1>10 DEF Next

LEMMA Invariant == Spec => []IInv
<1>1. Init => IInv
  BY Initial
<1>2. IInv /\ [Next]_vars => IInv'
  BY Inductive
<1>3. QED  BY <1>1, <1>2, PTL DEF Spec

\* For any numbers of calls, pieces, attempts and iterations, any window and any
\* orders of fragments: every call the model began is made once, in its order and
\* with its own arguments, unless the stream was cut.
THEOREM CallsOwnArguments == Spec => []CallsAssembled
<1>1. IInv => CallsAssembled
  BY DEF IInv
<1>2. QED  BY <1>1, Invariant, PTL

\* For any window and any mixture of paths and providers, a planning request is
\* refused exactly when its history holds what RefusedExactly tells.
THEOREM RefusalsExact == Spec => []RefusedExactly
<1>1. IInv => RefusedExactly
  BY RefusedAsTold DEF IInv
<1>2. QED  BY <1>1, Invariant, PTL

\* For any window: after as many refused messages in a row as it is long, the
\* first request of the next message is accepted.
THEOREM RefusalsPass == Spec => []RefusalPasses
<1>1. IInv => RefusalPasses
  BY DEF IInv, StreakInv, RefusalPasses
<1>2. QED  BY <1>1, Invariant, PTL

\* For any window: the repair keeps every row of the window but the turns that
\* were cut short.
THEOREM RepairTakesOrphansOnly == Spec => []AnsweredTurnsKept
<1>1. IInv => AnsweredTurnsKept
  BY AnsweredKept DEF IInv
<1>2. QED  BY <1>1, Invariant, PTL

=============================================================================
