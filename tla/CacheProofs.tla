---------------------------- MODULE CacheProofs ----------------------------
(***************************************************************************)
(* What the three caches serve, and the rows behind one of them: the       *)
(* copies of a token first, then the applications and the cached           *)
(* orchestrators, and the cached list of a context at the end.             *)
(***************************************************************************)
EXTENDS TokenCache, Deployment, FiniteSetTheorems, WellFoundedInduction, TLAPS

-----------------------------------------------------------------------------
(***************************************************************************)
(* For all pods, tokens, lookups and times: an old copy of a token is      *)
(* served for less than Grace ticks after its row was disabled or deleted, *)
(* and after its user was deactivated.                                     *)
(*                                                                         *)
(* The invariant gives each place a copy can be in the oldest it may be:   *)
(* a lookup that holds the row is as late as it has waited; the copy in    *)
(* Redis, whose time left is counted against it, is TTL + Delay later at   *)
(* most; a lookup that holds a copy of Redis has its own wait on top; the  *)
(* dictionary of a pod another TTL.                                        *)
(***************************************************************************)

\* The time left of a copy in Redis and in a pod, against `off`, the ticks
\* since its row or its user stopped being valid.
SharedBound(off, left) == left > 0 => off + left <= TTL + Delay
LocalBound(off, left) == left > 0 => off + left <= Grace
TakenBound(off, l) == at[l] = "copied" => off - wait[l] <= TTL + Delay - 1

\* The copies of a token whose row is off.
RowInv ==
  /\ \A t \in Tokens : row[t] \in {"unborn", "enabled"} => rowOff[t] = 0
  /\ \A t \in Tokens : SharedBound(rowOff[t], shared[t])
  /\ \A p \in Pods, t \in Tokens : LocalBound(rowOff[t], local[p][t])
  /\ \A l \in Lookups : TakenBound(rowOff[token[l]], l)
  /\ \A l \in Lookups : at[l] \in HoldsRow => rowOff[token[l]] <= wait[l]

\* The copies of a user who is off.
UserInv ==
  /\ active => userOff = 0
  /\ keyValue \in KeyValues
  /\ \A t \in Tokens : SharedBound(userOff, shared[t])
  /\ \A p \in Pods, t \in Tokens : LocalBound(userOff, local[p][t])
  /\ \A l \in Lookups : TakenBound(userOff, l)
  /\ \A l \in Lookups : at[l] \in HoldsUser => userOff <= wait[l]

CopiesInv == TypeOK /\ RowInv /\ UserInv

\* What the assumptions say of the times.
LEMMA Times ==
  /\ TTL \in Nat /\ TTL >= 1 /\ UserTTL \in Nat /\ UserTTL >= 1 /\ Delay \in Nat
  /\ Grace = 2 * (TTL + Delay) - 1 /\ Grace \in Nat /\ Horizon = Grace
<1>1. TTL \in Nat /\ TTL >= 1 /\ UserTTL \in Nat /\ UserTTL >= 1 /\ Delay \in Nat
  BY TimesAssumption
<1> QED
  BY <1>1 DEF Grace, Horizon

LEMMA Bounds ==
  /\ 0 \in 0..TTL /\ TTL \in 0..TTL /\ 0 \in 0..UserTTL /\ UserTTL \in 0..UserTTL
  /\ 0 \in 0..Delay /\ 0 \in 0..Horizon /\ 0 \in 0..MaxEdits /\ MaxEdits \in Nat
BY Times, TimesAssumption

LEMMA LessType ==
  ASSUME NEW n \in Nat, NEW m \in 0..n
  PROVE  Less(m) \in 0..n /\ (Less(m) > 0 => m = Less(m) + 1)
BY DEF Less

LEMMA MoreType ==
  ASSUME NEW n \in 0..Horizon
  PROVE  More(n) \in 0..Horizon /\ More(n) <= n + 1
BY Times DEF More

LEMMA Places == Working \cup Done =
  {"shared", "copied", "row", "key", "ask", "mark", "unmark", "fill", "publish",
   "idle", "accepted", "refused"}
BY DEF Working, Done

LEMMA MoveTypes ==
  ASSUME TypeOK, NEW l \in Lookups, NEW from, NEW to \in Working \cup Done, Move(l, from, to)
  PROVE  at' \in [Lookups -> Working \cup Done]
BY DEF TypeOK, Move

LEMMA TypeInit == TokenInit => TypeOK
<1> SUFFICES ASSUME TokenInit PROVE TypeOK
  OBVIOUS
<1>1. userKey \in 0..UserTTL /\ keyValue \in KeyValues
  BY Bounds DEF TokenInit, KeyValues
<1>2. local \in [Pods -> [Tokens -> 0..TTL]] /\ shared \in [Tokens -> 0..TTL]
  BY Bounds DEF TokenInit
<1>3. at \in [Lookups -> Working \cup Done] /\ wait \in [Lookups -> 0..Delay]
  BY Bounds, Places DEF TokenInit
<1>4. editor \in [step : {"none", "local", "shared"}, pod : Pods, token : Tokens]
  BY DEF TokenInit
<1> QED
  BY <1>1, <1>2, <1>3, <1>4, Bounds DEF TokenInit, TypeOK

\* A lookup's step keeps the types of what it changes.
LEMMA LookupTypes ==
  ASSUME TypeOK, NEW l \in Lookups, LookupStep(l)
  PROVE  TypeOK'
<1>1. pod[l] \in Pods /\ token[l] \in Tokens
  BY DEF TypeOK
<1>2. at' \in [Lookups -> Working \cup Done]
  <2>1. CASE \E p \in Pods, t \in Tokens : BeginLookup(l, p, t)
    BY <2>1, MoveTypes, Places DEF BeginLookup
  <2>2. CASE GetShared(l) \/ TakeShared(l) \/ ReadRow(l)
    BY <2>2, MoveTypes, Places DEF GetShared, TakeShared, ReadRow
  <2>3. CASE GetUserKey(l) \/ AskService(l) \/ SetUserKey(l)
    BY <2>3, MoveTypes, Places DEF GetUserKey, AskService, SetUserKey
  <2>4. CASE FillLocal(l) \/ FillShared(l) \/ Return(l)
    BY <2>4, MoveTypes, Places DEF FillLocal, FillShared, Return, TypeOK
  <2> QED
    BY <2>1, <2>2, <2>3, <2>4 DEF LookupStep
<1>3. local' \in [Pods -> [Tokens -> 0..TTL]]
  <2>1. local \in [Pods -> [Tokens -> 0..TTL]]
    BY DEF TypeOK
  <2>2. UNCHANGED local \/ local' = [local EXCEPT ![pod[l]][token[l]] = TTL]
    BY DEF LookupStep, BeginLookup, HitLocal, GetShared, TakeShared, ReadRow, GetUserKey,
           AskService, SetUserKey, FillLocal, FillShared, Return
  <2> QED
    BY <1>1, <2>1, <2>2, Bounds
<1>4. shared' \in [Tokens -> 0..TTL]
  <2>1. shared \in [Tokens -> 0..TTL]
    BY DEF TypeOK
  <2>2. UNCHANGED shared \/ shared' = [shared EXCEPT ![token[l]] = TTL]
    BY DEF LookupStep, BeginLookup, GetShared, TakeShared, ReadRow, GetUserKey, AskService,
           SetUserKey, FillLocal, FillShared, Return
  <2> QED
    BY <1>1, <2>1, <2>2, Bounds
<1>5. userKey' \in 0..UserTTL /\ keyValue' \in KeyValues
  <2>1. userKey \in 0..UserTTL /\ keyValue \in KeyValues
    BY DEF TypeOK
  <2>2. \/ UNCHANGED <<userKey, keyValue>>
        \/ userKey' = UserTTL /\ keyValue' \in {Text("0"), Text("1")}
    BY DEF LookupStep, BeginLookup, GetShared, TakeShared, ReadRow, GetUserKey, AskService,
           SetUserKey, StoreUserKey, FillLocal, FillShared, Return
  <2> QED
    BY <2>1, <2>2, Bounds DEF KeyValues
<1>6. wait' \in [Lookups -> 0..Delay]
  <2>1. wait \in [Lookups -> 0..Delay]
    BY DEF TypeOK
  <2>2. UNCHANGED wait \/ wait' = [wait EXCEPT ![l] = 0]
    BY DEF LookupStep, BeginLookup, GetShared, TakeShared, ReadRow, GetUserKey, AskService,
           SetUserKey, FillLocal, FillShared, Return, Hold
  <2> QED
    BY <2>1, <2>2, Bounds
<1>7. pod' \in [Lookups -> Pods] /\ token' \in [Lookups -> Tokens]
      /\ sound' \in [Lookups -> BOOLEAN]
  <2>1. ASSUME NEW p \in Pods, NEW t \in Tokens, BeginLookup(l, p, t)
        PROVE  pod' \in [Lookups -> Pods] /\ token' \in [Lookups -> Tokens]
               /\ sound' \in [Lookups -> BOOLEAN]
    BY <2>1 DEF BeginLookup, TypeOK
  <2>2. \/ /\ UNCHANGED <<pod, token>>
           /\ UNCHANGED sound \/ sound' = [sound EXCEPT ![l] = FALSE]
        \/ \E p \in Pods, t \in Tokens : BeginLookup(l, p, t)
    BY DEF LookupStep, GetShared, TakeShared, ReadRow, GetUserKey, AskService,
           SetUserKey, FillLocal, FillShared, Return
  <2> QED
    BY <2>1, <2>2 DEF TypeOK
<1>8. UNCHANGED dataVars
  BY DEF LookupStep, BeginLookup, GetShared, TakeShared, ReadRow, GetUserKey, AskService,
         SetUserKey, FillLocal, FillShared, Return
<1> QED
  BY <1>2, <1>3, <1>4, <1>5, <1>6, <1>7, <1>8 DEF TypeOK, dataVars

\* So does a tick.
LEMMA TickTypes == TypeOK /\ Tick => TypeOK'
<1> SUFFICES ASSUME TypeOK, Tick PROVE TypeOK'
  OBVIOUS
<1>1. local' \in [Pods -> [Tokens -> 0..TTL]]
  <2>1. ASSUME NEW p \in Pods, NEW t \in Tokens PROVE Less(local[p][t]) \in 0..TTL
    <3>1. local[p][t] \in 0..TTL
      BY DEF TypeOK
    <3> QED
      BY <3>1, LessType, Times
  <2> QED
    BY <2>1 DEF Tick
<1>2. shared' \in [Tokens -> 0..TTL]
  <2>1. ASSUME NEW t \in Tokens PROVE Less(shared[t]) \in 0..TTL
    <3>1. shared[t] \in 0..TTL
      BY DEF TypeOK
    <3> QED
      BY <3>1, LessType, Times
  <2> QED
    BY <2>1 DEF Tick
<1>3. userKey' \in 0..UserTTL /\ keyValue' \in KeyValues
  <2>1. userKey \in 0..UserTTL /\ keyValue \in KeyValues
    BY DEF TypeOK
  <2>2. Less(userKey) \in 0..UserTTL
    BY <2>1, LessType, Times
  <2> QED
    BY <2>1, <2>2 DEF Tick, KeyValues
<1>4. rowOff' \in [Tokens -> 0..Horizon]
  <2>1. ASSUME NEW t \in Tokens
        PROVE  More(rowOff[t]) \in 0..Horizon
    <3>1. rowOff[t] \in 0..Horizon
      BY DEF TypeOK
    <3> QED
      BY <3>1, MoreType
  <2> QED
    BY <2>1, Bounds DEF Tick
<1>5. userOff' \in 0..Horizon
  <2>1. userOff \in 0..Horizon
    BY DEF TypeOK
  <2> QED
    BY <2>1, MoreType, Bounds DEF Tick
<1>6. wait' \in [Lookups -> 0..Delay]
  <2>1. ASSUME NEW l \in Lookups
        PROVE  (IF InFlight(l) THEN wait[l] + 1 ELSE wait[l]) \in 0..Delay
    <3>1. wait[l] \in 0..Delay
      BY DEF TypeOK
    <3>2. InFlight(l) => wait[l] < Delay
      BY DEF Tick
    <3> QED
      BY <3>1, <3>2, Times
  <2> QED
    BY <2>1 DEF Tick
<1> QED
  BY <1>1, <1>2, <1>3, <1>4, <1>5, <1>6 DEF Tick, TypeOK

\* An edit of a row keeps the types of all but the editor, which it leaves to
\* its callers.
LEMMA EditTypes ==
  ASSUME TypeOK, NEW t \in Tokens, NEW state \in {"enabled", "disabled", "deleted"},
         Edit(t, state),
         editor' \in [step : {"none", "local", "shared"}, pod : Pods, token : Tokens]
  PROVE  TypeOK'
<1>1. rowOff' \in [Tokens -> 0..Horizon]
  BY Bounds DEF Edit, TypeOK
<1>2. edits' \in 0..MaxEdits
  <2>1. edits \in 0..MaxEdits /\ edits < MaxEdits /\ edits' = edits + 1
    BY DEF Edit, TypeOK
  <2> QED
    BY <2>1, Bounds
<1>3. sound' \in [Lookups -> BOOLEAN]
  BY DEF Edit, StillSound, TypeOK
<1>4. row' \in [Tokens -> {"unborn", "enabled", "disabled", "deleted"}]
  BY DEF Edit, TypeOK
<1> QED
  BY <1>1, <1>2, <1>3, <1>4 DEF Edit, TypeOK

LEMMA TypeStep == TypeOK /\ [TokenNext]_tokenVars => TypeOK'
<1> SUFFICES ASSUME TypeOK, [TokenNext]_tokenVars PROVE TypeOK'
  OBVIOUS
<1>0. editor \in [step : {"none", "local", "shared"}, pod : Pods, token : Tokens]
      /\ local \in [Pods -> [Tokens -> 0..TTL]] /\ shared \in [Tokens -> 0..TTL]
  BY DEF TypeOK
<1>1. ASSUME NEW l \in Lookups, LookupStep(l) PROVE TypeOK'
  BY <1>1, LookupTypes
<1>2. ASSUME NEW t \in Tokens, CreateToken(t) PROVE TypeOK'
  BY <1>0, <1>2, EditTypes DEF CreateToken
<1>3. ASSUME NEW p \in Pods, NEW t \in Tokens, CommitEdit(p, t) PROVE TypeOK'
  BY <1>3, EditTypes DEF CommitEdit
<1>4. ASSUME DropLocal PROVE TypeOK'
  <2>1. local' \in [Pods -> [Tokens -> 0..TTL]]
    BY <1>0, <1>4, Bounds DEF DropLocal
  <2>2. editor' \in [step : {"none", "local", "shared"}, pod : Pods, token : Tokens]
    BY <1>0, <1>4 DEF DropLocal
  <2> QED
    BY <1>4, <2>1, <2>2 DEF DropLocal, lookVars, TypeOK
<1>5. ASSUME DropShared PROVE TypeOK'
  <2>1. shared' \in [Tokens -> 0..TTL]
    BY <1>0, <1>5, Bounds DEF DropShared
  <2>2. editor' \in [step : {"none", "local", "shared"}, pod : Pods, token : Tokens]
    BY <1>0, <1>5 DEF DropShared
  <2> QED
    BY <1>5, <2>1, <2>2 DEF DropShared, lookVars, TypeOK
<1>6. ASSUME NEW on \in BOOLEAN, SetActive(on) PROVE TypeOK'
  <2>1. userOff' \in 0..Horizon
    BY <1>6, Bounds DEF SetActive, TypeOK
  <2>2. edits' \in 0..MaxEdits
    <3>1. edits \in 0..MaxEdits /\ edits < MaxEdits /\ edits' = edits + 1
      BY <1>6 DEF SetActive, TypeOK
    <3> QED
      BY <3>1, Bounds
  <2>3. sound' \in [Lookups -> BOOLEAN]
    BY <1>6 DEF SetActive, StillSound, TypeOK
  <2> QED
    BY <1>6, <2>1, <2>2, <2>3 DEF SetActive, TypeOK
<1>7. ASSUME NEW p \in Pods, CrashPod(p) PROVE TypeOK'
  <2>1. local' \in [Pods -> [Tokens -> 0..TTL]]
    BY <1>0, <1>7, Bounds DEF CrashPod
  <2>2. at' \in [Lookups -> Working \cup Done]
    BY <1>7, Places DEF CrashPod, TypeOK
  <2>3. wait' \in [Lookups -> 0..Delay] /\ sound' \in [Lookups -> BOOLEAN]
    BY <1>7, Bounds DEF CrashPod, TypeOK
  <2>4. editor' \in [step : {"none", "local", "shared"}, pod : Pods, token : Tokens]
    BY <1>0, <1>7 DEF CrashPod
  <2> QED
    BY <1>7, <2>1, <2>2, <2>3, <2>4 DEF CrashPod, TypeOK
<1>8. ASSUME Tick PROVE TypeOK'
  BY <1>8, TickTypes
<1>9. CASE UNCHANGED tokenVars
  BY <1>9 DEF tokenVars, TypeOK
<1> QED
  BY <1>1, <1>2, <1>3, <1>4, <1>5, <1>6, <1>7, <1>8, <1>9 DEF TokenNext

-----------------------------------------------------------------------------
(* The ages *)

LEMMA CopiesInit == TokenInit => CopiesInv
<1> SUFFICES ASSUME TokenInit PROVE RowInv /\ UserInv
  BY TypeInit DEF CopiesInv
<1>1. RowInv
  BY DEF TokenInit, RowInv, SharedBound, LocalBound, TakenBound, HoldsRow
<1>2. UserInv
  BY DEF TokenInit, UserInv, SharedBound, LocalBound, TakenBound, HoldsUser, KeyValues
<1> QED
  BY <1>1, <1>2

\* What a lookup stores is within the bounds, if what it holds is.
LEMMA LookupCopies ==
  ASSUME TypeOK, NEW l \in Lookups, LookupStep(l), NEW t \in Tokens, NEW off \in Nat,
         SharedBound(off, shared[t]), \A p \in Pods : LocalBound(off, local[p][t]),
         token[l] = t /\ at[l] = "copied" => off <= TTL + 2 * Delay - 1,
         token[l] = t /\ at[l] \in {"fill", "publish"} => off <= Delay
  PROVE  SharedBound(off, shared'[t]) /\ \A p \in Pods : LocalBound(off, local'[p][t])
<1>1. pod[l] \in Pods /\ token[l] \in Tokens
      /\ local \in [Pods -> [Tokens -> 0..TTL]] /\ shared \in [Tokens -> 0..TTL]
  BY DEF TypeOK
<1>2. CASE TakeShared(l) \/ FillLocal(l)
  <2>1. /\ UNCHANGED shared
        /\ local' = [local EXCEPT ![pod[l]][token[l]] = TTL]
        /\ at[l] \in {"copied", "fill"}
    BY <1>2 DEF TakeShared, FillLocal, Move
  <2>2. token[l] = t => off + TTL <= Grace
    BY <2>1, Times
  <2>3. ASSUME NEW p \in Pods PROVE LocalBound(off, local'[p][t])
    <3>1. CASE p = pod[l] /\ token[l] = t
      BY <1>1, <2>1, <2>2, <3>1 DEF LocalBound
    <3>2. CASE ~(p = pod[l] /\ token[l] = t)
      <4>1. local'[p][t] = local[p][t]
        BY <1>1, <2>1, <3>2
      <4> QED
        BY <4>1
    <3> QED
      BY <3>1, <3>2
  <2> QED
    BY <2>1, <2>3
<1>3. CASE FillShared(l)
  <2>1. /\ UNCHANGED local /\ at[l] = "publish"
        /\ UNCHANGED shared \/ shared' = [shared EXCEPT ![token[l]] = TTL]
    BY <1>3 DEF FillShared, Move
  <2>2. token[l] = t => off + TTL <= TTL + Delay
    BY <2>1, Times
  <2> QED
    BY <1>1, <2>1, <2>2 DEF SharedBound
<1>4. CASE ~(TakeShared(l) \/ FillLocal(l) \/ FillShared(l))
  <2>1. UNCHANGED <<local, shared>>
    BY <1>4 DEF LookupStep, BeginLookup, HitLocal, GetShared, ReadRow, GetUserKey, AskService,
           SetUserKey, Return
  <2> QED
    BY <2>1
<1> QED
  BY <1>2, <1>3, <1>4

\* A tick takes from a copy what it adds to the age.
LEMMA TickCopies ==
  ASSUME TypeOK, Tick, NEW t \in Tokens, NEW off \in Nat, NEW new \in Nat, new <= off + 1,
         SharedBound(off, shared[t]), \A p \in Pods : LocalBound(off, local[p][t])
  PROVE  SharedBound(new, shared'[t]) /\ \A p \in Pods : LocalBound(new, local'[p][t])
<1>1. SharedBound(new, shared'[t])
  <2>1. shared[t] \in 0..TTL /\ shared'[t] = Less(shared[t])
    BY DEF TypeOK, Tick
  <2>2. Less(shared[t]) \in 0..TTL
        /\ (Less(shared[t]) > 0 => shared[t] = Less(shared[t]) + 1)
    BY <2>1, LessType, Times
  <2> QED
    BY <2>1, <2>2, Times DEF SharedBound
<1>2. ASSUME NEW p \in Pods PROVE LocalBound(new, local'[p][t])
  <2>1. local[p][t] \in 0..TTL /\ local'[p][t] = Less(local[p][t])
    BY DEF TypeOK, Tick
  <2>2. Less(local[p][t]) \in 0..TTL
        /\ (Less(local[p][t]) > 0 => local[p][t] = Less(local[p][t]) + 1)
    BY <2>1, LessType, Times
  <2> QED
    BY <2>1, <2>2, Times DEF LocalBound
<1> QED
  BY <1>1, <1>2

\* What the others do, and a stutter: copies stay or go, ages stay or start
\* again, and no lookup moves but to its end.
QuietCopies ==
  /\ \A t \in Tokens : shared'[t] \in {0, shared[t]}
  /\ \A p \in Pods, t \in Tokens : local'[p][t] \in {0, local[p][t]}
  /\ \A t \in Tokens : rowOff'[t] \in {0, rowOff[t]}
  /\ userOff' \in {0, userOff}
  /\ \A t \in Tokens : row'[t] \in {"unborn", "enabled"} => rowOff'[t] = 0
                                                            \/ row[t] = row'[t]
  /\ active' => userOff' = 0 \/ active
  /\ \A l \in Lookups : /\ token'[l] = token[l]
                        /\ at'[l] = "idle" \/ (at'[l] = at[l] /\ wait'[l] = wait[l])
  /\ UNCHANGED keyValue

LEMMA QuietSteps ==
  ASSUME TypeOK,
         \/ \E t \in Tokens : CreateToken(t)
         \/ \E p \in Pods, t \in Tokens : CommitEdit(p, t)
         \/ DropLocal \/ DropShared
         \/ \E on \in BOOLEAN : SetActive(on)
         \/ \E p \in Pods : CrashPod(p)
         \/ UNCHANGED tokenVars
  PROVE  QuietCopies
<1>1. ASSUME NEW t \in Tokens, NEW state \in {"enabled", "disabled", "deleted"}, Edit(t, state)
      PROVE  QuietCopies
  BY <1>1 DEF Edit, TypeOK, QuietCopies
<1>2. CASE \E t \in Tokens : CreateToken(t)
  BY <1>1, <1>2 DEF CreateToken
<1>3. CASE \E p \in Pods, t \in Tokens : CommitEdit(p, t)
  BY <1>1, <1>3 DEF CommitEdit
<1>4. CASE DropLocal
  <2>1. local \in [Pods -> [Tokens -> 0..TTL]]
    BY DEF TypeOK
  <2>2. \A p \in Pods, t \in Tokens : local'[p][t] \in {0, local[p][t]}
    BY <1>4, <2>1 DEF DropLocal
  <2> QED
    BY <1>4, <2>2 DEF DropLocal, lookVars, QuietCopies
<1>5. CASE DropShared
  BY <1>5 DEF DropShared, lookVars, TypeOK, QuietCopies
<1>6. CASE \E on \in BOOLEAN : SetActive(on)
  BY <1>6 DEF SetActive, QuietCopies
<1>7. CASE \E p \in Pods : CrashPod(p)
  <2> PICK q \in Pods : CrashPod(q)
    BY <1>7
  <2>1. local \in [Pods -> [Tokens -> 0..TTL]]
    BY DEF TypeOK
  <2>2. ASSUME NEW p \in Pods, NEW t \in Tokens PROVE local'[p][t] \in {0, local[p][t]}
    <3>1. local' = [local EXCEPT ![q] = [u \in Tokens |-> 0]]
      BY DEF CrashPod
    <3>2. local'[p] = IF p = q THEN [u \in Tokens |-> 0] ELSE local[p]
      BY <2>1, <3>1
    <3> QED
      BY <3>2
  <2>3. ASSUME NEW l \in Lookups
        PROVE  /\ token'[l] = token[l]
               /\ at'[l] = "idle" \/ (at'[l] = at[l] /\ wait'[l] = wait[l])
    <3>1. token' = token
      BY DEF CrashPod
    <3>2. CASE pod[l] = q
      <4>1. at'[l] = IF l \in {k \in Lookups : pod[k] = q} THEN "idle" ELSE at[l]
        BY DEF CrashPod
      <4> QED
        BY <3>1, <3>2, <4>1
    <3>3. CASE pod[l] # q
      <4>1. /\ at'[l] = IF l \in {k \in Lookups : pod[k] = q} THEN "idle" ELSE at[l]
            /\ wait'[l] = IF l \in {k \in Lookups : pod[k] = q} THEN 0 ELSE wait[l]
        BY DEF CrashPod
      <4> QED
        BY <3>1, <3>3, <4>1
    <3> QED
      BY <3>2, <3>3
  <2> QED
    BY <2>2, <2>3 DEF CrashPod, QuietCopies
<1>8. CASE UNCHANGED tokenVars
  BY <1>8 DEF tokenVars, QuietCopies
<1> QED
  BY <1>2, <1>3, <1>4, <1>5, <1>6, <1>7, <1>8

LEMMA RowStep == CopiesInv /\ [TokenNext]_tokenVars => RowInv'
<1> SUFFICES ASSUME CopiesInv, [TokenNext]_tokenVars PROVE RowInv'
  OBVIOUS
<1>0. TypeOK /\ RowInv /\ TypeOK'
  BY TypeStep DEF CopiesInv
<1>a. /\ \A t \in Tokens : rowOff[t] \in Nat /\ rowOff'[t] \in Nat
      /\ \A l \in Lookups : token[l] \in Tokens /\ wait[l] \in Nat /\ wait[l] <= Delay
      /\ \A l \in Lookups : token'[l] \in Tokens
  BY <1>0, Times DEF TypeOK
<1>1. ASSUME NEW l \in Lookups, LookupStep(l) PROVE RowInv'
  <2>1. UNCHANGED <<row, rowOff>>
    BY <1>1 DEF LookupStep, BeginLookup, GetShared, TakeShared, ReadRow, GetUserKey, AskService,
                SetUserKey, FillLocal, FillShared, Return, dataVars
  <2>2. /\ at[l] = "copied" => rowOff[token[l]] <= TTL + 2 * Delay - 1
        /\ at[l] \in {"fill", "publish"} => rowOff[token[l]] <= Delay
    BY <1>0, <1>a, Times DEF RowInv, TakenBound, HoldsRow
  <2>3. ASSUME NEW t \in Tokens
        PROVE  SharedBound(rowOff[t], shared'[t])
               /\ \A p \in Pods : LocalBound(rowOff[t], local'[p][t])
    BY <1>0, <1>1, <1>a, <2>2, LookupCopies DEF RowInv
  <2>4. ASSUME NEW k \in Lookups, k # l
        PROVE  at'[k] = at[k] /\ token'[k] = token[k] /\ wait'[k] = wait[k]
    BY <1>0, <1>1, <2>4
       DEF LookupStep, BeginLookup, GetShared, TakeShared, ReadRow, GetUserKey, AskService,
           SetUserKey, FillLocal, FillShared, Return, Move, Hold, TypeOK
  <2>5. at'[l] = "copied" =>
          token'[l] = token[l] /\ wait'[l] = 0 /\ shared[token[l]] > 0
    BY <1>0, <1>1
       DEF LookupStep, BeginLookup, GetShared, TakeShared, ReadRow, GetUserKey, AskService,
           SetUserKey, FillLocal, FillShared, Return, Move, Hold, TypeOK
  <2>6. at'[l] \in HoldsRow =>
          /\ token'[l] = token[l]
          /\ \/ wait'[l] = wait[l] /\ at[l] \in HoldsRow
             \/ wait'[l] = 0 /\ row[token[l]] = "enabled"
    BY <1>0, <1>1
       DEF LookupStep, BeginLookup, GetShared, TakeShared, ReadRow, GetUserKey, AskService,
           SetUserKey, FillLocal, FillShared, Return, Move, Hold, TypeOK, HoldsRow
  <2>7. ASSUME NEW k \in Lookups PROVE (TakenBound(rowOff[token[k]], k))'
    <3>1. CASE k # l
      BY <1>0, <2>1, <2>4, <3>1 DEF RowInv, TakenBound
    <3>2. CASE k = l
      <4>1. shared[token[l]] \in Nat
        BY <1>0, <1>a, Times DEF TypeOK
      <4>2. shared[token[l]] > 0 => rowOff[token[l]] + shared[token[l]] <= TTL + Delay
        BY <1>0, <1>a DEF RowInv, SharedBound
      <4> QED
        BY <1>a, <2>1, <2>5, <3>2, <4>1, <4>2, Times DEF TakenBound
    <3> QED
      BY <3>1, <3>2
  <2>8. ASSUME NEW k \in Lookups, at'[k] \in HoldsRow PROVE rowOff'[token'[k]] <= wait'[k]
    <3>1. CASE k # l
      BY <1>0, <2>1, <2>4, <2>8, <3>1 DEF RowInv
    <3>2. CASE k = l
      BY <1>0, <1>a, <2>1, <2>6, <2>8, <3>2 DEF RowInv
    <3> QED
      BY <3>1, <3>2
  <2>9. \A t \in Tokens : row'[t] \in {"unborn", "enabled"} => rowOff'[t] = 0
    BY <1>0, <2>1 DEF RowInv
  <2> QED
    BY <2>1, <2>3, <2>7, <2>8, <2>9 DEF RowInv, HoldsRow
<1>2. ASSUME QuietCopies PROVE RowInv'
  <2>1. ASSUME NEW t \in Tokens
        PROVE  /\ row'[t] \in {"unborn", "enabled"} => rowOff'[t] = 0
               /\ SharedBound(rowOff'[t], shared'[t])
               /\ \A p \in Pods : LocalBound(rowOff'[t], local'[p][t])
    <3>1. shared[t] \in Nat /\ \A p \in Pods : local[p][t] \in Nat
      BY <1>0, Times DEF TypeOK
    <3> QED
      BY <1>0, <1>2, <1>a, <3>1, Times DEF QuietCopies, RowInv, SharedBound, LocalBound
  <2>2. ASSUME NEW l \in Lookups
        PROVE  /\ (TakenBound(rowOff[token[l]], l))'
               /\ at'[l] \in HoldsRow => rowOff'[token'[l]] <= wait'[l]
    BY <1>0, <1>2, <1>a, Times DEF QuietCopies, RowInv, TakenBound, HoldsRow
  <2> QED
    BY <2>1, <2>2 DEF RowInv, HoldsRow
<1>3. ASSUME Tick PROVE RowInv'
  <2>1. ASSUME NEW t \in Tokens
        PROVE  /\ row'[t] \in {"unborn", "enabled"} => rowOff'[t] = 0
               /\ rowOff'[t] <= rowOff[t] + 1
    <3>1. rowOff[t] \in 0..Horizon
      BY <1>0 DEF TypeOK
    <3>2. rowOff'[t] = IF row[t] \in {"disabled", "deleted"} THEN More(rowOff[t]) ELSE 0
      BY <1>3 DEF Tick
    <3>3. row'[t] = row[t]
      BY <1>3 DEF Tick
    <3> QED
      BY <1>0, <3>1, <3>2, <3>3, MoreType DEF RowInv
  <2>2. ASSUME NEW t \in Tokens
        PROVE  SharedBound(rowOff'[t], shared'[t])
               /\ \A p \in Pods : LocalBound(rowOff'[t], local'[p][t])
    BY <1>0, <1>3, <1>a, <2>1, TickCopies DEF RowInv
  <2>3. ASSUME NEW l \in Lookups
        PROVE  /\ (TakenBound(rowOff[token[l]], l))'
               /\ at'[l] \in HoldsRow => rowOff'[token'[l]] <= wait'[l]
    <3>1. at'[l] = at[l] /\ token'[l] = token[l]
      BY <1>3 DEF Tick
    <3>2. at[l] \in ReadingPlaces => wait'[l] = wait[l] + 1
      BY <1>3 DEF Tick, InFlight
    <3>3. rowOff'[token[l]] <= rowOff[token[l]] + 1
      BY <1>a, <2>1
    <3> QED
      BY <1>0, <1>a, <3>1, <3>2, <3>3, Times DEF RowInv, TakenBound, HoldsRow, ReadingPlaces
  <2> QED
    BY <2>1, <2>2, <2>3 DEF RowInv, HoldsRow
<1> QED
  BY <1>0, <1>1, <1>2, <1>3, QuietSteps DEF TokenNext

LEMMA UserStep == CopiesInv /\ [TokenNext]_tokenVars => UserInv'
<1> SUFFICES ASSUME CopiesInv, [TokenNext]_tokenVars PROVE UserInv'
  OBVIOUS
<1>0. TypeOK /\ UserInv /\ TypeOK'
  BY TypeStep DEF CopiesInv
<1>a. /\ userOff \in Nat /\ userOff' \in Nat
      /\ \A l \in Lookups : token[l] \in Tokens /\ wait[l] \in Nat /\ wait[l] <= Delay
  BY <1>0, Times DEF TypeOK
<1>b. keyValue' \in KeyValues
  BY <1>0 DEF TypeOK
<1>1. ASSUME NEW l \in Lookups, LookupStep(l) PROVE UserInv'
  <2>1. UNCHANGED <<active, userOff>>
    BY <1>1 DEF LookupStep, BeginLookup, GetShared, TakeShared, ReadRow, GetUserKey, AskService,
                SetUserKey, FillLocal, FillShared, Return, dataVars
  <2>2. /\ at[l] = "copied" => userOff <= TTL + 2 * Delay - 1
        /\ at[l] \in {"fill", "publish"} => userOff <= Delay
    BY <1>0, <1>a, Times DEF UserInv, TakenBound, HoldsUser
  <2>3. ASSUME NEW t \in Tokens
        PROVE  SharedBound(userOff, shared'[t])
               /\ \A p \in Pods : LocalBound(userOff, local'[p][t])
    BY <1>0, <1>1, <1>a, <2>2, LookupCopies DEF UserInv
  <2>4. ASSUME NEW k \in Lookups, k # l PROVE at'[k] = at[k] /\ wait'[k] = wait[k]
    BY <1>0, <1>1, <2>4
       DEF LookupStep, BeginLookup, GetShared, TakeShared, ReadRow, GetUserKey, AskService,
           SetUserKey, FillLocal, FillShared, Return, Move, Hold, TypeOK
  <2>5. at'[l] = "copied" => wait'[l] = 0 /\ shared[token[l]] > 0
    BY <1>0, <1>1
       DEF LookupStep, BeginLookup, GetShared, TakeShared, ReadRow, GetUserKey, AskService,
           SetUserKey, FillLocal, FillShared, Return, Move, Hold, TypeOK
  <2>6. ~ReadsAsActive(keyValue)
    <3>1. keyValue \in KeyValues
      BY <1>0 DEF UserInv
    <3>2. ASSUME NEW s PROVE Text(s) # Bytes("1")
      <4>1. Text(s).type = "str" /\ Bytes("1").type = "bytes"
        BY DEF Text, Bytes
      <4> QED
        BY <4>1
    <3> QED
      BY <3>1, <3>2 DEF ReadsAsActive, KeyValues, NoValue
  <2>7. at'[l] \in HoldsUser => wait'[l] = wait[l] /\ (active \/ at[l] \in HoldsUser)
    BY <1>0, <1>1, <2>6
       DEF LookupStep, BeginLookup, GetShared, TakeShared, ReadRow, GetUserKey, AskService,
           SaysActive, SetUserKey, FillLocal, FillShared, Return, Move, Hold, TypeOK, HoldsUser
  <2>8. ASSUME NEW k \in Lookups PROVE (TakenBound(userOff, k))'
    <3>1. CASE k # l
      BY <1>0, <2>1, <2>4, <3>1 DEF UserInv, TakenBound
    <3>2. CASE k = l
      <4>1. shared[token[l]] \in Nat
        BY <1>0, <1>a, Times DEF TypeOK
      <4>2. shared[token[l]] > 0 => userOff + shared[token[l]] <= TTL + Delay
        BY <1>0, <1>a DEF UserInv, SharedBound
      <4> QED
        BY <1>a, <2>1, <2>5, <3>2, <4>1, <4>2, Times DEF TakenBound
    <3> QED
      BY <3>1, <3>2
  <2>9. ASSUME NEW k \in Lookups, at'[k] \in HoldsUser PROVE userOff' <= wait'[k]
    <3>1. CASE k # l
      BY <1>0, <2>1, <2>4, <2>9, <3>1 DEF UserInv
    <3>2. CASE k = l
      BY <1>0, <1>a, <2>1, <2>7, <2>9, <3>2 DEF UserInv
    <3> QED
      BY <3>1, <3>2
  <2>10. active' => userOff' = 0
    BY <1>0, <2>1 DEF UserInv
  <2> QED
    BY <1>b, <2>1, <2>3, <2>8, <2>9, <2>10 DEF UserInv, HoldsUser, KeyValues, NoValue, Text
<1>2. ASSUME QuietCopies PROVE UserInv'
  <2>1. ASSUME NEW t \in Tokens
        PROVE  /\ SharedBound(userOff', shared'[t])
               /\ \A p \in Pods : LocalBound(userOff', local'[p][t])
    <3>1. shared[t] \in Nat /\ \A p \in Pods : local[p][t] \in Nat
      BY <1>0, Times DEF TypeOK
    <3> QED
      BY <1>0, <1>2, <1>a, <3>1, Times DEF QuietCopies, UserInv, SharedBound, LocalBound
  <2>2. ASSUME NEW l \in Lookups
        PROVE  /\ (TakenBound(userOff, l))'
               /\ at'[l] \in HoldsUser => userOff' <= wait'[l]
    BY <1>0, <1>2, <1>a, Times DEF QuietCopies, UserInv, TakenBound, HoldsUser
  <2>3. active' => userOff' = 0
    BY <1>0, <1>2 DEF QuietCopies, UserInv
  <2> QED
    BY <1>b, <2>1, <2>2, <2>3 DEF UserInv, HoldsUser, KeyValues, NoValue, Text
<1>3. ASSUME Tick PROVE UserInv'
  <2>1. userOff' <= userOff + 1 /\ (active' => userOff' = 0)
    <3>1. userOff \in 0..Horizon
      BY <1>0 DEF TypeOK
    <3>2. userOff' = (IF active THEN 0 ELSE More(userOff)) /\ active' = active
      BY <1>3 DEF Tick
    <3> QED
      BY <1>0, <3>1, <3>2, MoreType DEF UserInv
  <2>2. ASSUME NEW t \in Tokens
        PROVE  SharedBound(userOff', shared'[t])
               /\ \A p \in Pods : LocalBound(userOff', local'[p][t])
    BY <1>0, <1>3, <1>a, <2>1, TickCopies DEF UserInv
  <2>3. ASSUME NEW l \in Lookups
        PROVE  /\ (TakenBound(userOff, l))'
               /\ at'[l] \in HoldsUser => userOff' <= wait'[l]
    <3>1. at'[l] = at[l]
      BY <1>3 DEF Tick
    <3>2. at[l] \in ReadingPlaces => wait'[l] = wait[l] + 1
      BY <1>3 DEF Tick, InFlight
    <3> QED
      BY <1>0, <1>a, <2>1, <3>1, <3>2, Times
         DEF UserInv, TakenBound, HoldsUser, HoldsRow, ReadingPlaces
  <2> QED
    BY <1>b, <2>1, <2>2, <2>3 DEF UserInv, HoldsUser, KeyValues, NoValue, Text
<1> QED
  BY <1>0, <1>1, <1>2, <1>3, QuietSteps DEF TokenNext

\* The invariant of every behaviour, for any pods, tokens, lookups and times.
THEOREM AgesKept == TokenSpec => []CopiesInv
<1>1. TokenInit => CopiesInv
  BY CopiesInit
<1>2. CopiesInv /\ [TokenNext]_tokenVars => CopiesInv'
  BY TypeStep, RowStep, UserStep DEF CopiesInv
<1> QED
  BY <1>1, <1>2, PTL DEF TokenSpec

\* The types of the caches and of the lookups.
THEOREM TypeCorrect == TokenSpec => []TypeOK
<1>1. CopiesInv => TypeOK
  BY DEF CopiesInv
<1> QED
  BY <1>1, AgesKept, PTL

\* Whoever is accepted was answered from a copy that still had time left, or
\* has only just read the row.
LEMMA AcceptedInTime ==
  ASSUME CopiesInv, TokenNext, NEW l \in Lookups, Accepts(l)
  PROVE  rowOff[token'[l]] < Grace /\ userOff < Grace
<1>0. TypeOK /\ RowInv /\ UserInv
  BY DEF CopiesInv
<1>a. /\ \A t \in Tokens : rowOff[t] \in Nat
      /\ userOff \in Nat
      /\ token[l] \in Tokens /\ wait[l] \in Nat /\ wait[l] <= Delay
  BY <1>0, Times DEF TypeOK
<1>1. LookupStep(l)
  <2>1. at'[l] = "accepted" /\ at[l] # "accepted"
    BY DEF Accepts
  <2>2. ~QuietCopies
    BY <2>1 DEF QuietCopies
  <2>3. ~Tick
    BY <2>1 DEF Tick
  <2>4. ASSUME NEW k \in Lookups, LookupStep(k) PROVE k = l
    BY <1>0, <2>1, <2>4
       DEF LookupStep, BeginLookup, GetShared, TakeShared, ReadRow, GetUserKey, AskService,
           SetUserKey, FillLocal, FillShared, Return, Move, TypeOK
  <2> QED
    BY <1>0, <2>2, <2>3, <2>4, QuietSteps DEF TokenNext
<1>2. ASSUME NEW p \in Pods, NEW t \in Tokens, BeginLookup(l, p, t)
      PROVE  rowOff[token'[l]] < Grace /\ userOff < Grace
  <2>1. token'[l] = t /\ local[p][t] > 0
    BY <1>0, <1>2 DEF BeginLookup, Move, Accepts, TypeOK
  <2>2. local[p][t] \in Nat
    BY <1>0, Times DEF TypeOK
  <2> QED
    BY <1>0, <1>a, <2>1, <2>2, Times DEF RowInv, UserInv, LocalBound
<1>3. CASE TakeShared(l)
  <2>1. at[l] = "copied" /\ token'[l] = token[l]
    BY <1>3 DEF TakeShared, Move
  <2> QED
    BY <1>0, <1>a, <2>1, Times DEF RowInv, UserInv, TakenBound
<1>4. CASE FillShared(l)
  <2>1. at[l] = "publish" /\ token'[l] = token[l]
    BY <1>4 DEF FillShared, Move
  <2> QED
    BY <1>0, <1>a, <2>1, Times DEF RowInv, UserInv, HoldsRow, HoldsUser
<1>5. ~(GetShared(l) \/ ReadRow(l) \/ GetUserKey(l) \/ AskService(l) \/ SetUserKey(l)
        \/ FillLocal(l) \/ Return(l))
  BY <1>0 DEF Accepts, GetShared, ReadRow, GetUserKey, AskService, SetUserKey, FillLocal,
              Return, Move, TypeOK
<1> QED
  BY <1>1, <1>2, <1>3, <1>4, <1>5 DEF LookupStep

\* No token is accepted Grace ticks after its row was disabled or deleted.
THEOREM RevocationHolds == TokenSpec => RevokedStaysOut
<1>1. CopiesInv /\ [TokenNext]_tokenVars =>
        [\A l \in Lookups : Accepts(l) => rowOff[token'[l]] < Grace]_tokenVars
  BY AcceptedInTime
<1> QED
  BY <1>1, AgesKept, PTL DEF TokenSpec, RevokedStaysOut

\* Nor Grace ticks after its user was deactivated.
THEOREM DeactivationHolds == TokenSpec => DeactivatedStaysOut
<1>1. CopiesInv /\ [TokenNext]_tokenVars => [\A l \in Lookups : Accepts(l) => userOff < Grace]_tokenVars
  BY AcceptedInTime
<1> QED
  BY <1>1, AgesKept, PTL DEF TokenSpec, DeactivatedStaysOut

-----------------------------------------------------------------------------
(***************************************************************************)
(* Applications, for all applications, drawings, lists, names and numbers  *)
(* of requests at a time.                                                  *)
(*                                                                         *)
(* Referential is not inductive: a commit writes what its request planned  *)
(* when it read.  DeploymentInv says what is left of that plan at any      *)
(* later time: the ids it took are in no table and in no other plan, the   *)
(* rows it read are gone or still the application's and of the same name,  *)
(* and it links entry points only to rows it keeps or adds.  CacheInv adds *)
(* what a load in progress holds.                                          *)
(*                                                                         *)
(* First, what the operators on graphs and plans return.                   *)
(***************************************************************************)
LEMMA LeastExists ==
  ASSUME NEW B \in SUBSET Nat, B # {}
  PROVE  \E x \in B : \A y \in B : x <= y
<1>1. PICK x \in B : \A y \in B : ~(<<y, x>> \in OpToRel(<, Nat))
  BY NatLessThanWellFounded, WFMin
<1>2. \A y \in B : ~(y < x)
  BY <1>1 DEF OpToRel
<1>3. QED BY <1>2

LEMMA SetToSeqIs ==
  ASSUME NEW S, IsFiniteSet(S)
  PROVE  /\ Cardinality(S) \in Nat
         /\ SetToSeq(S) \in [1 .. Cardinality(S) -> S]
         /\ ToSet(SetToSeq(S)) = S
         /\ \A i, j \in 1 .. Cardinality(S) : SetToSeq(S)[i] = SetToSeq(S)[j] => i = j
<1> DEFINE n == Cardinality(S)
           s == SetToSeq(S)
<1>1. n \in Nat /\ ExistsBijection(1 .. n, S)
  BY FS_CardinalityType
<1>2. PICK f \in [1 .. n -> S] : \A i, j \in 1 .. n : f[i] = f[j] => i = j
  BY <1>1 DEF ExistsBijection, Bijection, Injection, IsInjective
<1>3. \E g \in [1 .. n -> S] : IsInjective(g)
  BY <1>2 DEF IsInjective
<1>4. s \in [1 .. n -> S] /\ IsInjective(s)
  BY <1>3 DEF SetToSeq
<1>5. s \in Injection(1 .. n, S)
  BY <1>4 DEF Injection, IsInjective
<1>6. IsFiniteSet(1 .. n) /\ Cardinality(1 .. n) = n
  BY <1>1, FS_Interval
<1>7. s \in Surjection(1 .. n, S)
  BY <1>5, <1>6, FS_Injection
<1>8. ToSet(s) = S
  BY <1>4, <1>7 DEF ToSet, Surjection
<1>9. QED BY <1>1, <1>4, <1>8 DEF IsInjective

LEMMA ImageFinite ==
  ASSUME NEW S, IsFiniteSet(S), NEW f
  PROVE  IsFiniteSet({f[x] : x \in S})
<1> DEFINE h == [x \in S |-> f[x]]
           T == {f[x] : x \in S}
<1>1. h \in Surjection(S, T)
  BY DEF Surjection
<1>2. QED BY <1>1, FS_Surjection

\* The shape the proofs need of a graph.
Shaped(g) ==
  /\ \A k \in {"entry", "orch", "agent"} : IsFiniteSet(NodesOf(g, k))
  /\ DOMAIN g.edges \subseteq Nat
  /\ \A n \in NodesOf(g, "entry") : n = <<n[1], 0>>

LEMMA NewIsShaped ==
  ASSUME NEW g, NewDrawing(g)
  PROVE  Shaped(g)
<1>1. DOMAIN g.edges \subseteq Nat
  BY DEF NewDrawing
<1>2. \A n \in NodesOf(g, "entry") : n = <<n[1], 0>>
  BY DEF NewDrawing, NodesOf
<1>3. ASSUME NEW k PROVE IsFiniteSet(NodesOf(g, k))
  BY FS_Subset DEF NewDrawing, NodesOf
<1>4. QED BY <1>1, <1>2, <1>3 DEF Shaped

LEMMA RebuiltIsShaped ==
  ASSUME NEW g, NewDrawing(g), NEW f, DOMAIN f = NodesOf(g, "orch")
  PROVE  Shaped(Rebuilt(g, f))
<1> DEFINE node(n) == IF n \in DOMAIN f /\ f[n] # 0 THEN <<"orch", f[n]>> ELSE n
           h == Rebuilt(g, f)
           nodes == {node(n) : n \in DOMAIN g.kind}
           pick(m) == CHOOSE n \in DOMAIN g.kind : node(n) = m
<1>1. h.kind = [m \in nodes |-> g.kind[pick(m)]]
  BY DEF Rebuilt
<1>2. DOMAIN h.edges = DOMAIN g.edges
  BY DEF Rebuilt
<1>3. IsFiniteSet(nodes)
  <2> DEFINE t == [n \in DOMAIN g.kind |-> node(n)]
  <2>1. nodes = {t[n] : n \in DOMAIN g.kind}
    OBVIOUS
  <2>2. IsFiniteSet(DOMAIN g.kind)
    BY DEF NewDrawing
  <2> HIDE DEF t, nodes, node
  <2>3. QED BY <2>1, <2>2, ImageFinite
<1>4. ASSUME NEW m \in NodesOf(h, "entry") PROVE m = <<m[1], 0>>
  <2>1. m \in nodes /\ h.kind[m] = "entry"
    BY <1>1 DEF NodesOf
  <2>2. \E n \in DOMAIN g.kind : node(n) = m
    BY <2>1
  <2> DEFINE n == pick(m)
  <2>3. n \in DOMAIN g.kind /\ node(n) = m
    BY <2>2
  <2>4. g.kind[n] = "entry"
    BY <1>1, <2>1
  <2> HIDE DEF n
  <2>5. node(n) = n
    BY <2>4 DEF NodesOf
  <2>6. n = <<n[1], 0>>
    BY <2>3 DEF NewDrawing
  <2>7. QED BY <2>3, <2>5, <2>6
<1>5. QED
  <2>1. ASSUME NEW k PROVE IsFiniteSet(NodesOf(h, k))
    BY <1>1, <1>3, FS_Subset DEF NodesOf
  <2>2. DOMAIN h.edges \subseteq Nat
    BY <1>2 DEF NewDrawing
  <2>3. QED BY <1>4, <2>1, <2>2 DEF Shaped

LEMMA EntryTargetIs ==
  ASSUME NEW g, Shaped(g), ValidGraph(g), NEW n \in NodesOf(g, "entry")
  PROVE  EntryTarget(g, n) \in NodesOf(g, "orch")
<1> DEFINE orchs == NodesOf(g, "orch")
           such == {i \in DOMAIN g.edges : g.edges[i][1] = n /\ g.edges[i][2] \in orchs}
<1>1. Targets(g, n) \cap orchs # {}
  BY DEF ValidGraph
<1>2. such # {}
  BY <1>1 DEF Targets, ToSet
<1>3. such \in SUBSET Nat
  BY DEF Shaped
<1>4. \E i \in such : \A j \in such : i <= j
  BY <1>2, <1>3, LeastExists
<1>5. (CHOOSE i \in such : \A j \in such : i <= j) \in such
  BY <1>4
<1>6. QED BY <1>5 DEF EntryTarget, FirstTarget

LEMMA ConcatDomain ==
  ASSUME NEW S, IsFiniteSet(S), NEW T, IsFiniteSet(T)
  PROVE  DOMAIN (SetToSeq(S) \o SetToSeq(T)) \subseteq Nat
<1>1. SetToSeq(S) \in Seq(S) /\ SetToSeq(T) \in Seq(T)
  BY SetToSeqIs
<1> HIDE DEF SetToSeq
<1>2. QED BY <1>1

LEMMA ExportIsShaped ==
  ASSUME NEW a, IsFiniteSet(DOMAIN rows), IsFiniteSet(DOMAIN entries),
         \A i \in DOMAIN rows : IsFiniteSet(rows[i].agents)
  PROVE  Shaped(ExportGraph(a))
<1> DEFINE orchs == {rows[i].node : i \in RowsOf(a)}
           rowAt(n) == CHOOSE i \in RowsOf(a) : rows[i].node = n
           agents == UNION {rows[i].agents : i \in RowsOf(a)}
           slugs  == {<<x, 0>> : x \in EntriesOf(a)}
           mws    == {w.node : w \in {w \in wirings : w.app = a}}
           calls  == {e \in orchs \X agents : e[2] \in rows[rowAt(e[1])].agents}
           served == {e \in slugs \X orchs : entries[e[1][1]].row = rowAt(e[2])}
           g == ExportGraph(a)
<1>1. IsFiniteSet(RowsOf(a)) /\ IsFiniteSet(EntriesOf(a))
  BY FS_Subset DEF RowsOf, EntriesOf
<1>2. IsFiniteSet(orchs)
  <2> DEFINE f == [i \in RowsOf(a) |-> rows[i].node]
  <2>1. orchs = {f[i] : i \in RowsOf(a)}
    OBVIOUS
  <2> HIDE DEF f, orchs
  <2>2. QED BY <1>1, <2>1, ImageFinite
<1>3. IsFiniteSet(agents)
  <2> DEFINE f == [i \in RowsOf(a) |-> rows[i].agents]
             T == {rows[i].agents : i \in RowsOf(a)}
  <2>1. T = {f[i] : i \in RowsOf(a)}
    OBVIOUS
  <2>2. \A t \in T : IsFiniteSet(t)
    BY DEF RowsOf
  <2> HIDE DEF f
  <2>3. IsFiniteSet(T)
    <3> HIDE DEF T
    <3>1. QED BY <1>1, <2>1, ImageFinite
  <2>4. QED
    <3> HIDE DEF T
    <3>1. IsFiniteSet(UNION T)
      BY <2>2, <2>3, FS_UNION
    <3>2. QED BY <3>1 DEF T
<1>4. IsFiniteSet(slugs)
  <2> DEFINE f == [x \in EntriesOf(a) |-> <<x, 0>>]
  <2>1. slugs = {f[x] : x \in EntriesOf(a)}
    OBVIOUS
  <2> HIDE DEF f, slugs
  <2>2. QED BY <1>1, <2>1, ImageFinite
<1>5. DOMAIN g.edges \subseteq Nat
  <2> HIDE DEF orchs, agents, slugs
  <2>1. IsFiniteSet(orchs \X agents) /\ IsFiniteSet(slugs \X orchs)
    BY <1>2, <1>3, <1>4, FS_Product
  <2>2. IsFiniteSet(calls) /\ IsFiniteSet(served)
    BY <2>1, FS_Subset
  <2>3. g.edges = SetToSeq(calls) \o SetToSeq(served)
    BY DEF ExportGraph, orchs, agents, slugs
  <2> HIDE DEF calls, served, rowAt, g
  <2>4. QED BY <2>2, <2>3, ConcatDomain
<1>6. /\ NodesOf(g, "orch") \subseteq orchs
      /\ NodesOf(g, "agent") \subseteq agents
      /\ NodesOf(g, "entry") \subseteq slugs
  <2> DEFINE k1 == [n \in orchs |-> "orch"]
             k2 == [n \in agents |-> "agent"]
             k3 == [n \in slugs |-> "entry"]
             k4 == [n \in mws |-> "mw"]
  <2>1. g.kind = Over(k1, Over(k2, Over(k3, k4)))
    BY DEF ExportGraph
  <2> HIDE DEF orchs, agents, slugs, mws, g
  <2>2. ASSUME NEW n \in DOMAIN g.kind
        PROVE  /\ g.kind[n] = "orch" => n \in orchs
               /\ g.kind[n] = "agent" => n \in agents
               /\ g.kind[n] = "entry" => n \in slugs
    BY <2>1 DEF Over
  <2>3. QED BY <2>2 DEF NodesOf
<1>7. ASSUME NEW n \in NodesOf(g, "entry") PROVE n = <<n[1], 0>>
  BY <1>6
<1>8. ASSUME NEW k \in {"entry", "orch", "agent"} PROVE IsFiniteSet(NodesOf(g, k))
  <2> HIDE DEF orchs, agents, slugs, g
  <2>1. IsFiniteSet(NodesOf(g, "entry"))
    BY <1>4, <1>6, FS_Subset
  <2>2. IsFiniteSet(NodesOf(g, "orch"))
    BY <1>2, <1>6, FS_Subset
  <2>3. IsFiniteSet(NodesOf(g, "agent"))
    BY <1>3, <1>6, FS_Subset
  <2>4. QED BY <2>1, <2>2, <2>3
<1>9. QED BY <1>5, <1>7, <1>8 DEF Shaped

\* A stored orchestrator.
IsRow(r) ==
  /\ r = [app |-> r.app, node |-> r.node, name |-> r.name, agents |-> r.agents,
          delegatable |-> r.delegatable]
  /\ IsFiniteSet(r.agents)

\* The records of compile_graph's step 2.
IsPlacing(P, a, g, read, n) ==
  /\ \A x \in P : IsRow(x.row) /\ x.row.app = a /\ x.row.node \in NodesOf(g, "orch")
  /\ \A x \in P : x.old => x.id \in DOMAIN read
  /\ {x.id : x \in {y \in P : ~ y.old}} = lastId + 1 .. lastId + n
  /\ \A m \in NodesOf(g, "orch") : \E x \in P : x.row.node = m

LEMMA MatchedIs ==
  ASSUME NEW g, NEW read, NEW n, Matched(g, read, n) # 0
  PROVE  Matched(g, read, n) \in DOMAIN read
<1> DEFINE same == {i \in DOMAIN read : read[i].node = n}
<1>1. CASE same # {}
  <2>1. (CHOOSE i \in same : TRUE) \in same
    BY <1>1
  <2>2. QED BY <1>1, <2>1 DEF Matched
<1>2. CASE same = {}
  BY <1>2 DEF Matched
<1>3. QED BY <1>1, <1>2

LEMMA PlacedIs ==
  ASSUME NEW a, NEW g, Shaped(g), NEW read, lastId \in Nat
  PROVE  \E n \in Nat : IsPlacing(Placed(a, g, read), a, g, read, n)
<1> DEFINE orchs == NodesOf(g, "orch")
           unmatched == {n \in orchs : Matched(g, read, n) = 0}
           fresh == SetToSeq(unmatched)
           n == Cardinality(unmatched)
           drawnAs(m, name) == [app |-> a, node |-> m, name |-> name,
                            agents |-> ResolveAgents(g, m),
                            delegatable |-> IsDelegatable(g, m)]
           place(m, id, name) == [id |-> id, old |-> Matched(g, read, m) # 0,
                                  row |-> drawnAs(m, name)]
           again(m) == place(m, Matched(g, read, m), read[Matched(g, read, m)].name)
           added(k) == place(fresh[k], lastId + k, NameFor(g, fresh[k], lastId + k))
           P == Placed(a, g, read)
<1>1. /\ n \in Nat /\ fresh \in [1 .. n -> unmatched] /\ ToSet(fresh) = unmatched
  <2>1. IsFiniteSet(unmatched)
    BY FS_Subset DEF Shaped
  <2>2. QED BY <2>1, SetToSeqIs
<1>2. P = {again(m) : m \in orchs \ ToSet(fresh)} \cup {added(k) : k \in DOMAIN fresh}
  BY DEF Placed
<1>3. ASSUME NEW m, NEW name PROVE IsRow(drawnAs(m, name))
  <2>1. ResolveAgents(g, m) \subseteq NodesOf(g, "agent")
    BY DEF ResolveAgents
  <2>2. IsFiniteSet(ResolveAgents(g, m))
    BY <2>1, FS_Subset DEF Shaped
  <2>3. QED BY <2>2 DEF IsRow
<1> HIDE DEF fresh, n, drawnAs
<1>4. ASSUME NEW x \in P
      PROVE  /\ \E m \in orchs : \E name : x.row = drawnAs(m, name)
             /\ x.old => x.id \in DOMAIN read
             /\ ~ x.old => x.id \in lastId + 1 .. lastId + n
  <2>1. CASE x \in {again(m) : m \in orchs \ ToSet(fresh)}
    <3>1. PICK m \in orchs \ unmatched : x = again(m)
      BY <1>1, <2>1
    <3>2. Matched(g, read, m) # 0
      BY <3>1
    <3>3. Matched(g, read, m) \in DOMAIN read
      BY <3>2, MatchedIs
    <3>4. x.row = drawnAs(m, read[Matched(g, read, m)].name)
      BY <3>1
    <3>5. x.old /\ x.id = Matched(g, read, m)
      BY <3>1, <3>2
    <3>6. QED BY <3>3, <3>4, <3>5
  <2>2. CASE x \in {added(k) : k \in DOMAIN fresh}
    <3>1. PICK k \in 1 .. n : x = added(k)
      BY <1>1, <2>2
    <3>2. fresh[k] \in orchs /\ Matched(g, read, fresh[k]) = 0
      BY <1>1
    <3>3. x.row = drawnAs(fresh[k], NameFor(g, fresh[k], lastId + k))
      BY <3>1
    <3>4. ~ x.old /\ x.id = lastId + k
      BY <3>1, <3>2
    <3>5. x.id \in lastId + 1 .. lastId + n
      BY <1>1, <3>4
    <3>6. QED BY <3>2, <3>3, <3>4, <3>5
  <2>3. QED BY <1>2, <2>1, <2>2
<1>5. ASSUME NEW i \in lastId + 1 .. lastId + n
      PROVE  \E x \in P : ~ x.old /\ x.id = i
  <2> DEFINE k == i - lastId
  <2>1. k \in 1 .. n /\ lastId + k = i
    BY <1>1
  <2> HIDE DEF k
  <2>2. added(k) \in P
    BY <1>1, <1>2, <2>1
  <2>3. Matched(g, read, fresh[k]) = 0
    BY <1>1, <2>1
  <2>4. ~ added(k).old /\ added(k).id = i
    BY <2>1, <2>3
  <2>5. QED BY <2>2, <2>4
<1>6. ASSUME NEW m \in orchs PROVE \E x \in P : x.row.node = m
  <2>1. CASE m \in unmatched
    <3>1. PICK k \in DOMAIN fresh : fresh[k] = m
      BY <1>1, <2>1 DEF ToSet
    <3>2. added(k) \in P /\ added(k).row.node = m
      BY <1>2, <3>1 DEF drawnAs
    <3>3. QED BY <3>2
  <2>2. CASE m \notin unmatched
    <3>1. again(m) \in P /\ again(m).row.node = m
      BY <1>1, <1>2, <2>2 DEF drawnAs
    <3>2. QED BY <3>1
  <2>3. QED BY <2>1, <2>2
<1>7. ASSUME NEW x \in P PROVE IsRow(x.row) /\ x.row.app = a /\ x.row.node \in orchs
  <2>1. PICK m \in orchs : \E name : x.row = drawnAs(m, name)
    BY <1>4
  <2>2. PICK name : x.row = drawnAs(m, name)
    BY <2>1
  <2>3. QED BY <1>3, <2>2 DEF drawnAs
<1>8. {x.id : x \in {y \in P : ~ y.old}} = lastId + 1 .. lastId + n
  <2> HIDE DEF P, place, again, added
  <2>1. QED BY <1>4, <1>5
<1>9. QED
  <2> HIDE DEF P, orchs
  <2>1. \A x \in P : x.old => x.id \in DOMAIN read
    BY <1>4
  <2>2. IsPlacing(P, a, g, read, n)
    BY <1>6, <1>7, <1>8, <2>1 DEF IsPlacing, orchs
  <2>3. QED BY <1>1, <2>2 DEF P

\* What a save of application a, which read the rows `read` and the entry
\* points `ways`, is about to write.
Plans(a, read, ways, plan) ==
  /\ \A i \in DOMAIN plan.add : IsRow(plan.add[i]) /\ plan.add[i].app = a
  /\ \A i \in DOMAIN plan.update : IsFiniteSet(plan.update[i].agents)
  /\ IsFiniteSet(DOMAIN plan.link)
  /\ \A x \in DOMAIN plan.link : /\ plan.link[x] \in DOMAIN read \cup DOMAIN plan.add
                                 /\ x \in DOMAIN ways => plan.link[x] \notin plan.drop
  /\ \A w \in plan.wire : w.app = a
  /\ \A i \in DOMAIN plan.update \cup plan.drop :
        i \in DOMAIN read /\ read[i].name \in plan.names
  /\ \A i \in DOMAIN plan.add : \/ plan.add[i].name \in plan.names
                              \/ plan.add[i].name[1] \in {"list", "auto"}

\* The ids of the rows it adds are the next ones.
NextIds(plan) ==
  /\ Cardinality(DOMAIN plan.add) \in Nat
  /\ DOMAIN plan.add = lastId + 1 .. lastId + Cardinality(DOMAIN plan.add)

LEMMA NextIdsAre ==
  ASSUME NEW plan, lastId \in Nat, NEW n \in Nat, DOMAIN plan.add = lastId + 1 .. lastId + n
  PROVE  NextIds(plan)
<1>1. Cardinality(lastId + 1 .. lastId + n) = n
  <2>1. lastId + 1 \in Int /\ lastId + n \in Int
    OBVIOUS
  <2>2. Cardinality(lastId + 1 .. lastId + n)
          = IF lastId + 1 > lastId + n THEN 0 ELSE (lastId + n) - (lastId + 1) + 1
    BY <2>1, FS_Interval
  <2>3. QED BY <2>2
<1>2. QED BY <1>1 DEF NextIds

LEMMA ByIdIs ==
  ASSUME NEW P
  PROVE  /\ DOMAIN ById(P) = {x.id : x \in P}
         /\ \A i \in DOMAIN ById(P) : \E x \in P : x.id = i /\ ById(P)[i] = x.row
<1>1. DOMAIN ById(P) = {x.id : x \in P}
  BY DEF ById
<1>2. ASSUME NEW i \in DOMAIN ById(P) PROVE \E x \in P : x.id = i /\ ById(P)[i] = x.row
  <2>1. \E x \in P : x.id = i
    BY <1>1
  <2> DEFINE y == CHOOSE x \in P : x.id = i
  <2>2. y \in P /\ y.id = i
    BY <2>1
  <2>3. ById(P)[i] = y.row
    BY <1>1 DEF ById
  <2> HIDE DEF y
  <2>4. QED BY <2>2, <2>3
<1>3. QED BY <1>1, <1>2

\* compile_graph links every entry point to a row it keeps or adds.
LEMMA GraphPlanIs ==
  ASSUME NEW a, NEW g, Shaped(g), ValidGraph(g), NEW read, NEW ways, NEW others, lastId \in Nat
  PROVE  LET plan == GraphPlan(a, g, read, ways)
         IN  Plans(a, read, others, plan) /\ NextIds(plan)
<1> DEFINE P == Placed(a, g, read)
           kept == {x \in P : x.old}
           slugs == {m[1] : m \in NodesOf(g, "entry")}
           to(x) == EntryTarget(g, <<x, 0>>)
           rowOf(m) == (CHOOSE x \in P : x.row.node = m).id
           plan == GraphPlan(a, g, read, ways)
<1>1. PICK n \in Nat : IsPlacing(P, a, g, read, n)
  BY PlacedIs
<1>2. /\ plan.update = ById(kept)
      /\ plan.add = ById(P \ kept)
      /\ plan.drop = Dropped(g, read, P)
      /\ plan.link = [x \in slugs |-> rowOf(to(x))]
      /\ plan.wire = {[app |-> a, via |-> w.via, node |-> w.node, agent |-> w.agent,
                       position |-> w.position] : w \in WiringsOf(g)}
      /\ plan.names = {read[i].name : i \in DOMAIN read} \cup {x.row.name : x \in P}
  BY DEF GraphPlan, Touched
<1> HIDE DEF P, plan
<1>3. ASSUME NEW i \in DOMAIN plan.add
      PROVE  IsRow(plan.add[i]) /\ plan.add[i].app = a /\ plan.add[i].name \in plan.names
  <2> DEFINE Q == P \ kept
  <2>0. plan.add = ById(Q)
    BY <1>2
  <2>1. PICK x \in Q : plan.add[i] = x.row
    <3> HIDE DEF Q
    <3>1. \A j \in DOMAIN ById(Q) : \E x \in Q : x.id = j /\ ById(Q)[j] = x.row
      BY ByIdIs
    <3>2. QED BY <2>0, <3>1
  <2>2. x \in P /\ IsRow(x.row) /\ x.row.app = a
    BY <1>1 DEF IsPlacing
  <2>3. x.row.name \in plan.names
    BY <1>2, <2>2
  <2>4. QED BY <2>1, <2>2, <2>3
<1>4. ASSUME NEW i \in DOMAIN plan.update PROVE IsFiniteSet(plan.update[i].agents)
  <2> DEFINE Q == kept
  <2>0. plan.update = ById(Q)
    BY <1>2
  <2>1. PICK x \in Q : plan.update[i] = x.row
    <3> HIDE DEF Q
    <3>1. \A j \in DOMAIN ById(Q) : \E x \in Q : x.id = j /\ ById(Q)[j] = x.row
      BY ByIdIs
    <3>2. QED BY <2>0, <3>1
  <2>2. QED BY <1>1, <2>1 DEF IsPlacing, IsRow
<1>5. DOMAIN plan.add = lastId + 1 .. lastId + n
  <2>1. DOMAIN plan.add = {x.id : x \in P \ kept}
    BY <1>2, ByIdIs
  <2>2. P \ kept = {y \in P : ~ y.old}
    OBVIOUS
  <2>3. QED BY <1>1, <2>1, <2>2 DEF IsPlacing
<1>6. IsFiniteSet(slugs)
  <2> DEFINE f == [m \in NodesOf(g, "entry") |-> m[1]]
  <2>1. slugs = {f[m] : m \in NodesOf(g, "entry")}
    OBVIOUS
  <2>2. IsFiniteSet(NodesOf(g, "entry"))
    BY DEF Shaped
  <2> HIDE DEF f, slugs
  <2>3. QED BY <2>1, <2>2, ImageFinite
<1>7. ASSUME NEW x \in slugs
      PROVE  rowOf(to(x)) \in DOMAIN read \cup DOMAIN plan.add /\ rowOf(to(x)) \notin plan.drop
  <2>1. PICK m \in NodesOf(g, "entry") : x = m[1]
    OBVIOUS
  <2>2. m = <<x, 0>>
    BY <2>1 DEF Shaped
  <2>3. to(x) \in NodesOf(g, "orch")
    BY <2>2, EntryTargetIs
  <2> DEFINE y == CHOOSE z \in P : z.row.node = to(x)
  <2>4. \E z \in P : z.row.node = to(x)
    BY <1>1, <2>3 DEF IsPlacing
  <2>5. y \in P /\ y.row.node = to(x)
    BY <2>4
  <2>6. rowOf(to(x)) = y.id
    OBVIOUS
  <2> HIDE DEF y, rowOf, to
  <2>7. y.id \in DOMAIN read \cup DOMAIN plan.add
    <3>1. CASE y.old
      BY <1>1, <2>5, <3>1 DEF IsPlacing
    <3>2. ASSUME ~ y.old PROVE y.id \in DOMAIN plan.add
      <4>1. y \in P \ kept
        BY <2>5, <3>2
      <4>2. DOMAIN plan.add = {z.id : z \in P \ kept}
        BY <1>2, ByIdIs
      <4>3. QED BY <4>1, <4>2
    <3>3. QED BY <3>1, <3>2
  <2>8. y.id \notin Dropped(g, read, P)
    <3> SUFFICES ASSUME y.id \in Dropped(g, read, P) PROVE FALSE
      OBVIOUS
    <3> DEFINE now == {z \in P : z.id = y.id}
    <3>1. y \in now
      BY <2>5
    <3>2. \A z \in now : z.row.node \notin NodesOf(g, "orch")
      BY <3>1 DEF Dropped
    <3>3. QED BY <2>3, <2>5, <3>1, <3>2
  <2>9. QED BY <1>2, <2>6, <2>7, <2>8
<1>8. Plans(a, read, others, plan)
  <2> HIDE DEF rowOf, to, slugs
  <2>1. DOMAIN plan.link = slugs /\ \A x \in slugs : plan.link[x] = rowOf(to(x))
    BY <1>2
  <2>2. \A w \in plan.wire : w.app = a
    BY <1>2
  <2>3. DOMAIN plan.update \subseteq DOMAIN read
    <3>1. DOMAIN plan.update = {x.id : x \in kept}
      BY <1>2, ByIdIs
    <3>2. QED BY <1>1, <3>1 DEF IsPlacing
  <2>4. plan.drop \subseteq DOMAIN read
    BY <1>2 DEF Dropped
  <2>5. \A i \in DOMAIN plan.update \cup plan.drop : i \in DOMAIN read /\ read[i].name \in plan.names
    BY <1>2, <2>3, <2>4
  <2>6. QED BY <1>3, <1>4, <1>6, <1>7, <2>1, <2>2, <2>5 DEF Plans
<1>9. QED BY <1>5, <1>8, NextIdsAre DEF plan

\* _apply_entry_point_diff links every listed entry point to a row it read or
\* adds, and drops none an old one has.
LEMMA ListPlanIs ==
  ASSUME NEW a, NEW list, IsFiniteSet(list.slugs), IsFiniteSet(list.agents), lastId \in Nat,
         NEW read, \A i \in DOMAIN read : i \in 1 .. lastId /\ IsRow(read[i]),
         list.row \in DOMAIN read \cup {0},
         NEW ways, \A x \in DOMAIN ways : ways[x].row # 0 => ways[x].row \in DOMAIN read
  PROVE  LET plan == ListPlan(a, list, read, ways)
         IN  Plans(a, read, ways, plan) /\ NextIds(plan)
<1> DEFINE old    == list.slugs \cap DOMAIN ways
           new    == list.slugs \ DOMAIN ways
           none   == {x \in old : ways[x].row = 0}
           bare   == SetToSeq(none)
           made   == IF new # {} /\ list.row = 0 THEN 1 ELSE 0
           place(x)  == CHOOSE k \in DOMAIN bare : bare[k] = x
           target(x) == IF x \in new THEN (IF made = 1 THEN lastId + 1 ELSE list.row)
                        ELSE IF ways[x].row # 0 THEN ways[x].row
                        ELSE lastId + made + place(x)
           targets == {target(x) : x \in list.slugs}
           node(i) == IF i = lastId + 1 /\ made = 1 THEN <<"list", 0>> ELSE <<"auto", i>>
           drop == {ways[x].row : x \in DOMAIN ways \ old}
                       \ ({ways[x].row : x \in old} \cup {0})
           plan == ListPlan(a, list, read, ways)
           c == Cardinality(none)
<1>1. /\ plan.update = [i \in targets \cap DOMAIN read |-> ListUpdated(read[i], list)]
      /\ plan.add = [i \in targets \ DOMAIN read |-> ListCreated(a, list, node(i), i)]
      /\ plan.drop = drop
      /\ plan.link = [x \in list.slugs |-> target(x)]
      /\ plan.wire = {}
      /\ plan.names = {read[i].name : i \in DOMAIN read}
  BY DEF ListPlan
<1>2. /\ c \in Nat /\ bare \in [1 .. c -> none] /\ ToSet(bare) = none
      /\ \A j, k \in 1 .. c : bare[j] = bare[k] => j = k
  <2>1. IsFiniteSet(none)
    BY FS_Subset
  <2>2. QED BY <2>1, SetToSeqIs
<1> HIDE DEF plan, bare, c
<1>3. made \in {0, 1}
  OBVIOUS
<1>4. ASSUME NEW x \in none PROVE place(x) \in 1 .. c /\ bare[place(x)] = x
  <2>1. \E k \in DOMAIN bare : bare[k] = x
    BY <1>2 DEF ToSet
  <2>2. place(x) \in DOMAIN bare /\ bare[place(x)] = x
    BY <2>1
  <2>3. QED BY <1>2, <2>2
<1> HIDE DEF place
<1>5. ASSUME NEW x \in list.slugs
      PROVE  /\ target(x) \in DOMAIN read \cup (lastId + 1 .. lastId + made + c)
             /\ x \in DOMAIN ways => target(x) \notin drop
  <2>1. CASE x \in new
    <3>1. CASE made = 1
      BY <1>2, <2>1, <3>1
    <3>2. CASE made # 1
      BY <2>1, <3>2
    <3>3. QED BY <3>1, <3>2
  <2>2. ASSUME x \in old, ways[x].row # 0
        PROVE  target(x) \in DOMAIN read /\ target(x) \notin drop
    <3>1. target(x) = ways[x].row
      BY <2>2
    <3>2. QED BY <2>2, <3>1
  <2>3. ASSUME x \in none
        PROVE  target(x) \in lastId + 1 .. lastId + made + c /\ target(x) \notin drop
    <3>1. target(x) = lastId + made + place(x)
      BY <2>3
    <3>2. place(x) \in 1 .. c
      BY <1>4, <2>3
    <3>3. target(x) \in lastId + 1 .. lastId + made + c /\ target(x) > lastId
      <4> HIDE DEF made, target
      <4>1. QED BY <1>2, <1>3, <3>1, <3>2
    <3>4. \A i \in drop : i \in DOMAIN read
      OBVIOUS
    <3>5. \A i \in drop : i \in 1 .. lastId
      <4> HIDE DEF drop
      <4>1. QED BY <3>4
    <3> HIDE DEF drop, target
    <3>6. QED BY <3>3, <3>5
  <2>4. QED BY <2>1, <2>2, <2>3
<1>6. ASSUME NEW i \in lastId + 1 .. lastId + made + c
      PROVE  \E x \in list.slugs : target(x) = i
  <2>1. CASE made = 1 /\ i = lastId + 1
    BY <2>1
  <2>2. CASE ~(made = 1 /\ i = lastId + 1)
    <3> DEFINE k == i - lastId - made
    <3>1. k \in 1 .. c /\ i = lastId + made + k
      <4> HIDE DEF made
      <4>1. QED BY <1>2, <1>3, <2>2
    <3> HIDE DEF k
    <3>2. bare[k] \in none
      BY <1>2, <3>1
    <3>3. place(bare[k]) \in 1 .. c /\ bare[place(bare[k])] = bare[k]
      BY <1>4, <3>2
    <3>4. place(bare[k]) = k
      BY <1>2, <3>1, <3>3
    <3>5. target(bare[k]) = lastId + made + place(bare[k])
      BY <3>2
    <3> HIDE DEF target, made
    <3>6. bare[k] \in list.slugs
      BY <3>2
    <3>7. QED BY <3>1, <3>4, <3>5, <3>6
  <2>3. QED BY <2>1, <2>2
<1>7. DOMAIN plan.add = lastId + 1 .. lastId + (made + c)
  <2>1. DOMAIN plan.add = targets \ DOMAIN read
    BY <1>1
  <2>2. \A i \in DOMAIN read : i \notin lastId + 1 .. lastId + (made + c)
    <3> HIDE DEF made
    <3>1. QED BY <1>2, <1>3
  <2>3. lastId + made + c = lastId + (made + c)
    <3> HIDE DEF made
    <3>1. QED BY <1>2, <1>3
  <2> HIDE DEF target, made
  <2>4. QED BY <1>5, <1>6, <2>1, <2>2, <2>3
<1>8. ASSUME NEW i \in DOMAIN plan.add
      PROVE  /\ IsRow(plan.add[i]) /\ plan.add[i].app = a
             /\ plan.add[i].name[1] \in {"list", "auto"}
  <2>1. plan.add[i] = ListCreated(a, list, node(i), i)
    BY <1>1
  <2>2. node(i)[1] \in {"list", "auto"}
    OBVIOUS
  <2> HIDE DEF node
  <2>3. QED BY <2>1, <2>2 DEF ListCreated, IsRow
<1>9. ASSUME NEW i \in DOMAIN plan.update PROVE IsFiniteSet(plan.update[i].agents)
  <2>1. i \in DOMAIN read /\ plan.update[i] = ListUpdated(read[i], list)
    BY <1>1
  <2>2. IsRow(read[i])
    BY <2>1
  <2>3. ListUpdated(read[i], list).agents = list.agents
    BY <2>2 DEF ListUpdated, IsRow
  <2>4. QED BY <2>1, <2>3
<1>10. Plans(a, read, ways, plan)
  <2>1. DOMAIN plan.link = list.slugs /\ \A x \in list.slugs : plan.link[x] = target(x)
    BY <1>1
  <2>2. \A x \in list.slugs : target(x) \in DOMAIN read \cup DOMAIN plan.add
    <3>1. lastId + made + c = lastId + (made + c)
      <4> HIDE DEF made
      <4>1. QED BY <1>2, <1>3
    <3> HIDE DEF target, made
    <3>2. QED BY <1>5, <1>7, <3>1
  <2>3. DOMAIN plan.update \subseteq DOMAIN read /\ plan.drop \subseteq DOMAIN read
    BY <1>1
  <2> HIDE DEF target, made, drop
  <2>4. \A i \in DOMAIN plan.update \cup plan.drop : i \in DOMAIN read /\ read[i].name \in plan.names
    BY <1>1, <2>3
  <2>5. \A x \in DOMAIN ways : x \in list.slugs => target(x) \notin plan.drop
    BY <1>1, <1>5 DEF target, drop
  <2>6. IsFiniteSet(DOMAIN plan.link) /\ plan.wire = {}
    BY <1>1, <2>1
  <2>7. \A x \in DOMAIN plan.link :
          /\ plan.link[x] \in DOMAIN read \cup DOMAIN plan.add
          /\ x \in DOMAIN ways => plan.link[x] \notin plan.drop
    BY <2>1, <2>2, <2>5
  <2> HIDE DEF plan
  <2>8. QED BY <1>8, <1>9, <2>4, <2>6, <2>7 DEF Plans
<1>11. QED
  <2>1. made + c \in Nat
    <3> HIDE DEF made
    <3>1. QED BY <1>2, <1>3
  <2> HIDE DEF made
  <2>2. NextIds(plan)
    BY <1>7, <2>1, NextIdsAre
  <2>3. QED BY <1>10, <2>2 DEF plan

IsEntry(e) == e = [app |-> e.app, row |-> e.row]

IsReq(q) ==
  q = [pc |-> q.pc, op |-> q.op, app |-> q.app, graph |-> q.graph, rows |-> q.rows,
       entries |-> q.entries, plan |-> q.plan, touched |-> q.touched, new |-> q.new,
       alone |-> q.alone]

\* The tables, given as values: applications, rows, entry points, wirings, ids.
Tables(ap, R, E, W, id) ==
  /\ ap \subseteq Apps
  /\ id \in Nat /\ DOMAIN R \subseteq 1 .. id
  /\ \A i \in DOMAIN R : IsRow(R[i]) /\ R[i].app \in ap
  /\ \A i, j \in DOMAIN R :
        i # j => /\ R[i].name # R[j].name
                 /\ R[i].app = R[j].app => R[i].node # R[j].node
  /\ IsFiniteSet(DOMAIN E)
  /\ \A x \in DOMAIN E :
        /\ IsEntry(E[x]) /\ E[x].app \in ap
        /\ E[x].row # 0 => E[x].row \in DOMAIN R /\ R[E[x].row].app = E[x].app
  /\ \A w \in W : w.app \in ap

\* A request between its reading and its commit: the ids it took are its own,
\* and a row it read is gone or still its application's.
Reading(q, R, id) ==
  /\ q.app \in Apps
  /\ Plans(q.app, q.rows, q.entries, q.plan)
  /\ DOMAIN q.plan.add \subseteq 1 .. id /\ DOMAIN q.rows \subseteq 1 .. id
  /\ DOMAIN q.plan.add \cap (DOMAIN R \cup DOMAIN q.rows) = {}
  /\ \A i \in DOMAIN q.rows \cap DOMAIN R : R[i].app = q.app /\ R[i].name = q.rows[i].name
  /\ q.op = "delete" => \A i \in DOMAIN q.rows : q.rows[i].name \in q.plan.names

Apart(q, p) == DOMAIN q.plan.add \cap (DOMAIN p.plan.add \cup DOMAIN p.rows) = {}

AtWork(Q, R, id) ==
  /\ DOMAIN Q = Sessions
  /\ \A s \in Sessions : /\ IsReq(Q[s]) /\ Q[s].pc \in {"idle", "read", "saved"}
                         /\ Q[s].pc = "read" => Reading(Q[s], R, id)
  /\ \A s, t \in Sessions : (s # t /\ Q[s].pc = "read" /\ Q[t].pc = "read")
                              => Apart(Q[s], Q[t])

LoadKnown ==
  /\ load = [pc |-> load.pc, name |-> load.name, scope |-> load.scope, found |-> load.found]
  /\ load.pc \in {"idle", "config", "locator"}

DeploymentInv ==
  /\ Tables(app, rows, entries, wirings, lastId)
  /\ AtWork(req, rows, lastId)
  /\ Shaped(file)
  /\ LoadKnown

-----------------------------------------------------------------------------
(***************************************************************************)
(* The steps.                                                              *)
(***************************************************************************)
Same(p, q) ==
  /\ p.pc = q.pc /\ p.op = q.op /\ p.app = q.app /\ p.plan = q.plan
  /\ p.rows = q.rows /\ p.entries = q.entries

\* Requests keep their place when the rows change, if those they read are gone
\* or their application's, and the ids they took are not used.
LEMMA AtWorkKept ==
  ASSUME NEW Q, NEW R, NEW id, AtWork(Q, R, id),
         NEW Q2, NEW R2, DOMAIN Q2 = Sessions,
         \A t \in Sessions : /\ IsReq(Q2[t])
                             /\ Q2[t].pc \in {"idle", "saved"} \/ Same(Q2[t], Q[t]),
         \A t \in Sessions : Q2[t].pc = "read" =>
            /\ DOMAIN Q[t].plan.add \cap DOMAIN R2 = {}
            /\ \A i \in DOMAIN Q[t].rows \cap DOMAIN R2 :
                  i \in DOMAIN R /\ R2[i].app = R[i].app /\ R2[i].name = R[i].name
  PROVE  AtWork(Q2, R2, id)
<1>1. ASSUME NEW t \in Sessions, Q2[t].pc = "read"
      PROVE  Q[t].pc = "read" /\ Same(Q2[t], Q[t])
  BY <1>1 DEF Same
<1>2. ASSUME NEW t \in Sessions, Q2[t].pc = "read" PROVE Reading(Q2[t], R2, id)
  <2>1. Reading(Q[t], R, id)
    BY <1>1, <1>2 DEF AtWork
  <2>2. DOMAIN Q[t].plan.add \cap DOMAIN R2 = {}
    BY <1>2
  <2>3. \A i \in DOMAIN Q[t].rows \cap DOMAIN R2 :
           i \in DOMAIN R /\ R2[i].app = R[i].app /\ R2[i].name = R[i].name
    BY <1>2
  <2>4. Same(Q2[t], Q[t])
    BY <1>1, <1>2
  <2>5. \A i \in DOMAIN Q[t].rows \cap DOMAIN R2 :
           R2[i].app = Q[t].app /\ R2[i].name = Q[t].rows[i].name
    BY <2>1, <2>3 DEF Reading
  <2>6. DOMAIN Q[t].plan.add \cap (DOMAIN R2 \cup DOMAIN Q[t].rows) = {}
    BY <2>1, <2>2 DEF Reading
  <2>7. QED BY <2>1, <2>4, <2>5, <2>6 DEF Reading, Same
<1>3. ASSUME NEW t \in Sessions, NEW u \in Sessions, t # u, Q2[t].pc = "read", Q2[u].pc = "read"
      PROVE  Apart(Q2[t], Q2[u])
  <2>1. Apart(Q[t], Q[u])
    BY <1>1, <1>3 DEF AtWork
  <2>2. QED BY <1>1, <1>3, <2>1 DEF Apart, Same
<1>4. ASSUME NEW t \in Sessions PROVE Q2[t].pc \in {"idle", "read", "saved"}
  BY DEF AtWork, Same
<1>5. QED BY <1>2, <1>3, <1>4 DEF AtWork

\* A request that ends, or has nothing to commit, disturbs no other.
LEMMA QuietKeeps ==
  ASSUME NEW Q, NEW R, NEW id, AtWork(Q, R, id), NEW s \in Sessions,
         NEW q, IsReq(q), q.pc \in {"idle", "saved"}
  PROVE  AtWork([Q EXCEPT ![s] = q], R, id)
<1> DEFINE Q2 == [Q EXCEPT ![s] = q]
<1>1. DOMAIN Q2 = Sessions /\ Q2[s] = q /\ \A t \in Sessions : t # s => Q2[t] = Q[t]
  BY DEF AtWork
<1> HIDE DEF Q2
<1>2. \A t \in Sessions : /\ IsReq(Q2[t])
                          /\ Q2[t].pc \in {"idle", "saved"} \/ Same(Q2[t], Q[t])
  BY <1>1 DEF AtWork, Same
<1>3. \A t \in Sessions : Q2[t].pc = "read" =>
            DOMAIN Q[t].plan.add \cap DOMAIN R = {}
  <2> SUFFICES ASSUME NEW t \in Sessions, Q2[t].pc = "read"
               PROVE  DOMAIN Q[t].plan.add \cap DOMAIN R = {}
    OBVIOUS
  <2>1. Q[t].pc = "read"
    BY <1>1, <1>2 DEF Same
  <2>2. Reading(Q[t], R, id)
    BY <2>1 DEF AtWork
  <2>3. QED BY <2>2 DEF Reading
<1>4. AtWork(Q2, R, id)
  BY <1>1, <1>2, <1>3, AtWorkKept
<1>5. QED BY <1>4 DEF Q2

LEMMA BeginKeeps ==
  ASSUME DeploymentInv, NEW s \in Sessions, NEW op, NEW a \in Apps, NEW g, NEW plan,
         NextIds(plan), Plans(a, ReadRows(a), ReadEntries(a), plan),
         op = "delete" => \A i \in RowsOf(a) : rows[i].name \in plan.names,
         Begin(s, op, a, g, plan)
  PROVE  DeploymentInv'
<1> DEFINE q == [Idle EXCEPT !.pc = "read", !.op = op, !.app = a, !.graph = g,
                             !.plan = plan, !.new = a \notin app,
                             !.rows = ReadRows(a), !.entries = ReadEntries(a)]
           c == Cardinality(DOMAIN plan.add)
           id == lastId + c
<1>1. /\ Tables(app, rows, entries, wirings, lastId) /\ AtWork(req, rows, lastId)
      /\ Shaped(file) /\ LoadKnown
  BY DEF DeploymentInv
<1>2. /\ req' = [req EXCEPT ![s] = q] /\ lastId' = id
      /\ UNCHANGED <<app, rows, entries, wirings, file, load>>
  BY DEF Begin
<1>3. /\ q.pc = "read" /\ q.op = op /\ q.app = a /\ q.plan = plan /\ q.rows = ReadRows(a)
      /\ q.entries = ReadEntries(a) /\ IsReq(q)
  <2> DEFINE new == a \notin app
             r == [pc |-> "read", op |-> op, app |-> a, graph |-> g, rows |-> ReadRows(a),
                   entries |-> ReadEntries(a), plan |-> plan, touched |-> {}, new |-> new,
                   alone |-> TRUE]
  <2>1. q = [Idle EXCEPT !.pc = "read", !.op = op, !.app = a, !.graph = g,
                         !.plan = plan, !.new = new,
                         !.rows = ReadRows(a), !.entries = ReadEntries(a)]
    OBVIOUS
  <2> HIDE DEF new, q
  <2>2. q = r
    BY <2>1 DEF Idle
  <2>3. QED BY <2>2 DEF IsReq
<1> HIDE DEF q
<1>4. c \in Nat /\ lastId \in Nat /\ id \in Nat
  BY <1>1 DEF NextIds, Tables
<1>5. DOMAIN plan.add = lastId + 1 .. id
  BY DEF NextIds
<1> HIDE DEF c
<1>6. \A i \in 1 .. lastId : i \in 1 .. id /\ i \notin DOMAIN plan.add
  BY <1>4, <1>5
<1>7. DOMAIN plan.add \subseteq 1 .. id
  BY <1>4, <1>5
<1> HIDE DEF id
<1>8. DOMAIN rows \subseteq 1 .. lastId /\ DOMAIN ReadRows(a) = RowsOf(a) /\ RowsOf(a) \subseteq DOMAIN rows
  BY <1>1 DEF Tables, ReadRows, RowsOf
<1>9. Tables(app, rows, entries, wirings, id)
  BY <1>1, <1>4, <1>6 DEF Tables
<1>10. Reading(q, rows, id)
  <2>1. \A i \in DOMAIN q.rows \cap DOMAIN rows :
           rows[i].app = q.app /\ rows[i].name = q.rows[i].name
    BY <1>3, <1>8 DEF RowsOf, ReadRows
  <2>2. DOMAIN q.plan.add \cap (DOMAIN rows \cup DOMAIN q.rows) = {}
    BY <1>3, <1>6, <1>8
  <2>3. q.op = "delete" => \A i \in DOMAIN q.rows : q.rows[i].name \in q.plan.names
    BY <1>3, <1>8 DEF ReadRows
  <2>4. QED BY <1>3, <1>6, <1>7, <1>8, <2>1, <2>2, <2>3 DEF Reading
<1>11. ASSUME NEW t \in Sessions, req[t].pc = "read"
       PROVE  Reading(req[t], rows, id) /\ Apart(req[t], q) /\ Apart(q, req[t])
  <2>1. Reading(req[t], rows, lastId)
    BY <1>1, <1>11 DEF AtWork
  <2>2. Reading(req[t], rows, id)
    BY <1>6, <2>1 DEF Reading
  <2>3. DOMAIN req[t].plan.add \subseteq 1 .. lastId /\ DOMAIN req[t].rows \subseteq 1 .. lastId
        /\ DOMAIN req[t].plan.add \cap DOMAIN rows = {}
    BY <2>1 DEF Reading
  <2>4. QED BY <1>3, <1>6, <1>8, <2>2, <2>3 DEF Apart
<1>12. AtWork(req', rows, id)
  <2>1. DOMAIN req' = Sessions /\ req'[s] = q /\ \A t \in Sessions : t # s => req'[t] = req[t]
    BY <1>1, <1>2 DEF AtWork
  <2>2. ASSUME NEW t \in Sessions
        PROVE  /\ IsReq(req'[t]) /\ req'[t].pc \in {"idle", "read", "saved"}
               /\ req'[t].pc = "read" => Reading(req'[t], rows, id)
    BY <1>1, <1>3, <1>10, <1>11, <2>1 DEF AtWork
  <2>3. ASSUME NEW t \in Sessions, NEW u \in Sessions, t # u,
               req'[t].pc = "read", req'[u].pc = "read"
        PROVE  Apart(req'[t], req'[u])
    BY <1>1, <1>11, <2>1, <2>3 DEF AtWork
  <2>4. QED BY <2>1, <2>2, <2>3 DEF AtWork
<1>13. QED
  BY <1>1, <1>2, <1>9, <1>12 DEF DeploymentInv, LoadKnown

LEMMA CardInjective ==
  ASSUME NEW S, IsFiniteSet(S), NEW f, ~(Cardinality({f[x] : x \in S}) < Cardinality(S))
  PROVE  \A x, y \in S : f[x] = f[y] => x = y
<1> DEFINE T == {f[x] : x \in S}
           h == [x \in S |-> f[x]]
<1>1. h \in Surjection(S, T)
  BY DEF Surjection
<1> HIDE DEF h, T
<1>2. /\ IsFiniteSet(T) /\ Cardinality(T) <= Cardinality(S)
      /\ Cardinality(T) = Cardinality(S) <=> h \in Injection(S, T)
  BY <1>1, FS_Surjection
<1>3. Cardinality(T) \in Nat /\ Cardinality(S) \in Nat
  BY <1>2, FS_CardinalityType
<1>4. Cardinality(T) = Cardinality(S)
  BY <1>2, <1>3 DEF T
<1>5. h \in Injection(S, T)
  BY <1>2, <1>4
<1>6. QED BY <1>5 DEF Injection, IsInjective, h

\* The rows after a commit: those it adds, and those it keeps, under their
\* names and applications.
LEMMA RowsAfterAre ==
  ASSUME Tables(app, rows, entries, wirings, lastId), NEW q, Reading(q, rows, lastId)
  PROVE  /\ DOMAIN RowsAfter(q) = DOMAIN q.plan.add \cup (DOMAIN rows \ q.plan.drop)
         /\ \A i \in DOMAIN q.plan.add : RowsAfter(q)[i] = q.plan.add[i]
         /\ \A i \in DOMAIN rows \ q.plan.drop :
               /\ IsRow(RowsAfter(q)[i])
               /\ RowsAfter(q)[i].app = rows[i].app /\ RowsAfter(q)[i].name = rows[i].name
<1> DEFINE keep == [i \in DOMAIN rows \ q.plan.drop |->
                      IF i \in DOMAIN q.plan.update /\ Changed(q, i)
                      THEN Written(q, i) ELSE rows[i]]
           after == RowsAfter(q)
<1>1. after = Over(q.plan.add, keep)
  BY DEF RowsAfter
<1>2. DOMAIN keep = DOMAIN rows \ q.plan.drop
  OBVIOUS
<1>3. ASSUME NEW i \in DOMAIN rows \ q.plan.drop
      PROVE  IsRow(keep[i]) /\ keep[i].app = rows[i].app /\ keep[i].name = rows[i].name
  <2>1. IsRow(rows[i])
    BY DEF Tables
  <2>2. CASE i \in DOMAIN q.plan.update /\ Changed(q, i)
    <3>1. keep[i] = Written(q, i)
      BY <2>2
    <3>2. IsFiniteSet(q.plan.update[i].agents)
      BY <2>2 DEF Reading, Plans
    <3> HIDE DEF keep
    <3> DEFINE r == rows[i]
               now == q.plan.update[i]
               was == q.rows[i]
               n == IF now.node = was.node THEN r.node ELSE now.node
               s == IF now.agents = {} /\ was.agents = {} THEN r.agents ELSE now.agents
               d == IF now.delegatable = was.delegatable THEN r.delegatable ELSE now.delegatable
    <3>3. Written(q, i) = [r EXCEPT !.node = n, !.agents = s, !.delegatable = d]
      BY <2>1 DEF Written, IsRow
    <3>4. IsFiniteSet(s)
      BY <2>1, <3>2 DEF IsRow
    <3> HIDE DEF n, s, d
    <3>5. Written(q, i) = [app |-> r.app, node |-> n, name |-> r.name, agents |-> s,
                           delegatable |-> d]
      BY <2>1, <3>3 DEF IsRow
    <3>6. QED BY <3>1, <3>4, <3>5 DEF IsRow
  <2>3. CASE ~(i \in DOMAIN q.plan.update /\ Changed(q, i))
    <3>1. keep[i] = rows[i]
      BY <2>3
    <3>2. QED BY <2>1, <3>1
  <2>4. QED BY <2>2, <2>3
<1>4. DOMAIN q.plan.add \cap DOMAIN rows = {}
  BY DEF Reading
<1> HIDE DEF keep, after
<1>5. QED
  <2>1. DOMAIN after = DOMAIN q.plan.add \cup (DOMAIN rows \ q.plan.drop)
    BY <1>1, <1>2 DEF Over
  <2>2. \A i \in DOMAIN q.plan.add : after[i] = q.plan.add[i]
    BY <1>1 DEF Over
  <2>3. \A i \in DOMAIN rows \ q.plan.drop : after[i] = keep[i]
    BY <1>1, <1>2, <1>4 DEF Over
  <2>4. QED BY <1>3, <2>1, <2>2, <2>3 DEF after

\* The unique indexes hold after a commit that was not refused.
LEMMA NoTwoAlike ==
  ASSUME Tables(app, rows, entries, wirings, lastId), NEW q, Reading(q, rows, lastId),
         ~ Collides(q)
  PROVE  \A i, j \in DOMAIN RowsAfter(q) :
            i # j => /\ RowsAfter(q)[i].name # RowsAfter(q)[j].name
                     /\ RowsAfter(q)[i].app = RowsAfter(q)[j].app
                          => RowsAfter(q)[i].node # RowsAfter(q)[j].node
<1> DEFINE after == RowsAfter(q)
           add == q.plan.add
           f == [i \in DOMAIN after |-> <<after[i].app, after[i].node>>]
           h == [i \in DOMAIN add |-> add[i].name]
<1>1. /\ {add[i].name : i \in DOMAIN add} \cap RowNames = {}
      /\ ~(Cardinality({add[i].name : i \in DOMAIN add}) < Cardinality(DOMAIN add))
      /\ ~(Cardinality({<<after[i].app, after[i].node>> : i \in DOMAIN after})
             < Cardinality(DOMAIN after))
  BY DEF Collides
<1>2. /\ DOMAIN after = DOMAIN add \cup (DOMAIN rows \ q.plan.drop)
      /\ \A i \in DOMAIN add : after[i] = add[i]
      /\ \A i \in DOMAIN rows \ q.plan.drop : after[i].name = rows[i].name
  BY RowsAfterAre
<1> HIDE DEF after, add
<1>3. lastId \in Nat /\ DOMAIN rows \subseteq 1 .. lastId /\ DOMAIN add \subseteq 1 .. lastId
  BY DEF Tables, Reading, add
<1>4. IsFiniteSet(DOMAIN after) /\ IsFiniteSet(DOMAIN add)
  <2>1. IsFiniteSet(1 .. lastId)
    BY <1>3, FS_Interval
  <2>2. DOMAIN after \subseteq 1 .. lastId
    BY <1>2, <1>3
  <2>3. QED BY <1>3, <2>1, <2>2, FS_Subset
<1>5. \A i, j \in DOMAIN after :
         (after[i].app = after[j].app /\ after[i].node = after[j].node) => i = j
  <2>1. {f[i] : i \in DOMAIN after} = {<<after[i].app, after[i].node>> : i \in DOMAIN after}
    OBVIOUS
  <2>2. \A i, j \in DOMAIN after : f[i] = f[j] => i = j
    <3> HIDE DEF f
    <3>1. QED BY <1>1, <1>4, <2>1, CardInjective
  <2>3. QED BY <2>2
<1>6. \A i, j \in DOMAIN add : add[i].name = add[j].name => i = j
  <2>1. {h[i] : i \in DOMAIN add} = {add[i].name : i \in DOMAIN add}
    OBVIOUS
  <2>2. \A i, j \in DOMAIN add : h[i] = h[j] => i = j
    <3> HIDE DEF h
    <3>1. QED BY <1>1, <1>4, <2>1, CardInjective
  <2>3. QED BY <2>2
<1>7. ASSUME NEW i \in DOMAIN after, NEW j \in DOMAIN after, i # j
      PROVE  after[i].name # after[j].name
  <2>1. CASE i \in DOMAIN add /\ j \in DOMAIN add
    BY <1>2, <1>6, <1>7, <2>1
  <2>2. CASE i \in DOMAIN add /\ j \in DOMAIN rows \ q.plan.drop
    BY <1>1, <1>2, <2>2 DEF RowNames
  <2>3. CASE i \in DOMAIN rows \ q.plan.drop /\ j \in DOMAIN add
    BY <1>1, <1>2, <2>3 DEF RowNames
  <2>4. CASE i \in DOMAIN rows \ q.plan.drop /\ j \in DOMAIN rows \ q.plan.drop
    BY <1>2, <1>7, <2>4 DEF Tables
  <2>5. QED BY <1>2, <2>1, <2>2, <2>3, <2>4
<1>8. QED BY <1>5, <1>7 DEF after

\* The entry points after a commit that was not refused: their orchestrators
\* are there, and their application's.
LEMMA EntriesAfterAre ==
  ASSUME Tables(app, rows, entries, wirings, lastId), NEW q, Reading(q, rows, lastId),
         ~ Vanished(q), NEW ap, app \subseteq ap, q.app \in ap
  PROVE  /\ IsFiniteSet(DOMAIN EntriesAfter(q))
         /\ \A x \in DOMAIN EntriesAfter(q) :
              LET e == EntriesAfter(q)[x] IN
              /\ IsEntry(e) /\ e.app \in ap
              /\ e.row # 0 => e.row \in DOMAIN RowsAfter(q) /\ RowsAfter(q)[e.row].app = e.app
<1> DEFINE link   == q.plan.link
           doomed == {x \in DOMAIN link \ DOMAIN q.entries : link[x] \in q.plan.drop}
           kept   == (DOMAIN entries \ q.plan.remove) \ DOMAIN link
           listed == {x \in DOMAIN link : Relinked(q, x)} \ doomed
           same   == {x \in DOMAIN link : ~ Relinked(q, x)} \cap DOMAIN entries
           f1 == [x \in listed |-> [app |-> q.app, row |-> link[x]]]
           f2 == [x \in same |-> entries[x]]
           f3 == [x \in kept |-> Untied(q, x)]
           after == EntriesAfter(q)
           R == RowsAfter(q)
           Good(e) == /\ IsEntry(e) /\ e.app \in ap
                      /\ e.row # 0 => e.row \in DOMAIN R /\ R[e.row].app = e.app
<1>1. after = Over(f1, Over(f2, f3))
  BY DEF EntriesAfter
<1>2. /\ DOMAIN R = DOMAIN q.plan.add \cup (DOMAIN rows \ q.plan.drop)
      /\ \A i \in DOMAIN q.plan.add : R[i] = q.plan.add[i]
      /\ \A i \in DOMAIN rows \ q.plan.drop : R[i].app = rows[i].app
  BY RowsAfterAre
<1> HIDE DEF after, R
<1>3. ASSUME NEW x \in DOMAIN entries, entries[x].row \notin q.plan.drop
      PROVE  Good(entries[x])
  BY <1>2, <1>3 DEF Tables
<1>4. ASSUME NEW x \in listed PROVE Good(f1[x])
  <2> DEFINE i == link[x]
  <2>1. f1[x] = [app |-> q.app, row |-> i]
    OBVIOUS
  <2>2. i \in DOMAIN q.rows \cup DOMAIN q.plan.add
    BY DEF Reading, Plans
  <2>3. i \in DOMAIN rows \cup DOMAIN q.plan.add
    BY DEF Vanished
  <2>4. i \notin q.plan.drop
    <3>1. CASE x \in DOMAIN q.entries
      BY <3>1 DEF Reading, Plans
    <3>2. CASE x \notin DOMAIN q.entries
      BY <3>2
    <3>3. QED BY <3>1, <3>2
  <2> HIDE DEF i, f1
  <2>5. i \in DOMAIN R /\ R[i].app = q.app
    <3>1. CASE i \in DOMAIN q.plan.add
      BY <1>2, <3>1 DEF Reading, Plans
    <3>2. CASE i \notin DOMAIN q.plan.add
      BY <1>2, <2>2, <2>3, <2>4, <3>2 DEF Reading
    <3>3. QED BY <3>1, <3>2
  <2>6. QED BY <2>1, <2>5 DEF IsEntry
<1>5. ASSUME NEW x \in same PROVE Good(f2[x])
  <2>1. entries[x].row \notin q.plan.drop
    BY DEF Relinked
  <2>2. f2[x] = entries[x] /\ x \in DOMAIN entries
    OBVIOUS
  <2> HIDE DEF f2, Good
  <2>3. QED BY <1>3, <2>1, <2>2
<1>6. ASSUME NEW x \in kept PROVE Good(f3[x])
  <2>1. CASE entries[x].row \in q.plan.drop
    <3>1. f3[x] = [entries[x] EXCEPT !.row = 0]
      BY <2>1 DEF Untied
    <3>2. IsEntry(entries[x]) /\ entries[x].app \in ap
      BY DEF Tables
    <3>3. f3[x] = [app |-> entries[x].app, row |-> 0]
      BY <3>1, <3>2 DEF IsEntry
    <3>4. QED BY <3>2, <3>3 DEF IsEntry
  <2>2. CASE entries[x].row \notin q.plan.drop
    <3>1. f3[x] = entries[x]
      BY <2>2 DEF Untied
    <3> HIDE DEF Good
    <3>2. QED BY <1>3, <2>2, <3>1
  <2>3. QED BY <2>1, <2>2
<1>7. DOMAIN f1 = listed /\ DOMAIN f2 = same /\ DOMAIN f3 = kept
  OBVIOUS
<1> HIDE DEF f1, f2, f3, Good
<1>8. ASSUME NEW x \in DOMAIN after PROVE Good(after[x])
  <2> HIDE DEF listed, same, kept
  <2>1. /\ x \in listed => after[x] = f1[x]
        /\ x \in same \ listed => after[x] = f2[x]
        /\ x \in kept \ (same \cup listed) => after[x] = f3[x]
        /\ x \in listed \cup same \cup kept
    BY <1>1, <1>7 DEF Over
  <2>2. QED BY <1>4, <1>5, <1>6, <2>1
<1>9. IsFiniteSet(DOMAIN after)
  <2>1. DOMAIN after = listed \cup same \cup kept
    <3> HIDE DEF listed, same, kept
    <3>1. QED BY <1>1, <1>7 DEF Over
  <2>2. DOMAIN after \subseteq DOMAIN link \cup DOMAIN entries
    BY <2>1
  <2>3. IsFiniteSet(DOMAIN link) /\ IsFiniteSet(DOMAIN entries)
    BY DEF Reading, Plans, Tables
  <2>4. IsFiniteSet(DOMAIN link \cup DOMAIN entries)
    BY <2>3, FS_Union
  <2>5. QED BY <2>2, <2>4, FS_Subset
<1>10. QED BY <1>8, <1>9 DEF after, R, Good

\* A request after its commit.
Committed(a, T) == [Idle EXCEPT !.pc = "saved", !.app = a, !.touched = T]

LEMMA CommittedIsQuiet ==
  ASSUME NEW a, NEW T
  PROVE  IsReq(Committed(a, T)) /\ Committed(a, T).pc = "saved" /\ Committed(a, T).touched = T
<1> DEFINE r == [pc |-> "saved", op |-> None, app |-> a, graph |-> NoGraph,
                 rows |-> <<>>, entries |-> <<>>, plan |-> NoPlan,
                 touched |-> T, new |-> FALSE, alone |-> TRUE]
           q == Committed(a, T)
<1>1. q = [Idle EXCEPT !.pc = "saved", !.app = a, !.touched = T]
  BY DEF Committed
<1> HIDE DEF q, NoGraph, NoPlan
<1>2. q = r
  BY <1>1 DEF Idle
<1>3. IsReq(q) /\ q.pc = "saved" /\ q.touched = T
  BY <1>2 DEF IsReq
<1>4. QED BY <1>3 DEF q

LEMMA IdleIsQuiet == IsReq(Idle) /\ Idle.pc = "idle"
<1> HIDE DEF NoGraph, NoPlan
<1>1. QED BY DEF IsReq, Idle

\* What a commit does to the requests under way.
LEMMA CommitLeaves ==
  ASSUME AtWork(req, rows, lastId), NEW s \in Sessions, NEW q, IsReq(q), q.pc = "saved",
         NEW Q2, Q2 = [NoLongerAlone(s) EXCEPT ![s] = q]
  PROVE  /\ DOMAIN Q2 = Sessions
         /\ \A t \in Sessions : /\ IsReq(Q2[t])
                                /\ Q2[t].pc \in {"idle", "saved"} \/ Same(Q2[t], req[t])
         /\ \A t \in Sessions : Q2[t].pc = "read" => t # s /\ req[t].pc = "read"
<1> DEFINE N == NoLongerAlone(s)
<1>1. DOMAIN N = Sessions
  BY DEF NoLongerAlone
<1>2. ASSUME NEW t \in Sessions PROVE IsReq(N[t]) /\ Same(N[t], req[t])
  <2>1. IsReq(req[t])
    BY DEF AtWork
  <2>2. CASE t # s /\ req[t].app = req[s].app
    <3>1. N[t] = [req[t] EXCEPT !.alone = FALSE]
      BY <2>2 DEF NoLongerAlone
    <3> DEFINE r == req[t]
    <3>2. N[t] = [pc |-> r.pc, op |-> r.op, app |-> r.app, graph |-> r.graph, rows |-> r.rows,
                  entries |-> r.entries, plan |-> r.plan, touched |-> r.touched,
                  new |-> r.new, alone |-> FALSE]
      <4> HIDE DEF N, r
      <4>1. N[t] = [r EXCEPT !.alone = FALSE] /\ IsReq(r)
        BY <2>1, <3>1 DEF r
      <4>2. QED BY <4>1 DEF IsReq
    <3> HIDE DEF N
    <3>3. QED BY <3>2 DEF IsReq, Same
  <2>3. CASE ~(t # s /\ req[t].app = req[s].app)
    <3>1. N[t] = req[t]
      BY <2>3 DEF NoLongerAlone
    <3>2. QED BY <2>1, <3>1 DEF Same
  <2>4. QED BY <2>2, <2>3
<1> HIDE DEF N
<1>3. DOMAIN Q2 = Sessions /\ Q2[s] = q /\ \A t \in Sessions : t # s => Q2[t] = N[t]
  BY <1>1 DEF N
<1>4. ASSUME NEW t \in Sessions PROVE IsReq(Q2[t]) /\ (Q2[t].pc \in {"idle", "saved"} \/ Same(Q2[t], req[t]))
  BY <1>2, <1>3
<1>5. ASSUME NEW t \in Sessions, Q2[t].pc = "read" PROVE t # s /\ req[t].pc = "read"
  BY <1>2, <1>3, <1>5 DEF Same
<1>6. QED BY <1>3, <1>4, <1>5

LEMMA SaveKeeps ==
  ASSUME DeploymentInv, NEW s \in Sessions, Save(s)
  PROVE  DeploymentInv'
<1> DEFINE q == req[s]
           R == RowsAfter(q)
           done == Committed(q.app, q.plan.names)
<1>1. /\ Tables(app, rows, entries, wirings, lastId) /\ AtWork(req, rows, lastId)
      /\ Shaped(file) /\ LoadKnown
  BY DEF DeploymentInv
<1>2. /\ q.pc = "read" /\ ~ Vanished(q) /\ ~ Collides(q)
      /\ rows' = R /\ entries' = EntriesAfter(q)
      /\ wirings' = IF q.op = "list" THEN wirings
                    ELSE {w \in wirings : w.app # q.app} \cup q.plan.wire
      /\ app' = IF q.new THEN app \cup {q.app} ELSE app
      /\ req' = [NoLongerAlone(s) EXCEPT ![s] = done]
      /\ UNCHANGED <<lastId, file, load>>
  BY DEF Save, Refused, Committed
<1> HIDE DEF done
<1>3. Reading(q, rows, lastId)
  BY <1>1, <1>2 DEF AtWork
<1> HIDE DEF q
<1>4. app \subseteq app' /\ q.app \in app' /\ app' \subseteq Apps
  <2>1. q.app \in Apps /\ app \subseteq Apps
    BY <1>1, <1>3 DEF Reading, Tables
  <2>2. q.app \in app \/ q.new
    BY <1>2 DEF Vanished
  <2>3. QED BY <1>2, <2>1, <2>2
<1>5. /\ DOMAIN R = DOMAIN q.plan.add \cup (DOMAIN rows \ q.plan.drop)
      /\ \A i \in DOMAIN q.plan.add : R[i] = q.plan.add[i]
      /\ \A i \in DOMAIN rows \ q.plan.drop : 
            IsRow(R[i]) /\ R[i].app = rows[i].app /\ R[i].name = rows[i].name
  BY <1>1, <1>3, RowsAfterAre
<1>6. \A i, j \in DOMAIN R : i # j => /\ R[i].name # R[j].name
                                      /\ R[i].app = R[j].app => R[i].node # R[j].node
  BY <1>1, <1>2, <1>3, NoTwoAlike
<1>7. /\ IsFiniteSet(DOMAIN entries')
      /\ \A x \in DOMAIN entries' :
            /\ IsEntry(entries'[x]) /\ entries'[x].app \in app'
            /\ entries'[x].row # 0 => /\ entries'[x].row \in DOMAIN R
                                      /\ R[entries'[x].row].app = entries'[x].app
  BY <1>1, <1>2, <1>3, <1>4, EntriesAfterAre
<1>8. \A w \in wirings' : w.app \in app'
  <2>1. \A w \in wirings : w.app \in app'
    BY <1>1, <1>4 DEF Tables
  <2>2. \A w \in q.plan.wire : w.app \in app'
    BY <1>3, <1>4 DEF Reading, Plans
  <2>3. QED BY <1>2, <2>1, <2>2
<1> HIDE DEF R
<1>9. Tables(app', rows', entries', wirings', lastId')
  <2>1. DOMAIN R \subseteq 1 .. lastId
    BY <1>1, <1>3, <1>5 DEF Tables, Reading
  <2>2. \A i \in DOMAIN R : IsRow(R[i]) /\ R[i].app \in app'
    <3>1. \A i \in DOMAIN q.plan.add : IsRow(R[i]) /\ R[i].app \in app'
      BY <1>3, <1>4, <1>5 DEF Reading, Plans
    <3>2. \A i \in DOMAIN rows \ q.plan.drop : IsRow(R[i]) /\ R[i].app \in app'
      BY <1>1, <1>4, <1>5 DEF Tables
    <3>3. QED BY <1>5, <3>1, <3>2
  <2>3. lastId \in Nat
    BY <1>1 DEF Tables
  <2>4. QED BY <1>2, <1>4, <1>6, <1>7, <1>8, <2>1, <2>2, <2>3 DEF Tables
<1>10. AtWork(req', R, lastId)
  <2>1. IsReq(done) /\ done.pc = "saved"
    BY CommittedIsQuiet DEF done
  <2>2. /\ DOMAIN req' = Sessions
        /\ \A t \in Sessions : /\ IsReq(req'[t])
                               /\ req'[t].pc \in {"idle", "saved"} \/ Same(req'[t], req[t])
        /\ \A t \in Sessions : req'[t].pc = "read" => t # s /\ req[t].pc = "read"
    BY <1>1, <1>2, <2>1, CommitLeaves
  <2>3. ASSUME NEW t \in Sessions, req'[t].pc = "read"
        PROVE  /\ DOMAIN req[t].plan.add \cap DOMAIN R = {}
               /\ \A i \in DOMAIN req[t].rows \cap DOMAIN R :
                     i \in DOMAIN rows /\ R[i].app = rows[i].app /\ R[i].name = rows[i].name
    <3>1. t # s /\ req[t].pc = "read"
      BY <2>2, <2>3
    <3>2. Reading(req[t], rows, lastId) /\ Apart(req[t], q) /\ Apart(q, req[t])
      BY <1>1, <1>2, <3>1 DEF AtWork, q
    <3>3. DOMAIN req[t].plan.add \cap DOMAIN R = {}
      BY <1>5, <3>2 DEF Apart, Reading
    <3>4. DOMAIN req[t].rows \cap DOMAIN q.plan.add = {}
      BY <3>2 DEF Apart
    <3>5. QED BY <1>5, <3>3, <3>4
  <2>4. QED BY <1>1, <2>2, <2>3, AtWorkKept
<1>11. QED
  BY <1>1, <1>2, <1>9, <1>10 DEF DeploymentInv, LoadKnown

LEMMA DeleteKeeps ==
  ASSUME DeploymentInv, NEW s \in Sessions, Delete(s)
  PROVE  DeploymentInv'
<1> DEFINE q == req[s]
           R == [i \in DOMAIN rows \ RowsOf(q.app) |-> rows[i]]
           E == [x \in DOMAIN entries \ EntriesOf(q.app) |-> entries[x]]
           done == Committed(q.app, q.plan.names)
<1>1. /\ Tables(app, rows, entries, wirings, lastId) /\ AtWork(req, rows, lastId)
      /\ Shaped(file) /\ LoadKnown
  BY DEF DeploymentInv
<1>2. /\ rows' = R /\ entries' = E /\ app' = app \ {q.app}
      /\ wirings' = {w \in wirings : w.app # q.app}
      /\ req' = [NoLongerAlone(s) EXCEPT ![s] = done]
      /\ UNCHANGED <<lastId, file, load>>
  BY DEF Delete, Committed
<1> HIDE DEF done, q
<1>3. /\ DOMAIN R \subseteq DOMAIN rows
      /\ \A i \in DOMAIN R : R[i] = rows[i] /\ rows[i].app # q.app
      /\ \A i \in DOMAIN rows : rows[i].app # q.app => i \in DOMAIN R
  BY DEF RowsOf
<1>4. DOMAIN E \subseteq DOMAIN entries /\ \A x \in DOMAIN E : E[x] = entries[x] /\ entries[x].app # q.app
  BY DEF EntriesOf
<1> HIDE DEF R, E
<1>5. Tables(app', rows', entries', wirings', lastId')
  <2>1. IsFiniteSet(DOMAIN E)
    BY <1>1, <1>4, FS_Subset DEF Tables
  <2>2. \A x \in DOMAIN E : /\ IsEntry(E[x]) /\ E[x].app \in app'
                            /\ E[x].row # 0 => E[x].row \in DOMAIN R /\ R[E[x].row].app = E[x].app
    BY <1>1, <1>2, <1>3, <1>4 DEF Tables
  <2>3. \A i \in DOMAIN R : IsRow(R[i]) /\ R[i].app \in app'
    BY <1>1, <1>2, <1>3 DEF Tables
  <2>4. \A i, j \in DOMAIN R : i # j => /\ R[i].name # R[j].name
                                        /\ R[i].app = R[j].app => R[i].node # R[j].node
    BY <1>1, <1>3 DEF Tables
  <2>5. \A w \in wirings' : w.app \in app'
    BY <1>1, <1>2 DEF Tables
  <2>6. app' \subseteq Apps /\ lastId' \in Nat /\ DOMAIN R \subseteq 1 .. lastId'
    BY <1>1, <1>2, <1>3 DEF Tables
  <2>7. QED BY <1>2, <2>1, <2>2, <2>3, <2>4, <2>5, <2>6 DEF Tables
<1>6. AtWork(req', R, lastId)
  <2>1. IsReq(done) /\ done.pc = "saved"
    BY CommittedIsQuiet DEF done
  <2>2. /\ DOMAIN req' = Sessions
        /\ \A t \in Sessions : /\ IsReq(req'[t])
                               /\ req'[t].pc \in {"idle", "saved"} \/ Same(req'[t], req[t])
        /\ \A t \in Sessions : req'[t].pc = "read" => t # s /\ req[t].pc = "read"
    BY <1>1, <1>2, <2>1, CommitLeaves
  <2>3. ASSUME NEW t \in Sessions, req'[t].pc = "read"
        PROVE  /\ DOMAIN req[t].plan.add \cap DOMAIN R = {}
               /\ \A i \in DOMAIN req[t].rows \cap DOMAIN R :
                     i \in DOMAIN rows /\ R[i].app = rows[i].app /\ R[i].name = rows[i].name
    <3>1. Reading(req[t], rows, lastId)
      BY <1>1, <2>2, <2>3 DEF AtWork
    <3>2. QED BY <1>3, <3>1 DEF Reading
  <2>4. QED BY <1>1, <2>2, <2>3, AtWorkKept
<1>7. QED
  BY <1>1, <1>2, <1>5, <1>6 DEF DeploymentInv, LoadKnown

\* A step that leaves the tables alone and ends a request.
LEMMA RequestEnds ==
  ASSUME DeploymentInv, NEW s \in Sessions, NEW q, IsReq(q), q.pc \in {"idle", "saved"},
         req' = [req EXCEPT ![s] = q],
         UNCHANGED <<app, rows, entries, wirings, lastId, file, load>>
  PROVE  DeploymentInv'
<1>1. AtWork([req EXCEPT ![s] = q], rows, lastId)
  BY QuietKeeps DEF DeploymentInv
<1>2. QED BY <1>1 DEF DeploymentInv, LoadKnown

LEMMA LoadKeeps ==
  ASSUME DeploymentInv, \/ LoadMiss \/ FillConfig \/ FillLocator \/ FillFails
  PROVE  DeploymentInv'
<1>1. LoadKnown'
  <2>1. CASE LoadMiss
    BY <2>1 DEF LoadMiss, LoadKnown
  <2>2. CASE FillConfig
    BY <2>2 DEF FillConfig, LoadKnown, DeploymentInv
  <2>3. CASE FillLocator \/ FillFails
    BY <2>3 DEF FillLocator, FillFails, LoadKnown, AtRest
  <2>4. QED BY <2>1, <2>2, <2>3
<1>2. UNCHANGED <<app, rows, entries, wirings, lastId, req, file>>
  BY DEF LoadMiss, FillConfig, FillLocator, FillFails, database
<1>3. QED BY <1>1, <1>2 DEF DeploymentInv

LEMMA ExpireKeeps ==
  ASSUME DeploymentInv, NEW n, Expire(n)
  PROVE  DeploymentInv'
<1>1. UNCHANGED <<app, rows, entries, wirings, lastId, req, file, load>>
  BY DEF Expire, database
<1>2. QED BY <1>1 DEF DeploymentInv, LoadKnown

LEMMA ExportKeeps ==
  ASSUME DeploymentInv, ExportApplication
  PROVE  DeploymentInv'
<1>1. PICK a \in app : file' = ExportGraph(a)
  BY DEF ExportApplication
<1>2. UNCHANGED <<app, rows, entries, wirings, lastId, req, load>>
  BY DEF ExportApplication, database
<1>3. Shaped(ExportGraph(a))
  <2>1. lastId \in Nat /\ DOMAIN rows \subseteq 1 .. lastId /\ IsFiniteSet(DOMAIN entries)
        /\ \A i \in DOMAIN rows : IsFiniteSet(rows[i].agents)
    BY DEF DeploymentInv, Tables, IsRow
  <2>2. IsFiniteSet(1 .. lastId)
    BY <2>1, FS_Interval
  <2>3. IsFiniteSet(DOMAIN rows)
    BY <2>1, <2>2, FS_Subset
  <2>4. QED BY <2>1, <2>3, ExportIsShaped
<1>4. QED BY <1>1, <1>2, <1>3 DEF DeploymentInv, LoadKnown

\* A drawing of an editor, made from nothing or from the saved application.
LEMMA DrawnIsShaped ==
  ASSUME NEW a, NEW g \in DrawnFor(a)
  PROVE  Shaped(g)
<1>1. CASE g \in Drawings
  BY <1>1, DeploymentAssumption, NewIsShaped
<1>2. ASSUME g \notin Drawings PROVE Shaped(g)
  <2>1. PICK h \in Drawings : \E f \in [NodesOf(h, "orch") -> {0} \cup RowsOf(a)] : g = Rebuilt(h, f)
    BY <1>2 DEF DrawnFor
  <2>2. PICK f \in [NodesOf(h, "orch") -> {0} \cup RowsOf(a)] : g = Rebuilt(h, f)
    BY <2>1
  <2>3. NewDrawing(h) /\ DOMAIN f = NodesOf(h, "orch")
    BY DeploymentAssumption
  <2>4. QED BY <2>2, <2>3, RebuiltIsShaped
<1>3. QED BY <1>1, <1>2

LEMMA NothingPlanned ==
  ASSUME lastId \in Nat, NEW a, NEW R, NEW E, NEW T
  PROVE  LET plan == [NoPlan EXCEPT !.names = T] IN Plans(a, R, E, plan) /\ NextIds(plan)
<1> DEFINE plan == [NoPlan EXCEPT !.names = T]
<1>1. plan.add = <<>> /\ plan.update = <<>> /\ plan.link = <<>> /\ plan.wire = {} /\ plan.drop = {}
  BY DEF NoPlan
<1>2. DOMAIN <<>> = {} /\ IsFiniteSet({}) /\ Cardinality({}) = 0
  BY FS_EmptySet
<1> HIDE DEF plan
<1>3. Plans(a, R, E, plan)
  BY <1>1, <1>2 DEF Plans
<1>4. NextIds(plan)
  BY <1>1, <1>2 DEF NextIds
<1>5. QED BY <1>3, <1>4 DEF plan

LEMMA RequestBegins ==
  ASSUME DeploymentInv, NEW s \in Sessions,
         \/ CreateApplication(s) \/ UpdateApplication(s) \/ ListApplication(s)
         \/ DeleteApplication(s)
  PROVE  DeploymentInv'
<1>1. Tables(app, rows, entries, wirings, lastId) /\ Shaped(file) /\ lastId \in Nat /\ app \subseteq Apps
  BY DEF DeploymentInv, Tables
<1>2. NewApp \subseteq Apps
  BY DEF NewApp
<1>3. CASE CreateApplication(s)
  <2>1. PICK a \in NewApp, g \in Drawings \cup {file} :
            ValidGraph(g) /\ Begin(s, "graph", a, g, GraphPlan(a, g, <<>>, <<>>))
    BY <1>3 DEF CreateApplication
  <2>2. Shaped(g)
    BY <1>1, DeploymentAssumption, NewIsShaped
  <2> DEFINE plan == GraphPlan(a, g, <<>>, <<>>)
  <2>3. Plans(a, <<>>, ReadEntries(a), plan) /\ NextIds(plan)
    BY <1>1, <2>1, <2>2, GraphPlanIs
  <2>4. Begin(s, "graph", a, g, plan)
    BY <2>1
  <2> HIDE DEF plan
  <2>5. Plans(a, ReadRows(a), ReadEntries(a), plan)
    BY <2>3 DEF Plans
  <2>6. QED BY <1>2, <2>3, <2>4, <2>5, BeginKeeps
<1>4. CASE UpdateApplication(s)
  <2>0. PICK a \in app : \E g \in DrawnFor(a) \cup {file} :
            /\ ValidGraph(g)
            /\ Begin(s, "graph", a, g, GraphPlan(a, g, ReadRows(a), ReadEntries(a)))
    BY <1>4 DEF UpdateApplication
  <2>1. PICK g \in DrawnFor(a) \cup {file} :
            ValidGraph(g) /\ Begin(s, "graph", a, g, GraphPlan(a, g, ReadRows(a), ReadEntries(a)))
    BY <2>0
  <2>2. Shaped(g)
    BY <1>1, DrawnIsShaped
  <2> DEFINE plan == GraphPlan(a, g, ReadRows(a), ReadEntries(a))
  <2>3. Plans(a, ReadRows(a), ReadEntries(a), plan) /\ NextIds(plan)
    BY <1>1, <2>1, <2>2, GraphPlanIs
  <2>4. Begin(s, "graph", a, g, plan)
    BY <2>1
  <2> HIDE DEF plan
  <2>5. QED BY <1>1, <2>3, <2>4, BeginKeeps
<1>5. CASE ListApplication(s)
  <2>1. PICK a \in app \cup NewApp, l \in Lists : \E i \in RowsOf(a) \cup {0} :
            Begin(s, "list", a, NoGraph,
                  ListPlan(a, [slugs |-> l.slugs, agents |-> l.agents, row |-> i],
                           ReadRows(a), ReadEntries(a)))
    BY <1>5 DEF ListApplication
  <2>2. PICK i \in RowsOf(a) \cup {0} :
            Begin(s, "list", a, NoGraph,
                  ListPlan(a, [slugs |-> l.slugs, agents |-> l.agents, row |-> i],
                           ReadRows(a), ReadEntries(a)))
    BY <2>1
  <2> DEFINE list == [slugs |-> l.slugs, agents |-> l.agents, row |-> i]
             plan == ListPlan(a, list, ReadRows(a), ReadEntries(a))
  <2>3. IsFiniteSet(list.slugs) /\ IsFiniteSet(list.agents) /\ list.row = i
    BY DeploymentAssumption
  <2>4. /\ DOMAIN ReadRows(a) = RowsOf(a)
        /\ \A j \in RowsOf(a) : j \in DOMAIN rows /\ rows[j].app = a /\ ReadRows(a)[j] = rows[j]
        /\ DOMAIN ReadEntries(a) = EntriesOf(a)
        /\ \A x \in EntriesOf(a) : /\ x \in DOMAIN entries /\ entries[x].app = a
                                   /\ ReadEntries(a)[x] = entries[x]
    BY DEF ReadRows, ReadEntries, RowsOf, EntriesOf
  <2>5. \A j \in DOMAIN ReadRows(a) : j \in 1 .. lastId /\ IsRow(ReadRows(a)[j])
    BY <1>1, <2>4 DEF Tables
  <2>6. \A x \in DOMAIN ReadEntries(a) :
           ReadEntries(a)[x].row # 0 => ReadEntries(a)[x].row \in DOMAIN ReadRows(a)
    <3>1. \A x \in EntriesOf(a) : entries[x].row # 0 => entries[x].row \in RowsOf(a)
      BY <1>1, <2>4 DEF Tables, RowsOf
    <3>2. QED BY <2>4, <3>1
  <2>7. Begin(s, "list", a, NoGraph, plan)
    BY <2>2
  <2>8. list.row \in DOMAIN ReadRows(a) \cup {0}
    BY <2>3, <2>4
  <2> HIDE DEF list
  <2>9. Plans(a, ReadRows(a), ReadEntries(a), plan) /\ NextIds(plan)
    BY <1>1, <2>3, <2>5, <2>6, <2>8, ListPlanIs
  <2> HIDE DEF plan
  <2>10. a \in Apps
    BY <1>1, <1>2
  <2>11. QED BY <2>7, <2>9, <2>10, BeginKeeps
<1>6. CASE DeleteApplication(s)
  <2>1. PICK a \in app : Begin(s, "delete", a, NoGraph,
                               [NoPlan EXCEPT !.names = {rows[i].name : i \in RowsOf(a)}])
    BY <1>6 DEF DeleteApplication
  <2> DEFINE T == {rows[i].name : i \in RowsOf(a)}
             plan == [NoPlan EXCEPT !.names = T]
  <2>2. Begin(s, "delete", a, NoGraph, plan) /\ plan.names = T
    BY <2>1 DEF NoPlan
  <2>3. \A i \in RowsOf(a) : rows[i].name \in T
    OBVIOUS
  <2> HIDE DEF T
  <2>4. Plans(a, ReadRows(a), ReadEntries(a), plan) /\ NextIds(plan)
    BY <1>1, NothingPlanned
  <2> HIDE DEF plan
  <2>5. QED BY <1>1, <2>2, <2>3, <2>4, BeginKeeps
<1>7. QED BY <1>3, <1>4, <1>5, <1>6

LEMMA TemplateKeeps ==
  ASSUME DeploymentInv, NEW s \in Sessions, NEW n, NEW v, EditTemplate(s, n, v)
  PROVE  DeploymentInv'
<1>1. /\ req' = [req EXCEPT ![s] = Committed(Shared, {n})]
      /\ UNCHANGED <<app, rows, entries, wirings, lastId, file, load>>
  BY DEF EditTemplate, Committed
<1>2. QED BY <1>1, CommittedIsQuiet, RequestEnds

LEMMA DeploymentInductive == DeploymentInv /\ [Next]_vars => DeploymentInv'
<1> SUFFICES ASSUME DeploymentInv, [Next]_vars PROVE DeploymentInv'
  OBVIOUS
<1>1. ASSUME NEW s \in Sessions,
             \/ CreateApplication(s) \/ UpdateApplication(s) \/ ListApplication(s)
             \/ DeleteApplication(s)
      PROVE  DeploymentInv'
  BY <1>1, RequestBegins
<1>2. ASSUME NEW s \in Sessions, Save(s) PROVE DeploymentInv'
  BY <1>2, SaveKeeps
<1>3. ASSUME NEW s \in Sessions, Delete(s) PROVE DeploymentInv'
  BY <1>3, DeleteKeeps
<1>4. ASSUME NEW s \in Sessions, Refuse(s) \/ Flush(s) \/ LoseFlush(s) PROVE DeploymentInv'
  <2>1. /\ req' = [req EXCEPT ![s] = Idle]
        /\ UNCHANGED <<app, rows, entries, wirings, lastId, file, load>>
    BY <1>4 DEF Refuse, Flush, LoseFlush, database
  <2>2. QED BY <2>1, IdleIsQuiet, RequestEnds
<1>5. ASSUME NEW s \in Sessions, CreateTemplate(s) \/ UpdateTemplate(s) \/ DeleteTemplate(s)
      PROVE  DeploymentInv'
  <2>1. \E n, v : EditTemplate(s, n, v)
    BY <1>5 DEF CreateTemplate, UpdateTemplate, DeleteTemplate
  <2>2. QED BY <2>1, TemplateKeeps
<1>6. CASE ExportApplication
  BY <1>6, ExportKeeps
<1>7. CASE LoadMiss \/ FillConfig \/ FillLocator \/ FillFails
  BY <1>7, LoadKeeps
<1>8. ASSUME NEW n \in Watched, Expire(n) PROVE DeploymentInv'
  BY <1>8, ExpireKeeps
<1>9. CASE UNCHANGED vars
  <2>1. UNCHANGED <<app, rows, entries, wirings, lastId, req, file, load>>
    BY <1>9 DEF vars
  <2>2. QED BY <2>1 DEF DeploymentInv, LoadKnown
<1>10. QED BY <1>1, <1>2, <1>3, <1>4, <1>5, <1>6, <1>7, <1>8, <1>9 DEF Next

LEMMA DeploymentInitially == Init => DeploymentInv
<1> SUFFICES ASSUME Init PROVE DeploymentInv
  OBVIOUS
<1>1. Tables(app, rows, entries, wirings, lastId)
  <2>1. DOMAIN <<>> = {} /\ IsFiniteSet({})
    BY FS_EmptySet
  <2>2. QED BY <2>1 DEF Init, Tables
<1>2. AtWork(req, rows, lastId)
  <2>1. DOMAIN req = Sessions /\ \A s \in Sessions : req[s] = Idle
    BY DEF Init
  <2>2. QED BY <2>1, IdleIsQuiet DEF AtWork
<1>3. Shaped(file)
  <2>1. file.kind = <<>> /\ file.edges = <<>>
    BY DEF Init, NoGraph
  <2>2. DOMAIN file.kind = {} /\ DOMAIN file.edges = {} /\ IsFiniteSet({})
    BY <2>1, FS_EmptySet
  <2>3. \A k \in {"entry", "orch", "agent"} : NodesOf(file, k) = {}
    BY <2>2 DEF NodesOf
  <2>4. QED BY <2>2, <2>3 DEF Shaped
<1>4. LoadKnown
  BY DEF Init, LoadKnown, AtRest
<1>5. QED BY <1>1, <1>2, <1>3, <1>4 DEF DeploymentInv

\* Whatever requests run at the same time, the tables stay as the schema wants
\* them, and every request that has read still owns the ids it took and holds
\* rows that are gone or its application's (_get_or_404 to commit).
THEOREM TablesKept == Spec => []DeploymentInv
BY DeploymentInitially, DeploymentInductive, PTL DEF Spec

\* The rows hang together whatever requests ran at the same time: an entry
\* point's orchestrator is there and its application's, names are unique over
\* all applications and node ids within one (compile_graph, the schema's keys).
THEOREM RowsHangTogether == Spec => []Referential
<1>1. DeploymentInv => Referential
  <2> SUFFICES ASSUME DeploymentInv PROVE Referential
    OBVIOUS
  <2>1. Tables(app, rows, entries, wirings, lastId)
    BY DEF DeploymentInv
  <2>2. \A x \in DOMAIN entries :
          /\ entries[x].app \in app
          /\ entries[x].row # 0 => entries[x].row \in RowsOf(entries[x].app)
    BY <2>1 DEF Tables, RowsOf
  <2>3. \A i \in DOMAIN rows :
          /\ rows[i].app \in app
          /\ \A j \in DOMAIN rows \ {i} :
                /\ rows[i].name # rows[j].name
                /\ rows[i].app = rows[j].app => rows[i].node # rows[j].node
    BY <2>1 DEF Tables
  <2>4. \A s \in Sessions : req[s].pc \in {"idle", "read", "saved"}
    BY DEF DeploymentInv, AtWork
  <2>5. load.pc \in {"idle", "config", "locator"}
    BY DEF DeploymentInv, LoadKnown
  <2>6. QED BY <2>1, <2>2, <2>3, <2>4, <2>5 DEF Referential, Tables
<1>2. QED BY <1>1, TablesKept, PTL

-----------------------------------------------------------------------------
(***************************************************************************)
(* The cached configurations.                                              *)
(***************************************************************************)

\* A flush of the name is on its way.
Pending(n) == \E s \in Sessions : req[s].pc = "saved" /\ n \in req[s].touched

\* It is, or it was lost, or it met a fill of the name: what CacheHonest allows.
Excused(n) == n \in straddled \cup unflushed \/ Pending(n)

\* What a load holds is what the database holds.
LoadTrue == load.scope = Resolve(load.name).scope /\ load.found = Resolve(load.name).found

\* CacheHonest is not inductive: the load that is about to write the cache must
\* hold the truth unless its name is excused, and between its two writes the
\* configuration it wrote is still the one under its key.
CacheInv ==
  /\ \A n \in DOMAIN locator : locator[n] # None
  /\ load.pc \in {"config", "locator"} => load.name \in Watched /\ load.scope # None
  /\ (load.pc = "locator" /\ <<load.scope, load.name>> \in DOMAIN config)
        => config[<<load.scope, load.name>>] = load.found
  /\ \A n \in Watched : Excused(n) \/ CurrentlyServed(n)
  /\ load.pc \in {"config", "locator"} => Excused(load.name) \/ LoadTrue

\* No name of a row the list form makes is a template's: the save of a list
\* flushes no name of a row it makes (_apply_entry_point_diff), and a template
\* made under that name in the meantime would go on being served.
ListNamesFree == \A n \in TemplateNames : n[1] \notin {"list", "auto"}

\* Resolve, of the rows and the templates given as values.
ResolveIn(R, T, n) ==
    LET own == {i \in DOMAIN R : R[i].name = n}
    IN  IF own # {}
        THEN LET i == CHOOSE i \in own : TRUE
             IN  [scope |-> R[i].app, found |-> Config(i, R[i].agents, R[i].delegatable)]
        ELSE IF n \in {m \in TemplateNames : T[m] # None}
        THEN [scope |-> Shared, found |-> Config(0, T[n], FALSE)]
        ELSE [scope |-> None, found |-> None]

LEMMA ResolveIs ==
  ASSUME NEW n
  PROVE  Resolve(n) = ResolveIn(rows, template, n) /\ Resolve(n)' = ResolveIn(rows', template', n)
BY DEF Resolve, ResolveIn, LiveTemplates

\* The rows with a name, before and after.
LEMMA ResolveSame ==
  ASSUME NEW n, NEW R, NEW T, NEW R2, NEW T2,
         {i \in DOMAIN R2 : R2[i].name = n} = {i \in DOMAIN R : R[i].name = n},
         \A i \in DOMAIN R : R[i].name = n => R2[i] = R[i],
         n \in TemplateNames => T2[n] = T[n]
  PROVE  ResolveIn(R2, T2, n) = ResolveIn(R, T, n)
<1> DEFINE own == {i \in DOMAIN R : R[i].name = n}
           own2 == {i \in DOMAIN R2 : R2[i].name = n}
<1>1. own2 = own /\ \A i \in own : R2[i] = R[i]
  OBVIOUS
<1>2. CASE own # {}
  <2> DEFINE i == CHOOSE i \in own : TRUE
  <2>1. i \in own /\ R2[i] = R[i]
    BY <1>1, <1>2
  <2>2. ResolveIn(R, T, n) = [scope |-> R[i].app, found |-> Config(i, R[i].agents, R[i].delegatable)]
    BY <1>2 DEF ResolveIn
  <2>3. ResolveIn(R2, T2, n) = [scope |-> R2[i].app, found |-> Config(i, R2[i].agents, R2[i].delegatable)]
    BY <1>1, <1>2 DEF ResolveIn
  <2> HIDE DEF i
  <2>4. QED BY <2>1, <2>2, <2>3
<1>3. CASE own = {}
  <2>1. ResolveIn(R, T, n) = IF n \in {m \in TemplateNames : T[m] # None}
                             THEN [scope |-> Shared, found |-> Config(0, T[n], FALSE)]
                             ELSE [scope |-> None, found |-> None]
    BY <1>3 DEF ResolveIn
  <2>2. ResolveIn(R2, T2, n) = IF n \in {m \in TemplateNames : T2[m] # None}
                               THEN [scope |-> Shared, found |-> Config(0, T2[n], FALSE)]
                               ELSE [scope |-> None, found |-> None]
    BY <1>1, <1>3 DEF ResolveIn
  <2>3. CASE n \in TemplateNames
    <3>1. T2[n] = T[n]
      BY <2>3
    <3>2. CASE T[n] = None
      BY <2>1, <2>2, <2>3, <3>1, <3>2
    <3>3. CASE T[n] # None
      BY <2>1, <2>2, <2>3, <3>1, <3>3
    <3>4. QED BY <3>2, <3>3
  <2>4. CASE n \notin TemplateNames
    BY <2>1, <2>2, <2>4
  <2>5. QED BY <2>3, <2>4
<1>4. QED BY <1>2, <1>3

\* A step after which every watched name is excused, or resolves and is served
\* as before, or resolved to nothing, keeps the cache honest.
LEMMA TablesStep ==
  ASSUME CacheInv, UNCHANGED <<config, locator, load>>,
         \A n \in Watched :
            \/ Excused(n)'
            \/ ~ Excused(n) /\ Resolve(n)' = Resolve(n)
            \/ ~ Excused(n) /\ Resolve(n).scope = None
            \/ ~ Hit(n) /\ load.name # n
  PROVE  CacheInv'
<1> SUFFICES /\ \A n \in Watched : Excused(n)' \/ CurrentlyServed(n)'
             /\ load.pc \in {"config", "locator"} => Excused(load.name)' \/ LoadTrue'
  BY DEF CacheInv
<1>1. ASSUME NEW n \in Watched PROVE Excused(n)' \/ CurrentlyServed(n)'
  <2>1. Hit(n)' <=> Hit(n)
    BY DEF Hit
  <2>2. CASE Excused(n)'
    BY <2>2
  <2>3. CASE ~ Excused(n) /\ Resolve(n)' = Resolve(n)
    BY <2>1, <2>3 DEF CacheInv, CurrentlyServed, Served
  <2>4. CASE ~ Excused(n) /\ Resolve(n).scope = None
    <3>1. ~ Hit(n)
      BY <2>4 DEF CacheInv, CurrentlyServed, Hit
    <3>2. QED BY <2>1, <3>1 DEF CurrentlyServed
  <2>5. CASE ~ Hit(n)
    BY <2>1, <2>5 DEF CurrentlyServed
  <2>6. QED BY <2>2, <2>3, <2>4, <2>5
<1>2. ASSUME load.pc \in {"config", "locator"} PROVE Excused(load.name)' \/ LoadTrue'
  <2> DEFINE n == load.name
  <2>0. n \in Watched
    BY <1>2 DEF CacheInv
  <2>1. CASE Excused(n)'
    BY <2>1
  <2>2. CASE ~ Excused(n) /\ Resolve(n)' = Resolve(n)
    <3>1. LoadTrue
      BY <1>2, <2>2 DEF CacheInv
    <3>2. QED BY <2>2, <3>1 DEF LoadTrue
  <2>3. ~(~ Excused(n) /\ Resolve(n).scope = None)
    BY <1>2 DEF CacheInv, LoadTrue
  <2>4. QED BY <2>0, <2>1, <2>2, <2>3
<1>3. QED BY <1>1, <1>2

\* A request that is replaced while nothing awaits its flush.
LEMMA PendingKept ==
  ASSUME AtWork(req, rows, lastId), NEW s \in Sessions, req[s].pc # "saved",
         NEW q, req' = [req EXCEPT ![s] = q], NEW n, Pending(n)
  PROVE  Pending(n)'
<1>1. PICK t \in Sessions : req[t].pc = "saved" /\ n \in req[t].touched
  BY DEF Pending
<1>2. t # s /\ DOMAIN req = Sessions
  BY <1>1 DEF AtWork
<1>3. req'[t] = req[t]
  BY <1>2
<1>4. QED BY <1>1, <1>3 DEF Pending

\* After a commit its names await their flush, and so do those that did.
LEMMA CommitPends ==
  ASSUME AtWork(req, rows, lastId), NEW s \in Sessions, req[s].pc # "saved", NEW a, NEW T,
         req' = [NoLongerAlone(s) EXCEPT ![s] = Committed(a, T)],
         NEW n, Pending(n) \/ n \in T
  PROVE  Pending(n)'
<1> DEFINE N == NoLongerAlone(s)
           q == Committed(a, T)
<1>1. DOMAIN N = Sessions
  BY DEF NoLongerAlone
<1>2. /\ q.pc = "saved" /\ q.touched = T
      /\ req' = [N EXCEPT ![s] = q]
  BY CommittedIsQuiet
<1> HIDE DEF q
<1>3. CASE n \in T
  <2>1. req'[s] = q
    <3> HIDE DEF N
    <3>1. QED BY <1>1, <1>2
  <2>2. QED BY <1>2, <1>3, <2>1 DEF Pending
<1>4. CASE Pending(n)
  <2>1. PICK t \in Sessions : req[t].pc = "saved" /\ n \in req[t].touched
    BY <1>4 DEF Pending
  <2>2. t # s /\ IsReq(req[t])
    BY <2>1 DEF AtWork
  <2>3. N[t].pc = req[t].pc /\ N[t].touched = req[t].touched
    BY <2>2 DEF NoLongerAlone, IsReq
  <2> HIDE DEF N
  <2>4. req'[t] = N[t]
    BY <1>1, <1>2, <2>2
  <2>5. QED BY <2>1, <2>3, <2>4 DEF Pending
<1>5. QED BY <1>3, <1>4

LEMMA SaveResolves ==
  ASSUME DeploymentInv, ListNamesFree, NEW s \in Sessions, Save(s), NEW n, n \notin req[s].plan.names
  PROVE  Resolve(n)' = Resolve(n) \/ Resolve(n).scope = None
<1> DEFINE q == req[s]
           R == RowsAfter(q)
           own == {i \in DOMAIN rows : rows[i].name = n}
<1>1. Tables(app, rows, entries, wirings, lastId) /\ AtWork(req, rows, lastId)
  BY DEF DeploymentInv
<1>2. q.pc = "read" /\ ~ Collides(q) /\ rows' = R /\ template' = template
  BY DEF Save, Refused
<1>3. Reading(q, rows, lastId)
  BY <1>1, <1>2 DEF AtWork
<1>4. n \notin q.plan.names
  OBVIOUS
<1>5. /\ DOMAIN R = DOMAIN q.plan.add \cup (DOMAIN rows \ q.plan.drop)
      /\ \A i \in DOMAIN q.plan.add : R[i] = q.plan.add[i]
      /\ \A i \in DOMAIN rows \ q.plan.drop : R[i].name = rows[i].name
  BY <1>1, <1>3, RowsAfterAre
<1>6. ASSUME NEW i \in DOMAIN rows, rows[i].name = n
      PROVE  i \in DOMAIN R /\ R[i] = rows[i]
  <2>1. i \notin DOMAIN q.plan.update \cup q.plan.drop
    <3> SUFFICES ASSUME i \in DOMAIN q.plan.update \cup q.plan.drop PROVE FALSE
      OBVIOUS
    <3>1. i \in DOMAIN q.rows /\ q.rows[i].name \in q.plan.names
      BY <1>3 DEF Reading, Plans
    <3>2. rows[i].name = q.rows[i].name
      BY <1>3, <3>1 DEF Reading
    <3>3. QED BY <1>4, <1>6, <3>1, <3>2
  <2>2. i \notin DOMAIN q.plan.add
    BY <1>3 DEF Reading
  <2>3. i \in DOMAIN R
    BY <1>5, <2>1
  <2>4. R[i] = rows[i]
    BY <2>1, <2>2 DEF RowsAfter, Over
  <2>5. QED BY <2>3, <2>4
<1> HIDE DEF q, R
<1>7. CASE own = {} /\ n[1] \in {"list", "auto"}
  <2>1. n \notin LiveTemplates
    BY <1>7 DEF ListNamesFree, LiveTemplates
  <2>2. Resolve(n) = [scope |-> None, found |-> None]
    BY <1>7, <2>1 DEF Resolve
  <2>3. QED BY <2>2
<1>8. CASE ~(own = {} /\ n[1] \in {"list", "auto"})
  <2>1. ASSUME NEW i \in DOMAIN q.plan.add PROVE q.plan.add[i].name # n
    <3>1. CASE own # {}
      <4>1. n \in RowNames
        BY <3>1 DEF RowNames
      <4>2. q.plan.add[i].name \notin RowNames
        BY <1>2 DEF Collides
      <4>3. QED BY <4>1, <4>2
    <3>2. CASE n[1] \notin {"list", "auto"}
      BY <1>3, <1>4, <3>2 DEF Reading, Plans
    <3>3. QED BY <1>8, <3>1, <3>2
  <2>2. {i \in DOMAIN R : R[i].name = n} = own
    BY <1>5, <1>6, <2>1
  <2>3. ResolveIn(R, template, n) = ResolveIn(rows, template, n)
    BY <1>6, <2>2, ResolveSame
  <2>4. QED BY <1>2, <2>3, ResolveIs
<1>9. QED BY <1>7, <1>8

LEMMA SaveCaches ==
  ASSUME DeploymentInv, CacheInv, ListNamesFree, NEW s \in Sessions, Save(s)
  PROVE  CacheInv'
<1>1. /\ req[s].pc = "read"
      /\ req' = [NoLongerAlone(s) EXCEPT ![s] = Committed(req[s].app, req[s].plan.names)]
      /\ UNCHANGED <<config, locator, load, straddled, unflushed>>
  BY DEF Save, Committed, cache
<1>2. AtWork(req, rows, lastId)
  BY DEF DeploymentInv
<1>3. ASSUME NEW n \in Watched
      PROVE  \/ Excused(n)'
             \/ ~ Excused(n) /\ Resolve(n)' = Resolve(n)
             \/ ~ Excused(n) /\ Resolve(n).scope = None
  <2>1. CASE n \in req[s].plan.names \/ Pending(n)
    <3>1. Pending(n)'
      BY <1>1, <1>2, <2>1, CommitPends
    <3>2. QED BY <3>1 DEF Excused
  <2>2. CASE n \in straddled \cup unflushed
    BY <1>1, <2>2 DEF Excused
  <2>3. CASE n \notin req[s].plan.names /\ ~ Excused(n)
    BY <2>3, SaveResolves
  <2>4. QED BY <2>1, <2>2, <2>3 DEF Excused
<1>4. QED BY <1>1, <1>3, TablesStep

LEMMA DeleteCaches ==
  ASSUME DeploymentInv, CacheInv, NEW s \in Sessions, Delete(s)
  PROVE  CacheInv'
<1> DEFINE q == req[s]
           R == [i \in DOMAIN rows \ RowsOf(q.app) |-> rows[i]]
<1>1. /\ q.pc = "read" /\ q.op = "delete" /\ rows' = R /\ template' = template
      /\ req' = [NoLongerAlone(s) EXCEPT ![s] = Committed(q.app, q.plan.names)]
      /\ unflushed' = unflushed \cup
           {n \in Watched \cap {rows[i].name : i \in RowsOf(q.app) \ DOMAIN q.rows} : Exposed(n)}
      /\ UNCHANGED <<config, locator, load, straddled>>
  BY DEF Delete, Committed, cache
<1>2. AtWork(req, rows, lastId) /\ Reading(q, rows, lastId)
  BY <1>1 DEF DeploymentInv, AtWork
<1>3. ASSUME NEW n \in Watched
      PROVE  \/ Excused(n)'
             \/ ~ Excused(n) /\ Resolve(n)' = Resolve(n)
             \/ ~ Hit(n) /\ load.name # n
  <2>1. CASE n \in q.plan.names \/ Pending(n)
    <3>1. Pending(n)'
      BY <1>1, <1>2, <2>1, CommitPends
    <3>2. QED BY <3>1 DEF Excused
  <2>2. CASE n \in straddled \cup unflushed
    BY <1>1, <2>2 DEF Excused
  <2>3. CASE n \in {rows[i].name : i \in RowsOf(q.app) \ DOMAIN q.rows}
    <3>1. CASE Exposed(n)
      BY <1>1, <2>3, <3>1 DEF Excused
    <3>2. CASE ~ Exposed(n)
      BY <3>2 DEF Exposed
    <3>3. QED BY <3>1, <3>2
  <2>4. CASE /\ n \notin q.plan.names /\ ~ Excused(n)
             /\ n \notin {rows[i].name : i \in RowsOf(q.app) \ DOMAIN q.rows}
    <3>1. ASSUME NEW i \in RowsOf(q.app) PROVE rows[i].name # n
      <4>1. CASE i \in DOMAIN q.rows
        <5>1. q.rows[i].name \in q.plan.names /\ i \in DOMAIN rows
          BY <1>1, <1>2, <4>1 DEF Reading, RowsOf
        <5>2. rows[i].name = q.rows[i].name
          BY <1>2, <4>1, <5>1 DEF Reading
        <5>3. QED BY <2>4, <5>1, <5>2
      <4>2. CASE i \notin DOMAIN q.rows
        BY <2>4, <4>2
      <4>3. QED BY <4>1, <4>2
    <3>2. {i \in DOMAIN R : R[i].name = n} = {i \in DOMAIN rows : rows[i].name = n}
      BY <3>1
    <3>3. \A i \in DOMAIN rows : rows[i].name = n => R[i] = rows[i]
      BY <3>1
    <3> HIDE DEF R
    <3>4. ResolveIn(R, template, n) = ResolveIn(rows, template, n)
      BY <3>2, <3>3, ResolveSame
    <3>5. QED BY <1>1, <2>4, <3>4, ResolveIs
  <2>5. QED BY <2>1, <2>2, <2>3, <2>4 DEF Excused
<1>4. QED BY <1>1, <1>3, TablesStep

\* Steps that touch neither the rows nor the cache.
LEMMA RequestsCache ==
  ASSUME CacheInv, UNCHANGED <<rows, template, config, locator, load, straddled, unflushed>>,
         \A n : Pending(n) => Pending(n)'
  PROVE  CacheInv'
<1>1. ASSUME NEW n \in Watched
      PROVE  Excused(n)' \/ (~ Excused(n) /\ Resolve(n)' = Resolve(n))
  <2>1. Resolve(n)' = Resolve(n)
    BY DEF Resolve, LiveTemplates
  <2>2. Excused(n) => Excused(n)'
    BY DEF Excused
  <2>3. QED BY <2>1, <2>2
<1>2. QED BY <1>1, TablesStep

LEMMA BeginCaches ==
  ASSUME DeploymentInv, CacheInv, NEW s \in Sessions,
         NEW op, NEW a, NEW g, NEW plan, Begin(s, op, a, g, plan)
  PROVE  CacheInv'
<1>1. AtWork(req, rows, lastId) /\ req[s].pc # "saved"
  <2>1. req[s] = Idle
    BY DEF Begin, Free
  <2>2. QED BY <2>1, IdleIsQuiet DEF DeploymentInv
<1>2. PICK q : req' = [req EXCEPT ![s] = q]
  BY DEF Begin
<1>3. \A n : Pending(n) => Pending(n)'
  BY <1>1, <1>2, PendingKept
<1>4. UNCHANGED <<rows, template, config, locator, load, straddled, unflushed>>
  BY DEF Begin, cache
<1>5. QED BY <1>3, <1>4, RequestsCache

LEMMA RefuseCaches ==
  ASSUME DeploymentInv, CacheInv, NEW s \in Sessions, Refuse(s)
  PROVE  CacheInv'
<1>1. AtWork(req, rows, lastId) /\ req[s].pc # "saved" /\ req' = [req EXCEPT ![s] = Idle]
  BY DEF Refuse, DeploymentInv
<1>2. \A n : Pending(n) => Pending(n)'
  BY <1>1, PendingKept
<1>3. UNCHANGED <<rows, template, config, locator, load, straddled, unflushed>>
  BY DEF Refuse, cache, database
<1>4. QED BY <1>2, <1>3, RequestsCache

LEMMA TemplateCaches ==
  ASSUME DeploymentInv, CacheInv, NEW s \in Sessions, NEW m, NEW v, EditTemplate(s, m, v)
  PROVE  CacheInv'
<1> DEFINE q == Committed(Shared, {m})
<1>1. /\ AtWork(req, rows, lastId) /\ req[s].pc # "saved"
      /\ req' = [req EXCEPT ![s] = q]
  <2>1. req[s] = Idle
    BY DEF EditTemplate, Free
  <2>2. req' = [req EXCEPT ![s] = q]
    BY DEF EditTemplate, Committed
  <2>3. QED BY <2>1, <2>2, IdleIsQuiet DEF DeploymentInv
<1>2. q.pc = "saved" /\ q.touched = {m}
  BY CommittedIsQuiet
<1> HIDE DEF q
<1>3. /\ UNCHANGED <<rows, config, locator, load, straddled, unflushed>>
      /\ template' = [template EXCEPT ![m] = v]
  BY DEF EditTemplate, cache
<1>4. ASSUME NEW n \in Watched
      PROVE  Excused(n)' \/ (~ Excused(n) /\ Resolve(n)' = Resolve(n))
  <2>1. CASE Pending(n)
    <3>1. Pending(n)'
      BY <1>1, <2>1, PendingKept
    <3>2. QED BY <3>1 DEF Excused
  <2>2. CASE n \in straddled \cup unflushed
    BY <1>3, <2>2 DEF Excused
  <2>3. CASE n = m
    <3>1. req'[s] = q
      BY <1>1 DEF AtWork
    <3>2. Pending(n)'
      BY <1>2, <2>3, <3>1 DEF Pending
    <3>3. QED BY <3>2 DEF Excused
  <2>4. CASE n # m /\ ~ Excused(n)
    <3>1. n \in TemplateNames => template'[n] = template[n]
      <4>1. template'[n] = template[n]
        BY <1>3, <2>4
      <4>2. QED BY <4>1
    <3>2. ResolveIn(rows, template', n) = ResolveIn(rows, template, n)
      BY <3>1, ResolveSame
    <3>3. QED BY <1>3, <2>4, <3>2, ResolveIs
  <2>5. QED BY <2>1, <2>2, <2>3, <2>4 DEF Excused
<1>5. QED BY <1>3, <1>4, TablesStep

\* A flush takes the locators of its names; a load of one of them counts as
\* straddled from now on.
LEMMA FlushCaches ==
  ASSUME DeploymentInv, CacheInv, NEW s \in Sessions, Flush(s)
  PROVE  CacheInv'
<1> DEFINE q == req[s]
           gone == {<<q.app, n>> : n \in q.touched}
<1>1. /\ config' = Without(config, gone) /\ locator' = Without(locator, q.touched)
      /\ req' = [req EXCEPT ![s] = Idle]
      /\ straddled' = (straddled \ q.touched) \cup (q.touched \cap {load.name})
      /\ unflushed' = unflushed \ q.touched
      /\ UNCHANGED <<rows, template, load>>
  BY DEF Flush, database
<1>2. DOMAIN req = Sessions
  BY DEF DeploymentInv, AtWork
<1> HIDE DEF gone, q
<1>3. /\ DOMAIN config' \subseteq DOMAIN config /\ \A k \in DOMAIN config' : config'[k] = config[k]
      /\ DOMAIN locator' = DOMAIN locator \ q.touched
      /\ \A n \in DOMAIN locator' : locator'[n] = locator[n]
  BY <1>1 DEF Without
<1>4. \A n : Resolve(n)' = Resolve(n)
  BY <1>1 DEF Resolve, LiveTemplates
<1>5. ASSUME NEW n, n \notin q.touched, Excused(n) PROVE Excused(n)'
  <2>1. CASE Pending(n)
    <3>1. PICK t \in Sessions : req[t].pc = "saved" /\ n \in req[t].touched
      BY <2>1 DEF Pending
    <3>2. t # s
      BY <1>5, <3>1 DEF q
    <3>3. req'[t] = req[t]
      BY <1>1, <1>2, <3>2
    <3>4. Pending(n)'
      BY <3>1, <3>3 DEF Pending
    <3>5. QED BY <3>4 DEF Excused
  <2>2. CASE n \in straddled \cup unflushed
    BY <1>1, <1>5, <2>2 DEF Excused
  <2>3. QED BY <1>5, <2>1, <2>2 DEF Excused
<1>6. ASSUME NEW n \in Watched PROVE Excused(n)' \/ CurrentlyServed(n)'
  <2>1. CASE n \in q.touched
    BY <1>3, <2>1 DEF CurrentlyServed, Hit
  <2>2. CASE n \notin q.touched /\ Excused(n)
    BY <1>5, <2>2
  <2>3. CASE n \notin q.touched /\ ~ Excused(n)
    <3>1. CurrentlyServed(n)
      BY <2>3 DEF CacheInv
    <3>2. Hit(n)' => Hit(n) /\ Served(n)' = Served(n) /\ locator'[n] = locator[n]
      BY <1>3 DEF Hit, Served
    <3>3. QED BY <1>4, <3>1, <3>2 DEF CurrentlyServed
  <2>4. QED BY <2>1, <2>2, <2>3
<1>7. ASSUME load.pc \in {"config", "locator"} PROVE Excused(load.name)' \/ LoadTrue'
  <2>1. CASE load.name \in q.touched
    BY <1>1, <2>1 DEF Excused
  <2>2. CASE load.name \notin q.touched /\ Excused(load.name)
    <3>1. CASE Pending(load.name)
      <4>1. PICK t \in Sessions : req[t].pc = "saved" /\ load.name \in req[t].touched
        BY <3>1 DEF Pending
      <4>2. t # s
        BY <2>2, <4>1 DEF q
      <4>3. req'[t] = req[t] /\ load' = load
        BY <1>1, <1>2, <4>2
      <4>4. Pending(load.name)'
        BY <4>1, <4>3 DEF Pending
      <4>5. QED BY <4>4 DEF Excused
    <3>2. CASE load.name \in straddled \cup unflushed
      BY <1>1, <2>2, <3>2 DEF Excused
    <3>3. QED BY <2>2, <3>1, <3>2 DEF Excused
  <2>3. CASE ~ Excused(load.name)
    <3>1. LoadTrue
      BY <1>7, <2>3 DEF CacheInv
    <3>2. QED BY <1>1, <1>4, <3>1 DEF LoadTrue
  <2>4. QED BY <2>1, <2>2, <2>3
<1>8. QED BY <1>1, <1>3, <1>6, <1>7 DEF CacheInv

LEMMA LostFlushCaches ==
  ASSUME DeploymentInv, CacheInv, NEW s \in Sessions, LoseFlush(s)
  PROVE  CacheInv'
<1> DEFINE q == req[s]
           missed == {n \in Watched \cap q.touched : Exposed(n)}
<1>1. /\ unflushed = {} /\ unflushed' = missed
      /\ req' = [req EXCEPT ![s] = Idle]
      /\ UNCHANGED <<rows, template, config, locator, load, straddled>>
  BY DEF LoseFlush, database, cache
<1>2. DOMAIN req = Sessions
  BY DEF DeploymentInv, AtWork
<1>3. ASSUME NEW n \in Watched
      PROVE  \/ Excused(n)'
             \/ ~ Excused(n) /\ Resolve(n)' = Resolve(n)
             \/ ~ Hit(n) /\ load.name # n
  <2>1. CASE n \in q.touched /\ Exposed(n)
    BY <1>1, <2>1 DEF Excused
  <2>2. CASE n \in q.touched /\ ~ Exposed(n)
    BY <2>2 DEF Exposed
  <2>3. CASE n \notin q.touched /\ Pending(n)
    <3>1. PICK t \in Sessions : req[t].pc = "saved" /\ n \in req[t].touched
      BY <2>3 DEF Pending
    <3>2. t # s
      BY <2>3, <3>1
    <3>3. req'[t] = req[t]
      BY <1>1, <1>2, <3>2
    <3>4. Pending(n)'
      BY <3>1, <3>3 DEF Pending
    <3>5. QED BY <3>4 DEF Excused
  <2>4. CASE n \in straddled
    BY <1>1, <2>4 DEF Excused
  <2>5. CASE ~ Excused(n)
    BY <1>1, <2>5 DEF Resolve, LiveTemplates
  <2>6. QED BY <1>1, <2>1, <2>2, <2>3, <2>4, <2>5 DEF Excused
<1>4. QED BY <1>1, <1>3, TablesStep

\* The loader and the TTLs change nothing a name resolves to.
LEMMA LoaderLeaves ==
  ASSUME UNCHANGED <<rows, template, req>>
  PROVE  \A n : Resolve(n)' = Resolve(n) /\ (Pending(n)' <=> Pending(n))
BY DEF Resolve, LiveTemplates, Pending

LEMMA MissCaches ==
  ASSUME CacheInv, LoadMiss
  PROVE  CacheInv'
<1>1. PICK n \in Watched :
        /\ Resolve(n).scope # None
        /\ load' = [pc |-> "config", name |-> n, scope |-> Resolve(n).scope,
                    found |-> Resolve(n).found]
  BY DEF LoadMiss
<1>2. UNCHANGED <<rows, template, req, config, locator, straddled, unflushed>>
  BY DEF LoadMiss, database, cache
<1>3. \A m : Resolve(m)' = Resolve(m) /\ (Pending(m)' <=> Pending(m))
  BY <1>2, LoaderLeaves
<1>4. ASSUME NEW m \in Watched PROVE Excused(m)' \/ CurrentlyServed(m)'
  <2>1. Excused(m)' <=> Excused(m)
    BY <1>2, <1>3 DEF Excused
  <2>2. CurrentlyServed(m)' <=> CurrentlyServed(m)
    BY <1>2, <1>3 DEF CurrentlyServed, Hit, Served
  <2>3. QED BY <2>1, <2>2 DEF CacheInv
<1>5. load'.pc = "config" /\ load'.name = n /\ load'.scope = Resolve(n).scope
                          /\ load'.found = Resolve(n).found
  BY <1>1
<1>6. LoadTrue'
  <2>1. Resolve(load.name)' = Resolve(n)
    BY <1>2, <1>5 DEF Resolve, LiveTemplates
  <2>2. QED BY <1>5, <2>1 DEF LoadTrue
<1>7. QED BY <1>1, <1>2, <1>4, <1>5, <1>6 DEF CacheInv

LEMMA ConfigCaches ==
  ASSUME CacheInv, FillConfig
  PROVE  CacheInv'
<1> DEFINE k == <<load.scope, load.name>>
<1>1. /\ load.pc = "config"
      /\ config' = Over([x \in {k} |-> load.found], config)
      /\ load' = [load EXCEPT !.pc = "locator"]
      /\ UNCHANGED <<rows, template, req, locator, straddled, unflushed>>
  BY DEF FillConfig, database
<1>2. /\ DOMAIN config' = DOMAIN config \cup {k} /\ config'[k] = load.found
      /\ \A x \in DOMAIN config : x # k => config'[x] = config[x]
  BY <1>1 DEF Over
<1>3. \A m : Resolve(m)' = Resolve(m) /\ (Pending(m)' <=> Pending(m))
  BY <1>1, LoaderLeaves
<1>4. load'.name = load.name /\ load'.scope = load.scope /\ load'.found = load.found
  BY <1>1
<1>5. \A m : Excused(m)' <=> Excused(m)
  BY <1>1, <1>3 DEF Excused
<1>6. Excused(load.name) \/ LoadTrue
  BY <1>1 DEF CacheInv
<1>7. ASSUME NEW m \in Watched PROVE Excused(m)' \/ CurrentlyServed(m)'
  <2>1. CASE Excused(m)
    BY <1>5, <2>1
  <2>2. CASE ~ Excused(m) /\ m # load.name
    <3>1. CurrentlyServed(m)
      BY <2>2 DEF CacheInv
    <3>2. \A p : <<p, m>> # k
      BY <2>2
    <3> HIDE DEF k
    <3>3. Hit(m)' => Hit(m) /\ Served(m)' = Served(m) /\ locator'[m] = locator[m]
      BY <1>1, <1>2, <3>2 DEF Hit, Served
    <3>4. QED BY <1>3, <3>1, <3>3 DEF CurrentlyServed
  <2>3. CASE ~ Excused(m) /\ m = load.name
    <3>1. CurrentlyServed(m) /\ load.scope = Resolve(m).scope /\ load.found = Resolve(m).found
      BY <1>6, <2>3 DEF CacheInv, LoadTrue
    <3>2. CASE m \in DOMAIN locator /\ locator[m] = load.scope
      <4>1. <<locator[m], m>> = k
        BY <2>3, <3>2
      <4> HIDE DEF k
      <4>2. Served(m)' = load.found /\ locator'[m] = load.scope
        BY <1>1, <1>2, <3>2, <4>1 DEF Served
      <4>3. QED BY <1>3, <3>1, <4>2 DEF CurrentlyServed
    <3>3. CASE m \in DOMAIN locator /\ locator[m] # load.scope
      <4>1. <<locator[m], m>> # k
        BY <3>3
      <4>2. ~ Hit(m)
        BY <3>1, <3>3 DEF CurrentlyServed
      <4> HIDE DEF k
      <4>3. ~ Hit(m)'
        BY <1>1, <1>2, <4>1, <4>2 DEF Hit
      <4>4. QED BY <4>3 DEF CurrentlyServed
    <3>4. CASE m \notin DOMAIN locator
      BY <1>1, <3>4 DEF CurrentlyServed, Hit
    <3>5. QED BY <3>2, <3>3, <3>4
  <2>4. QED BY <2>1, <2>2, <2>3
<1>8. Excused(load.name)' \/ LoadTrue'
  <2>1. Resolve(load.name)' = Resolve(load.name)
    BY <1>1, <1>4 DEF Resolve, LiveTemplates
  <2>2. Excused(load.name)' <=> Excused(load.name)
    BY <1>1, <1>4 DEF Excused, Pending
  <2>3. QED BY <1>4, <1>6, <2>1, <2>2 DEF LoadTrue
<1>9. load.name \in Watched /\ load.scope # None
  BY <1>1 DEF CacheInv
<1> HIDE DEF k
<1>10. (load.pc = "locator" /\ <<load.scope, load.name>> \in DOMAIN config
          => config[<<load.scope, load.name>>] = load.found)'
  BY <1>2, <1>4 DEF k
<1>11. QED BY <1>1, <1>4, <1>7, <1>8, <1>9, <1>10 DEF CacheInv

LEMMA LocatorCaches ==
  ASSUME CacheInv, FillLocator
  PROVE  CacheInv'
<1>1. /\ load.pc = "locator"
      /\ locator' = Over([x \in {load.name} |-> load.scope], locator)
      /\ load' = AtRest
      /\ UNCHANGED <<rows, template, req, config, straddled, unflushed>>
  BY DEF FillLocator, database
<1>2. /\ DOMAIN locator' = DOMAIN locator \cup {load.name}
      /\ locator'[load.name] = load.scope
      /\ \A x \in DOMAIN locator : x # load.name => locator'[x] = locator[x]
  BY <1>1 DEF Over
<1>3. \A m : Resolve(m)' = Resolve(m) /\ (Pending(m)' <=> Pending(m))
  BY <1>1, LoaderLeaves
<1>4. \A m : Excused(m)' <=> Excused(m)
  BY <1>1, <1>3 DEF Excused
<1>5. /\ load.scope # None /\ (Excused(load.name) \/ LoadTrue)
      /\ <<load.scope, load.name>> \in DOMAIN config
            => config[<<load.scope, load.name>>] = load.found
  BY <1>1 DEF CacheInv
<1>6. ASSUME NEW m \in Watched PROVE Excused(m)' \/ CurrentlyServed(m)'
  <2>1. CASE Excused(m)
    BY <1>4, <2>1
  <2>2. CASE ~ Excused(m) /\ m # load.name
    <3>1. CurrentlyServed(m)
      BY <2>2 DEF CacheInv
    <3>2. Hit(m)' => Hit(m) /\ Served(m)' = Served(m) /\ locator'[m] = locator[m]
      BY <1>1, <1>2, <2>2 DEF Hit, Served
    <3>3. QED BY <1>3, <3>1, <3>2 DEF CurrentlyServed
  <2>3. CASE ~ Excused(m) /\ m = load.name
    <3>1. load.scope = Resolve(m).scope /\ load.found = Resolve(m).found
      BY <1>5, <2>3 DEF LoadTrue
    <3>2. locator'[m] = load.scope
      BY <1>2, <2>3
    <3>3. Hit(m)' => Served(m)' = load.found
      BY <1>1, <1>5, <2>3, <3>2 DEF Hit, Served
    <3>4. QED BY <1>3, <3>1, <3>2, <3>3 DEF CurrentlyServed
  <2>4. QED BY <2>1, <2>2, <2>3
<1>7. \A x \in DOMAIN locator' : locator'[x] # None
  BY <1>2, <1>5 DEF CacheInv
<1>8. load'.pc = "idle"
  BY <1>1 DEF AtRest
<1>9. QED BY <1>6, <1>7, <1>8 DEF CacheInv

LEMMA FailedFillCaches ==
  ASSUME CacheInv, FillFails
  PROVE  CacheInv'
<1>1. load' = AtRest /\ UNCHANGED <<rows, template, req, config, locator, straddled, unflushed>>
  BY DEF FillFails, database, cache
<1>2. \A m : Resolve(m)' = Resolve(m) /\ (Pending(m)' <=> Pending(m))
  BY <1>1, LoaderLeaves
<1>3. ASSUME NEW m \in Watched PROVE Excused(m)' \/ CurrentlyServed(m)'
  <2>1. Excused(m)' <=> Excused(m)
    BY <1>1, <1>2 DEF Excused
  <2>2. CurrentlyServed(m)' <=> CurrentlyServed(m)
    BY <1>1, <1>2 DEF CurrentlyServed, Hit, Served
  <2>3. QED BY <2>1, <2>2 DEF CacheInv
<1>4. load'.pc = "idle"
  BY <1>1 DEF AtRest
<1>5. QED BY <1>1, <1>3, <1>4 DEF CacheInv

LEMMA ExpiryCaches ==
  ASSUME CacheInv, NEW n \in Watched, Expire(n)
  PROVE  CacheInv'
<1>1. PICK k \in DOMAIN config :
        /\ k[2] = n
        /\ config' = Without(config, {k})
        /\ locator' = IF n \in DOMAIN locator /\ locator[n] = k[1]
                      THEN Without(locator, {n}) ELSE locator
  BY DEF Expire
<1>2. /\ UNCHANGED <<rows, template, req, load>>
      /\ straddled' = {m \in straddled : m # n \/ Exposed(n)'}
      /\ unflushed' = {m \in unflushed : m # n \/ Exposed(n)'}
  BY DEF Expire, database
<1>3. /\ DOMAIN config' \subseteq DOMAIN config
      /\ \A x \in DOMAIN config' : config'[x] = config[x]
  BY <1>1 DEF Without
<1>4. /\ DOMAIN locator' \subseteq DOMAIN locator
      /\ \A x \in DOMAIN locator' : locator'[x] = locator[x]
  <2>1. CASE n \in DOMAIN locator /\ locator[n] = k[1]
    BY <1>1, <2>1 DEF Without
  <2>2. CASE ~(n \in DOMAIN locator /\ locator[n] = k[1])
    <3>1. locator' = locator
      BY <1>1, <2>2
    <3>2. QED BY <3>1
  <2>3. QED BY <2>1, <2>2
<1>5. \A m : Resolve(m)' = Resolve(m) /\ (Pending(m)' <=> Pending(m))
  BY <1>2, LoaderLeaves
<1>6. ASSUME NEW m, Excused(m), m # n \/ Exposed(n)'
      PROVE  Excused(m)'
  BY <1>2, <1>5, <1>6 DEF Excused
<1>7. ASSUME NEW m \in Watched PROVE Excused(m)' \/ CurrentlyServed(m)'
  <2>1. CASE Excused(m) /\ (m # n \/ Exposed(n)')
    BY <1>6, <2>1
  <2>2. CASE m = n /\ ~ Exposed(n)'
    BY <2>2 DEF Exposed, CurrentlyServed
  <2>3. CASE ~ Excused(m)
    <3>1. CurrentlyServed(m)
      BY <2>3 DEF CacheInv
    <3>2. Hit(m)' => Hit(m) /\ Served(m)' = Served(m) /\ locator'[m] = locator[m]
      BY <1>3, <1>4 DEF Hit, Served
    <3>3. QED BY <1>5, <3>1, <3>2 DEF CurrentlyServed
  <2>4. QED BY <2>1, <2>2, <2>3
<1>8. ASSUME load.pc \in {"config", "locator"} PROVE Excused(load.name)' \/ LoadTrue'
  <2>1. CASE LoadTrue
    <3>1. Resolve(load.name)' = Resolve(load.name)
      BY <1>2 DEF Resolve, LiveTemplates
    <3>2. QED BY <1>2, <2>1, <3>1 DEF LoadTrue
  <2>2. CASE Pending(load.name)
    <3>1. Pending(load.name)'
      BY <1>2, <2>2 DEF Pending
    <3>2. QED BY <3>1 DEF Excused
  <2>3. CASE load.name \in straddled \cup unflushed
    <3>1. load.name = n => Exposed(n)'
      BY <1>2 DEF Exposed
    <3>2. QED BY <1>2, <2>3, <3>1 DEF Excused
  <2>4. QED BY <1>8, <2>1, <2>2, <2>3 DEF CacheInv, Excused
<1>9. \A x \in DOMAIN locator' : locator'[x] # None
  BY <1>4 DEF CacheInv
<1>10. (load.pc = "locator" /\ <<load.scope, load.name>> \in DOMAIN config
          => config[<<load.scope, load.name>>] = load.found)'
  BY <1>2, <1>3 DEF CacheInv
<1>11. (load.pc \in {"config", "locator"} => load.name \in Watched /\ load.scope # None)'
  BY <1>2 DEF CacheInv
<1>12. QED BY <1>2, <1>7, <1>8, <1>9, <1>10, <1>11 DEF CacheInv

LEMMA CacheInductive == DeploymentInv /\ CacheInv /\ ListNamesFree /\ [Next]_vars => CacheInv'
<1> SUFFICES ASSUME DeploymentInv, CacheInv, ListNamesFree, [Next]_vars PROVE CacheInv'
  OBVIOUS
<1>1. ASSUME NEW s \in Sessions,
             \/ CreateApplication(s) \/ UpdateApplication(s)
             \/ ListApplication(s) \/ DeleteApplication(s)
      PROVE  CacheInv'
  <2>1. PICK op, a, g, plan : Begin(s, op, a, g, plan)
    BY <1>1 DEF CreateApplication, UpdateApplication, ListApplication, DeleteApplication
  <2>2. QED BY <2>1, BeginCaches
<1>2. ASSUME NEW s \in Sessions, CreateTemplate(s) \/ UpdateTemplate(s) \/ DeleteTemplate(s)
      PROVE  CacheInv'
  <2>1. PICK m, v : EditTemplate(s, m, v)
    BY <1>2 DEF CreateTemplate, UpdateTemplate, DeleteTemplate
  <2>2. QED BY <2>1, TemplateCaches
<1>3. ASSUME NEW s \in Sessions, Save(s) PROVE CacheInv'
  BY <1>3, SaveCaches
<1>4. ASSUME NEW s \in Sessions, Refuse(s) PROVE CacheInv'
  BY <1>4, RefuseCaches
<1>5. ASSUME NEW s \in Sessions, Delete(s) PROVE CacheInv'
  BY <1>5, DeleteCaches
<1>6. ASSUME NEW s \in Sessions, Flush(s) PROVE CacheInv'
  BY <1>6, FlushCaches
<1>7. ASSUME NEW s \in Sessions, LoseFlush(s) PROVE CacheInv'
  BY <1>7, LostFlushCaches
<1>8. ASSUME ExportApplication \/ UNCHANGED vars PROVE CacheInv'
  <2>1. UNCHANGED <<rows, template, req, config, locator, load, straddled, unflushed>>
    BY <1>8 DEF ExportApplication, vars, database, cache
  <2>2. \A n : Pending(n) => Pending(n)'
    BY <2>1 DEF Pending
  <2>3. QED BY <2>1, <2>2, RequestsCache
<1>9. CASE LoadMiss
  BY <1>9, MissCaches
<1>10. CASE FillConfig
  BY <1>10, ConfigCaches
<1>11. CASE FillLocator
  BY <1>11, LocatorCaches
<1>12. CASE FillFails
  BY <1>12, FailedFillCaches
<1>13. ASSUME NEW n \in Watched, Expire(n) PROVE CacheInv'
  BY <1>13, ExpiryCaches
<1>14. QED
  BY <1>1, <1>2, <1>3, <1>4, <1>5, <1>6, <1>7, <1>8, <1>9, <1>10, <1>11, <1>12, <1>13 DEF Next

LEMMA CacheInitially == Init => CacheInv
<1> SUFFICES ASSUME Init PROVE CacheInv
  OBVIOUS
<1>1. locator = <<>> /\ load.pc = "idle"
  BY DEF Init, AtRest
<1>2. \A n : ~ Hit(n)
  BY <1>1 DEF Hit
<1>3. QED BY <1>1, <1>2 DEF CacheInv, CurrentlyServed

\* For any number of editors and names, lost flushes and expiries: what the
\* cache serves under a name is what the database holds, unless a flush of the
\* name is on its way, was lost, or met a fill (_flush_orch_caches after the
\* commit, against load_orchestrator_row).
THEOREM CacheStaysHonest ==
  ASSUME ListNamesFree
  PROVE  Spec => []CacheHonest
<1>1. Init => DeploymentInv /\ CacheInv
  BY DeploymentInitially, CacheInitially
<1>2. (DeploymentInv /\ CacheInv) /\ [Next]_vars => (DeploymentInv /\ CacheInv)'
  BY DeploymentInductive, CacheInductive
<1>3. DeploymentInv /\ CacheInv => CacheHonest
  BY DEF CacheInv, CacheHonest, Excused, Pending
<1>4. QED BY <1>1, <1>2, <1>3, PTL DEF Spec

-----------------------------------------------------------------------------
(***************************************************************************)
(* What a save takes away.                                                 *)
(***************************************************************************)

\* Among rows read, those that go have no node drawn, and no node that stands
\* for them, but where the node is another row's.
Spares(g, read, drop) ==
  \A i \in drop :
    /\ read[i].node \notin NodesOf(g, "orch")
    /\ \A n \in NodesOf(g, "orch") :
          g.ref[n] = i => \E j \in DOMAIN read \ {i} : read[j].node = n

\* A request that has read still knows its drawing by what it read then.
DrawnInv ==
  \A s \in Sessions :
    req[s].pc = "read" /\ req[s].op = "graph" =>
      Spares(req[s].graph, req[s].rows, req[s].plan.drop)

\* The row a node was matched with is drawn.
LEMMA MatchedStays ==
  ASSUME NEW a, NEW g, Shaped(g), NEW read, lastId \in Nat,
         NEW n \in NodesOf(g, "orch"), Matched(g, read, n) # 0
  PROVE  Matched(g, read, n) \notin Dropped(g, read, Placed(a, g, read))
<1> DEFINE orchs == NodesOf(g, "orch")
           unmatched == {m \in orchs : Matched(g, read, m) = 0}
           fresh == SetToSeq(unmatched)
           i == Matched(g, read, n)
           drawnAs(m, name) == [app |-> a, node |-> m, name |-> name,
                            agents |-> ResolveAgents(g, m),
                            delegatable |-> IsDelegatable(g, m)]
           x == [id |-> i, old |-> i # 0, row |-> drawnAs(n, read[i].name)]
           P == Placed(a, g, read)
<1>1. ToSet(fresh) = unmatched
  <2>1. IsFiniteSet(unmatched)
    BY FS_Subset DEF Shaped
  <2>2. QED BY <2>1, SetToSeqIs
<1> HIDE DEF fresh
<1>2. n \in orchs \ ToSet(fresh)
  BY <1>1
<1>3. x \in P
  BY <1>2 DEF Placed, fresh
<1>4. x.id = i /\ x.row.node = n
  OBVIOUS
<1> HIDE DEF P, x, i
<1>5. x \in {y \in P : y.id = i}
  BY <1>3, <1>4
<1>6. i \notin Dropped(g, read, P)
  <2> DEFINE those == {y \in P : y.id = i}
  <2>1. those # {} /\ \E y \in those : y.row.node \in orchs
    BY <1>4, <1>5
  <2>2. i \in Dropped(g, read, P) =>
          IF those = {} THEN read[i].node \notin orchs ELSE \A y \in those : y.row.node \notin orchs
    BY DEF Dropped
  <2> HIDE DEF those
  <2>3. QED BY <2>1, <2>2
<1>7. QED BY <1>6 DEF P, i

LEMMA DropsSpare ==
  ASSUME NEW a, NEW g, Shaped(g), NEW read, NEW ways, lastId \in Nat, 0 \notin DOMAIN read,
         \A i, j \in DOMAIN read : i # j => read[i].node # read[j].node
  PROVE  Spares(g, read, GraphPlan(a, g, read, ways).drop)
<1> DEFINE orchs == NodesOf(g, "orch")
           drop == Dropped(g, read, Placed(a, g, read))
<1>1. GraphPlan(a, g, read, ways).drop = drop
  BY DEF GraphPlan
<1>2. drop \subseteq DOMAIN read
  BY DEF Dropped
<1> HIDE DEF drop
<1>3. ASSUME NEW i \in drop, NEW n \in orchs PROVE Matched(g, read, n) # i
  <2>1. i # 0
    BY <1>2
  <2>2. QED BY <2>1, MatchedStays DEF drop
<1>4. ASSUME NEW i \in drop PROVE read[i].node \notin orchs
  <2> SUFFICES ASSUME read[i].node \in orchs PROVE FALSE
    OBVIOUS
  <2> DEFINE n == read[i].node
             same == {j \in DOMAIN read : read[j].node = n}
  <2>1. same = {i}
    BY <1>2
  <2>2. Matched(g, read, n) = (CHOOSE j \in same : TRUE)
    BY <2>1 DEF Matched
  <2> HIDE DEF same
  <2>3. Matched(g, read, n) = i
    BY <2>1, <2>2
  <2>4. QED BY <1>3, <2>3
<1>5. ASSUME NEW i \in drop, NEW n \in orchs, g.ref[n] = i
      PROVE  \E j \in DOMAIN read \ {i} : read[j].node = n
  <2> DEFINE same == {j \in DOMAIN read : read[j].node = n}
  <2>1. same # {}
    <3> SUFFICES ASSUME same = {} PROVE FALSE
      OBVIOUS
    <3>1. g.ref[n] \in DOMAIN read
      BY <1>2, <1>5
    <3>2. Matched(g, read, n) = i
      BY <1>5, <3>1 DEF Matched
    <3>3. QED BY <1>3, <3>2
  <2>2. PICK j \in DOMAIN read : read[j].node = n
    BY <2>1
  <2>3. j # i
    BY <1>4, <2>2
  <2>4. QED BY <2>2, <2>3
<1>6. QED BY <1>1, <1>4, <1>5 DEF Spares

\* What a request keeps until its commit.
Keeps(p, q) ==
  /\ q.pc = "read" =>
       p.pc = "read" /\ p.op = q.op /\ p.graph = q.graph /\ p.rows = q.rows /\ p.plan = q.plan
  /\ ~(p.pc = "read" /\ p.op = "graph" /\ q.pc = "saved")

LEMMA OneReplaced ==
  ASSUME DeploymentInv, NEW s \in Sessions, NEW q, req' = [req EXCEPT ![s] = q], Keeps(req[s], q)
  PROVE  \A t \in Sessions : Keeps(req[t], req'[t])
<1>1. DOMAIN req = Sessions
  BY DEF DeploymentInv, AtWork
<1>2. ASSUME NEW t \in Sessions PROVE Keeps(req[t], req'[t])
  <2>1. CASE t = s
    BY <1>1, <2>1
  <2>2. CASE t # s
    <3>1. req'[t] = req[t]
      BY <1>1, <2>2
    <3>2. QED BY <3>1 DEF Keeps
  <2>3. QED BY <2>1, <2>2
<1>3. QED BY <1>2

LEMMA OneCommitted ==
  ASSUME DeploymentInv, NEW s \in Sessions, NEW a, NEW T,
         req' = [NoLongerAlone(s) EXCEPT ![s] = Committed(a, T)]
  PROVE  /\ \A t \in Sessions : t # s => Keeps(req[t], req'[t])
         /\ req'[s].pc = "saved"
<1> DEFINE N == NoLongerAlone(s)
           q == Committed(a, T)
<1>1. DOMAIN req = Sessions /\ DOMAIN N = Sessions /\ \A t \in Sessions : IsReq(req[t])
  BY DEF DeploymentInv, AtWork, NoLongerAlone
<1>2. q.pc = "saved" /\ req' = [N EXCEPT ![s] = q]
  BY CommittedIsQuiet
<1> HIDE DEF q
<1>3. ASSUME NEW t \in Sessions, t # s PROVE Keeps(req[t], req'[t])
  <2>1. /\ N[t].pc = req[t].pc /\ N[t].op = req[t].op /\ N[t].graph = req[t].graph
        /\ N[t].rows = req[t].rows /\ N[t].plan = req[t].plan
    BY <1>1 DEF NoLongerAlone, IsReq
  <2> HIDE DEF N
  <2>2. req'[t] = N[t]
    BY <1>1, <1>2, <1>3
  <2>3. QED BY <2>1, <2>2 DEF Keeps
<1> HIDE DEF N
<1>4. req'[s].pc = "saved"
  BY <1>1, <1>2
<1>5. QED BY <1>3, <1>4

\* Between its reading and its commit a request stays as it is.
LEMMA RequestsKeep ==
  ASSUME DeploymentInv, [Next]_vars, NEW s \in Sessions
  PROVE  \/ Keeps(req[s], req'[s])
         \/ Save(s) /\ req'[s].pc = "saved"
         \/ CreateApplication(s) \/ UpdateApplication(s)
         \/ (ListApplication(s) \/ DeleteApplication(s)) /\ req'[s].op # "graph"
<1> DEFINE Goal == \/ Keeps(req[s], req'[s])
                   \/ Save(s) /\ req'[s].pc = "saved"
                   \/ CreateApplication(s) \/ UpdateApplication(s)
                   \/ (ListApplication(s) \/ DeleteApplication(s)) /\ req'[s].op # "graph"
<1> SUFFICES Goal
  OBVIOUS
<1>0. DOMAIN req = Sessions
  BY DEF DeploymentInv, AtWork
<1>1. ASSUME NEW t \in Sessions, NEW op, NEW a, NEW g, NEW plan, Begin(t, op, a, g, plan)
      PROVE  /\ s # t => Keeps(req[s], req'[s])
             /\ s = t => req'[s].op = op
  <2> DEFINE q == [Idle EXCEPT !.pc = "read", !.op = op, !.app = a, !.graph = g,
                               !.plan = plan, !.new = a \notin app,
                               !.rows = ReadRows(a), !.entries = ReadEntries(a)]
  <2>1. req' = [req EXCEPT ![t] = q]
    BY <1>1 DEF Begin
  <2>2. q.op = op
    BY DEF Idle
  <2> HIDE DEF q
  <2>3. s # t => req'[s] = req[s]
    BY <1>0, <2>1
  <2>4. s = t => req'[s].op = op
    BY <1>0, <2>1, <2>2
  <2>5. QED BY <2>3, <2>4 DEF Keeps
<1>2. ASSUME NEW t \in Sessions, CreateApplication(t) \/ UpdateApplication(t) PROVE Goal
  <2>1. PICK op, a, g, plan : Begin(t, op, a, g, plan)
    BY <1>2 DEF CreateApplication, UpdateApplication
  <2>2. s # t => Keeps(req[s], req'[s])
    BY <1>1, <2>1
  <2>3. QED BY <1>2, <2>2
<1>3. ASSUME NEW t \in Sessions, ListApplication(t) PROVE Goal
  <2>1. PICK a, plan : Begin(t, "list", a, NoGraph, plan)
    BY <1>3 DEF ListApplication
  <2>2. s # t => Keeps(req[s], req'[s])
    BY <1>1, <2>1
  <2>3. s = t => req'[s].op # "graph"
    BY <1>1, <2>1
  <2>4. QED BY <1>3, <2>2, <2>3
<1>4. ASSUME NEW t \in Sessions, DeleteApplication(t) PROVE Goal
  <2>1. PICK a, plan : Begin(t, "delete", a, NoGraph, plan)
    BY <1>4 DEF DeleteApplication
  <2>2. s # t => Keeps(req[s], req'[s])
    BY <1>1, <2>1
  <2>3. s = t => req'[s].op # "graph"
    BY <1>1, <2>1
  <2>4. QED BY <1>4, <2>2, <2>3
<1>5. ASSUME NEW t \in Sessions, Save(t) PROVE Goal
  <2>1. req' = [NoLongerAlone(t) EXCEPT ![t] = Committed(req[t].app, req[t].plan.names)]
    BY <1>5 DEF Save, Committed
  <2>2. (s # t => Keeps(req[s], req'[s])) /\ req'[t].pc = "saved"
    BY <2>1, OneCommitted
  <2>3. QED BY <1>5, <2>2
<1>6. ASSUME NEW t \in Sessions, Delete(t) PROVE Goal
  <2>1. req' = [NoLongerAlone(t) EXCEPT ![t] = Committed(req[t].app, req[t].plan.names)]
    BY <1>6 DEF Delete, Committed
  <2>2. (s # t => Keeps(req[s], req'[s])) /\ req'[t].pc = "saved"
    BY <2>1, OneCommitted
  <2>3. req[t].op = "delete"
    BY <1>6 DEF Delete
  <2>4. s = t => Keeps(req[s], req'[s])
    BY <2>2, <2>3 DEF Keeps
  <2>5. QED BY <2>2, <2>4
<1>7. ASSUME NEW t \in Sessions, Refuse(t) \/ Flush(t) \/ LoseFlush(t) PROVE Goal
  <2>1. req' = [req EXCEPT ![t] = Idle]
    BY <1>7 DEF Refuse, Flush, LoseFlush
  <2>2. Keeps(req[t], Idle)
    BY IdleIsQuiet DEF Keeps
  <2>3. QED BY <2>1, <2>2, OneReplaced
<1>8. ASSUME NEW t \in Sessions, CreateTemplate(t) \/ UpdateTemplate(t) \/ DeleteTemplate(t)
      PROVE  Goal
  <2>1. PICK m, v : EditTemplate(t, m, v)
    BY <1>8 DEF CreateTemplate, UpdateTemplate, DeleteTemplate
  <2>2. req' = [req EXCEPT ![t] = Committed(Shared, {m})] /\ req[t] = Idle
    BY <2>1 DEF EditTemplate, Committed, Free
  <2>3. Keeps(req[t], Committed(Shared, {m}))
    BY <2>2, IdleIsQuiet, CommittedIsQuiet DEF Keeps
  <2>4. QED BY <2>2, <2>3, OneReplaced
<1>9. ASSUME UNCHANGED req PROVE Goal
  BY <1>9 DEF Keeps
<1>10. ASSUME \/ ExportApplication \/ LoadMiss \/ FillConfig \/ FillLocator \/ FillFails
              \/ (\E n \in Watched : Expire(n)) \/ UNCHANGED vars
       PROVE  UNCHANGED req
  BY <1>10 DEF ExportApplication, LoadMiss, FillConfig, FillLocator, FillFails, Expire, vars
<1> HIDE DEF Goal
<1>11. QED
  BY <1>2, <1>3, <1>4, <1>5, <1>6, <1>7, <1>8, <1>9, <1>10 DEF Next

LEMMA DrawnKept ==
  ASSUME DeploymentInv, DrawnInv, [Next]_vars
  PROVE  DrawnInv'
<1>1. Tables(app, rows, entries, wirings, lastId) /\ Shaped(file) /\ lastId \in Nat
  BY DEF DeploymentInv, Tables
<1>2. DOMAIN req = Sessions
  BY DEF DeploymentInv, AtWork
<1>3. ASSUME NEW s \in Sessions, req'[s].pc = "read", req'[s].op = "graph"
      PROVE  Spares(req'[s].graph, req'[s].rows, req'[s].plan.drop)
  <2>1. CASE Keeps(req[s], req'[s])
    BY <1>3, <2>1 DEF Keeps, DrawnInv
  <2>2. ASSUME NEW op, NEW a, NEW g, NEW plan, Begin(s, op, a, g, plan)
        PROVE  req'[s].graph = g /\ req'[s].rows = ReadRows(a) /\ req'[s].plan = plan
    <3> DEFINE q == [Idle EXCEPT !.pc = "read", !.op = op, !.app = a, !.graph = g,
                                 !.plan = plan, !.new = a \notin app,
                                 !.rows = ReadRows(a), !.entries = ReadEntries(a)]
    <3>1. req' = [req EXCEPT ![s] = q]
      BY <2>2 DEF Begin
    <3>2. q.graph = g /\ q.rows = ReadRows(a) /\ q.plan = plan
      BY DEF Idle
    <3> HIDE DEF q
    <3>3. QED BY <1>2, <3>1, <3>2
  <2>3. CASE CreateApplication(s)
    <3>1. PICK a \in NewApp, g \in Drawings \cup {file} :
              Begin(s, "graph", a, g, GraphPlan(a, g, <<>>, <<>>))
      BY <2>3 DEF CreateApplication
    <3> DEFINE plan == GraphPlan(a, g, <<>>, <<>>)
    <3>2. plan.drop = {}
      BY DEF GraphPlan, Dropped
    <3>3. Begin(s, "graph", a, g, plan)
      BY <3>1
    <3> HIDE DEF plan
    <3>4. req'[s].plan = plan
      BY <2>2, <3>3
    <3>5. QED BY <3>2, <3>4 DEF Spares
  <2>4. CASE UpdateApplication(s)
    <3>1. PICK a \in app : \E g \in DrawnFor(a) \cup {file} :
              Begin(s, "graph", a, g, GraphPlan(a, g, ReadRows(a), ReadEntries(a)))
      BY <2>4 DEF UpdateApplication
    <3>2. PICK g \in DrawnFor(a) \cup {file} :
              Begin(s, "graph", a, g, GraphPlan(a, g, ReadRows(a), ReadEntries(a)))
      BY <3>1
    <3>3. Shaped(g)
      BY <1>1, DrawnIsShaped
    <3>4. /\ 0 \notin DOMAIN ReadRows(a)
          /\ \A i, j \in DOMAIN ReadRows(a) : i # j => ReadRows(a)[i].node # ReadRows(a)[j].node
      BY <1>1 DEF ReadRows, RowsOf, Tables
    <3> DEFINE plan == GraphPlan(a, g, ReadRows(a), ReadEntries(a))
    <3>5. Spares(g, ReadRows(a), plan.drop)
      BY <1>1, <3>3, <3>4, DropsSpare
    <3>6. Begin(s, "graph", a, g, plan)
      BY <3>2
    <3> HIDE DEF plan
    <3>7. req'[s].graph = g /\ req'[s].rows = ReadRows(a) /\ req'[s].plan = plan
      BY <2>2, <3>6
    <3>8. QED BY <3>5, <3>7
  <2>5. QED BY <1>3, <2>1, <2>3, <2>4, RequestsKeep
<1>4. QED BY <1>3 DEF DrawnInv

\* Whatever requests overlap and whatever files are restored: a save takes only
\* rows of its own application, and of those only rows its drawing does not have
\* by their node and names by no node that is not another row's (compile_graph
\* matches a node by its id first, by appOrchestratorId second).
THEOREM DrawnRowsStay == Spec => DrawnRowsSurvive
<1> DEFINE Survive ==
      \A s \in Sessions :
         (req[s].pc = "read" /\ req[s].op = "graph" /\ req'[s].pc = "saved") =>
            \A i \in DOMAIN rows \ DOMAIN rows' :
                /\ rows[i].app = req[s].app
                /\ rows[i].node \notin NodesOf(req[s].graph, "orch")
                      \/ req[s].rows[i].node # rows[i].node
                /\ \A n \in NodesOf(req[s].graph, "orch") :
                      req[s].graph.ref[n] = i =>
                         \E j \in DOMAIN req[s].rows \ {i} : req[s].rows[j].node = n
<1>1. DrawnRowsSurvive <=> [][Survive]_vars
  BY DEF DrawnRowsSurvive
<1>2. ASSUME DeploymentInv, DrawnInv, [Next]_vars PROVE [Survive]_vars
  <2> SUFFICES ASSUME NEW s \in Sessions,
                      req[s].pc = "read", req[s].op = "graph", req'[s].pc = "saved",
                      NEW i \in DOMAIN rows \ DOMAIN rows'
               PROVE  /\ rows[i].app = req[s].app
                      /\ rows[i].node \notin NodesOf(req[s].graph, "orch")
                            \/ req[s].rows[i].node # rows[i].node
                      /\ \A n \in NodesOf(req[s].graph, "orch") :
                            req[s].graph.ref[n] = i =>
                               \E j \in DOMAIN req[s].rows \ {i} : req[s].rows[j].node = n
    OBVIOUS
  <2>1. req[s] # Idle
    BY IdleIsQuiet
  <2>2. ~ Keeps(req[s], req'[s])
    BY DEF Keeps
  <2>3. Save(s)
    <3>1. ~ (CreateApplication(s) \/ UpdateApplication(s))
      BY <2>1 DEF CreateApplication, UpdateApplication, Free
    <3>2. ~ (ListApplication(s) \/ DeleteApplication(s))
      BY <2>1 DEF ListApplication, DeleteApplication, Begin, Free
    <3>3. QED BY <1>2, <2>2, <3>1, <3>2, RequestsKeep
  <2>4. Reading(req[s], rows, lastId)
    BY <1>2 DEF DeploymentInv, AtWork
  <2>5. i \in req[s].plan.drop
    <3>1. rows' = RowsAfter(req[s])
      BY <2>3 DEF Save
    <3>2. DOMAIN RowsAfter(req[s]) = DOMAIN req[s].plan.add \cup (DOMAIN rows \ req[s].plan.drop)
      BY DEF RowsAfter, Over
    <3>3. QED BY <3>1, <3>2
  <2>6. i \in DOMAIN req[s].rows
    BY <2>4, <2>5 DEF Reading, Plans
  <2>7. rows[i].app = req[s].app
    BY <2>4, <2>6 DEF Reading
  <2>8. Spares(req[s].graph, req[s].rows, req[s].plan.drop)
    BY <1>2 DEF DrawnInv
  <2>9. QED BY <2>5, <2>7, <2>8 DEF Spares
<1>3. Init => DrawnInv
  BY IdleIsQuiet DEF Init, DrawnInv
<1>4. DeploymentInv /\ DrawnInv /\ [Next]_vars => DrawnInv'
  BY DrawnKept
<1> HIDE DEF Survive
<1>5. QED BY <1>1, <1>2, <1>3, <1>4, TablesKept, PTL DEF Spec

-----------------------------------------------------------------------------
(***************************************************************************)
(* The cached list of a context, for every number of summarisers,          *)
(* artifacts, pushes and faults and every lifetime.                        *)
(*                                                                         *)
(* StaleBounded alone is not inductive: the list a reader is about to      *)
(* write must hide nothing older than its query (ListReading), and what    *)
(* the written list hides was then made a delay before the write at most   *)
(* (ListHides).                                                            *)
(***************************************************************************)
CONSTANTS Summarisers, ListTTL, SummaryTTL, ReadDelay, MaxArtifacts, MaxPushes, MaxFaults, MaxTime

VARIABLES now, made, born, deleting, listed, cached, cachedAt, summary, hasSummary, summaryAt,
          readerAt, list, readAt, pushes, faults

Ctx == INSTANCE ContextCache WITH TTL <- ListTTL, Delay <- ReadDelay, at <- readerAt

ContextConstants == MaxArtifacts \in Nat /\ ListTTL \in Nat /\ ReadDelay \in Nat

ListPast ==
  /\ \A a \in 1 .. made : born[a] <= now
  /\ cachedAt <= now
  /\ \A s \in Summarisers : readAt[s] <= now

ListHides ==
  cached =>
    /\ now <= cachedAt + ListTTL
    /\ \A a \in listed + 1 .. made : cachedAt <= born[a] + ReadDelay

ListReading ==
  \A s \in Summarisers :
    readerAt[s] = "queried" =>
      /\ now <= readAt[s] + ReadDelay
      /\ \A a \in list[s] + 1 .. made : readAt[s] <= born[a]

ListsKept == ListPast /\ ListHides /\ ListReading

ContextInv == Ctx!TypeOK /\ ListsKept

\* A commit, for every writer.
LEMMA CommitType ==
  ASSUME ContextConstants, Ctx!TypeOK, NEW bad \in BOOLEAN, Ctx!Commit(bad)
  PROVE  made' \in 0 .. MaxArtifacts /\ born' \in [1 .. MaxArtifacts -> Nat]
<1> USE DEF ContextConstants, Ctx!TypeOK
<1>1. CASE bad
  BY <1>1 DEF Ctx!Commit, Ctx!database
<1>2. CASE ~bad
  <2>1. made < MaxArtifacts /\ made' = made + 1 /\ born' = [born EXCEPT ![made'] = now]
    BY <1>2 DEF Ctx!Commit
  <2>2. QED BY <2>1
<1>3. QED BY <1>1, <1>2

\* Every variable keeps its type; those of the Redis lists and the readers
\* hold numbers of artifacts.
LEMMA ContextTypeKept ==
  ASSUME ContextConstants, Ctx!TypeOK, [Ctx!Next]_(Ctx!vars)
  PROVE  Ctx!TypeOK'
<1> USE DEF ContextConstants, Ctx!TypeOK, Ctx!Places
<1>1. ASSUME NEW bad \in BOOLEAN, Ctx!Record(bad) PROVE Ctx!TypeOK'
  BY <1>1, CommitType DEF Ctx!Record, Ctx!Faulty, Ctx!heads, Ctx!memo, Ctx!reader
<1>2. ASSUME NEW bad \in BOOLEAN, Ctx!Invalidate(bad) PROVE Ctx!TypeOK'
  BY <1>2 DEF Ctx!Invalidate, Ctx!Faulty, Ctx!database, Ctx!memo, Ctx!reader
<1>3. CASE Ctx!Push
  <2>1. made' \in 0 .. MaxArtifacts /\ born' \in [1 .. MaxArtifacts -> Nat]
    BY <1>3, CommitType DEF Ctx!Push
  <2>2. pushes' \in Nat
    BY <1>3 DEF Ctx!Push
  <2>3. QED BY <1>3, <2>1, <2>2 DEF Ctx!Push, Ctx!heads, Ctx!memo, Ctx!reader
<1>4. CASE Ctx!Tick
  BY <1>4 DEF Ctx!Tick, Ctx!database, Ctx!reader
<1>5. ASSUME NEW s \in Summarisers, Ctx!SummariserStep(s) PROVE Ctx!TypeOK'
  <2>1. CASE Ctx!Hit(s)
    BY <2>1 DEF Ctx!Hit, Ctx!Go, Ctx!Take, Ctx!database, Ctx!heads, Ctx!memo
  <2>2. CASE Ctx!Query(s)
    BY <2>2 DEF Ctx!Query, Ctx!Go, Ctx!Take, Ctx!database, Ctx!heads, Ctx!memo
  <2>3. CASE Ctx!QueryFails(s)
    BY <2>3 DEF Ctx!QueryFails, Ctx!Faulty, Ctx!Go, Ctx!database, Ctx!heads, Ctx!memo
  <2>4. CASE Ctx!NoSummary(s)
    BY <2>4 DEF Ctx!NoSummary, Ctx!Go, Ctx!database, Ctx!heads, Ctx!memo
  <2>5. ASSUME NEW bad \in BOOLEAN, Ctx!Miss(s, bad) PROVE Ctx!TypeOK'
    BY <2>5 DEF Ctx!Miss, Ctx!Faulty, Ctx!Go, Ctx!database, Ctx!heads, Ctx!memo
  <2>6. ASSUME NEW bad \in BOOLEAN, Ctx!Fill(s, bad) PROVE Ctx!TypeOK'
    <3>1. readerAt' \in [Summarisers -> Ctx!Places] /\ faults' \in Nat
      BY <2>6 DEF Ctx!Fill, Ctx!Go, Ctx!Faulty
    <3>2. list[s] \in 0 .. MaxArtifacts
      OBVIOUS
    <3>3. listed' \in 0 .. MaxArtifacts /\ cached' \in BOOLEAN /\ cachedAt' \in Nat
      BY <2>6, <3>2 DEF Ctx!Fill, Ctx!heads
    <3>4. QED BY <2>6, <3>1, <3>3 DEF Ctx!Fill, Ctx!database, Ctx!memo
  <2>7. ASSUME NEW bad \in BOOLEAN, Ctx!Summarise(s, bad) PROVE Ctx!TypeOK'
    <3>1. readerAt' \in [Summarisers -> Ctx!Places] /\ faults' \in Nat
      BY <2>7 DEF Ctx!Summarise, Ctx!Go, Ctx!Faulty
    <3>2. list[s] \in 0 .. MaxArtifacts
      OBVIOUS
    <3>3. summary' \in 0 .. MaxArtifacts /\ hasSummary' \in BOOLEAN /\ summaryAt' \in Nat
      BY <2>7, <3>2 DEF Ctx!Summarise, Ctx!memo
    <3>4. QED BY <2>7, <3>1, <3>3 DEF Ctx!Summarise, Ctx!database, Ctx!heads
  <2>8. ASSUME NEW bad \in BOOLEAN, Ctx!RecordSummary(s, bad) PROVE Ctx!TypeOK'
    <3>1. readerAt' \in [Summarisers -> Ctx!Places] /\ faults' \in Nat
      BY <2>8 DEF Ctx!RecordSummary, Ctx!Go, Ctx!Faulty
    <3>2. QED BY <2>8, <3>1, CommitType DEF Ctx!RecordSummary, Ctx!heads, Ctx!memo
  <2>9. QED BY <1>5, <2>1, <2>2, <2>3, <2>4, <2>5, <2>6, <2>7, <2>8 DEF Ctx!SummariserStep
<1>6. CASE UNCHANGED Ctx!vars
  BY <1>6 DEF Ctx!vars, Ctx!database, Ctx!heads, Ctx!memo, Ctx!reader
<1>7. QED BY <1>1, <1>2, <1>3, <1>4, <1>5, <1>6 DEF Ctx!Next

\* A commit hides an artifact that is made now: no list gets older by it.
LEMMA CommitKeeps ==
  ASSUME ContextConstants, ContextInv, NEW bad \in BOOLEAN, Ctx!Commit(bad),
         UNCHANGED <<now, Ctx!heads, list, readAt>>,
         \A s \in Summarisers : readerAt'[s] = "queried" => readerAt[s] = "queried"
  PROVE  ListsKept'
<1> USE DEF ContextConstants, ContextInv, ListsKept, Ctx!TypeOK
<1>1. CASE bad
  BY <1>1 DEF Ctx!Commit, Ctx!database, Ctx!heads, ListPast, ListHides, ListReading
<1>2. CASE ~bad
  <2>1. made < MaxArtifacts /\ made' = made + 1
    BY <1>2 DEF Ctx!Commit
  <2>2. born'[made'] = now
    BY <1>2, <2>1 DEF Ctx!Commit
  <2>3. \A a \in 1 .. made : born'[a] = born[a]
    BY <1>2, <2>1 DEF Ctx!Commit
  <2>4. ListPast'
    <3>1. ASSUME NEW a \in 1 .. made + 1 PROVE born'[a] <= now
      <4>1. CASE a = made + 1
        BY <2>1, <2>2, <4>1
      <4>2. CASE a # made + 1
        BY <2>3, <4>2 DEF ListPast
      <4>3. QED BY <4>1, <4>2
    <3>2. QED BY <2>1, <3>1 DEF ListPast, Ctx!heads
  <2>5. ListHides'
    <3>1. SUFFICES ASSUME cached, NEW a \in listed + 1 .. made + 1
                   PROVE  cachedAt <= born'[a] + ReadDelay
      BY <2>1 DEF ListHides, Ctx!heads
    <3>2. CASE a = made + 1
      BY <3>1, <3>2, <2>1, <2>2 DEF ListPast
    <3>3. CASE a # made + 1
      BY <3>1, <3>3, <2>3 DEF ListHides
    <3>4. QED BY <3>2, <3>3
  <2>6. ListReading'
    <3>1. SUFFICES ASSUME NEW s \in Summarisers, readerAt[s] = "queried",
                          NEW a \in list[s] + 1 .. made + 1
                   PROVE  readAt[s] <= born'[a]
      BY <2>1 DEF ListReading
    <3>2. CASE a = made + 1
      BY <3>1, <3>2, <2>1, <2>2 DEF ListPast
    <3>3. CASE a # made + 1
      BY <3>1, <3>3, <2>3 DEF ListReading
    <3>4. QED BY <3>2, <3>3
  <2>7. QED BY <2>4, <2>5, <2>6
<1>3. QED BY <1>1, <1>2

LEMMA ContextInvInit == ASSUME ContextConstants PROVE Ctx!Init => ContextInv
<1> SUFFICES ASSUME Ctx!Init PROVE ContextInv
  OBVIOUS
<1>1. Ctx!TypeOK
  <2>1. born \in [1 .. MaxArtifacts -> Nat]
    BY DEF Ctx!Init
  <2>2. /\ readerAt \in [Summarisers -> Ctx!Places] /\ readAt \in [Summarisers -> Nat]
        /\ list \in [Summarisers -> 0 .. MaxArtifacts]
    BY DEF ContextConstants, Ctx!Init, Ctx!Places
  <2>3. made \in 0 .. MaxArtifacts /\ listed \in 0 .. MaxArtifacts /\ summary \in 0 .. MaxArtifacts
    BY DEF ContextConstants, Ctx!Init
  <2>4. QED BY <2>1, <2>2, <2>3 DEF Ctx!Init, Ctx!TypeOK
<1>2. ListPast /\ ListHides /\ ListReading
  BY DEF Ctx!Init, ListPast, ListHides, ListReading
<1>3. QED BY <1>1, <1>2 DEF ContextInv, ListsKept

LEMMA ContextInvKept ==
  ASSUME ContextConstants, ContextInv, [Ctx!Next]_(Ctx!vars)
  PROVE  ContextInv'
<1>1. Ctx!TypeOK'
  BY ContextTypeKept DEF ContextInv, ListsKept
<1> SUFFICES ListsKept'
  BY <1>1 DEF ContextInv, ListsKept
<1> USE DEF ContextConstants, ContextInv, ListsKept, Ctx!TypeOK
<1>2. ASSUME NEW bad \in BOOLEAN, Ctx!Record(bad) PROVE ListsKept'
  BY <1>2, CommitKeeps DEF Ctx!Record, Ctx!reader
<1>3. ASSUME NEW bad \in BOOLEAN, Ctx!Invalidate(bad) PROVE ListsKept'
  BY <1>3 DEF Ctx!Invalidate, Ctx!database, Ctx!reader, ListPast, ListHides, ListReading
<1>4. CASE Ctx!Push
  BY <1>4, CommitKeeps DEF Ctx!Push, Ctx!reader
<1>5. CASE Ctx!Tick
  <2>1. now' = now + 1 /\ UNCHANGED <<made, born, listed, cachedAt, readerAt, list, readAt>>
    BY <1>5 DEF Ctx!Tick, Ctx!database, Ctx!reader
  <2>2. ListPast'
    BY <2>1 DEF ListPast
  <2>3. ListHides'
    BY <1>5, <2>1 DEF Ctx!Tick, ListHides
  <2>4. ListReading'
    BY <1>5, <2>1 DEF Ctx!Tick, ListReading
  <2>5. QED BY <2>2, <2>3, <2>4
<1>6. ASSUME NEW s \in Summarisers, Ctx!SummariserStep(s) PROVE ListsKept'
  <2>1. CASE Ctx!Hit(s)
    BY <2>1
       DEF Ctx!Hit, Ctx!Go, Ctx!Take, Ctx!database, Ctx!heads, ListPast, ListHides, ListReading
  <2>2. CASE Ctx!Query(s)
    BY <2>2
       DEF Ctx!Query, Ctx!Go, Ctx!Take, Ctx!database, Ctx!heads, ListPast, ListHides, ListReading
  <2>3. CASE Ctx!QueryFails(s)
    BY <2>3
       DEF Ctx!QueryFails, Ctx!Go, Ctx!database, Ctx!heads, ListPast, ListHides, ListReading
  <2>4. CASE Ctx!NoSummary(s)
    BY <2>4
       DEF Ctx!NoSummary, Ctx!Go, Ctx!database, Ctx!heads, ListPast, ListHides, ListReading
  <2>5. ASSUME NEW bad \in BOOLEAN, Ctx!Miss(s, bad) PROVE ListsKept'
    BY <2>5 DEF Ctx!Miss, Ctx!Go, Ctx!database, Ctx!heads, ListPast, ListHides, ListReading
  <2>6. ASSUME NEW bad \in BOOLEAN, Ctx!Fill(s, bad) PROVE ListsKept'
    <3>1. UNCHANGED <<now, made, born, list, readAt>> /\ readerAt' = [readerAt EXCEPT ![s] = "ready"]
      BY <2>6 DEF Ctx!Fill, Ctx!Go, Ctx!database
    <3>2. ListReading'
      BY <3>1 DEF ListReading
    <3>3. CASE bad
      BY <2>6, <3>1, <3>2, <3>3 DEF Ctx!Fill, Ctx!heads, ListPast, ListHides
    <3>4. CASE ~bad
      <4>1. cached' = TRUE /\ listed' = list[s] /\ cachedAt' = now /\ readerAt[s] = "queried"
        BY <2>6, <3>4 DEF Ctx!Fill
      <4>2. ListPast'
        BY <3>1, <4>1 DEF ListPast
      <4>3. \A a \in list[s] + 1 .. made : now <= born[a] + ReadDelay
        BY <4>1 DEF ListReading
      <4>4. ListHides'
        BY <3>1, <4>1, <4>3 DEF ListHides
      <4>5. QED BY <3>2, <4>2, <4>4
    <3>5. QED BY <3>3, <3>4
  <2>7. ASSUME NEW bad \in BOOLEAN, Ctx!Summarise(s, bad) PROVE ListsKept'
    BY <2>7
       DEF Ctx!Summarise, Ctx!Go, Ctx!database, Ctx!heads, ListPast, ListHides, ListReading
  <2>8. ASSUME NEW bad \in BOOLEAN, Ctx!RecordSummary(s, bad) PROVE ListsKept'
    BY <2>8, CommitKeeps DEF Ctx!RecordSummary, Ctx!Go
  <2>9. QED BY <1>6, <2>1, <2>2, <2>3, <2>4, <2>5, <2>6, <2>7, <2>8 DEF Ctx!SummariserStep
<1>7. CASE UNCHANGED Ctx!vars
  BY <1>7
     DEF Ctx!vars, Ctx!database, Ctx!heads, Ctx!reader, ListPast, ListHides, ListReading
<1>8. QED BY <1>2, <1>3, <1>4, <1>5, <1>6, <1>7 DEF Ctx!Next

\* get_context_artifacts and invalidate_context_cache: a list in Redis hides an
\* artifact for TTL and one reader's delay at most, with any number of readers
\* and writers and whatever of Redis, the database and the webhook fails.
THEOREM StalenessBounded ==
  ASSUME ContextConstants
  PROVE  Ctx!Spec => []Ctx!StaleBounded
<1>1. Ctx!Init => ContextInv
  BY ContextInvInit
<1>2. ContextInv /\ [Ctx!Next]_(Ctx!vars) => ContextInv'
  BY ContextInvKept
<1>3. ContextInv => Ctx!StaleBounded
  BY DEF ContextConstants, ContextInv, ListsKept, Ctx!TypeOK, ListHides, Ctx!StaleBounded
<1>4. QED BY <1>1, <1>2, <1>3, PTL DEF Ctx!Spec
=============================================================================
