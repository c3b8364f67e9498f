----------------------------- MODULE TokenCache -----------------------------
(***************************************************************************)
(* validate_bearer_token and its caches: a dictionary in each pod (L1), a  *)
(* key in Redis (L2), the row in them.access_tokens, and the check that    *)
(* the token's user is active, which asks the authentication service and   *)
(* keeps the answer in Redis.  Administrators edit or delete the row and   *)
(* drop the copies they can reach; nobody tells the bridge that a user was *)
(* deactivated.                                                            *)
(*                                                                         *)
(* Time is counted in ticks.  A copy is the number of ticks it has left; 0 *)
(* is no copy.  A lookup is cut at every await, and takes at most Delay    *)
(* ticks from the first thing it read to its end.                          *)
(***************************************************************************)
EXTENDS Integers

CONSTANTS
  Pods,
  Tokens,      \* bearer tokens, all of one user
  Lookups,     \* bound: calls of validate_bearer_token at one time
  TTL,         \* _TTL
  UserTTL,     \* _USER_ACTIVE_TTL
  Delay,       \* bound: ticks between what a lookup read and its last write
  Replies,     \* what get_user may answer: "row", or "none" for 404 and errors
  RedisFails,  \* whether a call to Redis may raise
  MaxEdits     \* bound: edits of rows and of the user

ASSUME TimesAssumption ==
  /\ TTL \in Nat \ {0} /\ UserTTL \in Nat \ {0} /\ Delay \in Nat
  /\ Replies \subseteq {"row", "none"}
  /\ RedisFails \in BOOLEAN
  /\ MaxEdits \in Nat

VARIABLES
  row,        \* "unborn", "enabled", "disabled" or "deleted"
  active,     \* the user's row in the authentication service
  local,      \* _l1 of each pod
  shared,     \* them:session:token:{hash}
  userKey,    \* them:session:user_active:{id}, the ticks left
  keyValue,   \* and what Redis answers for it
  at, pod, token,   \* each lookup: where it is, its pod and its token
  wait,       \* ticks since the lookup read the copy or the row it holds
  editor,     \* the admin request that still has copies to drop
  edits,
  \* History, read by the properties only:
  rowOff,     \* ticks since the token's row stopped being enabled
  userOff,    \* ticks since the user stopped being active
  sound       \* row enabled and user active ever since the lookup began

tokenVars == <<row, active, local, shared, userKey, keyValue, at, pod, token, wait,
          editor, edits, rowOff, userOff, sound>>
lookVars == <<at, pod, token, wait, sound>>
dataVars == <<row, active, editor, edits, rowOff, userOff>>

\* The longest an old copy may go on serving: see RevokedStaysOut.
Grace == 2 * (TTL + Delay) - 1
Horizon == Grace   \* bound: the history counts no further

\* redis.Redis(decode_responses=True) answers text, never bytes.
Text(s) == [type |-> "str", text |-> s]
Bytes(s) == [type |-> "bytes", text |-> s]
NoValue == Text("")
KeyValues == {NoValue, Text("0"), Text("1")}

Working == {"shared", "copied", "row", "key", "ask", "mark", "unmark", "fill",
            "publish"}
Done == {"idle", "accepted", "refused"}
HoldsRow == {"key", "ask", "mark", "unmark", "fill", "publish"}
HoldsUser == {"mark", "fill", "publish"}
ReadingPlaces == HoldsRow \cup {"copied"}

TypeOK ==
  /\ row \in [Tokens -> {"unborn", "enabled", "disabled", "deleted"}]
  /\ active \in BOOLEAN
  /\ local \in [Pods -> [Tokens -> 0..TTL]]
  /\ shared \in [Tokens -> 0..TTL]
  /\ userKey \in 0..UserTTL /\ keyValue \in KeyValues
  /\ at \in [Lookups -> Working \cup Done]
  /\ pod \in [Lookups -> Pods] /\ token \in [Lookups -> Tokens]
  /\ wait \in [Lookups -> 0..Delay]
  /\ editor \in [step : {"none", "local", "shared"}, pod : Pods, token : Tokens]
  /\ edits \in 0..MaxEdits
  /\ rowOff \in [Tokens -> 0..Horizon] /\ userOff \in 0..Horizon
  /\ sound \in [Lookups -> BOOLEAN]

TokenInit ==
  /\ row = [t \in Tokens |-> "unborn"]
  /\ active = TRUE
  /\ local = [p \in Pods |-> [t \in Tokens |-> 0]]
  /\ shared = [t \in Tokens |-> 0]
  /\ userKey = 0 /\ keyValue = NoValue
  /\ at = [l \in Lookups |-> "idle"]
  /\ pod \in [Lookups -> Pods] /\ token \in [Lookups -> Tokens]
  /\ wait = [l \in Lookups |-> 0]
  /\ editor \in [step : {"none"}, pod : Pods, token : Tokens]
  /\ edits = 0
  /\ rowOff = [t \in Tokens |-> 0] /\ userOff = 0
  /\ sound = [l \in Lookups |-> FALSE]

-----------------------------------------------------------------------------
(* The lookups *)

Move(l, from, to) ==
  /\ at[l] = from
  /\ at' = [at EXCEPT ![l] = to]

Hold(l) == wait' = [wait EXCEPT ![l] = 0]

\* Mutant: a hit renews the entry of the pod.
HitRenews(p, t) == local' = [local EXCEPT ![p][t] = TTL]

\* _l1_get: a hit leaves the entry's expiry alone.
HitLocal(p, t) == UNCHANGED local

\* validate_bearer_token up to the first await: the pod's own dictionary.
BeginLookup(l, p, t) ==
  /\ row[t] # "unborn"
  /\ pod' = [pod EXCEPT ![l] = p]
  /\ token' = [token EXCEPT ![l] = t]
  /\ sound' = [sound EXCEPT ![l] = row[t] = "enabled" /\ active]
  /\ \/ local[p][t] > 0 /\ Move(l, "idle", "accepted") /\ HitLocal(p, t)
     \/ local[p][t] = 0 /\ Move(l, "idle", "shared") /\ UNCHANGED local
  /\ UNCHANGED <<shared, userKey, keyValue, wait, dataVars>>

\* Redis answers _l2_get; an error is a miss.
GetShared(l) ==
  /\ \/ shared[token[l]] > 0 /\ Move(l, "shared", "copied")
     \/ (shared[token[l]] = 0 \/ RedisFails) /\ Move(l, "shared", "row")
  /\ Hold(l)
  /\ UNCHANGED <<local, shared, userKey, keyValue, pod, token, sound, dataVars>>

\* The copy of Redis goes into the dictionary, for a whole TTL.
TakeShared(l) ==
  /\ Move(l, "copied", "accepted")
  /\ local' = [local EXCEPT ![pod[l]][token[l]] = TTL]
  /\ UNCHANGED <<shared, userKey, keyValue, pod, token, wait, sound, dataVars>>

\* SELECT of the row.
ReadRow(l) ==
  /\ IF row[token[l]] = "enabled" THEN Move(l, "row", "key")
                                  ELSE Move(l, "row", "refused")
  /\ Hold(l)
  /\ UNCHANGED <<local, shared, userKey, keyValue, pod, token, sound, dataVars>>

\* `cached == b"1"`, where cached is what Redis answered.
ReadsAsActive(cached) == cached = Bytes("1")

\* _is_user_active, its cache: a key that is there decides.
GetUserKey(l) ==
  /\ \/ /\ userKey > 0
        /\ IF ReadsAsActive(keyValue) THEN Move(l, "key", "fill")
                                           ELSE Move(l, "key", "refused")
     \/ (userKey = 0 \/ RedisFails) /\ Move(l, "key", "ask")
  /\ UNCHANGED <<local, shared, userKey, keyValue, pod, token, wait, sound, dataVars>>

\* Mutant: no answer counts as active.
ActiveOrSilent(reply) == reply = "none" \/ active

\* get_user returns None for any error, and None is not active.
SaysActive(reply) == reply = "row" /\ active

\* The authentication service answers.
AskService(l) ==
  \E reply \in Replies :
    /\ IF SaysActive(reply) THEN Move(l, "ask", "mark") ELSE Move(l, "ask", "unmark")
    /\ UNCHANGED <<local, shared, userKey, keyValue, pod, token, wait, sound, dataVars>>

\* SETEX of the answer; an error leaves the key alone.
StoreUserKey(value) ==
  \/ userKey' = UserTTL /\ keyValue' = value
  \/ RedisFails /\ UNCHANGED <<userKey, keyValue>>

SetUserKey(l) ==
  /\ \/ /\ Move(l, "mark", "fill")
        /\ StoreUserKey(Text("1"))
     \/ /\ Move(l, "unmark", "refused")
        /\ StoreUserKey(Text("0"))
  /\ UNCHANGED <<local, shared, pod, token, wait, sound, dataVars>>

\* After the commit of last_used_at: the pod's dictionary first.
FillLocal(l) ==
  /\ Move(l, "fill", "publish")
  /\ local' = [local EXCEPT ![pod[l]][token[l]] = TTL]
  /\ UNCHANGED <<shared, userKey, keyValue, pod, token, wait, sound, dataVars>>

\* _l2_set, and the payload is returned whether or not it worked.
FillShared(l) ==
  /\ Move(l, "publish", "accepted")
  /\ \/ shared' = [shared EXCEPT ![token[l]] = TTL]
     \/ RedisFails /\ UNCHANGED shared
  /\ UNCHANGED <<local, userKey, keyValue, pod, token, wait, sound, dataVars>>

\* The caller has its answer.
Return(l) ==
  /\ at[l] \in {"accepted", "refused"}
  /\ at' = [at EXCEPT ![l] = "idle"]
  /\ wait' = [wait EXCEPT ![l] = 0]
  /\ sound' = [sound EXCEPT ![l] = FALSE]
  /\ UNCHANGED <<local, shared, userKey, keyValue, pod, token, dataVars>>

-----------------------------------------------------------------------------
(* Administrators and the authentication service *)

\* The lookups under way when the row or the user changes to a state that
\* refuses are no longer sound.
StillSound(rows, on) ==
  [l \in Lookups |-> sound[l] /\ rows[token[l]] = "enabled" /\ on]

Edit(t, state) ==
  /\ edits < MaxEdits
  /\ edits' = edits + 1
  /\ row' = [row EXCEPT ![t] = state]
  /\ rowOff' = [rowOff EXCEPT ![t] = IF state = "enabled" THEN 0 ELSE @]
  /\ sound' = StillSound(row', active)
  /\ UNCHANGED <<active, userOff, local, shared, userKey, keyValue, at, pod, token, wait>>

\* create_token
CreateToken(t) ==
  /\ row[t] = "unborn"
  /\ Edit(t, "enabled")
  /\ UNCHANGED editor

\* update_token and delete_token up to the commit.
CommitEdit(p, t) ==
  /\ editor.step = "none"
  /\ row[t] \in {"enabled", "disabled"}
  /\ \E state \in {"enabled", "disabled", "deleted"} : Edit(t, state)
  /\ editor' = [step |-> "local", pod |-> p, token |-> t]

\* invalidate_token: the dictionary of the pod that serves the request.
DropLocal ==
  /\ editor.step = "local"
  /\ local' = [local EXCEPT ![editor.pod][editor.token] = 0]
  /\ editor' = [editor EXCEPT !.step = "shared"]
  /\ UNCHANGED <<row, active, edits, rowOff, userOff, shared, userKey, keyValue, lookVars>>

\* invalidate_token: the key, unless Redis raises.
DropShared ==
  /\ editor.step = "shared"
  /\ \/ shared' = [shared EXCEPT ![editor.token] = 0]
     \/ RedisFails /\ UNCHANGED shared
  /\ editor' = [editor EXCEPT !.step = "none"]
  /\ UNCHANGED <<row, active, edits, rowOff, userOff, local, userKey, keyValue, lookVars>>

\* update_user of the authentication service.  invalidate_user_active has no
\* caller.
SetActive(on) ==
  /\ edits < MaxEdits
  /\ edits' = edits + 1
  /\ active # on
  /\ active' = on
  /\ userOff' = IF on THEN 0 ELSE userOff
  /\ sound' = StillSound(row, on)
  /\ UNCHANGED <<row, editor, rowOff, local, shared, userKey, keyValue, at, pod, token, wait>>

\* A pod restarts: its dictionary, its lookups and its admin request are gone.
CrashPod(p) ==
  LET lost == {l \in Lookups : pod[l] = p} IN
  /\ local' = [local EXCEPT ![p] = [t \in Tokens |-> 0]]
  /\ at' = [l \in Lookups |-> IF l \in lost THEN "idle" ELSE at[l]]
  /\ wait' = [l \in Lookups |-> IF l \in lost THEN 0 ELSE wait[l]]
  /\ sound' = [l \in Lookups |-> IF l \in lost THEN FALSE ELSE sound[l]]
  /\ editor' = [editor EXCEPT !.step = IF editor.pod = p THEN "none" ELSE @]
  /\ UNCHANGED <<row, active, edits, rowOff, userOff, shared, userKey, keyValue, pod, token>>

-----------------------------------------------------------------------------
(* Time *)

Less(n) == IF n > 0 THEN n - 1 ELSE 0
More(n) == IF n < Horizon THEN n + 1 ELSE n
InFlight(l) == at[l] \in ReadingPlaces

\* A tick ages every copy and every lookup; none may exceed Delay.
Tick ==
  /\ \A l \in Lookups : InFlight(l) => wait[l] < Delay
  /\ wait' = [l \in Lookups |-> IF InFlight(l) THEN wait[l] + 1 ELSE wait[l]]
  /\ local' = [p \in Pods |-> [t \in Tokens |-> Less(local[p][t])]]
  /\ shared' = [t \in Tokens |-> Less(shared[t])]
  /\ userKey' = Less(userKey)
  /\ keyValue' = IF userKey > 1 THEN keyValue ELSE NoValue
  /\ rowOff' = [t \in Tokens |->
                  IF row[t] \in {"disabled", "deleted"} THEN More(rowOff[t]) ELSE 0]
  /\ userOff' = IF active THEN 0 ELSE More(userOff)
  /\ UNCHANGED <<row, active, at, pod, token, editor, edits, sound>>

LookupStep(l) ==
  \/ \E p \in Pods, t \in Tokens : BeginLookup(l, p, t)
  \/ GetShared(l) \/ TakeShared(l) \/ ReadRow(l)
  \/ GetUserKey(l) \/ AskService(l) \/ SetUserKey(l)
  \/ FillLocal(l) \/ FillShared(l) \/ Return(l)

TokenNext ==
  \/ \E l \in Lookups : LookupStep(l)
  \/ \E t \in Tokens : CreateToken(t)
  \/ \E p \in Pods, t \in Tokens : CommitEdit(p, t)
  \/ DropLocal \/ DropShared
  \/ \E on \in BOOLEAN : SetActive(on)
  \/ \E p \in Pods : CrashPod(p)
  \/ Tick

TokenSpec == TokenInit /\ [][TokenNext]_tokenVars

-----------------------------------------------------------------------------
(* Properties *)

Accepts(l) == at[l] # "accepted" /\ at'[l] = "accepted"

\* A token is accepted for a bounded time after its row was disabled or
\* deleted: every copy descends, by at most one late fill of Redis and one late
\* fill of a pod's dictionary from Redis, from a read of the enabled row.  The
\* copies live one after the other, so the bound is twice the TTL and twice the
\* time a lookup takes, not the five minutes one TTL lasts.
RevokedStaysOut ==
  [][\A l \in Lookups : Accepts(l) => rowOff[token'[l]] < Grace]_tokenVars

\* The same bound for a user who was deactivated, though no copy is dropped for
\* it: whoever asks the service afterwards is refused, also when it fails.
DeactivatedStaysOut ==
  [][\A l \in Lookups : Accepts(l) => userOff < Grace]_tokenVars

\* What the docstring of _is_user_active says of a service that cannot be
\* reached, and a fortiori of one that answers: a token whose row is enabled
\* and whose user is active all along is not refused.
ActiveUserAccepted ==
  [][\A l \in Lookups : at[l] # "refused" /\ at'[l] = "refused" => ~sound[l]]_tokenVars

=============================================================================
