----------------------------- MODULE SessionGate -----------------------------
(***************************************************************************)
(* Admission of WebSocket sessions: runtime_gate, the Lua slot script,     *)
(* session_manager.register/end, the queue loop of apps.ws_entry, the      *)
(* direct path of ws_orchestrator and the admin disconnect endpoint.       *)
(*                                                                         *)
(* One entry point of one application is modelled.  Every await on Redis   *)
(* is a step of its own, so handlers of the same and of other pods         *)
(* interleave exactly where the coroutines can.                            *)
(***************************************************************************)
EXTENDS Naturals, FiniteSets

CONSTANTS
  Sessions,    \* session ids: one per accepted connection
  Direct,      \* those on /ws/orchestrate: no entry point, no application
  Pods,        \* bridge processes
  PodOf,       \* the pod that serves a session
  Users,       \* user ids
  UserOf,      \* the user of a session
  Blocked,     \* sessions whose token or user an admin may block at any time
  EPCap,       \* ep.max_concurrent_sessions
  AppCap,      \* runtime_config.max_concurrent_sessions
  AppRate,     \* requests per hour of the application (rate_limit_rpm * 60)
  UserRate,    \* requests per hour of a user (rate_limit_rpm * 60)
  Queueing,    \* queue_timeout_seconds is set
  MaxPolls,    \* bound: attempts of the queue loop (queue_timeout_seconds / 3)
  MaxFaults,   \* bound: Redis calls that raise
  MaxAdmin,    \* bound: sessions an admin tries to disconnect
  MaxHours     \* bound: turns of the hour slot in the rate-limit keys

ASSUME ConstantsAssumption ==
  /\ IsFiniteSet(Sessions)
  /\ Direct \subseteq Sessions
  /\ Blocked \subseteq Sessions
  /\ PodOf \in [Sessions -> Pods]
  /\ UserOf \in [Sessions -> Users]
  /\ "app" \notin Users
  /\ EPCap \in Nat /\ AppCap \in Nat
  /\ AppRate \in Nat \ {0} /\ UserRate \in Nat \ {0}   \* 0 is "no limit" in the code
  /\ Queueing \in BOOLEAN
  /\ MaxPolls \in Nat /\ MaxFaults \in Nat /\ MaxAdmin \in Nat /\ MaxHours \in Nat

VARIABLES
  pc,          \* where the handler of each session is
  epSet,       \* them:ep:{slug}:sessions
  appSet,      \* them:app:{id}:sessions
  sess,        \* them:sess:{sid}: absent, present without a TTL, or expiring
  hits,        \* the rate-limit counters of the current hour slot
  hour,        \* turns of the hour slot so far
  polls,       \* attempts of the queue loop of each session
  adminReply,  \* what the last disconnect call of an admin returned
  faults,      \* Redis calls that raised so far
  \* History, read by the properties only:
  evicted,     \* running sessions a gate pruned from epSet
  unguarded,   \* sessions a failing Redis admitted (fail-open)
  raced        \* for a session that is not in appSet yet: who joined since its check

redisVars == <<epSet, appSet, sess, hits>>
historyVars == <<evicted, unguarded, raced>>
vars == <<pc, redisVars, hour, polls, adminReply, faults, historyVars>>

\* The handler's stages, in order; each is named for what it does next.
GateStages     == {"appRate", "appCap", "userRate", "epGate", "waiting"}
RegisterStages == {"hset", "expire", "saddEp", "saddApp"}
RunStages      == {"starting", "streaming"}
EndStages      == {"del", "sremEp", "sremApp"}
FinalStages    == {"rejected", "ended", "crashed"}
Stages == GateStages \cup RegisterStages \cup RunStages \cup EndStages
            \cup FinalStages

\* A session occupies its slot from the gate's SADD until its run is over.
HoldStages == RegisterStages \cup RunStages \cup {"del"}
Holders == {s \in Sessions \ Direct : pc[s] \in HoldStages}

\* Past the check of the application's cap and not yet in its set, and the
\* sessions that have still to check.
AppInFlight == {s \in Sessions \ Direct :
  pc[s] \in {"userRate", "epGate", "waiting", "hset", "expire", "saddEp", "saddApp"}}
BeforeCheck == {s \in Sessions : pc[s] \in {"appRate", "appCap"}}

Counters == Users \cup {"app"}

Init ==
  /\ pc = [s \in Sessions |-> IF s \in Direct THEN "userRate" ELSE "appRate"]
  /\ epSet = {} /\ appSet = {}
  /\ sess = [s \in Sessions |-> "absent"]
  /\ hits = [c \in Counters |-> 0]
  /\ hour = 0
  /\ polls = [s \in Sessions |-> 0]
  /\ adminReply = [s \in Sessions |-> "none"]
  /\ faults = 0
  /\ evicted = {} /\ unguarded = {}
  /\ raced = [s \in Sessions |-> {}]

Go(s, from, to) == pc[s] = from /\ pc' = [pc EXCEPT ![s] = to]

\* INCR of the hour's counter c; the caller rejects above the limit.
Hit(s, c, limit, from, to) ==
  /\ hits' = [hits EXCEPT ![c] = @ + 1]
  /\ Go(s, from, IF hits'[c] > limit THEN "rejected" ELSE to)
  /\ UNCHANGED <<epSet, appSet, sess, hour, polls, adminReply, faults,
                 historyVars>>

(***************************************************************************)
(* runtime_gate                                                            *)
(***************************************************************************)
\* The block lists are those of the compiled application at the time.
RejectBlocked(s) ==
  /\ s \in Blocked
  /\ Go(s, "appRate", "rejected")
  /\ UNCHANGED <<redisVars, hour, polls, adminReply, faults, historyVars>>

CheckAppRate(s) == Hit(s, "app", AppRate, "appRate", "appCap")

\* Mutant: the cap compared with > instead of >=.
CheckAppCapOffByOne(s) ==
  /\ Go(s, "appCap", IF Cardinality(appSet) > AppCap
                     THEN "rejected" ELSE "userRate")
  /\ raced' = [raced EXCEPT ![s] = {}]
  /\ UNCHANGED <<redisVars, hour, polls, adminReply, faults, evicted, unguarded>>

\* The soft cap: a plain SCARD, dead members included.
CheckAppCap(s) ==
  /\ Go(s, "appCap", IF Cardinality(appSet) >= AppCap
                     THEN "rejected" ELSE "userRate")
  /\ raced' = [raced EXCEPT ![s] = {}]
  /\ UNCHANGED <<redisVars, hour, polls, adminReply, faults, evicted, unguarded>>

CheckUserRate(s) ==
  Hit(s, UserOf[s], UserRate, "userRate",
      IF s \in Direct THEN "hset" ELSE "epGate")

\* Mutant: a member counts as alive only once its hash has its TTL.
LiveMembersTimed == {m \in epSet : sess[m] = "timed"}

\* _LUA_GATE: drop members without a session hash, compare, add.
LiveMembers == {m \in epSet : sess[m] # "absent"}
\* Mutant: the cap compared with > instead of >=.
HasRoomOffByOne == Cardinality(LiveMembers) <= EPCap
HasRoom == Cardinality(LiveMembers) < EPCap

LuaGate(s) ==
  /\ epSet' = IF HasRoom THEN LiveMembers \cup {s} ELSE LiveMembers
  /\ evicted' = evicted \cup ((epSet \ LiveMembers) \cap Holders)
  /\ UNCHANGED <<appSet, sess, hits, hour, adminReply, faults, unguarded, raced>>

AcquireSlot(s) ==
  /\ LuaGate(s)
  /\ Go(s, "epGate", IF HasRoom THEN "hset"
                     ELSE IF Queueing THEN "waiting" ELSE "rejected")
  /\ UNCHANGED polls

\* One turn of the queue loop: sleep, then ep_gate_try.
PollSlot(s) ==
  /\ polls[s] < MaxPolls
  /\ LuaGate(s)
  /\ Go(s, "waiting", IF HasRoom THEN "hset" ELSE "waiting")
  /\ polls' = [polls EXCEPT ![s] = @ + 1]

\* Mutant: nothing is done for a session whose last attempt failed.
LeaveQueueEarly(s) ==
  /\ polls[s] = 0
  /\ Go(s, "waiting", "rejected")
  /\ UNCHANGED <<redisVars, hour, polls, adminReply, faults, historyVars>>

\* The deadline has passed, or the client left before the waiting message.
LeaveQueue(s) ==
  /\ Go(s, "waiting", "rejected")
  /\ UNCHANGED <<redisVars, hour, polls, adminReply, faults, historyVars>>

(***************************************************************************)
(* session_manager.register: four Redis calls, nothing atomic              *)
(***************************************************************************)
RegisterHash(s) ==
  /\ Go(s, "hset", "expire")
  /\ sess' = [sess EXCEPT ![s] = "untimed"]
  /\ UNCHANGED <<epSet, appSet, hits, hour, polls, adminReply, faults, historyVars>>

\* The TTL of 90 s; set once, because nothing calls touch().
RegisterTTL(s) ==
  /\ Go(s, "expire", IF s \in Direct THEN "starting" ELSE "saddEp")
  /\ sess' = [sess EXCEPT ![s] = IF @ = "untimed" THEN "timed" ELSE @]
  /\ UNCHANGED <<epSet, appSet, hits, hour, polls, adminReply, faults, historyVars>>

RegisterEp(s) ==
  /\ Go(s, "saddEp", "saddApp")
  /\ epSet' = epSet \cup {s}
  /\ UNCHANGED <<appSet, sess, hits, hour, polls, adminReply, faults, historyVars>>

RegisterApp(s) ==
  /\ Go(s, "saddApp", "starting")
  /\ appSet' = appSet \cup {s}
  /\ raced' = [t \in Sessions |->
       IF t \in (AppInFlight \cup BeforeCheck) \ {s} THEN raced[t] \cup {s} ELSE {}]
  /\ UNCHANGED <<epSet, sess, hits, hour, polls, adminReply, faults,
                 evicted, unguarded>>

(***************************************************************************)
(* The run itself, and session_manager.end in the handler's finally        *)
(***************************************************************************)
\* The workflow is started and the control channel subscribed.
StartStreaming(s) ==
  /\ Go(s, "starting", "streaming")
  /\ UNCHANGED <<redisVars, hour, polls, adminReply, faults, historyVars>>

\* Stream, cancel or control task done, or the start failed.
FinishRun(s) ==
  /\ \E from \in RunStages : Go(s, from, "del")
  /\ UNCHANGED <<redisVars, hour, polls, adminReply, faults, historyVars>>

EndHash(s) ==
  /\ Go(s, "del", IF s \in Direct THEN "ended" ELSE "sremEp")
  /\ sess' = [sess EXCEPT ![s] = "absent"]
  /\ UNCHANGED <<epSet, appSet, hits, hour, polls, adminReply, faults, historyVars>>

EndEp(s) ==
  /\ Go(s, "sremEp", "sremApp")
  /\ epSet' = epSet \ {s}
  /\ UNCHANGED <<appSet, sess, hits, hour, polls, adminReply, faults, historyVars>>

\* Mutant: end() forgets the application's set.
EndAppForgets(s) ==
  /\ Go(s, "sremApp", "ended")
  /\ UNCHANGED <<redisVars, hour, polls, adminReply, faults, historyVars>>

EndApp(s) ==
  /\ Go(s, "sremApp", "ended")
  /\ appSet' = appSet \ {s}
  /\ UNCHANGED <<epSet, sess, hits, hour, polls, adminReply, faults, historyVars>>

(***************************************************************************)
(* POST /admin/sessions/{id}/disconnect, for a session that was listed     *)
(***************************************************************************)
AdminDisconnect(s) ==
  /\ adminReply[s] = "none"
  /\ Cardinality({t \in Sessions : adminReply[t] # "none"}) < MaxAdmin
  /\ pc[s] \notin GateStages \cup {"hset", "rejected"}
  /\ adminReply' = [adminReply EXCEPT ![s] =
       IF sess[s] = "absent" THEN "notFound"
       ELSE IF pc[s] = "streaming" THEN "delivered"   \* the channel has a subscriber
       ELSE "undelivered"]
  /\ UNCHANGED <<pc, redisVars, hour, polls, faults, historyVars>>

\* Mutant: the handler terminates only a session that still has its hash.
TerminateIfListed(s) ==
  /\ adminReply[s] = "delivered" /\ sess[s] # "absent"
  /\ Go(s, "streaming", "del")
  /\ UNCHANGED <<redisVars, hour, polls, adminReply, faults, historyVars>>

\* The control listener returns "admin_terminate": cancel, close, finally.
Terminate(s) ==
  /\ adminReply[s] = "delivered"
  /\ Go(s, "streaming", "del")
  /\ UNCHANGED <<redisVars, hour, polls, adminReply, faults, historyVars>>

(***************************************************************************)
(* The environment: expiry, the clock, failing Redis calls, pod crashes    *)
(***************************************************************************)
Expire(s) ==
  /\ sess[s] = "timed"
  /\ sess' = [sess EXCEPT ![s] = "absent"]
  /\ UNCHANGED <<pc, epSet, appSet, hits, hour, polls, adminReply, faults,
                 historyVars>>

NextHour ==
  /\ hour < MaxHours
  /\ hour' = hour + 1
  /\ hits' = [c \in Counters |-> 0]
  /\ UNCHANGED <<pc, epSet, appSet, sess, polls, adminReply, faults, historyVars>>

\* A Redis call of the handler raises: the gate's checks let the session
\* pass; count_app_sessions reports zero; register and end give up the rest.
PassAfterFault(s) ==
  \/ Go(s, "appRate", "appCap")
  \/ Go(s, "appCap", IF AppCap = 0 THEN "rejected" ELSE "userRate")
  \/ Go(s, "userRate", IF s \in Direct THEN "hset" ELSE "epGate")

AdmitAfterFault(s) ==
  /\ \/ Go(s, "epGate", "hset")
     \/ polls[s] < MaxPolls /\ Go(s, "waiting", "hset")
  /\ unguarded' = unguarded \cup {s}

AbandonAfterFault(s) ==
  \/ \E from \in RegisterStages : Go(s, from, "starting")
  \/ \E from \in EndStages : Go(s, from, "ended")

RedisFault(s) ==
  /\ faults < MaxFaults
  /\ faults' = faults + 1
  /\ \/ (PassAfterFault(s) \/ AbandonAfterFault(s)) /\ UNCHANGED unguarded
     \/ AdmitAfterFault(s)
  /\ UNCHANGED <<redisVars, hour, polls, adminReply, evicted, raced>>

\* The process dies, or its shutdown cancels the handlers outside their try.
Crash(p) ==
  /\ \E s \in Sessions : PodOf[s] = p /\ pc[s] \notin FinalStages
  /\ pc' = [s \in Sessions |-> IF PodOf[s] = p /\ pc[s] \notin FinalStages
                               THEN "crashed" ELSE pc[s]]
  /\ UNCHANGED <<redisVars, hour, polls, adminReply, faults, historyVars>>

-----------------------------------------------------------------------------
GateStep(s) ==
  \/ RejectBlocked(s) \/ CheckAppRate(s) \/ CheckAppCap(s) \/ CheckUserRate(s)
  \/ AcquireSlot(s) \/ PollSlot(s) \/ LeaveQueue(s)

RegisterStep(s) ==
  RegisterHash(s) \/ RegisterTTL(s) \/ RegisterEp(s) \/ RegisterApp(s)

EndStep(s) == Terminate(s) \/ EndHash(s) \/ EndEp(s) \/ EndApp(s)

\* What a handler does without waiting for anybody.
HandlerStep(s) ==
  GateStep(s) \/ RegisterStep(s) \/ StartStreaming(s) \/ EndStep(s)

Next ==
  \/ \E s \in Sessions : \/ HandlerStep(s) \/ FinishRun(s)
                         \/ AdminDisconnect(s) \/ Expire(s) \/ RedisFault(s)
  \/ \E p \in Pods : Crash(p)
  \/ NextHour

Spec == Init /\ [][Next]_vars

\* asyncio runs every ready handler and Redis expires every key that has a
\* TTL; nothing obliges a run to finish, an admin to call or a pod to crash.
FairSpec ==
  /\ Spec
  /\ \A s \in Sessions : WF_vars(HandlerStep(s)) /\ WF_vars(Expire(s))

-----------------------------------------------------------------------------
TypeOK ==
  /\ pc \in [Sessions -> Stages]
  /\ epSet \subseteq Sessions \ Direct /\ appSet \subseteq Sessions \ Direct
  /\ sess \in [Sessions -> {"absent", "untimed", "timed"}]
  /\ hits \in [Counters -> Nat]
  /\ hour \in 0..MaxHours
  /\ polls \in [Sessions -> 0..MaxPolls]
  /\ adminReply \in [Sessions -> {"none", "notFound", "delivered", "undelivered"}]
  /\ faults \in 0..MaxFaults
  /\ evicted \subseteq Sessions /\ unguarded \subseteq Sessions
  /\ raced \in [Sessions -> SUBSET (Sessions \ Direct)]

\* The entry point's cap binds every running session that a gate counted and
\* no later gate dropped: each session above the cap is paid for by one that
\* lost its place in epSet while running, or by a failing Redis.
Excused == evicted \cup unguarded
AdmissionBound == Cardinality(Holders \ Excused) <= EPCap

\* The strengthening that makes AdmissionBound inductive: the set itself
\* respects the cap, and the sessions it should count are in it.  register()'s
\* second SADD may only put back a session that is excused.
SetWithinCap == Cardinality(epSet \ Excused) <= EPCap
HoldersCounted == Holders \ Excused \subseteq epSet

\* "It can transiently overshoot by the number of racing requests": between a
\* session's SCARD and its own SADD the application's set grows past the cap
\* by no more than the sessions that joined in that window.
SoftCapOvershoot ==
  \A s \in AppInFlight : Cardinality(appSet) < AppCap + Cardinality(raced[s])

\* A refused or a finished session leaves nothing in Redis, whatever the
\* gates of other sessions did to its entries meanwhile.
LeavesNothing ==
  faults = 0 => \A s \in Sessions : pc[s] \in {"rejected", "ended"} =>
                   s \notin epSet \cup appSet /\ sess[s] = "absent"

\* The entry point's set is a true book of its slots, though four kinds of
\* step of other handlers write it between a session's own: the gate adds,
\* the gate prunes, register() adds again, end() removes.
SlotBook == SetWithinCap /\ HoldersCounted /\ LeavesNothing

\* No gate, pruning concurrently, ever removes a member whose session hash is
\* in place, and the application's set is only ever shrunk by its own member.
OnlyGhostsRemoved ==
  [][\A s \in Sessions :
       /\ s \in epSet \ epSet' => sess[s] = "absent" \/ pc[s] = "sremEp"
       /\ s \in appSet \ appSet' => pc[s] = "sremApp"]_vars

\* Every connection is eventually refused, streaming or gone: the queue loop
\* and the chain of Redis calls cannot hold a client for ever.
SettledStages == {"streaming"} \cup EndStages \cup FinalStages
Settles == <>(\A s \in Sessions : pc[s] \in SettledStages)

\* A disconnect signal reported as delivered ends the session.
Signalled == {s \in Sessions : adminReply[s] = "delivered"}
DeliveredTerminates ==
  Signalled # {} ~> \A s \in Signalled : pc[s] \in FinalStages

-----------------------------------------------------------------------------
\* Statements of the documentation that the code does not meet.

\* runtime_manager.py: "the strict per-EP cap is enforced atomically via Lua
\* EVAL", so the sessions that run never exceed it.
StrictCap == Cardinality(Holders) <= EPCap

\* docs/REDIS.md: the application's set is the "Set of active session_ids", so
\* a session whose pod has crashed leaves it.
CrashedLeavesApp ==
  \A s \in Sessions : pc[s] = "crashed" ~> s \notin appSet
=============================================================================
