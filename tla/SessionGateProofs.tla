-------------------------- MODULE SessionGateProofs --------------------------
(***************************************************************************)
(* Type correctness of SessionGate and the bound on admitted sessions, for *)
(* any number of sessions, pods and users and any caps.                    *)
(***************************************************************************)
EXTENDS SessionGate, FiniteSetTheorems, TLAPS

\* A direct session never reaches a step that touches the entry point's or
\* the application's set.
DirectPath ==
  \A s \in Direct : pc[s] \in {"userRate", "hset", "expire", "starting", "streaming",
                               "del", "rejected", "ended", "crashed"}

TypeInv == TypeOK /\ DirectPath

LEMMA TypeInit == Init => TypeInv
  BY ConstantsAssumption
  DEF Init, TypeInv, TypeOK, DirectPath, Counters, Stages, GateStages,
      RegisterStages, RunStages, EndStages, FinalStages

LEMMA TypeStep == TypeInv /\ [Next]_vars => TypeInv'
<1> SUFFICES ASSUME TypeInv, [Next]_vars PROVE TypeInv'
  OBVIOUS
<1> USE ConstantsAssumption DEF TypeInv, TypeOK, DirectPath, Stages, GateStages,
      RegisterStages, RunStages, EndStages, FinalStages, Counters, Go,
      redisVars, historyVars
<1>1. ASSUME NEW s \in Sessions, GateStep(s) PROVE TypeInv'
  <2>1. CASE RejectBlocked(s)
    BY <2>1 DEF RejectBlocked
  <2>2. CASE CheckAppRate(s)
    BY <2>2 DEF CheckAppRate, Hit
  <2>3. CASE CheckAppCap(s)
    BY <2>3 DEF CheckAppCap
  <2>4. CASE CheckUserRate(s)
    BY <2>4 DEF CheckUserRate, Hit
  <2>5. CASE AcquireSlot(s)
    BY <2>5 DEF AcquireSlot, LuaGate, LiveMembers, Holders
  <2>6. CASE PollSlot(s)
    BY <2>6 DEF PollSlot, LuaGate, LiveMembers, Holders
  <2>7. CASE LeaveQueue(s)
    BY <2>7 DEF LeaveQueue
  <2> QED
    BY <1>1, <2>1, <2>2, <2>3, <2>4, <2>5, <2>6, <2>7 DEF GateStep
<1>2. ASSUME NEW s \in Sessions, RegisterStep(s) PROVE TypeInv'
  <2>1. CASE RegisterHash(s)
    BY <2>1 DEF RegisterHash
  <2>2. CASE RegisterTTL(s)
    BY <2>2 DEF RegisterTTL
  <2>3. CASE RegisterEp(s)
    BY <2>3 DEF RegisterEp
  <2>4. CASE RegisterApp(s)
    BY <2>4 DEF RegisterApp
  <2> QED
    BY <1>2, <2>1, <2>2, <2>3, <2>4 DEF RegisterStep
<1>3. ASSUME NEW s \in Sessions, EndStep(s) PROVE TypeInv'
  <2>1. CASE Terminate(s)
    BY <2>1 DEF Terminate
  <2>2. CASE EndHash(s)
    BY <2>2 DEF EndHash
  <2>3. CASE EndEp(s)
    BY <2>3 DEF EndEp
  <2>4. CASE EndApp(s)
    BY <2>4 DEF EndApp
  <2> QED
    BY <1>3, <2>1, <2>2, <2>3, <2>4 DEF EndStep
<1>4. ASSUME NEW s \in Sessions, StartStreaming(s) PROVE TypeInv'
  BY <1>4 DEF StartStreaming
<1>5. ASSUME NEW s \in Sessions, FinishRun(s) PROVE TypeInv'
  BY <1>5 DEF FinishRun
<1>6. ASSUME NEW s \in Sessions, AdminDisconnect(s) PROVE TypeInv'
  BY <1>6 DEF AdminDisconnect
<1>7. ASSUME NEW s \in Sessions, Expire(s) PROVE TypeInv'
  BY <1>7 DEF Expire
<1>8. ASSUME NEW s \in Sessions, RedisFault(s) PROVE TypeInv'
  BY <1>8 DEF RedisFault, PassAfterFault, AdmitAfterFault, AbandonAfterFault
<1>9. ASSUME NEW p \in Pods, Crash(p) PROVE TypeInv'
  BY <1>9 DEF Crash
<1>10. CASE NextHour
  BY <1>10 DEF NextHour
<1>11. CASE UNCHANGED vars
  BY <1>11 DEF vars
<1> QED
  BY <1>1, <1>2, <1>3, <1>4, <1>5, <1>6, <1>7, <1>8, <1>9, <1>10, <1>11
  DEF Next, HandlerStep

\* Every reachable state is well typed, and direct sessions keep to their path.
THEOREM TypeCorrect == Spec => [](TypeOK /\ DirectPath)
<1>1. Spec => []TypeInv
  BY TypeInit, TypeStep, PTL DEF Spec
<1> QED
  BY <1>1, PTL DEF TypeInv

-----------------------------------------------------------------------------
(***************************************************************************)
(* The cap.  SlotInv is inductive relative to TypeInv: a gate adds to a    *)
(* set it has just seen below the cap, and whatever else enters epSet is   *)
(* either counted already or excused.                                      *)
(***************************************************************************)
SlotInv == SetWithinCap /\ HoldersCounted

\* Dropping members from a bounded set, or excusing more, keeps the bound.
LEMMA BoundShrinks ==
  ASSUME NEW A, NEW B, A \subseteq B, IsFiniteSet(B), Cardinality(B) <= EPCap
  PROVE  Cardinality(A) <= EPCap
<1>1. IsFiniteSet(A) /\ Cardinality(A) <= Cardinality(B)
  BY FS_Subset
<1>2. Cardinality(A) \in Nat /\ Cardinality(B) \in Nat
  BY <1>1, FS_CardinalityType
<1> QED
  BY <1>1, <1>2, ConstantsAssumption

\* Every set of sessions is finite.
LEMMA SessionsFinite ==
  ASSUME NEW A, A \subseteq Sessions
  PROVE  IsFiniteSet(A)
  BY FS_Subset, ConstantsAssumption

LEMMA SlotInit == Init => SlotInv
  BY FS_EmptySet, ConstantsAssumption
  DEF Init, SlotInv, SetWithinCap, HoldersCounted, Holders, HoldStages,
      RegisterStages, RunStages

\* Any step that leaves epSet and the excused sets alone and lets no session
\* begin to hold a slot.
LEMMA SlotFrame ==
  ASSUME TypeInv, SlotInv, epSet' \subseteq epSet, Excused \subseteq Excused',
         Holders' \ Excused' \subseteq epSet'
  PROVE  SlotInv'
<1>1. (epSet \ Excused)' \subseteq epSet \ Excused
  OBVIOUS
<1>2. IsFiniteSet(epSet \ Excused)
  BY SessionsFinite DEF TypeInv, TypeOK
<1>3. Cardinality((epSet \ Excused)') <= EPCap
  BY <1>1, <1>2, BoundShrinks DEF SlotInv, SetWithinCap
<1> QED
  BY <1>3 DEF SlotInv, SetWithinCap, HoldersCounted

\* The script itself: what it leaves in epSet is within the cap whenever it
\* adds, and it excuses every running session it drops.
LEMMA SlotGate ==
  ASSUME TypeInv, SlotInv, NEW s \in Sessions, LuaGate(s),
         Holders' \subseteq Holders \cup (IF HasRoom THEN {s} ELSE {})
  PROVE  SlotInv'
<1> DEFINE L == LiveMembers
<1>1. IsFiniteSet(L) /\ L \subseteq epSet /\ IsFiniteSet(epSet)
  BY SessionsFinite DEF LiveMembers, TypeInv, TypeOK
<1>2. Excused' = Excused \cup ((epSet \ L) \cap Holders)
  BY DEF LuaGate, Excused
<1>3. CASE HasRoom
  <2>1. epSet' = L \cup {s}
    BY <1>3 DEF LuaGate
  <2>2. IsFiniteSet(epSet') /\ Cardinality(epSet') <= Cardinality(L) + 1
    <3>1. Cardinality(L) \in Nat
      BY <1>1, FS_CardinalityType
    <3>2. /\ IsFiniteSet(L \cup {s})
          /\ Cardinality(L \cup {s}) =
               IF s \in L THEN Cardinality(L) ELSE Cardinality(L) + 1
      BY <1>1, FS_AddElement
    <3> HIDE DEF L
    <3> QED
      BY <2>1, <3>1, <3>2
  <2>3. Cardinality(epSet') <= EPCap
    BY <1>1, <1>3, <2>2, FS_CardinalityType, ConstantsAssumption DEF HasRoom
  <2>4. Cardinality((epSet \ Excused)') <= EPCap
    BY <2>2, <2>3, BoundShrinks
  <2>5. Holders' \ Excused' \subseteq epSet'
    BY <1>2, <1>3, <2>1 DEF SlotInv, HoldersCounted
  <2> QED
    BY <2>4, <2>5 DEF SlotInv, SetWithinCap, HoldersCounted
<1>4. CASE ~HasRoom
  <2>1. epSet' = L
    BY <1>4 DEF LuaGate
  <2>2. Holders' \ Excused' \subseteq epSet'
    BY <1>2, <1>4, <2>1 DEF SlotInv, HoldersCounted
  <2> QED
    BY <1>1, <1>2, <2>1, <2>2, SlotFrame
<1> QED
  BY <1>3, <1>4

LEMMA SlotStep == TypeInv /\ SlotInv /\ [Next]_vars => SlotInv'
<1> SUFFICES ASSUME TypeInv, SlotInv, [Next]_vars PROVE SlotInv'
  OBVIOUS
<1> USE DEF Go, Holders, HoldStages, RegisterStages, RunStages, Excused,
            redisVars, historyVars
<1> DEFINE Frame == /\ epSet' \subseteq epSet
                    /\ Excused \subseteq Excused'
                    /\ Holders' \ Excused' \subseteq epSet'
<1>1. ASSUME Frame PROVE SlotInv'
  BY <1>1, SlotFrame
<1>2. ASSUME NEW s \in Sessions, GateStep(s) PROVE SlotInv'
  <2>1. CASE RejectBlocked(s)
    BY <1>1, <2>1 DEF RejectBlocked, TypeInv, TypeOK, SlotInv, HoldersCounted
  <2>2. CASE CheckAppRate(s)
    BY <1>1, <2>2 DEF CheckAppRate, Hit, TypeInv, TypeOK, SlotInv, HoldersCounted
  <2>3. CASE CheckAppCap(s)
    BY <1>1, <2>3 DEF CheckAppCap, TypeInv, TypeOK, SlotInv, HoldersCounted
  <2>4. CASE CheckUserRate(s)
    BY <1>1, <2>4 DEF CheckUserRate, Hit, TypeInv, TypeOK, SlotInv, HoldersCounted
  <2>5. CASE AcquireSlot(s)
    BY <2>5, SlotGate DEF AcquireSlot, TypeInv, TypeOK
  <2>6. CASE PollSlot(s)
    BY <2>6, SlotGate DEF PollSlot, TypeInv, TypeOK
  <2>7. CASE LeaveQueue(s)
    BY <1>1, <2>7 DEF LeaveQueue, TypeInv, TypeOK, SlotInv, HoldersCounted
  <2> QED
    BY <1>2, <2>1, <2>2, <2>3, <2>4, <2>5, <2>6, <2>7 DEF GateStep
<1>3. ASSUME NEW s \in Sessions, RegisterStep(s) PROVE SlotInv'
  <2>1. CASE RegisterHash(s)
    BY <1>1, <2>1 DEF RegisterHash, TypeInv, TypeOK, SlotInv, HoldersCounted
  <2>2. CASE RegisterTTL(s)
    BY <1>1, <2>2 DEF RegisterTTL, TypeInv, TypeOK, SlotInv, HoldersCounted
  <2>3. CASE RegisterEp(s)
    <3>1. s \notin Direct
      BY <2>3 DEF RegisterEp, TypeInv, DirectPath
    <3>2. s \in epSet \cup Excused
      BY <2>3, <3>1 DEF RegisterEp, SlotInv, HoldersCounted
    <3>3. (epSet \ Excused)' = epSet \ Excused
      BY <2>3, <3>2 DEF RegisterEp
    <3>4. (Holders \ Excused)' \subseteq epSet'
      BY <2>3 DEF RegisterEp, TypeInv, TypeOK, SlotInv, HoldersCounted
    <3> QED
      BY <3>3, <3>4 DEF SlotInv, SetWithinCap, HoldersCounted
  <2>4. CASE RegisterApp(s)
    BY <1>1, <2>4 DEF RegisterApp, TypeInv, TypeOK, SlotInv, HoldersCounted
  <2> QED
    BY <1>3, <2>1, <2>2, <2>3, <2>4 DEF RegisterStep
<1>4. ASSUME NEW s \in Sessions, EndStep(s) PROVE SlotInv'
  <2>1. CASE Terminate(s)
    BY <1>1, <2>1 DEF Terminate, TypeInv, TypeOK, SlotInv, HoldersCounted
  <2>2. CASE EndHash(s)
    BY <1>1, <2>2 DEF EndHash, TypeInv, TypeOK, SlotInv, HoldersCounted
  <2>3. CASE EndEp(s)
    BY <1>1, <2>3 DEF EndEp, TypeInv, TypeOK, SlotInv, HoldersCounted
  <2>4. CASE EndApp(s)
    BY <1>1, <2>4 DEF EndApp, TypeInv, TypeOK, SlotInv, HoldersCounted
  <2> QED
    BY <1>4, <2>1, <2>2, <2>3, <2>4 DEF EndStep
<1>5. ASSUME NEW s \in Sessions, StartStreaming(s) PROVE SlotInv'
  BY <1>1, <1>5 DEF StartStreaming, TypeInv, TypeOK, SlotInv, HoldersCounted
<1>6. ASSUME NEW s \in Sessions, FinishRun(s) PROVE SlotInv'
  BY <1>1, <1>6 DEF FinishRun, TypeInv, TypeOK, SlotInv, HoldersCounted
<1>7. ASSUME NEW s \in Sessions, AdminDisconnect(s) PROVE SlotInv'
  BY <1>1, <1>7 DEF AdminDisconnect, TypeInv, TypeOK, SlotInv, HoldersCounted
<1>8. ASSUME NEW s \in Sessions, Expire(s) PROVE SlotInv'
  BY <1>1, <1>8 DEF Expire, TypeInv, TypeOK, SlotInv, HoldersCounted
<1>9. ASSUME NEW s \in Sessions, RedisFault(s) PROVE SlotInv'
  <2>1. CASE PassAfterFault(s) /\ UNCHANGED unguarded
    BY <1>1, <1>9, <2>1
    DEF RedisFault, PassAfterFault, TypeInv, TypeOK, SlotInv, HoldersCounted
  <2>2. CASE AbandonAfterFault(s) /\ UNCHANGED unguarded
    BY <1>1, <1>9, <2>2
    DEF RedisFault, AbandonAfterFault, EndStages, TypeInv, TypeOK, SlotInv, HoldersCounted
  <2>3. CASE AdmitAfterFault(s)
    BY <1>1, <1>9, <2>3
    DEF RedisFault, AdmitAfterFault, TypeInv, TypeOK, SlotInv, HoldersCounted
  <2> QED
    BY <1>9, <2>1, <2>2, <2>3 DEF RedisFault
<1>10. ASSUME NEW p \in Pods, Crash(p) PROVE SlotInv'
  BY <1>1, <1>10 DEF Crash, TypeInv, TypeOK, SlotInv, HoldersCounted
<1>11. CASE NextHour
  BY <1>1, <1>11 DEF NextHour, TypeInv, TypeOK, SlotInv, HoldersCounted
<1>12. CASE UNCHANGED vars
  BY <1>1, <1>12 DEF vars, TypeInv, TypeOK, SlotInv, HoldersCounted
<1> QED
  BY <1>2, <1>3, <1>4, <1>5, <1>6, <1>7, <1>8, <1>9, <1>10, <1>11, <1>12
  DEF Next, HandlerStep

LEMMA SlotImpliesBound == TypeInv /\ SlotInv => AdmissionBound
<1> SUFFICES ASSUME TypeInv, SlotInv PROVE AdmissionBound
  OBVIOUS
<1>1. IsFiniteSet(epSet \ Excused)
  BY SessionsFinite DEF TypeInv, TypeOK
<1> QED
  BY <1>1, BoundShrinks DEF SlotInv, SetWithinCap, HoldersCounted, AdmissionBound

\* The entry point's cap binds every session a gate admitted, except those a
\* later gate dropped while they ran and those a failing Redis let through.
THEOREM CapUpToEvictions == Spec => []AdmissionBound
<1>1. Spec => [](TypeInv /\ SlotInv)
  BY TypeInit, TypeStep, SlotInit, SlotStep, PTL DEF Spec
<1> QED
  BY <1>1, SlotImpliesBound, PTL

-----------------------------------------------------------------------------
(***************************************************************************)
(* What a session leaves.  Without a failing call each trace of a session  *)
(* in Redis confines its handler to the stages between the call that wrote *)
(* it and the one that removes it.                                         *)
(***************************************************************************)
HashStages == {"expire", "saddEp", "saddApp", "starting", "streaming", "del", "crashed"}
EpStages == {"hset", "expire", "saddEp", "saddApp", "starting", "streaming", "del",
             "sremEp", "crashed"}
AppStages == {"starting", "streaming", "del", "sremEp", "sremApp", "crashed"}

TracesConfine ==
  faults = 0 => \A s \in Sessions :
    /\ sess[s] # "absent" => pc[s] \in HashStages
    /\ s \in epSet => pc[s] \in EpStages
    /\ s \in appSet => pc[s] \in AppStages

LEMMA TracesInit == Init => TracesConfine
  BY DEF Init, TracesConfine

LEMMA TracesStep == TypeInv /\ TracesConfine /\ [Next]_vars => TracesConfine'
<1> SUFFICES ASSUME TypeInv, TracesConfine, [Next]_vars PROVE TracesConfine'
  OBVIOUS
<1> USE DEF TypeInv, TypeOK, DirectPath, TracesConfine, HashStages, EpStages, AppStages,
            Go, redisVars, historyVars
<1>1. ASSUME NEW s \in Sessions, GateStep(s) PROVE TracesConfine'
  <2>1. CASE RejectBlocked(s) \/ LeaveQueue(s)
    BY <2>1 DEF RejectBlocked, LeaveQueue
  <2>2. CASE CheckAppRate(s)
    BY <2>2 DEF CheckAppRate, Hit
  <2>3. CASE CheckAppCap(s)
    BY <2>3 DEF CheckAppCap
  <2>4. CASE CheckUserRate(s)
    BY <2>4 DEF CheckUserRate, Hit
  <2>5. CASE AcquireSlot(s)
    BY <2>5 DEF AcquireSlot, LuaGate, LiveMembers
  <2>6. CASE PollSlot(s)
    BY <2>6 DEF PollSlot, LuaGate, LiveMembers
  <2> QED
    BY <1>1, <2>1, <2>2, <2>3, <2>4, <2>5, <2>6 DEF GateStep
<1>2. ASSUME NEW s \in Sessions, RegisterStep(s) PROVE TracesConfine'
  <2>1. CASE RegisterHash(s)
    BY <2>1 DEF RegisterHash
  <2>2. CASE RegisterTTL(s)
    BY <2>2 DEF RegisterTTL
  <2>3. CASE RegisterEp(s)
    BY <2>3 DEF RegisterEp
  <2>4. CASE RegisterApp(s)
    BY <2>4 DEF RegisterApp
  <2> QED
    BY <1>2, <2>1, <2>2, <2>3, <2>4 DEF RegisterStep
<1>3. ASSUME NEW s \in Sessions, EndStep(s) PROVE TracesConfine'
  <2>1. CASE Terminate(s)
    BY <2>1 DEF Terminate
  <2>2. CASE EndHash(s)
    BY <2>2 DEF EndHash
  <2>3. CASE EndEp(s)
    BY <2>3 DEF EndEp
  <2>4. CASE EndApp(s)
    BY <2>4 DEF EndApp
  <2> QED
    BY <1>3, <2>1, <2>2, <2>3, <2>4 DEF EndStep
<1>4. ASSUME NEW s \in Sessions, StartStreaming(s) \/ FinishRun(s) PROVE TracesConfine'
  BY <1>4 DEF StartStreaming, FinishRun, RunStages
<1>5. ASSUME NEW s \in Sessions, AdminDisconnect(s) \/ Expire(s) PROVE TracesConfine'
  BY <1>5 DEF AdminDisconnect, Expire
<1>6. ASSUME NEW s \in Sessions, RedisFault(s) PROVE TracesConfine'
  <2>1. faults' # 0
    BY <1>6 DEF RedisFault
  <2> QED
    BY <2>1
<1>7. ASSUME NEW p \in Pods, Crash(p) PROVE TracesConfine'
  BY <1>7 DEF Crash, FinalStages
<1>8. CASE NextHour \/ UNCHANGED vars
  BY <1>8 DEF NextHour, vars
<1> QED
  BY <1>1, <1>2, <1>3, <1>4, <1>5, <1>6, <1>7, <1>8 DEF Next, HandlerStep

\* The set of an entry point counts every session it should and no more than
\* the cap, and nothing outlives a session that was refused or has ended.
THEOREM BookKept == Spec => []SlotBook
<1>1. Spec => [](TypeInv /\ SlotInv /\ TracesConfine)
  BY TypeInit, TypeStep, SlotInit, SlotStep, TracesInit, TracesStep, PTL DEF Spec
<1>2. TracesConfine => LeavesNothing
  BY DEF TracesConfine, LeavesNothing, HashStages, EpStages, AppStages
<1>3. TypeInv /\ SlotInv /\ TracesConfine => SlotBook
  BY <1>2 DEF SlotInv, SlotBook
<1> QED
  BY <1>1, <1>3, PTL

-----------------------------------------------------------------------------
(***************************************************************************)
(* Who removes what: only the script and a session's own end() shrink a    *)
(* set.                                                                    *)
(***************************************************************************)
Ghosts ==
  \A s \in Sessions :
    /\ s \in epSet \ epSet' => sess[s] = "absent" \/ pc[s] = "sremEp"
    /\ s \in appSet \ appSet' => pc[s] = "sremApp"

LEMMA GhostStep == ASSUME Next PROVE Ghosts
<1> USE DEF Ghosts, Go, redisVars, historyVars
<1>1. ASSUME NEW s \in Sessions, GateStep(s) PROVE Ghosts
  <2>1. CASE RejectBlocked(s) \/ LeaveQueue(s)
    BY <2>1 DEF RejectBlocked, LeaveQueue
  <2>2. CASE CheckAppRate(s) \/ CheckAppCap(s) \/ CheckUserRate(s)
    BY <2>2 DEF CheckAppRate, CheckAppCap, CheckUserRate, Hit
  <2>3. CASE AcquireSlot(s) \/ PollSlot(s)
    <3>1. LiveMembers \subseteq epSet' /\ appSet' = appSet
      BY <2>3 DEF AcquireSlot, PollSlot, LuaGate
    <3> QED
      BY <3>1 DEF LiveMembers
  <2> QED
    BY <1>1, <2>1, <2>2, <2>3 DEF GateStep
<1>2. ASSUME NEW s \in Sessions, RegisterStep(s) PROVE Ghosts
  BY <1>2 DEF RegisterStep, RegisterHash, RegisterTTL, RegisterEp, RegisterApp
<1>3. ASSUME NEW s \in Sessions, EndStep(s) PROVE Ghosts
  BY <1>3 DEF EndStep, Terminate, EndHash, EndEp, EndApp
<1>4. ASSUME NEW s \in Sessions, StartStreaming(s) \/ FinishRun(s) PROVE Ghosts
  BY <1>4 DEF StartStreaming, FinishRun
<1>5. ASSUME NEW s \in Sessions, AdminDisconnect(s) \/ Expire(s) \/ RedisFault(s)
      PROVE  Ghosts
  BY <1>5 DEF AdminDisconnect, Expire, RedisFault
<1>6. ASSUME NEW p \in Pods, Crash(p) PROVE Ghosts
  BY <1>6 DEF Crash
<1>7. CASE NextHour
  BY <1>7 DEF NextHour
<1> QED
  BY <1>1, <1>2, <1>3, <1>4, <1>5, <1>6, <1>7 DEF Next, HandlerStep

\* A gate never drops a session whose hash is in place, and nobody but the
\* session itself takes it out of the application's set.
THEOREM GhostsOnly == Spec => OnlyGhostsRemoved
<1>1. [Next]_vars =>
        [\A s \in Sessions :
           /\ s \in epSet \ epSet' => sess[s] = "absent" \/ pc[s] = "sremEp"
           /\ s \in appSet \ appSet' => pc[s] = "sremApp"]_vars
  BY GhostStep DEF Ghosts
<1> QED
  BY <1>1, PTL DEF Spec, OnlyGhostsRemoved

-----------------------------------------------------------------------------
(***************************************************************************)
(* The soft application cap.  Every SADD to appSet enters raced[s] of each *)
(* session still on its way, and a session on its way has never joined.    *)
(***************************************************************************)
BeforeJoin == GateStages \cup RegisterStages

JoinedAreRaced ==
  /\ \A s, t \in Sessions : t \in raced[s] => pc[t] \notin BeforeJoin
  /\ \A s \in Sessions : pc[s] \in {"appRate", "appCap"} => appSet \subseteq raced[s]

OvershootInv == JoinedAreRaced /\ SoftCapOvershoot

LEMMA OvershootInit == Init => OvershootInv
  BY ConstantsAssumption
  DEF Init, OvershootInv, JoinedAreRaced, SoftCapOvershoot, AppInFlight

\* A step that adds nobody to appSet, keeps raced and brings no session
\* before its join or past its check.
LEMMA OvershootFrame ==
  ASSUME TypeInv, OvershootInv, appSet' \subseteq appSet, raced' = raced,
         \A s \in Sessions : pc'[s] \in BeforeJoin => pc[s] \in BeforeJoin,
         \A s \in Sessions : pc'[s] \in {"appRate", "appCap"} =>
                               pc[s] \in {"appRate", "appCap"},
         AppInFlight' \subseteq AppInFlight
  PROVE  OvershootInv'
<1>1. JoinedAreRaced'
  BY DEF OvershootInv, JoinedAreRaced
<1>2. ASSUME NEW s \in AppInFlight'
      PROVE  Cardinality(appSet') < AppCap + Cardinality(raced'[s])
  <2>1. Cardinality(appSet) < AppCap + Cardinality(raced[s])
    BY <1>2 DEF OvershootInv, SoftCapOvershoot
  <2>2. s \in Sessions /\ IsFiniteSet(appSet) /\ IsFiniteSet(raced[s])
    BY <1>2, SessionsFinite DEF TypeInv, TypeOK, AppInFlight
  <2>3. Cardinality(appSet') <= Cardinality(appSet) /\ Cardinality(appSet) \in Nat
        /\ Cardinality(raced[s]) \in Nat /\ IsFiniteSet(appSet')
    BY <2>2, FS_Subset, FS_CardinalityType
  <2>4. Cardinality(appSet') \in Nat
    BY <2>3, FS_CardinalityType
  <2> QED
    BY <2>1, <2>3, <2>4, ConstantsAssumption
<1> QED
  BY <1>1, <1>2 DEF OvershootInv, SoftCapOvershoot

\* The check: whoever passes it has seen fewer members than the cap, or, when
\* Redis fails and the count reads zero, has raced with every member.
LEMMA OvershootCheck ==
  ASSUME TypeInv, OvershootInv, NEW s \in Sessions,
         CheckAppCap(s) \/ (RedisFault(s) /\ pc[s] = "appCap")
  PROVE  OvershootInv'
<1> USE DEF TypeInv, TypeOK, Go
<1>1. /\ appSet' = appSet /\ pc[s] = "appCap"
      /\ pc' = [pc EXCEPT ![s] = pc'[s]] /\ pc'[s] \in {"rejected", "userRate"}
      /\ \A t \in Sessions \ {s} : raced'[t] = raced[t]
      /\ raced'[s] \in {{}, raced[s]}
  BY DEF CheckAppCap, RedisFault, PassAfterFault, AdmitAfterFault, AbandonAfterFault,
         RegisterStages, EndStages, redisVars
<1>2. JoinedAreRaced'
  BY <1>1 DEF OvershootInv, JoinedAreRaced, BeforeCheck, BeforeJoin, GateStages,
              RegisterStages
<1>3. ASSUME NEW t \in AppInFlight', t # s
      PROVE  Cardinality(appSet') < AppCap + Cardinality(raced'[t])
  BY <1>1, <1>3 DEF OvershootInv, SoftCapOvershoot, AppInFlight
<1>4. ASSUME s \in AppInFlight'
      PROVE  Cardinality(appSet') < AppCap + Cardinality(raced'[s])
  <2>1. IsFiniteSet(appSet) /\ IsFiniteSet(raced[s]) /\ Cardinality(appSet) \in Nat
    BY SessionsFinite, FS_CardinalityType
  <2>2. CASE CheckAppCap(s)
    <3>1. raced'[s] = {} /\ ~(Cardinality(appSet) >= AppCap)
      BY <2>2, <1>1, <1>4 DEF CheckAppCap, AppInFlight
    <3>2. Cardinality(raced'[s]) = 0
      BY <3>1, FS_EmptySet
    <3> QED
      BY <1>1, <2>1, <3>1, <3>2, ConstantsAssumption
  <2>3. CASE RedisFault(s)
    <3>1. AppCap > 0 /\ raced' = raced
      BY <1>1, <1>4, <2>3, ConstantsAssumption
      DEF AppInFlight, RedisFault, PassAfterFault, AdmitAfterFault, AbandonAfterFault,
          RegisterStages, EndStages
    <3>2. appSet \subseteq raced[s]
      BY <1>1 DEF OvershootInv, JoinedAreRaced
    <3>3. Cardinality(appSet) <= Cardinality(raced[s]) /\ Cardinality(raced[s]) \in Nat
      BY <2>1, <3>2, FS_Subset, FS_CardinalityType
    <3> QED
      BY <1>1, <2>1, <3>1, <3>3, ConstantsAssumption
  <2> QED
    BY <2>2, <2>3
<1>5. SoftCapOvershoot'
  BY <1>3, <1>4 DEF SoftCapOvershoot
<1> QED
  BY <1>2, <1>5 DEF OvershootInv

\* The join: appSet and every raced[t] that counts grow by the same element.
LEMMA OvershootJoin ==
  ASSUME TypeInv, OvershootInv, NEW s \in Sessions, RegisterApp(s)
  PROVE  OvershootInv'
<1> USE DEF TypeInv, TypeOK, Go
<1>1. /\ appSet' = appSet \cup {s} /\ pc[s] = "saddApp"
      /\ pc' = [pc EXCEPT ![s] = "starting"]
      /\ \A t \in Sessions : raced'[t] \in {raced[t] \cup {s}, {}}
      /\ \A t \in (AppInFlight \cup BeforeCheck) \ {s} : raced'[t] = raced[t] \cup {s}
  BY DEF RegisterApp, AppInFlight, BeforeCheck
<1>2. JoinedAreRaced'
  BY <1>1 DEF OvershootInv, JoinedAreRaced, BeforeCheck, BeforeJoin, GateStages,
              RegisterStages
<1>3. ASSUME NEW t \in AppInFlight'
      PROVE  Cardinality(appSet') < AppCap + Cardinality(raced'[t])
  <2>1. t \in AppInFlight \ {s} /\ t \in Sessions
    BY <1>1, <1>3 DEF AppInFlight
  <2>2. s \notin raced[t]
    BY <1>1, <2>1 DEF OvershootInv, JoinedAreRaced, BeforeJoin, RegisterStages
  <2>3. IsFiniteSet(appSet) /\ IsFiniteSet(raced[t])
    BY <2>1, SessionsFinite
  <2>4. Cardinality(appSet) \in Nat /\ Cardinality(raced[t]) \in Nat
    BY <2>3, FS_CardinalityType
  <2>5. Cardinality(raced[t] \cup {s}) = Cardinality(raced[t]) + 1
    BY <2>2, <2>3, FS_AddElement
  <2>6. Cardinality(appSet \cup {s}) <= Cardinality(appSet) + 1
        /\ Cardinality(appSet \cup {s}) \in Nat
    <3>1. Cardinality(appSet \cup {s}) =
            IF s \in appSet THEN Cardinality(appSet) ELSE Cardinality(appSet) + 1
      BY <2>3, FS_AddElement
    <3> QED
      BY <2>4, <3>1
  <2>7. Cardinality(appSet) < AppCap + Cardinality(raced[t])
    BY <2>1 DEF OvershootInv, SoftCapOvershoot
  <2>8. Cardinality(appSet \cup {s}) < AppCap + Cardinality(raced[t] \cup {s})
    <3> DEFINE a == Cardinality(appSet)
               b == Cardinality(raced[t])
               c == Cardinality(appSet \cup {s})
    <3> HIDE DEF a, b, c
    <3>1. a \in Nat /\ b \in Nat /\ c \in Nat /\ c <= a + 1 /\ a < AppCap + b
      BY <2>4, <2>6, <2>7 DEF a, b, c
    <3>2. c < AppCap + (b + 1)
      BY <3>1, ConstantsAssumption
    <3> QED
      BY <3>2, <2>5 DEF b, c
  <2> QED
    BY <1>1, <2>1, <2>8
<1> QED
  BY <1>2, <1>3 DEF OvershootInv, SoftCapOvershoot

LEMMA OvershootStep == TypeInv /\ OvershootInv /\ [Next]_vars => OvershootInv'
<1> SUFFICES ASSUME TypeInv, OvershootInv, [Next]_vars PROVE OvershootInv'
  OBVIOUS
<1> DEFINE Frame ==
      /\ appSet' \subseteq appSet /\ raced' = raced
      /\ \A s \in Sessions : pc'[s] \in BeforeJoin => pc[s] \in BeforeJoin
      /\ \A s \in Sessions : pc'[s] \in {"appRate", "appCap"} =>
                               pc[s] \in {"appRate", "appCap"}
      /\ AppInFlight' \subseteq AppInFlight
<1>1. ASSUME Frame PROVE OvershootInv'
  BY <1>1, OvershootFrame
<1> USE DEF Go, BeforeJoin, GateStages, RegisterStages, RunStages, AppInFlight,
            TypeInv, TypeOK, redisVars, historyVars
<1>2. ASSUME NEW s \in Sessions, GateStep(s) PROVE OvershootInv'
  <2>1. CASE CheckAppCap(s)
    BY <2>1, OvershootCheck
  <2>2. CASE RejectBlocked(s) \/ LeaveQueue(s)
    BY <1>1, <2>2 DEF RejectBlocked, LeaveQueue
  <2>3. CASE CheckAppRate(s)
    BY <1>1, <2>3 DEF CheckAppRate, Hit
  <2>4. CASE CheckUserRate(s)
    <3>1. PICK to \in {"rejected", "hset", "epGate"} : Go(s, "userRate", to)
      BY <2>4 DEF CheckUserRate, Hit
    <3>2. raced' = raced /\ appSet' = appSet
      BY <2>4 DEF CheckUserRate, Hit
    <3> QED
      BY <1>1, <3>1, <3>2
  <2>5. CASE AcquireSlot(s) \/ PollSlot(s)
    BY <1>1, <2>5 DEF AcquireSlot, PollSlot, LuaGate
  <2> QED
    BY <1>2, <2>1, <2>2, <2>3, <2>4, <2>5 DEF GateStep
<1>3. ASSUME NEW s \in Sessions, RegisterStep(s) PROVE OvershootInv'
  <2>1. CASE RegisterApp(s)
    BY <2>1, OvershootJoin
  <2>2. CASE RegisterHash(s) \/ RegisterTTL(s) \/ RegisterEp(s)
    BY <1>1, <2>2 DEF RegisterHash, RegisterTTL, RegisterEp
  <2> QED
    BY <1>3, <2>1, <2>2 DEF RegisterStep
<1>4. ASSUME NEW s \in Sessions, EndStep(s) PROVE OvershootInv'
  BY <1>1, <1>4 DEF EndStep, Terminate, EndHash, EndEp, EndApp
<1>5. ASSUME NEW s \in Sessions, StartStreaming(s) \/ FinishRun(s) PROVE OvershootInv'
  BY <1>1, <1>5 DEF StartStreaming, FinishRun
<1>6. ASSUME NEW s \in Sessions, AdminDisconnect(s) \/ Expire(s) PROVE OvershootInv'
  BY <1>1, <1>6 DEF AdminDisconnect, Expire
<1>7. ASSUME NEW s \in Sessions, RedisFault(s) PROVE OvershootInv'
  <2>1. CASE pc[s] = "appCap"
    BY <1>7, <2>1, OvershootCheck
  <2>2. CASE pc[s] # "appCap"
    BY <1>1, <1>7, <2>2
    DEF RedisFault, PassAfterFault, AdmitAfterFault, AbandonAfterFault, EndStages
  <2> QED
    BY <2>1, <2>2
<1>8. ASSUME NEW p \in Pods, Crash(p) PROVE OvershootInv'
  BY <1>1, <1>8 DEF Crash
<1>9. CASE NextHour \/ UNCHANGED vars
  BY <1>1, <1>9 DEF NextHour, vars
<1> QED
  BY <1>2, <1>3, <1>4, <1>5, <1>6, <1>7, <1>8, <1>9 DEF Next, HandlerStep

\* The soft cap overshoots by at most the number of sessions that joined
\* between a session's count and its own join.
THEOREM OvershootBounded == Spec => []SoftCapOvershoot
<1>1. Spec => [](TypeInv /\ OvershootInv)
  BY TypeInit, TypeStep, OvershootInit, OvershootStep, PTL DEF Spec
<1> QED
  BY <1>1, PTL DEF OvershootInv
=============================================================================
