--------------------------- MODULE TaskStoreProofs ---------------------------
(***************************************************************************)
(* Proofs about TaskStore, for any number of requests: the row's type,     *)
(* that nobody who comes after a task became terminal undoes it, and that  *)
(* a handler that finalises its task leaves it terminal.                   *)
(***************************************************************************)
EXTENDS TaskStore, TLAPS

\* A move out of a state is never a stutter, and terminal states, unknown ones
\* and a row that is not loaded allow none.
LEMMA AllowedStates ==
  ASSUME NEW from, NEW new \in Allowed(from)
  PROVE  /\ from \in {"submitted", "working", "input-required"}
         /\ new \in States
         /\ from = "working" => new \in {"input-required"} \cup Terminal
BY DEF Allowed, States, Terminal

\* An open view of a terminal row belongs to a racer.
RacersHoldStaleViews ==
  state \in Terminal =>
    \A s \in Sessions : view[s] \in Terminal \cup {"none"} \/ s \in racers

\* Before Create there is no row, and nobody has loaded it.
CreatedFirst ==
  /\ at[Owner] = "start" <=> state = "absent"
  /\ state = "absent" => \A s \in Sessions : view[s] = "none"

\* What the owner knows, as long as no commit failed and no agent parked the
\* task: it left "submitted" for good, and what it saw terminal still is.
OwnerKnows ==
  faults = 0 /\ ~parked =>
    /\ at[Owner] = "created" => view[Owner] = "submitted"
    /\ at[Owner] = "begun" => view[Owner] = "working"
    /\ at[Owner] \in {"begun", "serving", "deciding", "done"} =>
         state \in {"working"} \cup Terminal
    /\ at[Owner] = "serving" => view[Owner] \in {"working", "none"} \cup Terminal
    /\ at[Owner] = "deciding" => view[Owner] \in {"working"} \cup Terminal
    /\ at[Owner] \in {"serving", "deciding"} /\ view[Owner] \in Terminal =>
         state \in Terminal

IInv == TypeOK /\ RacersHoldStaleViews /\ CreatedFirst /\ OwnerKnows /\ OwnerSettles

LEMMA OwnerIsSession == Owner \in Sessions /\ Reaper \in Sessions
BY DEF Sessions

LEMMA Initially == Init => IInv
<1> SUFFICES ASSUME Init PROVE IInv
  OBVIOUS
<1> USE DEF Init
<1>1. TypeOK
  <2>1. 0 \in 0 .. MaxFaults
    BY SessionsAssumption
  <2>2. at \in [Sessions -> Places] /\ view \in [Sessions -> States \cup {"none"}]
    BY DEF Places
  <2> QED
    BY <2>1, <2>2 DEF TypeOK
<1>2. at[Owner] = "start" /\ state = "absent"
  BY OwnerIsSession
<1>3. RacersHoldStaleViews /\ CreatedFirst /\ OwnerKnows /\ OwnerSettles
  BY <1>2 DEF RacersHoldStaleViews, CreatedFirst, OwnerKnows, OwnerSettles, Terminal
<1> QED
  BY <1>1, <1>3 DEF IInv

(***************************************************************************)
(* transition()                                                            *)
(***************************************************************************)
\* What every call of transition() keeps, whoever makes it.
LEMMA TransitionKeeps ==
  ASSUME TypeOK, RacersHoldStaleViews,
         NEW s \in Sessions, NEW new, NEW next \in Places, NEW seen \in {"none", "working"},
         seen = "none" \/ new = "working",
         Transition(s, new, next, seen)
  PROVE  /\ state' \in States \cup {"absent"} /\ racers' \subseteq Sessions
         /\ view' \in [Sessions -> States \cup {"none"}]
         /\ at' \in [Sessions -> Places] /\ faults' \in 0 .. MaxFaults
         /\ RacersHoldStaleViews'
<1> USE DEF TypeOK, RacersHoldStaleViews, Go, See, SetState, Loaded
<1>1. CASE new \in Allowed(view[s]) /\ SetState(new) /\ See(s, seen)
             /\ UNCHANGED faults /\ Go(s, next)
  <2>1. new \in States
    BY <1>1, AllowedStates
  <2>2. seen \in States \cup {"none"}
    BY DEF States
  <2>3. racers' \subseteq Sessions
    BY <1>1
  <2>4. CASE state \in Terminal
    BY <1>1, <2>1, <2>2, <2>3, <2>4 DEF Terminal
  <2>5. CASE state \notin Terminal
    BY <1>1, <2>1, <2>2, <2>3, <2>5 DEF Terminal
  <2> QED
    BY <2>4, <2>5
<1>2. CASE /\ faults < MaxFaults /\ faults' = faults + 1
           /\ See(s, "none") /\ UNCHANGED <<state, racers>>
           /\ Go(s, next)
  BY <1>2, SessionsAssumption
<1>3. CASE /\ See(s, IF seen = "none" THEN "none" ELSE view[s])
           /\ UNCHANGED <<state, racers, faults>>
           /\ Go(s, next)
  BY <1>3
<1> QED
  BY <1>1, <1>2, <1>3 DEF Transition

(***************************************************************************)
(* The types, and the sessions that may undo a terminal state              *)
(***************************************************************************)
LEMMA CommonStep ==
  ASSUME IInv, Next
  PROVE  TypeOK' /\ RacersHoldStaleViews'
<1> USE OwnerIsSession DEF IInv
<1>1. CASE Create
  BY <1>1, CreatedFirst
     DEF Create, SetState, See, Go, TypeOK, RacersHoldStaleViews, CreatedFirst, Terminal,
         States, Places
<1>2. CASE Begin
  <2>1. PICK next \in Places, seen \in {"none", "working"} :
          Transition(Owner, "working", next, seen)
    BY <1>2 DEF Begin, Places
  <2> QED
    BY <1>2, <2>1, TransitionKeeps DEF Begin, TypeOK
<1>3. CASE Refresh \/ Read
  <2>1. state \in States
    BY <1>3 DEF Refresh, Read, TypeOK, CreatedFirst
  <2> QED
    BY <1>3, <2>1
       DEF Refresh, Read, See, Go, TypeOK, RacersHoldStaleViews, Places
<1>11. CASE Rollback
  <2>1. faults' \in 0 .. MaxFaults
    BY <1>11, SessionsAssumption DEF Rollback, TypeOK
  <2> QED
    BY <1>11, <2>1 DEF Rollback, See, TypeOK, RacersHoldStaleViews
<1>12. CASE Crash
  BY <1>12 DEF Crash, See, Go, TypeOK, RacersHoldStaleViews, Places
<1>4. ASSUME NEW outcome \in {"completed", "failed"}, Finish(outcome)
      PROVE  TypeOK' /\ RacersHoldStaleViews'
  <2>1. "done" \in Places
    BY DEF Places
  <2> QED
    BY <1>4, <2>1, TransitionKeeps DEF Finish, TypeOK
<1>5. ASSUME NEW s \in Requests, Open(s)
      PROVE  TypeOK' /\ RacersHoldStaleViews'
  <2>1. state \in States /\ s \in Sessions
    BY <1>5 DEF Open, TypeOK, CreatedFirst, Sessions
  <2> QED
    BY <1>5, <2>1 DEF Open, See, Go, TypeOK, RacersHoldStaleViews, Places
<1>6. ASSUME NEW s \in Cancels, Cancel(s)
      PROVE  TypeOK' /\ RacersHoldStaleViews'
  <2>1. s \in Sessions /\ "done" \in Places
    BY DEF Places, Sessions, Requests
  <2> QED
    BY <1>6, <2>1, TransitionKeeps DEF Cancel, TypeOK
<1>7. ASSUME NEW s \in Pushes, NEW new \in Reported, Push(s, new)
      PROVE  TypeOK' /\ RacersHoldStaleViews'
  <2>1. s \in Sessions /\ "done" \in Places
    BY DEF Places, Sessions, Requests
  <2>2. parked' \in BOOLEAN
    BY <1>7 DEF Push, TypeOK
  <2> QED
    BY <1>7, <2>1, <2>2, TransitionKeeps DEF Push, TypeOK
<1>8. CASE DeadlinePasses
  BY <1>8 DEF DeadlinePasses, TypeOK, RacersHoldStaleViews
<1>9. CASE Sweep
  BY <1>9 DEF Sweep, See, Go, TypeOK, RacersHoldStaleViews, Terminal, States, Places
<1>10. CASE Expire
  <2>1. "start" \in Places
    BY DEF Places
  <2> QED
    BY <1>10, <2>1, TransitionKeeps DEF Expire, TypeOK
<1> QED
  BY <1>1, <1>2, <1>3, <1>4, <1>5, <1>6, <1>7, <1>8, <1>9, <1>10, <1>11, <1>12
     DEF Next, OwnerStep, RequestStep

(***************************************************************************)
(* The owner                                                               *)
(***************************************************************************)
\* What others do to a task at work: they end it, park it or leave it, and do
\* not touch what the owner believes.
LEMMA OthersKeep ==
  ASSUME IInv, NEW s \in Sessions, s # Owner, NEW new, NEW next \in Places,
         Transition(s, new, next, "none"), UNCHANGED <<kind, overdue>>,
         (new \in Terminal /\ parked' = parked)
           \/ parked' = (parked \/ (state' # state /\ state' \notin Terminal))
  PROVE  CreatedFirst' /\ OwnerKnows' /\ OwnerSettles'
<1> USE OwnerIsSession DEF IInv
<1>1. at'[Owner] = at[Owner] /\ view'[Owner] = view[Owner]
  BY DEF Transition, Go, See, TypeOK
<1>2. faults' = 0 => faults = 0 /\ (state' = state \/ (state' = new /\ new \in Allowed(view[s])))
  BY SessionsAssumption DEF Transition, SetState, TypeOK
<1>3. state' = state \/ (state' = new /\ new \in States /\ state # "absent")
  <2>1. CASE new \in Allowed(view[s])
    <3>1. view[s] # "none" /\ new \in States
      BY <2>1, AllowedStates
    <3>2. state # "absent"
      BY <3>1 DEF CreatedFirst
    <3> QED
      BY <2>1, <3>1, <3>2 DEF Transition, SetState
  <2>2. CASE new \notin Allowed(view[s])
    BY <2>2 DEF Transition
  <2> QED
    BY <2>1, <2>2
<1>4. CreatedFirst'
  <2>1. state' = "absent" => state = "absent"
    BY <1>3 DEF States, Terminal
  <2>2. view' = [view EXCEPT ![s] = "none"]
    BY DEF Transition, See
  <2>3. at'[Owner] = "start" <=> state' = "absent"
    BY <1>1, <1>3, <2>1 DEF CreatedFirst
  <2> QED
    BY <2>1, <2>2, <2>3 DEF CreatedFirst, TypeOK
<1> QED
  BY <1>1, <1>2, <1>3, <1>4 DEF OwnerKnows, OwnerSettles, States, Terminal

LEMMA OwnerStepKeeps ==
  ASSUME IInv, OwnerStep
  PROVE  CreatedFirst' /\ OwnerKnows' /\ OwnerSettles'
<1> USE OwnerIsSession DEF IInv
<1>1. CASE Create
  BY <1>1 DEF Create, SetState, See, Go, TypeOK, CreatedFirst, OwnerKnows, OwnerSettles, Terminal
<1>2. CASE Begin
  <2>1. at'[Owner] = "begun" /\ parked' = parked /\ state # "absent" /\ state' # "absent"
    BY <1>2 DEF Begin, Transition, SetState, Go, TypeOK, CreatedFirst
  <2>2. ASSUME faults' = 0, ~parked'
        PROVE  view'[Owner] = "working" /\ state' = "working"
    <3>1. faults = 0 /\ view[Owner] = "submitted" /\ faults' = faults
      BY <1>2, <2>1, <2>2, SessionsAssumption DEF Begin, Transition, TypeOK, OwnerKnows
    <3>2. "working" \in Allowed(view[Owner])
      BY <3>1 DEF Allowed
    <3> QED
      BY <1>2, <3>1, <3>2, SessionsAssumption DEF Begin, Transition, SetState, See, TypeOK
  <2> QED
    BY <2>1, <2>2 DEF CreatedFirst, OwnerKnows, OwnerSettles
<1>3. CASE Refresh
  BY <1>3 DEF Refresh, See, Go, TypeOK, CreatedFirst, OwnerKnows, OwnerSettles, Terminal
<1>4. CASE Rollback
  <2>1. faults' # 0
    BY <1>4, SessionsAssumption DEF Rollback, TypeOK
  <2> QED
    BY <1>4, <2>1 DEF Rollback, See, TypeOK, CreatedFirst, OwnerKnows, OwnerSettles
<1>5. CASE Read
  BY <1>5 DEF Read, See, Go, TypeOK, CreatedFirst, OwnerKnows, OwnerSettles, Terminal
<1>6. ASSUME NEW outcome \in {"completed", "failed"}, Finish(outcome)
      PROVE  CreatedFirst' /\ OwnerKnows' /\ OwnerSettles'
  <2>1. at'[Owner] = "done" /\ parked' = parked /\ state # "absent" /\ state' # "absent"
    BY <1>6 DEF Finish, Transition, SetState, Go, TypeOK, CreatedFirst
  <2>2. ASSUME faults' = 0, ~parked'
        PROVE  state' \in Terminal
    <3>1. faults = 0 /\ faults' = faults
      BY <1>6, <2>2, SessionsAssumption DEF Finish, Transition, TypeOK
    <3>2. CASE view[Owner] = "working"
      <4>1. outcome \in Allowed(view[Owner])
        BY <3>2 DEF Allowed
      <4> QED
        BY <1>6, <3>1, <4>1, SessionsAssumption
           DEF Finish, Transition, SetState, TypeOK, Terminal
    <3>3. CASE view[Owner] \in Terminal
      <4>1. outcome \notin Allowed(view[Owner])
        BY <3>3 DEF Allowed, Terminal
      <4>2. state \in Terminal
        BY <1>6, <2>1, <2>2, <3>1, <3>3 DEF Finish, OwnerKnows
      <4> QED
        BY <1>6, <4>1, <4>2 DEF Finish, Transition
    <3> QED
      BY <1>6, <2>1, <2>2, <3>1, <3>2, <3>3 DEF Finish, OwnerKnows
  <2> QED
    BY <2>1, <2>2 DEF CreatedFirst, OwnerKnows, OwnerSettles
<1>7. CASE Crash
  BY <1>7 DEF Crash, See, Go, TypeOK, CreatedFirst, OwnerKnows, OwnerSettles
<1> QED
  BY <1>1, <1>2, <1>3, <1>4, <1>5, <1>6, <1>7 DEF OwnerStep

LEMMA OtherStepKeeps ==
  ASSUME IInv, RequestStep \/ DeadlinePasses \/ Sweep \/ Expire
  PROVE  CreatedFirst' /\ OwnerKnows' /\ OwnerSettles'
<1> USE OwnerIsSession, SessionsAssumption DEF IInv
<1>1. ASSUME NEW s \in Requests, Open(s)
      PROVE  CreatedFirst' /\ OwnerKnows' /\ OwnerSettles'
  <2>1. s \in Sessions /\ s # Owner
    BY DEF Sessions
  <2>2. at'[Owner] = at[Owner] /\ view'[Owner] = view[Owner] /\ state # "absent"
    BY <1>1, <2>1 DEF Open, See, Go, TypeOK, CreatedFirst
  <2> QED
    BY <1>1, <2>2 DEF Open, CreatedFirst, OwnerKnows, OwnerSettles
<1>2. ASSUME NEW s \in Cancels, Cancel(s)
      PROVE  CreatedFirst' /\ OwnerKnows' /\ OwnerSettles'
  <2>1. s \in Sessions /\ s # Owner /\ "done" \in Places /\ "canceled" \in Terminal
    BY DEF Sessions, Requests, Places, Terminal
  <2> QED
    BY <1>2, <2>1, OthersKeep DEF Cancel
<1>3. ASSUME NEW s \in Pushes, NEW new \in Reported, Push(s, new)
      PROVE  CreatedFirst' /\ OwnerKnows' /\ OwnerSettles'
  <2>1. s \in Sessions /\ s # Owner /\ "done" \in Places
    BY DEF Sessions, Requests, Places
  <2> QED
    BY <1>3, <2>1, OthersKeep DEF Push
<1>4. CASE DeadlinePasses
  BY <1>4 DEF DeadlinePasses, CreatedFirst, OwnerKnows, OwnerSettles
<1>5. CASE Sweep
  <2>1. at'[Owner] = at[Owner] /\ view'[Owner] = view[Owner] /\ state # "absent"
    BY <1>5 DEF Sweep, See, Go, TypeOK
  <2> QED
    BY <1>5, <2>1 DEF Sweep, CreatedFirst, OwnerKnows, OwnerSettles
<1>6. CASE Expire
  <2>1. "start" \in Places /\ "failed" \in Terminal
    BY DEF Places, Terminal
  <2> QED
    BY <1>6, <2>1, OthersKeep DEF Expire
<1> QED
  BY <1>1, <1>2, <1>3, <1>4, <1>5, <1>6 DEF RequestStep

LEMMA Inductive == IInv /\ [Next]_vars => IInv'
<1>1. ASSUME IInv, Next PROVE IInv'
  <2>1. TypeOK' /\ RacersHoldStaleViews'
    BY <1>1, CommonStep
  <2>2. CreatedFirst' /\ OwnerKnows' /\ OwnerSettles'
    BY <1>1, OwnerStepKeeps, OtherStepKeeps DEF Next
  <2> QED
    BY <2>1, <2>2 DEF IInv
<1>2. ASSUME IInv, UNCHANGED vars PROVE IInv'
  BY <1>2 DEF IInv, TypeOK, RacersHoldStaleViews, CreatedFirst, OwnerKnows, OwnerSettles, vars
<1> QED
  BY <1>1, <1>2

(***************************************************************************)
(* The theorems                                                            *)
(***************************************************************************)
LEMMA Invariance == Spec => []IInv
BY Initially, Inductive, PTL DEF Spec

\* The row's type, whatever states remote agents report.
THEOREM TypeCorrect == Spec => []TypeOK
<1>1. IInv => TypeOK
  BY DEF IInv
<1> QED
  BY <1>1, Invariance, PTL

\* A handler that finalises its task leaves it terminal, however many requests
\* race it.
THEOREM Settled == Spec => []OwnerSettles
<1>1. IInv => OwnerSettles
  BY DEF IInv
<1> QED
  BY <1>1, Invariance, PTL

\* transition() moves the session that calls it on, and only a session that
\* sees an open task changes the row.
LEMMA WriterMoves ==
  ASSUME IInv, Next, state' # state, state \in Terminal
  PROVE  \E s \in racers : at'[s] # at[s]
<1> USE OwnerIsSession DEF IInv
<1>1. PICK s \in Sessions, new \in States \cup Reported, next \in Places, seen \in {"none", "working"} :
        Transition(s, new, next, seen) /\ next # at[s]
  <2>1. ~ Create
    BY DEF Create, CreatedFirst, Terminal
  <2>2. CASE Begin
    BY <2>2 DEF Begin, States, Places
  <2>3. CASE \E outcome \in {"completed", "failed"} : Finish(outcome)
    BY <2>3 DEF Finish, States, Terminal, Places
  <2>4. CASE \E c \in Cancels : Cancel(c)
    BY <2>4 DEF Cancel, States, Terminal, Places, Sessions, Requests
  <2>5. CASE \E p \in Pushes, new \in Reported : Push(p, new)
    BY <2>5 DEF Push, Places, Sessions, Requests
  <2>6. CASE Expire
    BY <2>6 DEF Expire, States, Terminal, Places
  <2> QED
    BY <2>1, <2>2, <2>3, <2>4, <2>5, <2>6
       DEF Next, OwnerStep, RequestStep, Refresh, Rollback, Read, Crash, Open,
           DeadlinePasses, Sweep
<1>2. new \in Allowed(view[s]) /\ at'[s] = next
  BY <1>1 DEF Transition, Go, TypeOK
<1>3. view[s] \notin Terminal \cup {"none"}
  BY <1>2, AllowedStates DEF Terminal
<1>4. s \in racers
  BY <1>3 DEF RacersHoldStaleViews
<1> QED
  BY <1>1, <1>2, <1>4

\* Only a session that had the row loaded when it became terminal undoes it.
THEOREM TerminalUpToRaces == Spec => LatecomersNeverUndo
<1>1. IInv /\ [Next]_vars =>
        [state' # state /\ state \in Terminal => \E s \in racers : at'[s] # at[s]]_vars
  BY WriterMoves DEF vars
<1> QED
  BY <1>1, Invariance, PTL DEF Spec, LatecomersNeverUndo
=============================================================================
