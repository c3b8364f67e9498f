--------------------------- MODULE A2aRunnerProofs ---------------------------
(***************************************************************************)
(* Proofs about A2aRunner, for any messages, tool calls, iterations,       *)
(* window, ceiling, faults and loads: its types, that what a caller is     *)
(* told is settled in the rows behind it, that only a writer with an old   *)
(* row contradicts it, and that finished messages hand their turns over    *)
(* whole.                                                                  *)
(***************************************************************************)
EXTENDS A2aRunner, WellFoundedInduction, TLAPS

Entries == [of : Msgs, turn : Nat, kind : {"user", "calls", "results", "answer"}]

TypeInv ==
  /\ TypeOK
  /\ log \in [Msgs -> Seq(Entries)]
  /\ patchy \subseteq Msgs

Ending == {"closing", "deciding", "done"}
InLoop == {"ready", "turn", "fanout", "answered", "recorded"}

\* The caller's row: absent until it is made, not over before it is given out,
\* and completed by nobody but the handler that heard no error.
OuterAt(m) ==
  /\ at[m] \in {"idle", "checked"} => outer[m] = "absent"
  /\ at[m] = "created" => outer[m] = "submitted"
  /\ outer[m] = "completed" => at[m] = "done" /\ erred[m] # "told"

\* Who can have the row loaded: before it is given out only the reaper, for
\* whom a submitted task cannot fail.
SeenAt(m) ==
  at[m] \in {"idle", "checked", "created"} =>
    seen[m]["cancel"] = "absent" /\ seen[m]["reaper"] \in {"absent", "submitted"}

\* Until the handler closes, it has heard no error; an error without a text is
\* an exception of the database.
ErredAt(m) ==
  /\ erred[m] # "no" => at[m] \in Ending \cup {"dead"}
  /\ erred[m] = "mute" => m \in patchy

\* The rows run() writes, as long as none of its writes failed.
RunAt(m) ==
  m \notin patchy =>
    /\ at[m] \in {"started", "rooted", "ready", "turn", "fanout", "answered"} =>
         run[m] = "running"
    /\ at[m] = "recorded" \/ (at[m] \in Ending /\ erred[m] = "no") => run[m] = "completed"

InnerAt(m) ==
  m \notin patchy =>
    /\ at[m] = "rooted" => inner[m] = "submitted"
    /\ at[m] \in InLoop => inner[m] = "working"
    /\ at[m] \in Ending /\ erred[m] = "no" => inner[m] = "completed"

\* The transcript has something, and outside the fan-out its last turn is whole.
AnswerAt(m) ==
  m \notin patchy /\ (\/ at[m] \in InLoop \ {"fanout"}
                      \/ at[m] \in Ending /\ erred[m] = "no") =>
    log[m] # <<>> /\ Last(log[m]).kind # "calls"

\* Outside the fan-out a child is at work only if the handler is past a gather
\* that raised; without a failed write there is no child at all.
ChildrenAt(m) ==
  /\ at[m] \notin Ending \cup {"fanout", "dead"} =>
       \A c \in Calls : child[m][c] \in {"none", "stuck"}
  /\ at[m] \in Ending /\ (\E c \in Calls : child[m][c] \in {"queued", "open"}) =>
       \E c \in Calls : child[m][c] \in Raised
  /\ m \notin patchy =>
       /\ \A c \in Calls : child[m][c] \notin Raised \cup {"stuck"}
       /\ at[m] \in Ending => \A c \in Calls : child[m][c] = "none"

PlaceAt(m) ==
  /\ OuterAt(m) /\ SeenAt(m) /\ ErredAt(m) /\ RunAt(m)
  /\ InnerAt(m) /\ AnswerAt(m) /\ ChildrenAt(m)

PlaceInv == \A m \in Msgs : PlaceAt(m)

IInv == TypeInv /\ PlaceInv

(***************************************************************************)
(* Lemmas                                                                  *)
(***************************************************************************)
\* A transition leads to a state of the table.
LEMMA AllowedIn ==
  ASSUME NEW from \in TaskStates
  PROVE  /\ Allowed(from) \subseteq TaskStates
         /\ from \notin Active => Allowed(from) = {}
         /\ from \in Terminal => from \notin Active
         /\ from = "submitted" => "failed" \notin Allowed(from)
         /\ from = "absent" => from \notin Active
         /\ from = "working" => "completed" \in Allowed(from)
BY DEF Allowed, TaskStates, Terminal, Active

LEMMA MovedStays ==
  ASSUME NEW from \in TaskStates, NEW to \in TaskStates
  PROVE  Moved(from, to) \in TaskStates
BY DEF Moved

\* An entry put at the end of a transcript is its last.
LEMMA LastAppended ==
  ASSUME NEW s \in Seq(Entries), NEW e \in Entries
  PROVE  /\ Append(s, e) \in Seq(Entries)
         /\ Append(s, e) # <<>> /\ Last(Append(s, e)) = e
BY DEF Last

LEMMA InitInv == Init => IInv
<1> SUFFICES ASSUME Init PROVE IInv
  OBVIOUS
<1>1. TypeInv
  BY ConstantsAssumption DEF Init, TypeInv, TypeOK, Places, TaskStates, ChildStates
<1>2. ASSUME NEW m \in Msgs PROVE PlaceAt(m)
  <2>1. /\ at[m] = "idle" /\ outer[m] = "absent" /\ erred[m] = "no"
        /\ seen[m] = [w \in Writers |-> "absent"] /\ child[m] = [c \in Calls |-> "none"]
    BY DEF Init
  <2>2. seen[m]["cancel"] = "absent" /\ seen[m]["reaper"] = "absent"
    BY <2>1 DEF Writers
  <2>3. \A c \in Calls : child[m][c] = "none"
    BY <2>1
  <2>4. QED
    BY <2>1, <2>2, <2>3
       DEF PlaceAt, OuterAt, SeenAt, ErredAt, RunAt, InnerAt, AnswerAt, ChildrenAt,
           Ending, InLoop, Raised
<1>3. QED  BY <1>1, <1>2 DEF IInv, PlaceInv

\* Whom a failed write concerns.
LEMMA FaultAdds ==
  ASSUME TypeInv, NEW bad \in BOOLEAN, Fault(bad)
  PROVE  faults' \in 0 .. MaxFaults
BY ConstantsAssumption DEF TypeInv, TypeOK, Fault

LEMMA FaultyAdds ==
  ASSUME TypeInv, NEW m \in Msgs, NEW bad \in BOOLEAN, Faulty(m, bad)
  PROVE  /\ faults' \in 0 .. MaxFaults
         /\ patchy' \subseteq Msgs
         /\ patchy' = IF bad THEN patchy \cup {m} ELSE patchy
BY FaultAdds DEF TypeInv, Faulty

\* The generator is over, with or without a database error.
Left(m, from, error) ==
  /\ Leave(m, from, error)
  /\ UNCHANGED <<rows, order>>
  /\ faults' \in 0 .. MaxFaults
  /\ \/ error = "told" /\ patchy' = patchy
     \/ patchy' = patchy \cup {m}

Gone(m) ==
  \/ RefuseRun(m) \/ Raise(m) \/ ProviderFails(m)
  \/ PlanFails(m) \/ Exhausted(m) \/ JoinRaised(m)

LEMMA Leavings ==
  ASSUME TypeInv, NEW m \in Msgs, Gone(m)
  PROVE  \E from \in {"loading", "started", "rooted", "recorded", "ready", "turn", "fanout"},
            error \in {"told", "mute"} :
           /\ Left(m, from, error)
           /\ from = "fanout" => patchy' = patchy /\ \E c \in Calls : child[m][c] \in Raised
<1>1. ASSUME NEW from, Escape(m, from), UNCHANGED <<rows, order>>
      PROVE  \E error \in {"told", "mute"} : Left(m, from, error)
  BY <1>1, FaultyAdds DEF Escape, Left
<1>2. ASSUME NEW from, Abandon(m, from), UNCHANGED <<rows, order, faults, patchy>>
      PROVE  Left(m, from, "told")
  BY <1>2 DEF Abandon, Left, TypeInv, TypeOK
<1>3. CASE RefuseRun(m)
  BY <1>1, <1>2, <1>3 DEF RefuseRun
<1>4. CASE Raise(m)
  BY <1>1, <1>4 DEF Raise
<1>5. CASE ProviderFails(m) \/ PlanFails(m) \/ Exhausted(m)
  BY <1>2, <1>5 DEF ProviderFails, PlanFails, Exhausted
<1>6. CASE JoinRaised(m)
  BY <1>2, <1>6 DEF JoinRaised
<1>7. QED  BY <1>3, <1>4, <1>5, <1>6 DEF Gone

\* What it does to the variables it touches.
LEMMA LeftTypes ==
  ASSUME TypeInv, NEW m \in Msgs, NEW from, NEW error \in {"told", "mute"}, Left(m, from, error)
  PROVE  /\ at[m] = from /\ at' = [at EXCEPT ![m] = "closing"]
         /\ at' \in [Msgs -> Places]
         /\ iteration' \in [Msgs -> 0 .. MaxIterations]
         /\ iteration' = [iteration EXCEPT ![m] = 0]
         /\ erred' = [erred EXCEPT ![m] = error]
         /\ patchy' \subseteq Msgs
         /\ error = "mute" => m \in patchy'
         /\ \A n \in Msgs : n \in patchy => n \in patchy'
         /\ \A n \in Msgs : n # m => (n \in patchy' <=> n \in patchy)
         /\ log' = log /\ views' = views /\ rows' = rows
<1>1. 0 \in 0 .. MaxIterations
  BY ConstantsAssumption
<1>2. iteration' = [iteration EXCEPT ![m] = 0] /\ iteration' \in [Msgs -> 0 .. MaxIterations]
  BY <1>1 DEF Left, Leave, Forget, TypeInv, TypeOK
<1>3. /\ at[m] = from /\ at' = [at EXCEPT ![m] = "closing"]
      /\ at' \in [Msgs -> Places]
  BY DEF Left, Leave, Move, TypeInv, TypeOK, Places
<1>4. /\ erred' = [erred EXCEPT ![m] = error]
      /\ log' = log /\ views' = views /\ rows' = rows
  BY DEF Left, Leave
<1>5. /\ patchy' \subseteq Msgs
      /\ error = "mute" => m \in patchy'
      /\ \A n \in Msgs : n \in patchy => n \in patchy'
      /\ \A n \in Msgs : n # m => (n \in patchy' <=> n \in patchy)
  BY DEF Left, TypeInv
<1>6. QED  BY <1>2, <1>3, <1>4, <1>5

\* A commit on the caller's task.
LEMMA Writes ==
  ASSUME TypeInv, NEW m \in Msgs, NEW w \in Writers, NEW to \in TaskStates,
         NEW bad \in BOOLEAN, Write(m, w, to, bad)
  PROVE  /\ outer' \in [Msgs -> TaskStates]
         /\ seen' \in [Msgs -> [Writers -> TaskStates]]
         /\ outer'[m] \in {outer[m], to}
         /\ to \notin Allowed(seen[m][w]) => outer'[m] = outer[m]
         /\ seen'[m][w] = "absent"
         /\ \A v \in Writers : v # w => seen'[m][v] = seen[m][v]
         /\ \A n \in Msgs : n # m => outer'[n] = outer[n] /\ seen'[n] = seen[n]
BY DEF Write, TypeInv, TypeOK, TaskStates

LEMMA Loads ==
  ASSUME TypeInv, NEW m \in Msgs, NEW w \in Writers, Load(m, w)
  PROVE  /\ seen' \in [Msgs -> [Writers -> TaskStates]]
         /\ seen'[m][w] = outer[m]
         /\ \A v \in Writers : v # w => seen'[m][v] = seen[m][v]
         /\ \A n \in Msgs : n # m => seen'[n] = seen[n]
BY DEF Load, TypeInv, TypeOK

(***************************************************************************)
(* Types                                                                   *)
(***************************************************************************)
LEMMA HandlerTypes == ASSUME TypeInv, NEW m \in Msgs, HandlerStep(m) PROVE TypeInv'
<1> USE DEF TypeInv, TypeOK
<1>1. CASE Create(m)
  BY <1>1 DEF Create, Move, rows, loop, views, Places, TaskStates, Active
<1>2. CASE Gone(m)
  <2>1. PICK from \in {"loading", "started", "rooted", "recorded", "ready", "turn", "fanout"},
            error \in {"told", "mute"} : Left(m, from, error)
    BY <1>2, Leavings
  <2>2. faults' \in 0 .. MaxFaults
    BY <2>1 DEF Left
  <2>3. erred' \in [Msgs -> {"no", "told", "mute"}]
    <3>1. erred' = [erred EXCEPT ![m] = error]
      BY <2>1, LeftTypes
    <3>2. QED  BY <3>1
  <2>4. QED  BY <2>1, <2>2, <2>3, LeftTypes DEF rows, views
<1>3. ASSUME NEW bad \in BOOLEAN, Begin(m, bad) PROVE TypeInv'
  BY <1>3, FaultyAdds DEF Begin, Move, loop, views, Places, TaskStates, Active
<1>4. ASSUME NEW bad \in BOOLEAN, StartRun(m, bad) PROVE TypeInv'
  BY <1>4, FaultyAdds DEF StartRun, Move, loop, views, Places
<1>5. CASE CreateRoot(m)
  BY <1>5 DEF CreateRoot, Move, loop, views, Places, TaskStates, Active
<1>6. ASSUME NEW bad \in BOOLEAN, BeginRoot(m, bad) PROVE TypeInv'
  <2>1. <<Entry(m, 0, "user")>> \in Seq(Entries)
    BY DEF Entry, Entries
  <2>2. /\ at' = [at EXCEPT ![m] = "ready"]
        /\ inner' \in {inner, [inner EXCEPT ![m] = "working"]}
        /\ log' \in {log, [log EXCEPT ![m] = <<Entry(m, 0, "user")>>]}
        /\ UNCHANGED <<outer, run, child, iteration, erred, views>>
        /\ faults' \in 0 .. MaxFaults /\ patchy' \subseteq Msgs
    BY <1>6, FaultyAdds DEF BeginRoot, Move
  <2>3. inner' \in [Msgs -> TaskStates]
    BY <2>2 DEF TaskStates, Active
  <2>4. log' \in [Msgs -> Seq(Entries)]
    <3>1. log \in [Msgs -> Seq(Entries)]
      OBVIOUS
    <3>2. QED  BY <2>1, <2>2, <3>1
  <2>5. QED  BY <2>2, <2>3, <2>4 DEF views, Places
<1>7. ASSUME NEW bad \in BOOLEAN, StartLoop(m, bad) PROVE TypeInv'
  BY <1>7, FaultyAdds DEF StartLoop, Move, rows, views, Places
<1>8. ASSUME NEW bad \in BOOLEAN, Join(m, bad) PROVE TypeInv'
  <2>1. iteration'[m] \in Nat
    BY <1>8, ConstantsAssumption DEF Join
  <2>2. log' \in [Msgs -> Seq(Entries)]
    BY <1>8, <2>1, LastAppended DEF Join, Store, Entry, Entries
  <2>3. child' \in [Msgs -> [Calls -> ChildStates]]
    BY <1>8 DEF Join, Free, ChildStates
  <2>4. QED  BY <1>8, <2>2, <2>3, FaultyAdds DEF Join, Move, views, Places
<1>9. ASSUME NEW bad \in BOOLEAN, Complete(m, bad) PROVE TypeInv'
  BY <1>9, FaultyAdds DEF Complete, Move, loop, views, Places
<1>10. ASSUME NEW bad \in BOOLEAN, Settle(m, bad) PROVE TypeInv'
  <2>1. 0 \in 0 .. MaxIterations
    BY ConstantsAssumption
  <2>2. iteration' \in [Msgs -> 0 .. MaxIterations]
    BY <1>10, <2>1 DEF Settle, Forget
  <2>3. Moved(inner[m], "completed") \in TaskStates
    <3>1. inner[m] \in TaskStates /\ "completed" \in TaskStates
      BY DEF TaskStates, Terminal
    <3>2. QED  BY <3>1, MovedStays, Zenon
  <2>4. inner' \in [Msgs -> TaskStates]
    BY <1>10, <2>3 DEF Settle
  <2>5. QED  BY <1>10, <2>2, <2>4, FaultyAdds DEF Settle, Move, views, Places
<1>11. ASSUME NEW bad \in BOOLEAN, Reload(m, bad) PROVE TypeInv'
  <2>1. seen' \in [Msgs -> [Writers -> TaskStates]]
    BY <1>11, Loads DEF Reload, Writers
  <2>2. QED  BY <1>11, <2>1, FaultyAdds DEF Reload, Move, rows, loop, Places
<1>12. ASSUME NEW bad \in BOOLEAN, Finalize(m, bad) PROVE TypeInv'
  <2>1. (IF erred[m] = "told" THEN "failed" ELSE "completed") \in TaskStates
    BY DEF TaskStates, Terminal
  <2>2. outer' \in [Msgs -> TaskStates] /\ seen' \in [Msgs -> [Writers -> TaskStates]]
    BY <1>12, <2>1, Writes DEF Finalize, Writers
  <2>3. QED  BY <1>12, <2>2, FaultyAdds DEF Finalize, Move, loop, Places
<1>13. ASSUME NEW bad \in BOOLEAN, NEW called \in SUBSET Calls, Plan(m, called, bad)
       PROVE  TypeInv'
  <2>1. iteration' \in [Msgs -> 0 .. MaxIterations]
    BY <1>13, ConstantsAssumption DEF Plan
  <2>2. iteration'[m] \in Nat
    BY <2>1, ConstantsAssumption
  <2>3. log' \in [Msgs -> Seq(Entries)]
    BY <1>13, <2>2, LastAppended DEF Plan, Store, Entry, Entries
  <2>4. child' \in [Msgs -> [Calls -> ChildStates]]
    BY <1>13 DEF Plan, ChildStates
  <2>5. at' \in [Msgs -> Places] /\ faults' \in 0 .. MaxFaults /\ patchy' \subseteq Msgs
    BY <1>13, FaultyAdds DEF Plan, Move, Places
  <2>6. UNCHANGED <<outer, inner, run, erred, seen, loads>>
    BY <1>13 DEF Plan, views
  <2>7. QED  BY <2>1, <2>3, <2>4, <2>5, <2>6
<1>14. ASSUME NEW bad \in BOOLEAN, NEW kept \in BOOLEAN, Conclude(m, kept, bad)
       PROVE  TypeInv'
  <2>1. iteration' \in [Msgs -> 0 .. MaxIterations]
    BY <1>14, ConstantsAssumption DEF Conclude
  <2>2. iteration'[m] \in Nat
    BY <2>1, ConstantsAssumption
  <2>3. log' \in [Msgs -> Seq(Entries)]
    BY <1>14, <2>2, LastAppended DEF Conclude, Store, Entry, Entries
  <2>4. QED  BY <1>14, <2>1, <2>3, FaultyAdds DEF Conclude, Move, rows, views, Places
<1>15. QED
  BY <1>1, <1>2, <1>3, <1>4, <1>5, <1>6, <1>7, <1>8, <1>9, <1>10, <1>11, <1>12, <1>13, <1>14
     DEF HandlerStep, Gone

LEMMA OtherTypes == ASSUME TypeInv, NEW m \in Msgs, OtherWriter(m) PROVE TypeInv'
<1> USE DEF TypeInv, TypeOK
<1>1. CASE OpenCancel(m)
  <2>1. seen' \in [Msgs -> [Writers -> TaskStates]]
    BY <1>1, Loads DEF OpenCancel, Writers
  <2>2. loads' \in 0 .. MaxLoads
    BY <1>1, ConstantsAssumption DEF OpenCancel
  <2>3. QED  BY <1>1, <2>1, <2>2 DEF OpenCancel, rows, loop
<1>2. CASE Sweep(m)
  <2>1. seen' \in [Msgs -> [Writers -> TaskStates]]
    BY <1>2, Loads DEF Sweep, Writers
  <2>2. loads' \in 0 .. MaxLoads
    BY <1>2, ConstantsAssumption DEF Sweep
  <2>3. QED  BY <1>2, <2>1, <2>2 DEF Sweep, rows, loop
<1>3. ASSUME NEW bad \in BOOLEAN, CancelTask(m, bad) PROVE TypeInv'
  <2>1. "canceled" \in TaskStates
    BY DEF TaskStates, Terminal
  <2>2. outer' \in [Msgs -> TaskStates] /\ seen' \in [Msgs -> [Writers -> TaskStates]]
    BY <1>3, <2>1, Writes DEF CancelTask, Writers
  <2>3. QED  BY <1>3, <2>2, FaultAdds DEF CancelTask, loop
<1>4. ASSUME NEW bad \in BOOLEAN, Expire(m, bad) PROVE TypeInv'
  <2>1. "failed" \in TaskStates
    BY DEF TaskStates, Terminal
  <2>2. outer' \in [Msgs -> TaskStates] /\ seen' \in [Msgs -> [Writers -> TaskStates]]
    BY <1>4, <2>1, Writes DEF Expire, Writers
  <2>3. QED  BY <1>4, <2>2, FaultAdds DEF Expire, loop
<1>5. QED  BY <1>1, <1>2, <1>3, <1>4 DEF OtherWriter

LEMMA TypeStep == TypeInv /\ [Next]_vars => TypeInv'
<1> SUFFICES ASSUME TypeInv, [Next]_vars PROVE TypeInv'
  OBVIOUS
<1> USE DEF TypeInv, TypeOK
<1>1. ASSUME NEW m \in Msgs, NEW bad \in BOOLEAN, Check(m, bad) PROVE TypeInv'
  BY <1>1, FaultyAdds DEF Check, Move, rows, loop, views, Places
<1>2. ASSUME NEW m \in Msgs, HandlerStep(m) PROVE TypeInv'
  BY <1>2, HandlerTypes
<1>3. ASSUME NEW m \in Msgs, NEW c \in Calls, ChildStep(m, c) PROVE TypeInv'
  <2>1. PICK bad \in BOOLEAN : StartChild(m, c, bad) \/ EndChild(m, c, bad)
    BY <1>3 DEF ChildStep
  <2>2. child' \in [Msgs -> [Calls -> ChildStates]]
    <3>1. \A s \in ChildStates : SetChild(m, c, s) =>
            child' \in [Msgs -> [Calls -> ChildStates]]
      BY DEF SetChild
    <3>2. \E s \in {"open", "raised", "lost", "stuck", "closed"} : SetChild(m, c, s)
      BY <2>1 DEF StartChild, EndChild
    <3>3. QED  BY <3>1, <3>2 DEF ChildStates
  <2>3. QED  BY <2>1, <2>2, FaultyAdds DEF StartChild, EndChild, loop, views
<1>4. ASSUME NEW m \in Msgs, OtherWriter(m) PROVE TypeInv'
  BY <1>4, OtherTypes
<1>5. ASSUME NEW m \in Msgs, Crash(m) PROVE TypeInv'
  <2>1. seen' \in [Msgs -> [Writers -> TaskStates]]
    BY <1>5 DEF Crash, TaskStates
  <2>2. at' \in [Msgs -> Places]
    BY <1>5 DEF Crash, Places
  <2>3. iteration' \in [Msgs -> 0 .. MaxIterations] /\ faults' \in 0 .. MaxFaults
    BY <1>5, ConstantsAssumption DEF Crash, Forget
  <2>4. QED  BY <1>5, <2>1, <2>2, <2>3 DEF Crash, rows
<1>6. CASE UNCHANGED vars
  BY <1>6 DEF vars, rows, loop, views
<1>7. QED  BY <1>1, <1>2, <1>3, <1>4, <1>5, <1>6 DEF Next

\* Rows, places and children keep to the states their tables and the code know,
\* whatever fails and however messages of a context interleave.
THEOREM TypeCorrect == Spec => []TypeOK
<1>1. TypeInv /\ [Next]_vars => TypeInv'
  BY TypeStep
<1>2. Init => TypeInv
  BY InitInv DEF IInv
<1>3. TypeInv => TypeOK
  BY DEF TypeInv
<1>4. QED  BY <1>1, <1>2, <1>3, PTL DEF Spec

(***************************************************************************)
(* Places                                                                  *)
(***************************************************************************)
\* All that is said of a message is said of its own rows.
Untouched(n) ==
  /\ at'[n] = at[n] /\ outer'[n] = outer[n] /\ inner'[n] = inner[n] /\ run'[n] = run[n]
  /\ log'[n] = log[n] /\ child'[n] = child[n] /\ erred'[n] = erred[n]
  /\ seen'[n] = seen[n] /\ iteration'[n] = iteration[n]
  /\ n \in patchy' <=> n \in patchy

LEMMA Framed ==
  ASSUME NEW n \in Msgs, PlaceAt(n), Untouched(n)
  PROVE  PlaceAt(n)'
BY DEF Untouched, PlaceAt, OuterAt, SeenAt, ErredAt, RunAt, InnerAt, AnswerAt, ChildrenAt,
       Ending, InLoop, Raised

\* A step of the message m.
StepOf(m) ==
  \/ \E bad \in BOOLEAN : Check(m, bad)
  \/ HandlerStep(m)
  \/ \E c \in Calls : ChildStep(m, c)
  \/ OtherWriter(m) \/ Crash(m)

LEMMA OthersUntouched ==
  ASSUME TypeInv, NEW m \in Msgs, NEW n \in Msgs, n # m, StepOf(m)
  PROVE  Untouched(n)
<1> USE DEF TypeInv, TypeOK, Untouched
<1>1. CASE Create(m) \/ CreateRoot(m)
  BY <1>1 DEF Create, CreateRoot, Move, rows, loop, views
<1>2. CASE Gone(m)
  <2>1. PICK from \in {"loading", "started", "rooted", "recorded", "ready", "turn", "fanout"},
            error \in {"told", "mute"} : Left(m, from, error)
    BY <1>2, Leavings
  <2>2. /\ at' = [at EXCEPT ![m] = "closing"] /\ iteration' = [iteration EXCEPT ![m] = 0]
        /\ erred' = [erred EXCEPT ![m] = error]
        /\ n \in patchy' <=> n \in patchy
        /\ log' = log /\ views' = views /\ rows' = rows
    BY <2>1, LeftTypes
  <2>3. QED  BY <2>2 DEF rows, views
<1>3. CASE Crash(m)
  BY <1>3 DEF Crash, Forget, rows
<1>4. ASSUME NEW bad \in BOOLEAN,
             \/ Check(m, bad) \/ Begin(m, bad) \/ StartRun(m, bad) \/ StartLoop(m, bad)
             \/ Complete(m, bad) \/ Settle(m, bad)
      PROVE  Untouched(n)
  BY <1>4, FaultyAdds
     DEF Check, Begin, StartRun, StartLoop, Complete, Settle, Forget, Move, rows, loop, views
<1>5. ASSUME NEW bad \in BOOLEAN, Reload(m, bad) \/ Finalize(m, bad) PROVE Untouched(n)
  BY <1>5, FaultyAdds DEF Reload, Finalize, Load, Write, Move, rows, loop
<1>6. ASSUME NEW bad \in BOOLEAN, BeginRoot(m, bad) PROVE Untouched(n)
  BY <1>6, FaultyAdds DEF BeginRoot, Move, views
<1>7. ASSUME NEW bad \in BOOLEAN, Join(m, bad) PROVE Untouched(n)
  BY <1>7, FaultyAdds DEF Join, Store, Free, Move, views
<1>8. ASSUME NEW bad \in BOOLEAN, NEW called \in SUBSET Calls, Plan(m, called, bad)
      PROVE  Untouched(n)
  BY <1>8, FaultyAdds DEF Plan, Store, Move, views
<1>9. ASSUME NEW bad \in BOOLEAN, NEW kept \in BOOLEAN, Conclude(m, kept, bad)
      PROVE  Untouched(n)
  BY <1>9, FaultyAdds DEF Conclude, Store, Move, rows, views
<1>10. ASSUME NEW c \in Calls, NEW bad \in BOOLEAN, StartChild(m, c, bad) \/ EndChild(m, c, bad)
       PROVE  Untouched(n)
  BY <1>10, FaultyAdds DEF StartChild, EndChild, SetChild, loop, views
<1>11. CASE OtherWriter(m)
  BY <1>11 DEF OtherWriter, OpenCancel, Sweep, CancelTask, Expire, Load, Write, rows, loop
<1>12. QED
  BY <1>1, <1>2, <1>3, <1>4, <1>5, <1>6, <1>7, <1>8, <1>9, <1>10, <1>11
     DEF StepOf, HandlerStep, ChildStep, Gone

LEMMA OwnStep ==
  ASSUME TypeInv, NEW m \in Msgs, PlaceAt(m), HandlerStep(m)
  PROVE  PlaceAt(m)'
<1> USE DEF TypeInv, TypeOK, PlaceAt, OuterAt, SeenAt, ErredAt, RunAt, InnerAt, AnswerAt,
            ChildrenAt, Ending, InLoop
<1>1. CASE Create(m)
  BY <1>1 DEF Create, Move, rows, loop, views
<1>2. CASE Gone(m)
  <2>1. PICK from \in {"loading", "started", "rooted", "recorded", "ready", "turn", "fanout"},
            error \in {"told", "mute"} :
           /\ Left(m, from, error)
           /\ from = "fanout" => patchy' = patchy /\ \E c \in Calls : child[m][c] \in Raised
    BY <1>2, Leavings
  <2>2. /\ at[m] = from /\ at'[m] = "closing" /\ erred'[m] = error
        /\ error = "mute" => m \in patchy'
        /\ m \in patchy => m \in patchy'
        /\ outer'[m] = outer[m] /\ child'[m] = child[m] /\ seen'[m] = seen[m]
    BY <2>1, LeftTypes DEF rows, views
  <2>3. CASE from = "fanout"
    BY <2>1, <2>2, <2>3
  <2>4. CASE from # "fanout"
    <3>1. \A c \in Calls : child[m][c] \in {"none", "stuck"}
      BY <2>2, <2>4
    <3>2. QED  BY <2>2, <2>4, <3>1 DEF Raised
  <2>5. QED  BY <2>3, <2>4
<1>3. ASSUME NEW bad \in BOOLEAN, Begin(m, bad) PROVE PlaceAt(m)'
  BY <1>3, FaultyAdds DEF Begin, Move, loop, views
<1>4. ASSUME NEW bad \in BOOLEAN, StartRun(m, bad) PROVE PlaceAt(m)'
  BY <1>4, FaultyAdds DEF StartRun, Move, loop, views
<1>5. CASE CreateRoot(m)
  BY <1>5 DEF CreateRoot, Move, loop, views
<1>6. ASSUME NEW bad \in BOOLEAN, BeginRoot(m, bad) PROVE PlaceAt(m)'
  <2>1. /\ at[m] = "rooted" /\ at'[m] = "ready"
        /\ UNCHANGED <<outer, run, child, erred, seen>>
        /\ patchy' = IF bad THEN patchy \cup {m} ELSE patchy
    BY <1>6, FaultyAdds DEF BeginRoot, Move, views
  <2>2. ~bad => inner'[m] = "working" /\ log'[m] = <<Entry(m, 0, "user")>>
    BY <1>6 DEF BeginRoot
  <2>3. ~bad => log'[m] # <<>> /\ Last(log'[m]).kind # "calls"
    <3>1. \A e : <<e>> # <<>> /\ Last(<<e>>) = e
      BY DEF Last
    <3>2. Entry(m, 0, "user").kind # "calls"
      BY DEF Entry
    <3>3. QED  BY <2>2, <3>1, <3>2
  <2>4. OuterAt(m)' /\ SeenAt(m)' /\ ErredAt(m)' /\ RunAt(m)' /\ ChildrenAt(m)'
    BY <2>1
  <2>5. InnerAt(m)' /\ AnswerAt(m)'
    BY <2>1, <2>2, <2>3
  <2>6. QED  BY <2>4, <2>5
<1>7. ASSUME NEW bad \in BOOLEAN, StartLoop(m, bad) PROVE PlaceAt(m)'
  BY <1>7, FaultyAdds DEF StartLoop, Move, rows, views
<1>8. ASSUME NEW bad \in BOOLEAN, Join(m, bad) PROVE PlaceAt(m)'
  <2>1. /\ at[m] = "fanout" /\ at'[m] = "turn"
        /\ UNCHANGED <<outer, inner, run, erred, seen>>
        /\ patchy' = IF bad THEN patchy \cup {m} ELSE patchy
    BY <1>8, FaultyAdds DEF Join, Move, views
  <2>2. ChildrenAt(m)'
    BY <1>8, <2>1 DEF Join, Free, Asked, Returned, Raised
  <2>3. ASSUME ~bad PROVE log'[m] # <<>> /\ Last(log'[m]).kind # "calls"
    <3>1. iteration'[m] \in Nat
      BY <1>8, ConstantsAssumption DEF Join
    <3>2. Entry(m, iteration'[m], "results") \in Entries
      BY <3>1 DEF Entry, Entries
    <3>3. log'[m] = Append(log[m], Entry(m, iteration'[m], "results"))
      BY <1>8, <2>3 DEF Join, Store
    <3>4. log[m] \in Seq(Entries)
      OBVIOUS
    <3>5. log'[m] # <<>> /\ Last(log'[m]) = Entry(m, iteration'[m], "results")
      BY <3>2, <3>3, <3>4, LastAppended, Zenon
    <3>6. QED  BY <3>5 DEF Entry
  <2>4. OuterAt(m)' /\ SeenAt(m)' /\ ErredAt(m)' /\ RunAt(m)' /\ InnerAt(m)'
    BY <2>1
  <2>5. AnswerAt(m)'
    BY <2>1, <2>3
  <2>6. QED  BY <2>2, <2>4, <2>5
<1>9. ASSUME NEW bad \in BOOLEAN, Complete(m, bad) PROVE PlaceAt(m)'
  BY <1>9, FaultyAdds DEF Complete, Move, loop, views
<1>10. ASSUME NEW bad \in BOOLEAN, Settle(m, bad) PROVE PlaceAt(m)'
  BY <1>10, FaultyAdds DEF Settle, Move, Moved, Allowed, Terminal, views
<1>11. ASSUME NEW bad \in BOOLEAN, Reload(m, bad) PROVE PlaceAt(m)'
  <2>1. /\ at[m] = "closing" /\ at'[m] \in {"deciding", "done"}
        /\ UNCHANGED <<outer, inner, run, child, log, erred>>
        /\ m \in patchy => m \in patchy'
    BY <1>11, FaultyAdds DEF Reload, Move, rows, loop
  <2>2. QED  BY <2>1
<1>12. ASSUME NEW bad \in BOOLEAN, Finalize(m, bad) PROVE PlaceAt(m)'
  <2>1. /\ at[m] = "deciding" /\ at'[m] = "done"
        /\ UNCHANGED <<inner, run, child, log, erred>>
        /\ m \in patchy => m \in patchy'
    BY <1>12, FaultyAdds DEF Finalize, Move, loop
  <2>2. outer'[m] = "completed" => erred[m] # "told"
    BY <1>12, <2>1 DEF Finalize, Write
  <2>3. QED  BY <2>1, <2>2
<1>13. ASSUME NEW bad \in BOOLEAN, NEW called \in SUBSET Calls, Plan(m, called, bad)
       PROVE  PlaceAt(m)'
  <2>1. /\ at[m] = "turn" /\ at'[m] = "fanout"
        /\ UNCHANGED <<outer, inner, run, erred, seen>>
        /\ patchy' = IF bad THEN patchy \cup {m} ELSE patchy
    BY <1>13, FaultyAdds DEF Plan, Move, views
  <2>2. OuterAt(m)' /\ SeenAt(m)' /\ ErredAt(m)' /\ RunAt(m)' /\ InnerAt(m)' /\ AnswerAt(m)'
    BY <2>1
  <2>3. ChildrenAt(m)'
    BY <1>13, <2>1 DEF Plan, Raised
  <2>4. QED  BY <2>2, <2>3
<1>14. ASSUME NEW bad \in BOOLEAN, NEW kept \in BOOLEAN, Conclude(m, kept, bad)
       PROVE  PlaceAt(m)'
  <2>1. /\ at[m] = "turn" /\ at'[m] = "answered"
        /\ UNCHANGED <<outer, inner, run, child, erred, seen>>
        /\ patchy' = IF bad THEN patchy \cup {m} ELSE patchy
    BY <1>14, FaultyAdds DEF Conclude, Move, rows, views
  <2>2. ASSUME ~bad, m \notin patchy PROVE log'[m] # <<>> /\ Last(log'[m]).kind # "calls"
    <3>1. CASE ~kept
      <4>1. log'[m] = log[m]
        BY <1>14, <3>1 DEF Conclude, Store
      <4>2. QED  BY <2>1, <2>2, <4>1
    <3>2. CASE kept
      <4>1. iteration'[m] \in Nat
        BY <1>14, ConstantsAssumption DEF Conclude
      <4>2. Entry(m, iteration'[m], "answer") \in Entries
        BY <4>1 DEF Entry, Entries
      <4>3. log'[m] = Append(log[m], Entry(m, iteration'[m], "answer"))
        BY <1>14, <2>2, <3>2 DEF Conclude, Store
      <4>4. log[m] \in Seq(Entries)
        OBVIOUS
      <4>5. log'[m] # <<>> /\ Last(log'[m]) = Entry(m, iteration'[m], "answer")
        BY <4>2, <4>3, <4>4, LastAppended, Zenon
      <4>6. QED  BY <4>5 DEF Entry
    <3>3. QED  BY <3>1, <3>2
  <2>3. /\ OuterAt(m)' /\ SeenAt(m)' /\ ErredAt(m)' /\ RunAt(m)' /\ InnerAt(m)'
        /\ ChildrenAt(m)'
    BY <2>1
  <2>4. AnswerAt(m)'
    BY <2>1, <2>2
  <2>5. QED  BY <2>3, <2>4
<1>15. QED
  BY <1>1, <1>2, <1>3, <1>4, <1>5, <1>6, <1>7, <1>8, <1>9, <1>10, <1>11, <1>12, <1>13, <1>14
     DEF HandlerStep, Gone

\* CancelTask and the reaper complete nothing, and leave alone what is not
\* given out.
LEMMA OtherStep ==
  ASSUME TypeInv, NEW m \in Msgs, PlaceAt(m), OtherWriter(m)
  PROVE  PlaceAt(m)'
<1>1. UNCHANGED <<at, inner, run, child, log, erred, patchy>>
  BY DEF OtherWriter, OpenCancel, Sweep, CancelTask, Expire, rows, loop
<1>2. ErredAt(m)' /\ RunAt(m)' /\ InnerAt(m)' /\ AnswerAt(m)' /\ ChildrenAt(m)'
  BY <1>1
     DEF PlaceAt, ErredAt, RunAt, InnerAt, AnswerAt, ChildrenAt, Ending, InLoop, Raised
<1>3. "canceled" \in TaskStates /\ "failed" \in TaskStates
  BY DEF TaskStates, Terminal
<1> USE DEF PlaceAt, OuterAt, SeenAt
<1>4. CASE OpenCancel(m)
  <2>1. /\ at[m] \notin {"idle", "checked", "created"}
        /\ outer' = outer
    BY <1>4 DEF OpenCancel, rows
  <2>2. QED  BY <1>1, <1>2, <2>1
<1>5. CASE Sweep(m)
  <2>1. outer' = outer /\ outer[m] \in Active /\ Load(m, "reaper")
    BY <1>5 DEF Sweep, rows
  <2>2. seen'[m]["reaper"] = outer[m] /\ seen'[m]["cancel"] = seen[m]["cancel"]
    BY <2>1, Loads DEF Writers
  <2>3. "absent" \notin Active
    BY DEF Active
  <2>4. QED  BY <1>1, <1>2, <2>1, <2>2, <2>3
<1>6. ASSUME NEW bad \in BOOLEAN, CancelTask(m, bad) PROVE PlaceAt(m)'
  <2>1. seen[m]["cancel"] # "absent" /\ Write(m, "cancel", "canceled", bad)
    BY <1>6 DEF CancelTask
  <2>2. outer'[m] \in {outer[m], "canceled"}
    BY <1>3, <2>1, Writes DEF Writers
  <2>3. at[m] \notin {"idle", "checked", "created"}
    BY <2>1
  <2>4. QED  BY <1>1, <1>2, <2>2, <2>3
<1>7. ASSUME NEW bad \in BOOLEAN, Expire(m, bad) PROVE PlaceAt(m)'
  <2>1. seen[m]["reaper"] # "absent" /\ Write(m, "reaper", "failed", bad)
    BY <1>7 DEF Expire
  <2>2. /\ outer'[m] \in {outer[m], "failed"}
        /\ "failed" \notin Allowed(seen[m]["reaper"]) => outer'[m] = outer[m]
        /\ seen'[m]["reaper"] = "absent" /\ seen'[m]["cancel"] = seen[m]["cancel"]
    BY <1>3, <2>1, Writes DEF Writers
  <2>3. seen[m]["reaper"] = "submitted" => outer'[m] = outer[m]
    BY <2>2 DEF Allowed
  <2>4. QED  BY <1>1, <1>2, <2>1, <2>2, <2>3
<1>8. QED  BY <1>4, <1>5, <1>6, <1>7 DEF OtherWriter

LEMMA PlaceStep == TypeInv /\ PlaceInv /\ [Next]_vars => PlaceInv'
<1> SUFFICES ASSUME TypeInv, PlaceInv, [Next]_vars, NEW n \in Msgs PROVE PlaceAt(n)'
  BY DEF PlaceInv
<1>1. PlaceAt(n)
  BY DEF PlaceInv
<1>2. CASE UNCHANGED vars
  <2>1. Untouched(n)
    BY <1>2 DEF vars, rows, loop, views, Untouched
  <2>2. QED  BY <1>1, <2>1, Framed
<1>3. CASE Next
  <2>1. PICK m \in Msgs : StepOf(m)
    BY <1>3 DEF Next, StepOf
  <2>2. CASE n # m
    BY <1>1, <2>1, <2>2, OthersUntouched, Framed
  <2>3. CASE n = m
    <3>1. CASE HandlerStep(n)
      BY <1>1, <3>1, OwnStep
    <3>2. CASE OtherWriter(n)
      BY <1>1, <3>2, OtherStep
    <3> USE DEF TypeInv, TypeOK, PlaceAt, OuterAt, SeenAt, ErredAt, RunAt, InnerAt, AnswerAt,
                ChildrenAt, Ending, InLoop, Raised
    <3>3. ASSUME NEW bad \in BOOLEAN, Check(n, bad) PROVE PlaceAt(n)'
      BY <1>1, <3>3, FaultyAdds DEF Check, Move, rows, loop, views
    <3>4. ASSUME NEW c \in Calls, NEW bad \in BOOLEAN,
                 StartChild(n, c, bad) \/ EndChild(n, c, bad)
          PROVE  PlaceAt(n)'
      <4>1. /\ at[n] # "dead" /\ child[n][c] \in {"queued", "open"}
            /\ UNCHANGED <<at, outer, inner, run, log, erred, seen>>
            /\ patchy' = IF bad THEN patchy \cup {n} ELSE patchy
        BY <3>4, FaultyAdds DEF StartChild, EndChild, loop, views
      <4>2. PICK s \in {"open", "raised", "lost", "stuck", "closed"} :
              child' = [child EXCEPT ![n][c] = s] /\ (~bad => s \in {"open", "closed"})
        BY <3>4 DEF StartChild, EndChild, SetChild
      <4>3. \A d \in Calls : child'[n][d] = IF d = c THEN s ELSE child[n][d]
        BY <4>2
      <4>4. OuterAt(n)' /\ SeenAt(n)' /\ ErredAt(n)' /\ RunAt(n)' /\ InnerAt(n)' /\ AnswerAt(n)'
        BY <1>1, <4>1
      <4>5. ChildrenAt(n)'
        BY <1>1, <4>1, <4>2, <4>3
      <4>6. QED  BY <4>4, <4>5
    <3>5. CASE Crash(n)
      BY <1>1, <3>5 DEF Crash, rows
    <3>6. QED  BY <2>1, <2>3, <3>1, <3>2, <3>3, <3>4, <3>5 DEF StepOf, ChildStep
  <2>4. QED  BY <2>2, <2>3
<1>4. QED  BY <1>2, <1>3

LEMMA Inductive == IInv /\ [Next]_vars => IInv'
BY TypeStep, PlaceStep DEF IInv

(***************************************************************************)
(* What follows                                                            *)
(***************************************************************************)
\* A caller who is told "completed" has an answer to which no error was heard,
\* a completed run and runner's task, whole turns and no call under way, unless
\* the database failed the message; and a call outlives its turn only beside a
\* sibling that raised (_run_and_finalize, gather).
THEOREM OutcomesAreSettled == Spec => []OutcomesSettled
<1>1. IInv => OutcomesSettled
  <2> SUFFICES ASSUME IInv PROVE OutcomesSettled
    OBVIOUS
  <2> USE DEF IInv, TypeInv, TypeOK, PlaceInv, PlaceAt, Ending
  <2>1. ASSUME NEW m \in Msgs, Answer(m) = "completed", m \notin patchy
        PROVE  /\ erred[m] = "no" /\ run[m] = "completed" /\ inner[m] = "completed"
               /\ Asked(m) = {} /\ Last(log[m]).kind # "calls"
    <3>1. at[m] = "done" /\ erred[m] = "no"
      BY <2>1 DEF Answer, OuterAt, ErredAt
    <3>2. QED  BY <2>1, <3>1 DEF RunAt, InnerAt, AnswerAt, ChildrenAt, Asked
  <2>2. ASSUME NEW m \in Msgs, at[m] \notin {"fanout", "dead"},
               \E c \in Calls : child[m][c] \in {"queued", "open"}
        PROVE  \E c \in Calls : child[m][c] \in Raised
    <3>1. at[m] \in Ending
      BY <2>2 DEF ChildrenAt
    <3>2. QED  BY <2>2, <3>1 DEF ChildrenAt
  <2>3. QED  BY <2>1, <2>2 DEF OutcomesSettled, CompletedMeansDone, NoStrayChildren
<1>2. QED  BY <1>1, InitInv, Inductive, PTL DEF Spec

\* What a step does to the answer about one message.
AgreeAt(m) ==
  /\ Answer(m) \in Terminal => Answer(m)' \in Terminal
  /\ Firm(m) => Firm(m)' /\ Answer(m)' = Answer(m)

\* A commit whose writer has loaded a row that is over changes nothing; any
\* other leads from one end to another.
LEMMA WriteAgrees ==
  ASSUME TypeInv, NEW m \in Msgs, NEW w \in Writers, NEW to \in Terminal,
         NEW bad \in BOOLEAN, Write(m, w, to, bad)
  PROVE  AgreeAt(m)
<1>1. to \in TaskStates
  BY DEF TaskStates
<1>2. /\ outer'[m] \in {outer[m], to}
      /\ to \notin Allowed(seen[m][w]) => outer'[m] = outer[m]
      /\ seen'[m][w] = "absent"
      /\ \A v \in Writers : v # w => seen'[m][v] = seen[m][v]
  BY <1>1, Writes
<1>3. seen[m][w] \in TaskStates
  BY DEF TypeInv, TypeOK
<1>4. seen[m][w] \notin Active => outer'[m] = outer[m]
  BY <1>2, <1>3, AllowedIn
<1>5. "absent" \notin Active
  BY DEF Active
<1>6. QED  BY <1>2, <1>4, <1>5 DEF AgreeAt, Firm, Answer

LEMMA Agrees ==
  IInv /\ [Next]_vars =>
    [\A m \in Msgs :
       /\ Answer(m) \in Terminal => Answer(m)' \in Terminal
       /\ Firm(m) => Firm(m)' /\ Answer(m)' = Answer(m)]_vars
<1> SUFFICES ASSUME IInv, Next, NEW n \in Msgs PROVE AgreeAt(n)
  BY DEF AgreeAt
<1>1. TypeInv /\ PlaceAt(n)
  BY DEF IInv, PlaceInv
<1>2. outer'[n] = outer[n] /\ seen'[n] = seen[n] => AgreeAt(n)
  BY DEF AgreeAt, Firm, Answer
<1>3. outer[n] \notin Terminal => AgreeAt(n)
  BY DEF AgreeAt, Firm, Answer
<1>4. PICK m \in Msgs : StepOf(m)
  BY DEF Next, StepOf
<1>5. CASE n # m
  BY <1>1, <1>2, <1>4, <1>5, OthersUntouched DEF Untouched
<1>6. CASE n = m
  <2>1. CASE Gone(n)
    <3>1. PICK from \in {"loading", "started", "rooted", "recorded", "ready", "turn", "fanout"},
              error \in {"told", "mute"} : Left(n, from, error)
      BY <1>1, <2>1, Leavings
    <3>2. outer' = outer /\ seen' = seen
      BY <1>1, <3>1, LeftTypes DEF rows, views
    <3>3. QED  BY <1>2, <3>2
  <2>2. CASE CreateRoot(n)
    BY <1>2, <2>2 DEF CreateRoot, views
  <2>3. ASSUME NEW bad \in BOOLEAN,
               \/ Check(n, bad) \/ StartRun(n, bad) \/ BeginRoot(n, bad) \/ StartLoop(n, bad)
               \/ Join(n, bad) \/ Complete(n, bad) \/ Settle(n, bad)
        PROVE  AgreeAt(n)
    BY <1>2, <2>3
       DEF Check, StartRun, BeginRoot, StartLoop, Join, Complete, Settle, rows, views
  <2>4. ASSUME NEW bad \in BOOLEAN, NEW called \in SUBSET Calls, Plan(n, called, bad)
        PROVE  AgreeAt(n)
    BY <1>2, <2>4 DEF Plan, views
  <2>5. ASSUME NEW bad \in BOOLEAN, NEW kept \in BOOLEAN, Conclude(n, kept, bad)
        PROVE  AgreeAt(n)
    BY <1>2, <2>5 DEF Conclude, rows, views
  <2>6. ASSUME NEW c \in Calls, ChildStep(n, c) PROVE AgreeAt(n)
    BY <1>2, <2>6 DEF ChildStep, StartChild, EndChild, views
  <2>7. CASE Create(n) \/ \E bad \in BOOLEAN : Begin(n, bad)
    BY <1>1, <1>3, <2>7 DEF Create, Begin, Move, PlaceAt, OuterAt, Terminal
  <2>8. ASSUME NEW bad \in BOOLEAN, Reload(n, bad) PROVE AgreeAt(n)
    <3>1. outer' = outer /\ (Load(n, "handler") \/ seen' = seen)
      BY <2>8 DEF Reload, rows
    <3>2. ASSUME Load(n, "handler"), outer[n] \in Terminal PROVE AgreeAt(n)
      <4>1. /\ seen'[n]["handler"] = outer[n]
            /\ \A v \in Writers : v # "handler" => seen'[n][v] = seen[n][v]
        BY <1>1, <3>2, Loads DEF Writers
      <4>2. outer[n] \notin Active
        BY <3>2 DEF Terminal, Active
      <4>3. QED  BY <3>1, <4>1, <4>2 DEF AgreeAt, Firm, Answer
    <3>3. QED  BY <1>2, <1>3, <3>1, <3>2
  <2>9. CASE OpenCancel(n) \/ Sweep(n)
    BY <1>3, <2>9 DEF OpenCancel, Sweep, Active, Terminal
  <2>10. ASSUME NEW bad \in BOOLEAN, Finalize(n, bad) PROVE AgreeAt(n)
    <3>1. (IF erred[n] = "told" THEN "failed" ELSE "completed") \in Terminal
      BY DEF Terminal
    <3>2. QED  BY <1>1, <2>10, <3>1, WriteAgrees DEF Finalize, Writers
  <2>11. ASSUME NEW bad \in BOOLEAN, CancelTask(n, bad) \/ Expire(n, bad) PROVE AgreeAt(n)
    <3>1. "canceled" \in Terminal /\ "failed" \in Terminal
      BY DEF Terminal
    <3>2. QED  BY <1>1, <2>11, <3>1, WriteAgrees DEF CancelTask, Expire, Writers
  <2>12. CASE Crash(n)
    <3>1. /\ outer' = outer /\ seen'[n]["handler"] = "absent"
          /\ \A v \in Writers : v # "handler" => seen'[n][v] = seen[n][v]
      BY <1>1, <2>12 DEF Crash, rows, TypeInv, TypeOK, Writers
    <3>2. "absent" \notin Active
      BY DEF Active
    <3>3. QED  BY <3>1, <3>2 DEF AgreeAt, Firm, Answer
  <2>13. HandlerStep(n) => AgreeAt(n)
    BY <2>1, <2>2, <2>3, <2>4, <2>5, <2>7, <2>8, <2>10 DEF HandlerStep, Gone
  <2>14. OtherWriter(n) => AgreeAt(n)
    BY <2>9, <2>11 DEF OtherWriter
  <2>15. QED  BY <1>4, <1>6, <2>3, <2>6, <2>12, <2>13, <2>14 DEF StepOf
<1>7. QED  BY <1>5, <1>6

\* Once a task is over it stays over, and once no session has it loaded from
\* before that, its outcome is the same for ever: only the commit of a writer
\* with an old row contradicts what a caller was told (transition()).
THEOREM OnlyOldRowsContradict == Spec => AnswersAgree
<1>1. IInv /\ [Next]_vars =>
        [\A m \in Msgs :
           /\ Answer(m) \in Terminal => Answer(m)' \in Terminal
           /\ Firm(m) => Firm(m)' /\ Answer(m)' = Answer(m)]_vars
  BY Agrees
<1>2. QED  BY <1>1, InitInv, Inductive, PTL DEF Spec, AnswersAgree

(***************************************************************************)
(* Joining sequences: FlattenSeq does it with a recursive function, so     *)
(* induction and iteration come first                                      *)
(***************************************************************************)
\* Induction over the natural numbers, with the property as a set.
LEMMA Induct ==
  ASSUME NEW T, 0 \in T, \A n \in Nat : n \in T => n + 1 \in T
  PROVE  Nat \subseteq T
<1> DEFINE B == {n \in Nat : n \notin T}
<1> SUFFICES ASSUME B # {} PROVE FALSE
  OBVIOUS
<1> HIDE DEF B
<1>1. PICK x \in B : \A y \in B : ~(<<y, x>> \in OpToRel(<, Nat))
  <2>1. B \subseteq Nat
    BY DEF B
  <2>2. QED  BY <2>1, NatLessThanWellFounded, WFMin
<1>2. \A y \in B : ~(y < x)
  BY <1>1 DEF OpToRel, B
<1>3. x \in Nat /\ x # 0 /\ x - 1 \in Nat /\ x - 1 < x
  BY DEF B
<1>4. x - 1 \in T
  BY <1>2, <1>3 DEF B
<1>5. (x - 1) + 1 = x
  BY <1>3
<1>6. QED  BY <1>3, <1>4, <1>5 DEF B

\* A function that goes from base step by step.
IsIterate(f, n, base, grow) ==
  /\ f[0] = base /\ \A i \in 1 .. n : f[i] = grow[i][f[i - 1]]

LEMMA Iterated ==
  ASSUME NEW n \in Nat, NEW S, NEW base \in S, NEW grow \in [1 .. n -> [S -> S]]
  PROVE  \E f \in [0 .. n -> S] : IsIterate(f, n, base, grow)
<1> DEFINE T == {k \in Nat : k <= n => \E f \in [0 .. k -> S] : IsIterate(f, k, base, grow)}
<1>1. 0 \in T
  <2> DEFINE f == [i \in 0 .. 0 |-> base]
  <2>1. f \in [0 .. 0 -> S] /\ f[0] = base /\ 1 .. 0 = {}
    OBVIOUS
  <2>2. IsIterate(f, 0, base, grow)
    BY <2>1 DEF IsIterate
  <2>3. QED  BY <2>1, <2>2
<1>2. ASSUME NEW k \in Nat, k \in T, k + 1 <= n PROVE k + 1 \in T
  <2>1. PICK f \in [0 .. k -> S] : IsIterate(f, k, base, grow)
    BY <1>2
  <2> DEFINE next == grow[k + 1][f[k]]
             g == [i \in 0 .. k + 1 |-> IF i = k + 1 THEN next ELSE f[i]]
  <2>2. grow[k + 1] \in [S -> S] /\ f[k] \in S /\ next \in S
    BY <1>2
  <2>3. \A i \in 0 .. k : g[i] = f[i] /\ f[i] \in S
    BY <1>2
  <2>4. g[k + 1] = next
    BY <1>2
  <2>5. \A i \in 0 .. k + 1 : i \in 0 .. k \/ i = k + 1
    BY <1>2
  <2>6. g \in [0 .. k + 1 -> S]
    BY <2>2, <2>3, <2>4, <2>5
  <2> HIDE DEF g, next
  <2>7. ASSUME NEW i \in 1 .. k + 1 PROVE g[i] = grow[i][g[i - 1]]
    <3>1. i - 1 \in 0 .. k
      BY <1>2
    <3>2. CASE i = k + 1
      <4>1. i - 1 = k
        BY <1>2, <3>2
      <4>2. g[i - 1] = f[k]
        BY <2>3, <3>1, <4>1
      <4>3. QED  BY <2>4, <3>2, <4>2 DEF next
    <3>3. CASE i \in 1 .. k
      <4>1. f[i] = grow[i][f[i - 1]]
        BY <2>1, <3>3 DEF IsIterate
      <4>2. g[i] = f[i] /\ g[i - 1] = f[i - 1]
        BY <2>3, <3>1, <3>3
      <4>3. QED  BY <4>1, <4>2
    <3>4. i \in 1 .. k \/ i = k + 1
      BY <1>2
    <3>5. QED  BY <3>2, <3>3, <3>4
  <2>8. g[0] = base
    BY <1>2, <2>1, <2>3 DEF IsIterate
  <2>9. QED  BY <1>2, <2>6, <2>7, <2>8 DEF IsIterate
<1>3. \A k \in Nat : k \in T => k + 1 \in T
  <2>1. ASSUME NEW k \in Nat, k \in T, ~(k + 1 <= n) PROVE k + 1 \in T
    BY <2>1
  <2>2. QED  BY <1>2, <2>1
<1> HIDE DEF T
<1>4. n \in T
  BY <1>1, <1>3, Induct
<1>5. QED  BY <1>4 DEF T

(***************************************************************************)
(* Joining sequences                                                       *)
(***************************************************************************)
LEMMA Concatenated ==
  ASSUME NEW S, NEW s \in Seq(S), NEW t \in Seq(S)
  PROVE  /\ s \o t \in Seq(S) /\ Len(s \o t) = Len(s) + Len(t)
         /\ Len(s) \in Nat /\ Len(t) \in Nat
         /\ \A i \in 1 .. Len(s) : (s \o t)[i] = s[i]
         /\ \A i \in 1 .. Len(t) : (s \o t)[Len(s) + i] = t[i]
         /\ \A i \in 1 .. Len(s \o t) :
              i \in 1 .. Len(s) \/ \E k \in 1 .. Len(t) : i = Len(s) + k
<1>1. s \o t \in Seq(S) /\ Len(s \o t) = Len(s) + Len(t) /\ Len(s) \in Nat /\ Len(t) \in Nat
  OBVIOUS
<1>2. \A i \in 1 .. Len(s) : (s \o t)[i] = s[i]
  OBVIOUS
<1>3. \A i \in 1 .. Len(t) : (s \o t)[Len(s) + i] = t[i]
  OBVIOUS
<1>4. ASSUME NEW i \in 1 .. Len(s \o t), i \notin 1 .. Len(s)
      PROVE  \E k \in 1 .. Len(t) : i = Len(s) + k
  <2>1. i - Len(s) \in 1 .. Len(t) /\ i = Len(s) + (i - Len(s))
    BY <1>1, <1>4
  <2>2. QED  BY <2>1
<1>5. QED  BY <1>1, <1>2, <1>3, <1>4

\* c[n] joins the first n sequences of f.
Joins(c, f, S) ==
  /\ c \in [0 .. Len(f) -> Seq(S)] /\ c[0] = <<>>
  /\ \A n \in 1 .. Len(f) : c[n] = c[n - 1] \o f[n]

LEMMA Flattened ==
  ASSUME NEW S, NEW f \in Seq(Seq(S))
  PROVE  \E c : Joins(c, f, S) /\ FlattenSeq(f) = c[Len(f)]
<1>1. CASE Len(f) = 0
  <2> DEFINE c == [n \in 0 .. Len(f) |-> <<>>]
  <2>1. Joins(c, f, S)
    <3>1. 1 .. Len(f) = {}
      BY <1>1
    <3>2. <<>> \in Seq(S) /\ 0 \in 0 .. Len(f)
      BY <1>1
    <3>3. QED  BY <3>1, <3>2 DEF Joins
  <2>2. FlattenSeq(f) = f /\ f = <<>> /\ c[Len(f)] = <<>>
    BY <1>1 DEF FlattenSeq
  <2>3. QED  BY <2>1, <2>2
<1>2. CASE Len(f) # 0
  <2> DEFINE N == Len(f)
             add == [i \in 1 .. N |-> [s \in Seq(S) |-> s \o f[i]]]
             Eq(g) == g = [i \in 1 .. N |-> IF i = 1 THEN f[i] ELSE g[i - 1] \o f[i]]
  <2>1. N \in Nat /\ N > 0 /\ \A i \in 1 .. N : f[i] \in Seq(S)
    BY <1>2
  <2>2. add \in [1 .. N -> [Seq(S) -> Seq(S)]]
    BY <2>1
  <2>3. <<>> \in Seq(S)
    OBVIOUS
  <2>4. \A i \in 1 .. N, s \in Seq(S) : add[i][s] = s \o f[i]
    OBVIOUS
  <2> HIDE DEF add
  <2>5. PICK c \in [0 .. N -> Seq(S)] : IsIterate(c, N, <<>>, add)
    BY <2>1, <2>2, <2>3, Iterated
  <2>6. ASSUME NEW n \in 1 .. N PROVE n - 1 \in 0 .. N /\ c[n] = c[n - 1] \o f[n]
    <3>1. n - 1 \in 0 .. N /\ c[n] = add[n][c[n - 1]]
      BY <2>1, <2>5 DEF IsIterate
    <3>2. QED  BY <2>4, <2>5, <3>1
  <2>7. c[0] = <<>>
    BY <2>5 DEF IsIterate
  <2>8. Joins(c, f, S)
    BY <2>5, <2>6, <2>7 DEF Joins
  <2> DEFINE g == [i \in 1 .. N |-> c[i]]
  <2>9. ASSUME NEW i \in 1 .. N PROVE g[i] = IF i = 1 THEN f[i] ELSE g[i - 1] \o f[i]
    <3>1. CASE i = 1
      <4>1. i - 1 = 0
        BY <3>1
      <4>2. c[i] = <<>> \o f[i]
        BY <2>6, <2>7, <4>1, Zenon
      <4>3. f[i] \in Seq(S)
        BY <2>1
      <4>4. c[i] = f[i]
        BY <4>2, <4>3
      <4>5. g[i] = c[i]
        OBVIOUS
      <4>6. QED  BY <3>1, <4>4, <4>5, Zenon
    <3>2. CASE i # 1
      <4>1. i - 1 \in 1 .. N
        BY <2>1, <3>2
      <4>2. QED  BY <2>6, <3>2, <4>1
    <3>3. QED  BY <3>1, <3>2
  <2>10. Eq(g)
    BY <2>9
  <2> DEFINE h == CHOOSE h : Eq(h)
  <2>11. Eq(h)
    BY <2>10
  <2>12. FlattenSeq(f) = h[N]
    BY <1>2 DEF FlattenSeq
  <2> HIDE DEF h, g
  <2>13. \A i \in 1 .. N : h[i] = IF i = 1 THEN f[i] ELSE h[i - 1] \o f[i]
    BY <2>11
  <2> DEFINE T == {i \in Nat : i + 1 <= N => h[i + 1] = c[i + 1]}
  <2>14. 0 \in T
    <3>1. 1 \in 1 .. N /\ 1 - 1 = 0 /\ 0 + 1 = 1
      BY <2>1
    <3>2. h[1] = f[1] /\ c[1] = <<>> \o f[1] /\ f[1] \in Seq(S)
      BY <2>1, <2>6, <2>7, <2>13, <3>1
    <3>3. h[1] = c[1]
      BY <3>2
    <3>4. QED  BY <3>1, <3>3
  <2>15. ASSUME NEW i \in Nat, i \in T PROVE i + 1 \in T
    <3>1. ASSUME (i + 1) + 1 <= N PROVE h[(i + 1) + 1] = c[(i + 1) + 1]
      <4>1. i + 1 <= N /\ (i + 1) + 1 \in 1 .. N /\ (i + 1) + 1 # 1
            /\ ((i + 1) + 1) - 1 = i + 1
        BY <2>1, <3>1
      <4>2. h[i + 1] = c[i + 1]
        BY <2>15, <4>1
      <4>3. h[(i + 1) + 1] = h[((i + 1) + 1) - 1] \o f[(i + 1) + 1]
        BY <2>13, <4>1
      <4>4. c[(i + 1) + 1] = c[((i + 1) + 1) - 1] \o f[(i + 1) + 1]
        BY <2>6, <4>1
      <4>5. QED  BY <4>1, <4>2, <4>3, <4>4
    <3>2. QED  BY <3>1
  <2>16. Nat \subseteq T
    <3> HIDE DEF T
    <3>1. QED  BY <2>14, <2>15, Induct
  <2>17. h[N] = c[N]
    <3>1. N - 1 \in Nat /\ (N - 1) + 1 = N /\ N <= N
      BY <2>1
    <3>2. N - 1 \in T
      BY <2>16, <3>1
    <3>3. QED  BY <3>1, <3>2
  <2>18. QED  BY <2>8, <2>12, <2>17
<1>3. QED  BY <1>1, <1>2

\* d has at i what g has at k, and what follows it in g, if anything does.
Follows(d, i, g, k) ==
  /\ d[i] = g[k]
  /\ k < Len(g) => i < Len(d) /\ d[i + 1] = g[k + 1]

\* What is joined comes from one of the sequences, with what follows it there.
LEMMA JoinedNext ==
  ASSUME NEW S, NEW f \in Seq(Seq(S)), NEW c, Joins(c, f, S)
  PROVE  \A n \in 0 .. Len(f) : \A i \in 1 .. Len(c[n]) :
           \E m \in 1 .. n : \E k \in 1 .. Len(f[m]) : Follows(c[n], i, f[m], k)
<1> DEFINE From(n) == \A i \in 1 .. Len(c[n]) :
                        \E m \in 1 .. n : \E k \in 1 .. Len(f[m]) : Follows(c[n], i, f[m], k)
           T == {n \in Nat : n <= Len(f) => From(n)}
<1>1. 0 \in T
  <2>1. c[0] = <<>>
    BY DEF Joins
  <2>2. 1 .. Len(c[0]) = {}
    BY <2>1
  <2>3. QED  BY <2>2
<1>2. ASSUME NEW n \in Nat, n \in T PROVE n + 1 \in T
  <2> HIDE DEF From
  <2> SUFFICES ASSUME n + 1 <= Len(f) PROVE From(n + 1)
    OBVIOUS
  <2>1. n + 1 \in 1 .. Len(f) /\ n \in 0 .. Len(f) /\ (n + 1) - 1 = n /\ n <= Len(f)
    <3>1. \A x, l \in Nat : x + 1 <= l =>
            x + 1 \in 1 .. l /\ x \in 0 .. l /\ (x + 1) - 1 = x /\ x <= l
      OBVIOUS
    <3>2. Len(f) \in Nat
      OBVIOUS
    <3>3. QED  BY <3>1, <3>2, Zenon
  <2>2. PICK s \in Seq(S), t \in Seq(S) : s = c[n] /\ t = f[n + 1] /\ c[n + 1] = s \o t
    <3>1. c[n] \in Seq(S) /\ f[n + 1] \in Seq(S)
      <4>1. c \in [0 .. Len(f) -> Seq(S)]
        BY Zenon DEF Joins
      <4>2. \A k \in 1 .. Len(f) : f[k] \in Seq(S)
        OBVIOUS
      <4>3. QED  BY <2>1, <4>1, <4>2, Zenon
    <3>2. c[n + 1] = c[n] \o f[n + 1]
      BY <2>1, Zenon DEF Joins
    <3>3. QED  BY <3>1, <3>2
  <2>3. \A i \in 1 .. Len(s) :
          \E m \in 1 .. n : \E k \in 1 .. Len(f[m]) : Follows(s, i, f[m], k)
    <3>1. From(n)
      BY <1>2, <2>1
    <3>2. QED  BY <2>2, <3>1 DEF From
  <2>4. /\ Len(s \o t) = Len(s) + Len(t) /\ Len(s) \in Nat /\ Len(t) \in Nat
        /\ \A i \in 1 .. Len(s) : (s \o t)[i] = s[i]
        /\ \A i \in 1 .. Len(t) : (s \o t)[Len(s) + i] = t[i]
    BY Concatenated
  <2>5. ASSUME NEW i \in 1 .. Len(s \o t)
        PROVE  \E m \in 1 .. n + 1 : \E k \in 1 .. Len(f[m]) : Follows(s \o t, i, f[m], k)
    <3>1. CASE i \in 1 .. Len(s)
      <4>1. PICK m \in 1 .. n : \E k \in 1 .. Len(f[m]) : Follows(s, i, f[m], k)
        BY <2>3, <3>1
      <4>2. PICK k \in 1 .. Len(f[m]) : Follows(s, i, f[m], k)
        BY <4>1
      <4>3. (s \o t)[i] = f[m][k]
        BY <2>4, <3>1, <4>2 DEF Follows
      <4>4. ASSUME k < Len(f[m])
            PROVE  i < Len(s \o t) /\ (s \o t)[i + 1] = f[m][k + 1]
        <5>1. i < Len(s) /\ s[i + 1] = f[m][k + 1]
          BY <4>2, <4>4 DEF Follows
        <5>2. \A x, l, p \in Nat : x \in 1 .. l /\ x < l => x + 1 \in 1 .. l /\ x < l + p
          OBVIOUS
        <5>3. i \in Nat
          BY <3>1
        <5>4. i + 1 \in 1 .. Len(s) /\ i < Len(s) + Len(t)
          BY <2>4, <3>1, <5>1, <5>2, <5>3, Zenon
        <5>5. QED  BY <2>4, <5>1, <5>4, Zenon
      <4>5. Follows(s \o t, i, f[m], k)
        BY <4>3, <4>4 DEF Follows
      <4>6. m \in 1 .. n + 1
        OBVIOUS
      <4>7. QED  BY <4>5, <4>6
    <3>2. CASE i \notin 1 .. Len(s)
      <4>1. PICK k \in 1 .. Len(t) : i = Len(s) + k
        BY <3>2, Concatenated
      <4>2. (s \o t)[i] = t[k]
        BY <2>4, <4>1
      <4>3. ASSUME k < Len(t)
            PROVE  i < Len(s \o t) /\ (s \o t)[i + 1] = t[k + 1]
        <5>1. \A x, l, p \in Nat : x \in 1 .. p /\ x < p =>
                x + 1 \in 1 .. p /\ l + x < l + p /\ (l + x) + 1 = l + (x + 1)
          OBVIOUS
        <5>2. k \in Nat
          BY <4>1
        <5>3. /\ k + 1 \in 1 .. Len(t) /\ Len(s) + k < Len(s) + Len(t)
              /\ (Len(s) + k) + 1 = Len(s) + (k + 1)
          BY <2>4, <4>1, <4>3, <5>1, <5>2, Zenon
        <5>4. QED  BY <2>4, <4>1, <5>3, Zenon
      <4>4. Follows(s \o t, i, t, k)
        BY <4>2, <4>3 DEF Follows
      <4>5. n + 1 \in 1 .. n + 1
        OBVIOUS
      <4>6. QED  BY <2>2, <4>4, <4>5
    <3>3. QED  BY <3>1, <3>2
  <2>6. QED  BY <2>2, <2>5 DEF From
<1>3. Nat \subseteq T
  <2> HIDE DEF T
  <2>1. QED  BY <1>1, <1>2, Induct
<1>4. ASSUME NEW n \in 0 .. Len(f) PROVE From(n)
  <2>1. n \in Nat /\ n <= Len(f)
    OBVIOUS
  <2>2. n \in T
    BY <1>3, <2>1
  <2>3. QED  BY <2>1, <2>2
<1>5. QED  BY <1>4

(***************************************************************************)
(* What a message hands over                                               *)
(***************************************************************************)
\* A transcript holds its own message's entries; until a write fails, every turn
\* with tool calls is followed by its results, or is the one being fanned out.
PairedAt(m) ==
  /\ \A k \in DOMAIN log[m] : log[m][k].of = m
  /\ m \notin patchy /\ at[m] # "dead" =>
       \A k \in DOMAIN log[m] :
         log[m][k].kind = "calls" =>
           \/ /\ k < Len(log[m])
              /\ log[m][k + 1] = Entry(m, log[m][k].turn, "results")
           \/ at[m] = "fanout" /\ k = Len(log[m]) /\ log[m][k].turn = iteration[m]

PairedInv == \A m \in Msgs : PairedAt(m)

HandTyped ==
  /\ order \in Seq(Msgs \X {"outer", "inner"})
  /\ prior \in [Msgs -> Seq(Entries)]

Handed == HandTyped /\ PairedInv

\* The history is made of transcripts: what follows an entry in its transcript
\* follows it there.
LEMMA HistoryIs ==
  ASSUME TypeInv, HandTyped, NEW m \in Msgs
  PROVE  /\ History(m) \in Seq(Entries)
         /\ \A i \in 1 .. Len(History(m)) :
              \E t \in Msgs \X {"outer", "inner"} : \E k \in 1 .. Len(Transcript(t)) :
                Follows(History(m), i, Transcript(t), k)
<1> DEFINE f == [i \in DOMAIN order |-> IF i \in Recent(m) THEN Transcript(order[i]) ELSE <<>>]
           N == Len(order)
<1>1. N \in Nat /\ DOMAIN order = 1 .. N
      /\ \A i \in 1 .. N : order[i] \in Msgs \X {"outer", "inner"}
  BY DEF HandTyped
<1>2. ASSUME NEW t \in Msgs \X {"outer", "inner"} PROVE Transcript(t) \in Seq(Entries)
  <2>1. t[1] \in Msgs
    OBVIOUS
  <2>2. log[t[1]] \in Seq(Entries)
    BY <2>1 DEF TypeInv
  <2>3. <<Entry(t[1], 0, "user")>> \in Seq(Entries)
    BY <2>1 DEF Entry, Entries
  <2>4. QED  BY <2>2, <2>3 DEF Transcript
<1>3. f \in Seq(Seq(Entries)) /\ Len(f) = N
  <2>1. \A i \in 1 .. N : f[i] \in Seq(Entries)
    <3>1. <<>> \in Seq(Entries)
      OBVIOUS
    <3>2. QED  BY <1>1, <1>2, <3>1
  <2> HIDE DEF f
  <2>2. f = [i \in 1 .. N |-> f[i]]
    BY <1>1 DEF f
  <2>3. QED  BY <1>1, <2>1, <2>2
<1>4. \A i \in 1 .. N : f[i] \in {<<>>, Transcript(order[i])}
  BY <1>1
<1>5. History(m) = FlattenSeq(f)
  BY DEF History
<1> HIDE DEF f, N
<1>6. PICK c : Joins(c, f, Entries) /\ FlattenSeq(f) = c[Len(f)]
  BY <1>3, Flattened
<1>7. c[N] = History(m) /\ N \in 0 .. Len(f)
  BY <1>1, <1>3, <1>5, <1>6
<1>8. History(m) \in Seq(Entries)
  BY <1>6, <1>7 DEF Joins
<1>9. ASSUME NEW i \in 1 .. Len(History(m))
      PROVE  \E t \in Msgs \X {"outer", "inner"} : \E k \in 1 .. Len(Transcript(t)) :
               Follows(History(m), i, Transcript(t), k)
  <2>1. PICK j \in 1 .. N :
          \E k \in 1 .. Len(f[j]) : Follows(c[N], i, f[j], k)
    <3>1. \A n \in 0 .. Len(f) : \A x \in 1 .. Len(c[n]) :
            \E y \in 1 .. n : \E z \in 1 .. Len(f[y]) : Follows(c[n], x, f[y], z)
      BY <1>3, <1>6, JoinedNext
    <3>2. i \in 1 .. Len(c[N]) /\ N \in 0 .. Len(f)
      BY <1>7
    <3>3. QED  BY <3>1, <3>2, Zenon
  <2>2. f[j] # <<>>
    BY <2>1
  <2>3. f[j] = Transcript(order[j]) /\ order[j] \in Msgs \X {"outer", "inner"}
    BY <1>1, <1>4, <2>2
  <2>4. QED  BY <1>7, <2>1, <2>3, Zenon
<1>10. QED  BY <1>8, <1>9

\* A message that is done, with every write made, hands its turns over whole.
LEMMA HistoryPaired ==
  ASSUME TypeInv, Handed, NEW m \in Msgs, NEW i \in 1 .. Len(History(m)),
         History(m)[i].kind = "calls", at[History(m)[i].of] = "done",
         History(m)[i].of \notin patchy
  PROVE  /\ i < Len(History(m))
         /\ History(m)[i + 1] = Entry(History(m)[i].of, History(m)[i].turn, "results")
<1>1. PICK t \in Msgs \X {"outer", "inner"} :
        \E k \in 1 .. Len(Transcript(t)) : Follows(History(m), i, Transcript(t), k)
  BY HistoryIs DEF Handed
<1>2. PICK k \in 1 .. Len(Transcript(t)) :
        /\ History(m)[i] = Transcript(t)[k]
        /\ k < Len(Transcript(t)) =>
             i < Len(History(m)) /\ History(m)[i + 1] = Transcript(t)[k + 1]
  BY <1>1 DEF Follows
<1>3. PICK x \in Msgs : x = t[1]
  OBVIOUS
<1>4. Transcript(t) = log[x]
  <2>1. ASSUME Transcript(t) = <<Entry(x, 0, "user")>> PROVE FALSE
    <3>1. k = 1
      BY <2>1
    <3>2. Transcript(t)[k] = Entry(x, 0, "user")
      BY <2>1, <3>1
    <3>3. QED  BY <1>2, <3>2 DEF Entry
  <2>2. QED  BY <1>3, <2>1 DEF Transcript
<1>5. log[x] \in Seq(Entries) /\ k \in DOMAIN log[x]
  BY <1>2, <1>4 DEF TypeInv
<1>6. PairedAt(x)
  BY DEF Handed, PairedInv
<1>7. log[x][k].of = x
  BY <1>5, <1>6 DEF PairedAt
<1>8. x \notin patchy /\ at[x] = "done" /\ log[x][k].kind = "calls"
  BY <1>2, <1>4, <1>7
<1>9. k < Len(log[x]) /\ log[x][k + 1] = Entry(x, log[x][k].turn, "results")
  BY <1>5, <1>6, <1>8 DEF PairedAt
<1>10. QED  BY <1>2, <1>4, <1>7, <1>9

\* What becomes of the context's order and of the histories.
LEMMA HandStep ==
  ASSUME TypeInv, HandTyped, Next
  PROVE  \E m \in Msgs :
           /\ order' = order \/ \E k \in {"outer", "inner"} : order' = Append(order, <<m, k>>)
           /\ \/ prior' = prior
              \/ prior' = [prior EXCEPT ![m] = <<>>]
              \/ prior' = [prior EXCEPT ![m] = History(m)]
<1>1. PICK m \in Msgs : StepOf(m)
  BY DEF Next, StepOf
<1> DEFINE Grown == order' = order \/ \E k \in {"outer", "inner"} : order' = Append(order, <<m, k>>)
           Loaded == \/ prior' = prior
                     \/ prior' = [prior EXCEPT ![m] = <<>>]
                     \/ prior' = [prior EXCEPT ![m] = History(m)]
<1>2. ASSUME Create(m) \/ CreateRoot(m) PROVE Grown /\ Loaded
  BY <1>2 DEF Create, CreateRoot, loop
<1>3. ASSUME Gone(m) PROVE Grown /\ Loaded
  <2>1. PICK from \in {"loading", "started", "rooted", "recorded", "ready", "turn", "fanout"},
            error \in {"told", "mute"} : Left(m, from, error)
    BY <1>3, Leavings
  <2>2. QED  BY <2>1 DEF Left, Leave, Forget
<1>4. ASSUME OtherWriter(m) \/ Crash(m) PROVE Grown /\ Loaded
  BY <1>4 DEF OtherWriter, OpenCancel, Sweep, CancelTask, Expire, Crash, Forget, loop
<1>5. ASSUME NEW bad \in BOOLEAN,
             \/ Check(m, bad) \/ Begin(m, bad) \/ StartRun(m, bad)
             \/ Complete(m, bad) \/ Settle(m, bad) \/ Reload(m, bad) \/ Finalize(m, bad)
      PROVE  Grown /\ Loaded
  BY <1>5 DEF Check, Begin, StartRun, Complete, Settle, Reload, Finalize, Forget, loop
<1>6. ASSUME NEW bad \in BOOLEAN, NEW kept \in BOOLEAN, Conclude(m, kept, bad)
      PROVE  Grown /\ Loaded
  BY <1>6 DEF Conclude
<1>7. ASSUME NEW bad \in BOOLEAN, BeginRoot(m, bad) \/ Join(m, bad) PROVE Grown /\ Loaded
  BY <1>7 DEF BeginRoot, Join
<1>8. ASSUME NEW bad \in BOOLEAN, StartLoop(m, bad) PROVE Grown /\ Loaded
  BY <1>8 DEF StartLoop
<1>9. ASSUME NEW bad \in BOOLEAN, NEW called \in SUBSET Calls, Plan(m, called, bad)
      PROVE  Grown /\ Loaded
  BY <1>9 DEF Plan
<1>10. ASSUME NEW c \in Calls, NEW bad \in BOOLEAN, StartChild(m, c, bad) \/ EndChild(m, c, bad)
       PROVE  Grown /\ Loaded
  BY <1>10 DEF StartChild, EndChild, loop
<1> HIDE DEF Grown, Loaded
<1>11. Grown /\ Loaded
  <2>1. CASE HandlerStep(m)
    BY <2>1, <1>2, <1>3, <1>5, <1>6, <1>7, <1>8, <1>9 DEF HandlerStep, Gone
  <2>2. QED  BY <1>1, <1>4, <1>5, <1>10, <2>1 DEF StepOf, ChildStep
<1>12. QED  BY <1>11 DEF Grown, Loaded

LEMMA HandTypes == TypeInv /\ HandTyped /\ [Next]_vars => HandTyped'
<1> SUFFICES ASSUME TypeInv, HandTyped, [Next]_vars PROVE HandTyped'
  OBVIOUS
<1>1. CASE UNCHANGED vars
  BY <1>1 DEF vars, loop, HandTyped
<1>2. CASE Next
  <2>1. PICK m \in Msgs :
          /\ order' = order \/ \E k \in {"outer", "inner"} : order' = Append(order, <<m, k>>)
          /\ \/ prior' = prior
             \/ prior' = [prior EXCEPT ![m] = <<>>]
             \/ prior' = [prior EXCEPT ![m] = History(m)]
    BY <1>2, HandStep
  <2>2. order' \in Seq(Msgs \X {"outer", "inner"})
    <3>1. order \in Seq(Msgs \X {"outer", "inner"})
      BY DEF HandTyped
    <3>2. ASSUME NEW k \in {"outer", "inner"}, order' = Append(order, <<m, k>>)
          PROVE  order' \in Seq(Msgs \X {"outer", "inner"})
      <4>1. <<m, k>> \in Msgs \X {"outer", "inner"}
        OBVIOUS
      <4>2. Append(order, <<m, k>>) \in Seq(Msgs \X {"outer", "inner"})
        BY <3>1, <4>1
      <4>3. QED  BY <3>2, <4>2
    <3>3. QED  BY <2>1, <3>1, <3>2
  <2>3. History(m) \in Seq(Entries) /\ <<>> \in Seq(Entries)
    BY HistoryIs
  <2>4. prior' \in [Msgs -> Seq(Entries)]
    BY <2>1, <2>3 DEF HandTyped
  <2>5. QED  BY <2>2, <2>4 DEF HandTyped
<1>3. QED  BY <1>1, <1>2

\* A step that leaves the transcript alone, and leaves the fan-out only after a
\* failed write.
LEMMA Carried ==
  ASSUME NEW n \in Msgs, PairedAt(n), log'[n] = log[n], n \in patchy => n \in patchy',
         \/ n \in patchy'
         \/ at'[n] = "dead"
         \/ at[n] \notin {"fanout", "dead"}
         \/ at'[n] = at[n] /\ iteration'[n] = iteration[n]
  PROVE  PairedAt(n)'
BY DEF PairedAt, Entry

\* The results are put behind the turn they answer, a turn behind whole ones.
LEMMA PairExtended ==
  ASSUME TypeInv, NEW n \in Msgs, PairedAt(n), patchy' = patchy,
         NEW i \in Nat, NEW kind \in {"calls", "results", "answer"},
         log' = [log EXCEPT ![n] = Append(log[n], Entry(n, i, kind))],
         \/ /\ at[n] = "turn" /\ kind \in {"calls", "answer"}
            /\ kind = "calls" => at'[n] = "fanout" /\ iteration'[n] = i
         \/ at[n] = "fanout" /\ kind = "results" /\ i = iteration[n]
  PROVE  PairedAt(n)'
<1> DEFINE e == Entry(n, i, kind)
<1>1. e.of = n /\ e.turn = i /\ e.kind = kind /\ e \in Entries
  BY DEF Entry, Entries
<1> HIDE DEF e
<1>2. PICK s \in Seq(Entries) : s = log[n]
  BY DEF TypeInv
<1>3. /\ Append(s, e) \in Seq(Entries)
      /\ Len(Append(s, e)) = Len(s) + 1 /\ Len(s) \in Nat
      /\ \A k \in 1 .. Len(s) : Append(s, e)[k] = s[k]
      /\ Append(s, e)[Len(s) + 1] = e
      /\ DOMAIN s = 1 .. Len(s) /\ DOMAIN Append(s, e) = 1 .. Len(Append(s, e))
  BY <1>1
<1>4. log'[n] = Append(s, e)
  BY <1>2 DEF TypeInv, e
<1>5. \A k \in 1 .. Len(Append(s, e)) : k \in 1 .. Len(s) \/ k = Len(s) + 1
  BY <1>3
<1>6. ASSUME NEW k \in 1 .. Len(Append(s, e)) PROVE Append(s, e)[k].of = n
  <2>1. \A x \in 1 .. Len(s) : s[x].of = n
    BY <1>2, <1>3 DEF PairedAt
  <2>2. QED  BY <1>1, <1>3, <1>5, <2>1
<1>7. ASSUME n \notin patchy,
             NEW k \in 1 .. Len(Append(s, e)), Append(s, e)[k].kind = "calls"
      PROVE  \/ /\ k < Len(Append(s, e))
                /\ Append(s, e)[k + 1] = Entry(n, Append(s, e)[k].turn, "results")
             \/ /\ at'[n] = "fanout" /\ k = Len(Append(s, e))
                /\ Append(s, e)[k].turn = iteration'[n]
  <2>1. CASE k \in 1 .. Len(s)
    <3>1. Append(s, e)[k] = s[k] /\ s[k].kind = "calls"
      BY <1>3, <1>7, <2>1
    <3>2. \/ k < Len(s) /\ s[k + 1] = Entry(n, s[k].turn, "results")
          \/ at[n] = "fanout" /\ k = Len(s) /\ s[k].turn = iteration[n]
      BY <1>2, <1>3, <1>7, <2>1, <3>1 DEF PairedAt
    <3>3. CASE k < Len(s) /\ s[k + 1] = Entry(n, s[k].turn, "results")
      <4>1. k + 1 \in 1 .. Len(s) /\ k < Len(Append(s, e))
        BY <1>3, <2>1, <3>3
      <4>2. QED  BY <1>3, <3>1, <3>3, <4>1
    <3>4. CASE at[n] = "fanout" /\ k = Len(s) /\ s[k].turn = iteration[n]
      <4>1. e = Entry(n, s[k].turn, "results")
        BY <3>4 DEF e
      <4>2. k < Len(Append(s, e)) /\ k + 1 = Len(s) + 1
        BY <1>3, <3>4
      <4>3. QED  BY <1>3, <3>1, <4>1, <4>2
    <3>5. QED  BY <3>2, <3>3, <3>4
  <2>2. CASE k = Len(s) + 1
    <3>1. Append(s, e)[k] = e /\ k = Len(Append(s, e))
      BY <1>3, <2>2
    <3>2. kind = "calls" /\ e.turn = i
      BY <1>1, <1>7, <3>1
    <3>3. QED  BY <3>1, <3>2
  <2>3. QED  BY <1>5, <2>1, <2>2
<1>8. QED  BY <1>3, <1>4, <1>6, <1>7 DEF PairedAt

LEMMA OwnPairs ==
  ASSUME IInv, NEW m \in Msgs, PairedAt(m), HandlerStep(m)
  PROVE  PairedAt(m)'
<1>1. TypeInv /\ ChildrenAt(m)
  BY DEF IInv, PlaceInv, PlaceAt
<1> USE DEF TypeOK
<1>2. CASE Create(m)
  BY <1>1, <1>2, Carried DEF Create, Move, loop, TypeInv
<1>3. CASE Gone(m)
  <2>1. PICK from \in {"loading", "started", "rooted", "recorded", "ready", "turn", "fanout"},
            error \in {"told", "mute"} :
           /\ Left(m, from, error)
           /\ from = "fanout" => patchy' = patchy /\ \E c \in Calls : child[m][c] \in Raised
    BY <1>1, <1>3, Leavings
  <2>2. at[m] = from /\ log' = log /\ (m \in patchy => m \in patchy')
    BY <1>1, <2>1, LeftTypes
  <2>3. CASE from = "fanout"
    <3>1. m \in patchy
      BY <1>1, <2>1, <2>3 DEF ChildrenAt
    <3>2. QED  BY <2>2, <3>1, Carried
  <2>4. CASE from # "fanout"
    BY <2>2, <2>4, Carried
  <2>5. QED  BY <2>3, <2>4
<1>4. CASE CreateRoot(m)
  BY <1>1, <1>4, Carried DEF CreateRoot, Move, loop
<1>5. ASSUME NEW bad \in BOOLEAN PROVE Faulty(m, bad) => (m \in patchy => m \in patchy')
  BY DEF Faulty
<1>6. ASSUME NEW bad \in BOOLEAN,
             \/ Begin(m, bad) \/ StartRun(m, bad) \/ StartLoop(m, bad)
             \/ Complete(m, bad) \/ Settle(m, bad) \/ Reload(m, bad) \/ Finalize(m, bad)
      PROVE  PairedAt(m)'
  <2>1. at[m] \notin {"fanout", "dead"} /\ log' = log /\ Faulty(m, bad)
    BY <1>6 DEF Begin, StartRun, StartLoop, Complete, Settle, Reload, Finalize, Move, loop
  <2>2. QED  BY <1>5, <2>1, Carried
<1>7. ASSUME NEW bad \in BOOLEAN, NEW kept \in BOOLEAN, Conclude(m, kept, bad)
      PROVE  PairedAt(m)'
  <2>1. at[m] = "turn" /\ Faulty(m, bad)
    BY <1>7 DEF Conclude, Move
  <2>2. iteration'[m] \in Nat
    BY <1>1, <1>7, ConstantsAssumption DEF Conclude, TypeInv
  <2>3. CASE bad \/ ~kept
    <3>1. log'[m] = log[m]
      BY <1>1, <1>7, <2>3 DEF Conclude, Store, TypeInv
    <3>2. QED  BY <1>5, <2>1, <3>1, Carried
  <2>4. CASE ~bad /\ kept
    <3>1. log' = [log EXCEPT ![m] = Append(log[m], Entry(m, iteration'[m], "answer"))]
      BY <1>7, <2>4 DEF Conclude, Store
    <3>2. patchy' = patchy
      BY <2>1, <2>4 DEF Faulty
    <3>3. QED  BY <1>1, <2>1, <2>2, <3>1, <3>2, PairExtended
  <2>5. QED  BY <2>3, <2>4
<1>8. ASSUME NEW bad \in BOOLEAN, BeginRoot(m, bad) PROVE PairedAt(m)'
  <2>1. at[m] = "rooted" /\ Faulty(m, bad)
        /\ log' \in {log, [log EXCEPT ![m] = <<Entry(m, 0, "user")>>]}
    BY <1>8 DEF BeginRoot, Move
  <2>2. CASE log' = log
    BY <1>5, <2>1, <2>2, Carried
  <2>3. CASE log' = [log EXCEPT ![m] = <<Entry(m, 0, "user")>>]
    <3>1. log'[m] = <<Entry(m, 0, "user")>>
      BY <1>1, <2>3 DEF TypeInv
    <3>2. DOMAIN log'[m] = {1} /\ log'[m][1] = Entry(m, 0, "user")
      BY <3>1
    <3>3. log'[m][1].of = m /\ log'[m][1].kind = "user"
      BY <3>2 DEF Entry
    <3>4. QED  BY <3>2, <3>3 DEF PairedAt
  <2>4. QED  BY <2>1, <2>2, <2>3
<1>9. ASSUME NEW bad \in BOOLEAN, Join(m, bad) PROVE PairedAt(m)'
  <2>1. at[m] = "fanout" /\ Faulty(m, bad) /\ iteration' = iteration
        /\ log' = [log EXCEPT ![m] =
                      IF bad THEN log[m] ELSE Append(log[m], Entry(m, iteration[m], "results"))]
    BY <1>9 DEF Join, Move, Store
  <2>2. CASE bad
    <3>1. m \in patchy' /\ log'[m] = log[m]
      BY <1>1, <2>1, <2>2 DEF Faulty, TypeInv
    <3>2. QED  BY <3>1, Carried
  <2>3. CASE ~bad
    <3>1. log' = [log EXCEPT ![m] = Append(log[m], Entry(m, iteration[m], "results"))]
      BY <2>1, <2>3
    <3>2. iteration[m] \in Nat
      BY <1>1, ConstantsAssumption DEF TypeInv
    <3>3. patchy' = patchy
      BY <2>1, <2>3 DEF Faulty
    <3>4. QED  BY <1>1, <2>1, <3>1, <3>2, <3>3, PairExtended
  <2>4. QED  BY <2>2, <2>3
<1>10. ASSUME NEW bad \in BOOLEAN, NEW called \in SUBSET Calls, Plan(m, called, bad)
       PROVE  PairedAt(m)'
  <2>1. /\ at'[m] = "fanout"
        /\ log' = [log EXCEPT ![m] =
                      IF bad THEN log[m] ELSE Append(log[m], Entry(m, iteration'[m], "calls"))]
    BY <1>1, <1>10 DEF Plan, Store, Move, TypeInv
  <2>2. at[m] = "turn" /\ Faulty(m, bad)
    BY <1>10 DEF Plan, Move
  <2>3. iteration'[m] \in Nat
    BY <1>1, <1>10, ConstantsAssumption DEF Plan, TypeInv
  <2>4. CASE bad
    <3>1. m \in patchy' /\ log'[m] = log[m]
      BY <1>1, <2>1, <2>2, <2>4 DEF Faulty, TypeInv
    <3>2. QED  BY <3>1, Carried
  <2>5. CASE ~bad
    <3>1. log' = [log EXCEPT ![m] = Append(log[m], Entry(m, iteration'[m], "calls"))]
      BY <2>1, <2>5
    <3>2. patchy' = patchy
      BY <2>2, <2>5 DEF Faulty
    <3>3. QED  BY <1>1, <2>1, <2>2, <2>3, <3>1, <3>2, PairExtended
  <2>6. QED  BY <2>4, <2>5
<1>11. QED
  BY <1>2, <1>3, <1>4, <1>6, <1>7, <1>8, <1>9, <1>10, Zenon DEF HandlerStep, Gone

LEMMA PairedStep == IInv /\ PairedInv /\ [Next]_vars => PairedInv'
<1> SUFFICES ASSUME IInv, PairedInv, [Next]_vars, NEW n \in Msgs PROVE PairedAt(n)'
  BY DEF PairedInv
<1>1. PairedAt(n) /\ TypeInv
  BY DEF PairedInv, IInv
<1>2. CASE UNCHANGED vars
  <2>1. /\ log'[n] = log[n] /\ patchy' = patchy
        /\ at'[n] = at[n] /\ iteration'[n] = iteration[n]
    BY <1>2 DEF vars, loop
  <2>2. QED  BY <1>1, <2>1, Carried
<1>3. CASE Next
  <2>1. PICK m \in Msgs : StepOf(m)
    BY <1>3 DEF Next, StepOf
  <2>2. CASE n # m
    <3>1. Untouched(n)
      BY <1>1, <2>1, <2>2, OthersUntouched
    <3>2. log'[n] = log[n] /\ (n \in patchy => n \in patchy')
      BY <3>1 DEF Untouched
    <3>3. at'[n] = at[n] /\ iteration'[n] = iteration[n]
      BY <3>1 DEF Untouched
    <3>4. QED  BY <1>1, <3>2, <3>3, Carried
  <2>3. CASE n = m
    <3>1. CASE HandlerStep(n)
      BY <1>1, <3>1, OwnPairs
    <3>2. ASSUME NEW bad \in BOOLEAN PROVE Faulty(n, bad) => (n \in patchy => n \in patchy')
      BY DEF Faulty
    <3>3. ASSUME NEW bad \in BOOLEAN, Check(n, bad) PROVE PairedAt(n)'
      <4>1. at[n] = "idle" /\ log' = log /\ Faulty(n, bad)
        BY <3>3 DEF Check, Move, loop
      <4>2. QED  BY <1>1, <3>2, <4>1, Carried
    <3>4. ASSUME NEW c \in Calls, NEW bad \in BOOLEAN, StartChild(n, c, bad) \/ EndChild(n, c, bad)
          PROVE  PairedAt(n)'
      <4>1. at' = at /\ iteration' = iteration /\ log' = log /\ Faulty(n, bad)
        BY <3>4 DEF StartChild, EndChild, loop
      <4>2. QED  BY <1>1, <3>2, <4>1, Carried
    <3>5. CASE OtherWriter(n)
      <4>1. at' = at /\ iteration' = iteration /\ log' = log /\ patchy' = patchy
        BY <3>5 DEF OtherWriter, OpenCancel, Sweep, CancelTask, Expire, loop
      <4>2. QED  BY <1>1, <4>1, Carried
    <3>6. CASE Crash(n)
      <4>1. at'[n] = "dead" /\ log' = log /\ patchy' = patchy
        BY <1>1, <3>6 DEF Crash, TypeInv, TypeOK
      <4>2. QED  BY <1>1, <4>1, Carried
    <3>7. QED  BY <2>1, <2>3, <3>1, <3>3, <3>4, <3>5, <3>6 DEF StepOf, ChildStep
  <2>4. QED  BY <2>2, <2>3
<1>4. QED  BY <1>2, <1>3

LEMMA InitHanded == Init => Handed
<1> SUFFICES ASSUME Init PROVE Handed
  OBVIOUS
<1>1. HandTyped
  BY DEF Init, HandTyped
<1>2. ASSUME NEW m \in Msgs PROVE PairedAt(m)
  <2>1. log[m] = <<>>
    BY DEF Init
  <2>2. DOMAIN log[m] = {}
    BY <2>1
  <2>3. QED  BY <2>2 DEF PairedAt
<1>3. QED  BY <1>1, <1>2 DEF Handed, PairedInv

\* Only the start of a loop shows the planner a history.
LEMMA HandedOver ==
  IInv /\ Handed /\ [Next]_vars =>
    [\A m \in Msgs :
       prior'[m] # prior[m] =>
         \A i \in DOMAIN prior'[m] :
           LET e == prior'[m][i]
           IN e.kind = "calls" /\ at[e.of] = "done" /\ e.of \notin patchy =>
                /\ i < Len(prior'[m])
                /\ prior'[m][i + 1] = Entry(e.of, e.turn, "results")]_vars
<1> SUFFICES ASSUME IInv, Handed, Next, NEW m \in Msgs, prior'[m] # prior[m],
                    NEW i \in DOMAIN prior'[m], prior'[m][i].kind = "calls",
                    at[prior'[m][i].of] = "done", prior'[m][i].of \notin patchy
             PROVE  /\ i < Len(prior'[m])
                    /\ prior'[m][i + 1] = Entry(prior'[m][i].of, prior'[m][i].turn, "results")
  BY Zenon
<1>1. TypeInv /\ HandTyped
  BY DEF IInv, Handed
<1>2. PICK n \in Msgs :
        \/ prior' = prior
        \/ prior' = [prior EXCEPT ![n] = <<>>]
        \/ prior' = [prior EXCEPT ![n] = History(n)]
  BY <1>1, HandStep
<1>3. prior'[m] \in {<<>>, History(m)}
  BY <1>1, <1>2 DEF HandTyped
<1>4. prior'[m] = History(m)
  <2>1. DOMAIN <<>> = {}
    OBVIOUS
  <2>2. QED  BY <1>3, <2>1
<1>5. i \in 1 .. Len(History(m))
  BY <1>1, <1>4, HistoryIs
<1>6. QED  BY <1>1, <1>4, <1>5, HistoryPaired

\* The history of a context's finished messages comes whole to the planner that
\* loads it, turn by turn with its results, unless a write was refused
\* (_load_context_history, which repairs nothing).
THEOREM HandoverIsClean == Spec => CleanHandover
<1>1. IInv /\ Handed /\ [Next]_vars => Handed'
  BY HandTypes, PairedStep DEF IInv, Handed
<1>2. IInv /\ Handed /\ [Next]_vars =>
        [\A m \in Msgs :
           prior'[m] # prior[m] =>
             \A i \in DOMAIN prior'[m] :
               LET e == prior'[m][i]
               IN e.kind = "calls" /\ at[e.of] = "done" /\ e.of \notin patchy =>
                    /\ i < Len(prior'[m])
                    /\ prior'[m][i + 1] = Entry(e.of, e.turn, "results")]_vars
  BY HandedOver
<1>3. QED
  BY <1>1, <1>2, InitInv, InitHanded, Inductive, PTL DEF Spec, CleanHandover
=============================================================================
