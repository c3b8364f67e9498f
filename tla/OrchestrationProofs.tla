------------------------- MODULE OrchestrationProofs -------------------------
(***************************************************************************)
(* Proofs about Orchestration, for any agents, budget, iterations, bounds  *)
(* and attempts: its types, the roles of a task's messages, the budget     *)
(* over continue_as_new, that a closed workflow has settled its rows, and  *)
(* that the planner is shown every tool call with its results.             *)
(***************************************************************************)
EXTENDS Orchestration, FiniteSetTheorems, WellFoundedInduction, TLAPS

\* The run's row is known from init_run on, and never before.
RowKnown ==
  /\ stage \in {"load", "init"} => run = 0 /\ msgSeq = 1
  /\ stage \notin {"load", "init", "closed"} => run > 0

\* The next seq is odd for a turn and even for its results, and there are two
\* for every iteration begun.
SeqInStep ==
  /\ stage \in {"load", "init"} => msgSeq <= 2 * iteration + 1
  /\ stage = "plan" => msgSeq % 2 = 1 /\ msgSeq <= 2 * iteration - 1
  /\ stage \in {"fanout", "human", "record"} => msgSeq % 2 = 0 /\ msgSeq <= 2 * iteration
  /\ stage = "summary" => msgSeq % 2 = 1 /\ msgSeq <= 2 * iteration + 1

\* What the usage rows may add up to: the tokens the workflow counted and a
\* turn for every lost result; one more once a planning turn was cancelled
\* after its usage was written, when no other is going to follow.
BilledSoFar ==
  /\ stage = "plan" => tokens < Budget
  /\ tokens = 0 \/ tokens < Budget + MaxCost
  /\ \/ billed <= tokens + lost * MaxCost
     \/ /\ stage \in {"finalize", "closed"} /\ tokens < Budget
        /\ billed <= tokens + lost * MaxCost + MaxCost

\* A row the workflow no longer holds is settled; the one it holds is working
\* until finalize_run begins.
Settled(r) ==
  /\ rows[r].status \in RunStatuses
  /\ rows[r].task \in {"completed", "failed"}
  /\ rows[r].status = "completed" <=> rows[r].task = "completed"

RowsFollow ==
  /\ \A r \in DOMAIN rows \ excused : r # run \/ stage = "closed" => Settled(r)
  /\ run > 0 /\ run \notin excused /\ stage # "closed" =>
       \/ rows[run].task = "working"
       \/ stage = "finalize" /\ rows[run].task = TaskState(runStatus)

\* The child tasks of a run are those of its running calls, but for the ones
\* left behind by a lost attempt.
Working == InFlight \cap Agents

ChildrenCounted ==
  run > 0 =>
    /\ stage = "fanout" =>
         /\ rows[run].open >= Cardinality(Working)
         /\ lost = 0 => rows[run].open = Cardinality(Working)
    /\ stage # "fanout" /\ lost = 0 /\ (stage = "closed" => ~cancelled) =>
         rows[run].open = 0

\* The wait for a person begins when nothing else of the turn is under way.
CallsOver ==
  stage = "human" => \A s \in Slots : call[s] \notin {"queued", "running"}

IInv == /\ TypeOK /\ RowKnown /\ SeqInStep /\ RolesBySeq /\ BilledSoFar
        /\ RowsFollow /\ ChildrenCounted /\ CallsOver /\ ResultsComplete

-----------------------------------------------------------------------------
LEMMA CostsHaveMax == MaxCost \in Nat /\ \A c \in Costs : c <= MaxCost
BY ConstantsAssumption DEF MaxCost

\* One more lost result raises the bound of BilledSoFar by one turn.
LEMMA LostTimesCost ==
  ASSUME TypeOK
  PROVE  /\ lost * MaxCost \in Nat /\ (lost + 1) * MaxCost = lost * MaxCost + MaxCost
         /\ (1 + lost) * MaxCost = lost * MaxCost + MaxCost
         /\ MaxCost = 0 => lost * MaxCost = 0
<1>1. lost \in Nat
  BY ConstantsAssumption DEF TypeOK
<1>2. ASSUME NEW m \in Nat, NEW n \in Nat
      PROVE  /\ n * m \in Nat /\ (n + 1) * m = n * m + m /\ (1 + n) * m = n * m + m
             /\ m = 0 => n * m = 0
  OBVIOUS
<1> QED
  BY <1>1, <1>2, CostsHaveMax

LEMMA MessageKept ==
  /\ UserMessage \in KeptMessages /\ NoMessage \in KeptMessages
  /\ UserMessage.kind = "user" /\ NoMessage.kind = "none"
  /\ TypeOK => Results \in KeptMessages /\ Results.kind = "results"
  /\ \A a, b, c \in Nat, calls \in BOOLEAN :
       /\ Message("turn", <<a, b, c>>, calls) \in KeptMessages
       /\ Message("turn", <<a, b, c>>, calls).kind = "turn"
<1>1. UserMessage \in KeptMessages /\ NoMessage \in KeptMessages
  BY DEF UserMessage, NoMessage, KeptMessages
<1>2. UserMessage.kind = "user" /\ NoMessage.kind = "none"
  BY DEF UserMessage, NoMessage, Message
<1>3. ASSUME TypeOK PROVE Results \in KeptMessages /\ Results.kind = "results"
  <2>1. turn.id \in Nat \X Nat \X Nat
    <3>1. CASE turn \in {UserMessage, NoMessage}
      BY <3>1 DEF UserMessage, NoMessage, Message, NoTurn
    <3>2. CASE turn \notin {UserMessage, NoMessage}
      BY <1>3, <3>2 DEF TypeOK, KeptMessages
    <3> QED
      BY <3>1, <3>2
  <2> QED
    BY <2>1 DEF Results, Message, KeptMessages
<1>4. ASSUME NEW a \in Nat, NEW b \in Nat, NEW c \in Nat, NEW calls \in BOOLEAN
      PROVE  /\ Message("turn", <<a, b, c>>, calls) \in KeptMessages
             /\ Message("turn", <<a, b, c>>, calls).kind = "turn"
  BY DEF Message, KeptMessages
<1> QED
  BY <1>1, <1>2, <1>3, <1>4

LEMMA OwnRow ==
  ASSUME TypeOK, run > 0
  PROVE  /\ run \in DOMAIN rows /\ run \in 1 .. Len(rows) /\ rows[run] \in Row
         /\ rows[run].open \in Nat
<1>1. rows \in Seq(Row) /\ run \in 0 .. Len(rows) /\ Len(rows) \in Nat
  BY DEF TypeOK
<1>2. run \in 1 .. Len(rows) /\ rows[run] \in Row
  BY <1>1
<1> QED
  BY <1>1, <1>2 DEF Row

(***************************************************************************)
(* What the three updates of the run's row leave alone                     *)
(***************************************************************************)
\* The rows are those of before, and so are the fields the properties compare.
SameRows(fields) ==
  /\ rows' \in Seq(Row) /\ DOMAIN rows' = DOMAIN rows /\ Len(rows') = Len(rows)
  /\ "status" \in fields => \A r \in DOMAIN rows : rows'[r].status = rows[r].status
  /\ "task" \in fields => \A r \in DOMAIN rows : rows'[r].task = rows[r].task
  /\ "msgs" \in fields => \A r \in DOMAIN rows : rows'[r].msgs = rows[r].msgs
  /\ "open" \in fields => \A r \in DOMAIN rows : rows'[r].open = rows[r].open
  /\ \A r \in DOMAIN rows : r # run => rows'[r] = rows[r]

LEMMA StoreMessageKeeps ==
  ASSUME TypeOK, run > 0, NEW seq \in Nat, NEW m \in KeptMessages, StoreMessage(seq, m)
  PROVE  /\ SameRows({"status", "task", "open"})
         /\ \A r \in DOMAIN rows : \A n \in Seqs :
              \/ rows'[r].msgs[n] = rows[r].msgs[n]
              \/ n = seq /\ rows'[r].msgs[n] = m
<1> DEFINE new == [rows[run].msgs EXCEPT ![seq] = IF @ = NoMessage THEN m ELSE @]
<1>1. rows \in Seq(Row) /\ run \in 1 .. Len(rows) /\ rows[run] \in Row
  BY OwnRow DEF TypeOK
<1>2. rows[run].msgs \in [Seqs -> KeptMessages]
  BY <1>1 DEF Row
<1>3. new \in [Seqs -> KeptMessages]
  BY <1>2
<1>4. \A n \in Seqs : new[n] = rows[run].msgs[n] \/ (n = seq /\ new[n] = m)
  BY <1>2
<1> HIDE DEF new
<1>5. rows' = [rows EXCEPT ![run] = [rows[run] EXCEPT !.msgs = new]]
  BY <1>1 DEF StoreMessage, new
<1>6. [rows[run] EXCEPT !.msgs = new] \in Row
  BY <1>1, <1>3 DEF Row
<1>7. /\ [rows[run] EXCEPT !.msgs = new].status = rows[run].status
      /\ [rows[run] EXCEPT !.msgs = new].task = rows[run].task
      /\ [rows[run] EXCEPT !.msgs = new].open = rows[run].open
      /\ [rows[run] EXCEPT !.msgs = new].msgs = new
  BY <1>1 DEF Row
<1>8. /\ rows' \in Seq(Row) /\ DOMAIN rows' = DOMAIN rows /\ Len(rows') = Len(rows)
      /\ rows'[run] = [rows[run] EXCEPT !.msgs = new]
      /\ \A r \in DOMAIN rows : r # run => rows'[r] = rows[r]
  BY <1>1, <1>5, <1>6
<1> QED
  BY <1>4, <1>7, <1>8, ZenonT(40) DEF SameRows

LEMMA OpenTasksKeeps ==
  ASSUME TypeOK, run > 0, NEW n \in Nat, OpenTasks(n)
  PROVE  SameRows({"status", "task", "msgs"}) /\ rows'[run].open = n
<1> DEFINE new == [rows[run] EXCEPT !.open = n]
<1>1. rows \in Seq(Row) /\ run \in 1 .. Len(rows) /\ rows[run] \in Row
  BY OwnRow DEF TypeOK
<1>2. new \in Row
  BY <1>1 DEF Row
<1>3. /\ new.status = rows[run].status /\ new.task = rows[run].task
      /\ new.msgs = rows[run].msgs /\ new.open = n
  BY <1>1 DEF Row
<1>4. rows' = [rows EXCEPT ![run] = new]
  BY <1>1 DEF OpenTasks
<1> HIDE DEF new
<1>5. /\ rows' \in Seq(Row) /\ DOMAIN rows' = DOMAIN rows /\ Len(rows') = Len(rows)
      /\ rows'[run] = new /\ \A r \in DOMAIN rows : r # run => rows'[r] = rows[r]
  BY <1>1, <1>2, <1>4
<1> QED
  BY <1>3, <1>5 DEF SameRows

(***************************************************************************)
(* What the helpers of the actions lead to                                 *)
(***************************************************************************)
LEMMA WorkingFinite ==
  /\ IsFiniteSet(Slots) /\ IsFiniteSet(Working) /\ IsFiniteSet(Working')
  /\ Cardinality(Working) \in Nat /\ Cardinality(Working') \in Nat
<1>1. IsFiniteSet(Slots)
  BY ConstantsAssumption
<1>2. Working \subseteq Slots /\ Working' \subseteq Slots
  BY DEF Working, InFlight
<1> QED
  BY <1>1, <1>2, FS_Subset, FS_CardinalityType

\* The product in BilledSoFar when a result may have been lost.
LEMMA LostGrows ==
  ASSUME TypeOK, lost' = lost \/ lost' = lost + 1
  PROVE  /\ lost * MaxCost \in Nat /\ lost' * MaxCost \in Nat
         /\ lost' = lost => lost' * MaxCost = lost * MaxCost
         /\ lost' = lost + 1 => lost' * MaxCost = lost * MaxCost + MaxCost
         /\ lost' * MaxCost >= lost * MaxCost
<1>1. lost \in Nat /\ lost' \in Nat /\ MaxCost \in Nat
  BY CostsHaveMax, ConstantsAssumption DEF TypeOK
<1>2. ASSUME NEW m \in Nat, NEW n \in Nat
      PROVE  n * m \in Nat
  OBVIOUS
<1>3. lost * MaxCost \in Nat /\ lost' * MaxCost \in Nat
  BY <1>1, <1>2
<1>4. lost' = lost + 1 => lost' * MaxCost = lost * MaxCost + MaxCost
  BY LostTimesCost
<1>5. lost' * MaxCost >= lost * MaxCost
  <2>1. \A m, n \in Nat : n * m \in Nat => (n * m) + m >= n * m /\ n * m >= n * m
    OBVIOUS
  <2>2. CASE lost' = lost
    BY <1>1, <1>3, <2>1, <2>2
  <2>3. CASE lost' = lost + 1
    BY <1>1, <1>3, <1>4, <2>1, <2>3
  <2> QED
    BY <2>2, <2>3
<1> QED
  BY <1>3, <1>4, <1>5

LEMMA AttemptedLeads ==
  ASSUME TypeOK, NEW how, Attempted(how)
  PROVE  /\ lost' \in 0 .. MaxLost /\ cancelled' \in BOOLEAN
         /\ lost' = IF how = "lost" THEN lost + 1 ELSE lost
         /\ how # "canceled" => cancelled' = cancelled
         /\ (how = "canceled" \/ cancelled) => cancelled'
<1>1. lost' \in 0 .. MaxLost /\ lost' = IF how = "lost" THEN lost + 1 ELSE lost
  BY ConstantsAssumption DEF TypeOK, Attempted
<1>2. cancelled \in BOOLEAN /\ cancelled' = (cancelled \/ how = "canceled")
  BY Zenon DEF TypeOK, Attempted
<1>3. /\ cancelled' \in BOOLEAN
      /\ how # "canceled" => cancelled' = cancelled
      /\ (how = "canceled" \/ cancelled) => cancelled'
  BY <1>2
<1> QED
  BY <1>1, <1>3

LEMMA SwallowedLeads ==
  ASSUME TypeOK, NEW missing \in BOOLEAN, Swallowed(missing)
  PROVE  dbErrors' \in 0 .. MaxDbErrors
BY ConstantsAssumption DEF TypeOK, Swallowed

LEMMA UnfinishedLeads ==
  ASSUME TypeOK, NEW how, Unfinished(how)
  PROVE  /\ attempt' \in 1 .. Attempts /\ runStatus' \in RunStatuses
         /\ how \in {"lost", "canceled"}
         /\ \/ how = "lost" /\ stage' = stage
            \/ stage' = IF run = 0 THEN "closed" ELSE "finalize"
BY ConstantsAssumption DEF TypeOK, Unfinished, Conclude, Await, RunStatuses

LEMMA LoopTopLeads ==
  ASSUME TypeOK, LoopTop
  PROVE  /\ attempt' \in 1 .. Attempts /\ runStatus' \in RunStatuses
         /\ iteration' \in 0 .. MaxIterations
         /\ \/ stage' = "finalize"
            \/ stage' = "plan" /\ tokens < Budget /\ iteration' = iteration + 1
BY ConstantsAssumption DEF TypeOK, LoopTop, Await, RunStatuses

LEMMA FreshMemoryLeads ==
  ASSUME FreshMemory
  PROVE  /\ turn' \in KeptMessages /\ call' \in [Slots -> CallStates]
         /\ tries' \in [Slots -> 0 .. Attempts]
         /\ reply' = FALSE /\ answered' = FALSE
         /\ run' = 0 /\ msgSeq' = 1 /\ sinceSummary' = 0
BY MessageKept, ConstantsAssumption DEF FreshMemory, CallStates

-----------------------------------------------------------------------------
LEMMA Initially == Init => IInv
<1> SUFFICES ASSUME Init PROVE IInv
  OBVIOUS
<1>1. TypeOK
  <2>1. rows \in Seq(Row) /\ run \in 0 .. Len(rows) /\ excused \subseteq DOMAIN rows
    BY DEF Init
  <2>2. turn \in KeptMessages
    BY MessageKept DEF Init
  <2>3. call \in [Slots -> CallStates] /\ tries \in [Slots -> 0 .. Attempts]
    BY ConstantsAssumption DEF Init, CallStates
  <2>4. stage \in Stages /\ runStatus \in RunStatuses
    BY DEF Init, Stages, RunStatuses
  <2>5. /\ attempt \in 1 .. Attempts /\ iteration \in 0 .. MaxIterations
        /\ msgSeq \in 1 .. 2 * MaxIterations + 1
        /\ userTurns \in 0 .. MaxTurns /\ lost \in 0 .. MaxLost
        /\ dbErrors \in 0 .. MaxDbErrors
    BY ConstantsAssumption DEF Init
  <2> QED
    BY <2>1, <2>2, <2>3, <2>4, <2>5 DEF TypeOK, Init
<1>2. RowKnown /\ SeqInStep /\ CallsOver /\ ResultsComplete /\ ChildrenCounted
  BY DEF Init, RowKnown, SeqInStep, CallsOver, ResultsComplete, ChildrenCounted
<1>3. RolesBySeq /\ RowsFollow
  BY DEF Init, RolesBySeq, RowsFollow
<1>4. BilledSoFar
  BY LostTimesCost, <1>1, CostsHaveMax DEF Init, BilledSoFar
<1> QED
  BY <1>1, <1>2, <1>3, <1>4 DEF IInv

(***************************************************************************)
(* Every action keeps IInv                                                 *)
(***************************************************************************)
LEMMA StartWorkflowKeeps ==
  ASSUME IInv, StartWorkflow
  PROVE  IInv'
<1> USE DEF IInv
<1>1. /\ stage = "closed" /\ stage' = "load" /\ UNCHANGED <<rows, lost, dbErrors, excused>>
      /\ run' = 0 /\ msgSeq' = 1 /\ tokens' = 0 /\ billed' = 0 /\ iteration' = 0
  BY FreshMemoryLeads DEF StartWorkflow, Await
<1>2. TypeOK'
  <2>1. attempt' \in 1 .. Attempts /\ runStatus' \in RunStatuses
    BY ConstantsAssumption DEF StartWorkflow, Await, RunStatuses
  <2>2. /\ stage' \in Stages /\ iteration' \in 0 .. MaxIterations
        /\ msgSeq' \in 1 .. 2 * MaxIterations + 1
    BY <1>1, ConstantsAssumption DEF Stages
  <2>3. userTurns' \in 0 .. MaxTurns /\ cancelled' = FALSE
    BY ConstantsAssumption DEF StartWorkflow, TypeOK
  <2>4. /\ turn' \in KeptMessages /\ call' \in [Slots -> CallStates]
        /\ tries' \in [Slots -> 0 .. Attempts]
        /\ reply' = FALSE /\ answered' = FALSE /\ sinceSummary' = 0
    BY FreshMemoryLeads DEF StartWorkflow
  <2>5. /\ rows' \in Seq(Row) /\ run' \in 0 .. Len(rows')
        /\ excused' \subseteq DOMAIN rows'
    BY <1>1 DEF TypeOK
  <2>6. lost' \in 0 .. MaxLost /\ dbErrors' \in 0 .. MaxDbErrors
    BY <1>1 DEF TypeOK
  <2> QED
    BY <1>1, <2>1, <2>2, <2>3, <2>4, <2>5, <2>6 DEF TypeOK
<1>3. RowKnown' /\ SeqInStep' /\ CallsOver' /\ ResultsComplete' /\ ChildrenCounted'
  BY <1>1 DEF RowKnown, SeqInStep, CallsOver, ResultsComplete, ChildrenCounted
<1>4. RolesBySeq' /\ RowsFollow'
  BY <1>1 DEF RolesBySeq, RowsFollow, Settled
<1>5. BilledSoFar'
  BY <1>1, LostGrows DEF BilledSoFar
<1> QED
  BY <1>2, <1>3, <1>4, <1>5

LEMMA LoadContextKeeps ==
  ASSUME IInv, NEW how, LoadContext(how)
  PROVE  IInv'
<1> USE DEF IInv
<1>1. /\ stage = "load" /\ run = 0 /\ UNCHANGED <<rows, run, dbErrors, userTurns, excused>>
      /\ UNCHANGED <<iteration, tokens, msgSeq, sinceSummary, turn, call, tries, reply>>
      /\ UNCHANGED <<billed, answered>> /\ Attempted(how)
  BY DEF LoadContext, loop, fan, history, RowKnown
<1>2. /\ lost' = lost \/ lost' = lost + 1
      /\ attempt' \in 1 .. Attempts /\ runStatus' \in RunStatuses
      /\ stage' \in {"load", "init", "closed"}
  <2>1. CASE Unfinished(how)
    BY <1>1, <2>1, UnfinishedLeads, AttemptedLeads
  <2>2. CASE ~Unfinished(how)
    BY <1>1, <2>2, AttemptedLeads, ConstantsAssumption DEF LoadContext, Await, TypeOK
  <2> QED
    BY <2>1, <2>2
<1>3. TypeOK'
  BY <1>1, <1>2, AttemptedLeads DEF TypeOK, Stages
<1>4. RowKnown' /\ SeqInStep' /\ CallsOver' /\ ResultsComplete' /\ ChildrenCounted'
  BY <1>1, <1>2 DEF RowKnown, SeqInStep, CallsOver, ResultsComplete, ChildrenCounted
<1>5. RolesBySeq' /\ RowsFollow'
  BY <1>1, <1>2 DEF RolesBySeq, RowsFollow, Settled, TypeOK
<1>6. BilledSoFar'
  <2>1. billed <= tokens + lost * MaxCost /\ stage' # "plan"
    BY <1>1, <1>2 DEF BilledSoFar
  <2>2. lost' * MaxCost >= lost * MaxCost
    BY <1>2, LostGrows, CostsHaveMax
  <2> QED
    BY <1>1, <2>1, <2>2, LostGrows, <1>2 DEF BilledSoFar, TypeOK
<1> QED
  BY <1>3, <1>4, <1>5, <1>6

LEMMA NewRow ==
  ASSUME NEW made
  PROVE  /\ RunRow(made) \in Row /\ RunRow(made).open = 0
         /\ "task" \in made /\ "working" \in made => RunRow(made).task = "working"
         /\ \A n \in Seqs : /\ RunRow(made).msgs[n].kind \in {"user", "none"}
                            /\ n # 0 => RunRow(made).msgs[n].kind = "none"
<1> DEFINE first == [n \in Seqs |-> IF n = 0 /\ "message" \in made
                                    THEN UserMessage ELSE NoMessage]
           state == IF "task" \notin made THEN "none"
                    ELSE IF "working" \in made THEN "working" ELSE "submitted"
<1>1. first \in [Seqs -> KeptMessages]
  BY MessageKept
<1>2. \A n \in Seqs : /\ first[n].kind \in {"user", "none"}
                      /\ n # 0 => first[n].kind = "none"
  BY MessageKept
<1>3. state \in {"none", "submitted", "working"}
  OBVIOUS
<1>4. "task" \in made /\ "working" \in made => state = "working"
  OBVIOUS
<1>5. RunRow(made) = [status |-> "running", task |-> state, msgs |-> first, open |-> 0]
  BY DEF RunRow
<1> HIDE DEF first, state
<1> QED
  BY <1>1, <1>2, <1>3, <1>4, <1>5 DEF Row

LEMMA InitRunKeeps ==
  ASSUME IInv, NEW made \in SUBSET InitWrites, NEW how, InitRun(made, how)
  PROVE  IInv'
<1> USE DEF IInv
<1>1. /\ stage = "init" /\ run = 0 /\ msgSeq = 1 /\ Attempted(how)
      /\ UNCHANGED <<tokens, msgSeq, sinceSummary, turn, call, tries, reply>>
      /\ UNCHANGED <<userTurns, billed, answered>>
      /\ rows' = IF made = {} THEN rows ELSE Append(rows, RunRow(made))
      /\ how = "ok" => "task" \in made
  BY DEF InitRun, mind, fan, RowKnown
<1>2. /\ rows \in Seq(Row) /\ rows' \in Seq(Row)
      /\ \A r \in DOMAIN rows : r \in DOMAIN rows' /\ rows'[r] = rows[r]
      /\ \A r \in DOMAIN rows' : r \in DOMAIN rows \/ rows'[r] = RunRow(made)
      /\ made # {} => /\ Len(rows') = Len(rows) + 1 /\ Len(rows') \in DOMAIN rows'
                      /\ rows'[Len(rows')] = RunRow(made)
                      /\ DOMAIN rows' = DOMAIN rows \cup {Len(rows')}
  BY <1>1, NewRow DEF TypeOK
<1>3. dbErrors' \in 0 .. MaxDbErrors
  BY SwallowedLeads DEF InitRun
<1>4. /\ attempt' \in 1 .. Attempts /\ runStatus' \in RunStatuses
      /\ iteration' \in 0 .. MaxIterations /\ run' \in 0 .. Len(rows')
      /\ excused' \subseteq DOMAIN rows' /\ excused \subseteq excused'
      /\ \/ /\ stage' \in {"init", "closed"} /\ run' = 0 /\ iteration' = iteration
            /\ excused' = excused \cup (DOMAIN rows' \ DOMAIN rows)
         \/ /\ how = "ok" /\ run' = Len(rows') /\ made # {}
            /\ \/ stage' = "finalize"
               \/ stage' = "plan" /\ tokens < Budget /\ iteration' = iteration + 1
            /\ run' \in excused' \/ "working" \in made
  <2>1. CASE Unfinished(how) /\ UNCHANGED <<iteration, run>>
               /\ excused' = excused \cup (DOMAIN rows' \ DOMAIN rows)
    BY <1>1, <1>2, <2>1, UnfinishedLeads DEF TypeOK
  <2>2. CASE /\ how = "ok" /\ run' = Len(rows') /\ LoopTop
             /\ excused' = IF "working" \in made THEN excused ELSE excused \cup {run'}
    <3>1. Len(rows') \in Nat
      BY <1>2
    <3> QED
      BY <1>1, <1>2, <2>2, <3>1, LoopTopLeads, SMTT(30) DEF TypeOK
  <2> QED
    BY <2>1, <2>2 DEF InitRun
<1>5. TypeOK'
  BY <1>1, <1>2, <1>3, <1>4, AttemptedLeads DEF TypeOK, Stages
<1>6. RowKnown' /\ SeqInStep' /\ CallsOver' /\ ResultsComplete'
  <2>1. iteration \in Nat /\ (stage' \in {"finalize", "plan"} => run' > 0)
    BY <1>2, <1>4 DEF TypeOK
  <2>2. stage' \in {"init", "closed", "finalize", "plan"} /\ msgSeq' = 1
    BY <1>1, <1>4
  <2>3. RowKnown' /\ CallsOver' /\ ResultsComplete'
    BY <1>1, <1>4, <2>1, <2>2 DEF RowKnown, CallsOver, ResultsComplete
  <2>4. /\ 1 <= 2 * iteration' + 1
        /\ stage' = "plan" => 1 <= 2 * iteration' - 1
    <3>1. \A k \in Nat : 1 <= 2 * k + 1 /\ (k >= 1 => 1 <= 2 * k - 1)
      OBVIOUS
    <3>2. iteration' \in Nat /\ (stage' = "plan" => iteration' >= 1)
      BY <1>4, <2>1, ConstantsAssumption
    <3> QED
      BY <3>1, <3>2
  <2>5. 1 % 2 = 1
    OBVIOUS
  <2>6. SeqInStep'
    BY <2>2, <2>4, <2>5 DEF SeqInStep
  <2> QED
    BY <2>3, <2>6
<1>7. RolesBySeq'
  <2>1. ASSUME NEW r \in DOMAIN rows', NEW n \in Seqs
        PROVE  rows'[r].msgs[n].kind \in
                 IF n = 0 THEN {"user", "none"}
                 ELSE IF n % 2 = 0 THEN {"results", "none"} ELSE {"turn", "none"}
    <3>1. CASE r \in DOMAIN rows
      BY <1>2, <3>1 DEF RolesBySeq
    <3>2. CASE rows'[r] = RunRow(made)
      BY <3>2, NewRow
    <3> QED
      BY <1>2, <3>1, <3>2
  <2> QED
    BY <2>1 DEF RolesBySeq
<1>8. RowsFollow'
  <2>1. ASSUME NEW r \in DOMAIN rows' \ excused', r # run' \/ stage' = "closed"
        PROVE  Settled(r)'
    <3>1. r \in DOMAIN rows /\ r \notin excused /\ r # run
      BY <1>1, <1>2, <1>4, <2>1
    <3> QED
      BY <1>2, <3>1 DEF RowsFollow, Settled
  <2>2. ASSUME run' > 0, run' \notin excused'
        PROVE  rows'[run'].task = "working"
    BY <1>1, <1>2, <1>4, <2>2, NewRow
  <2> QED
    BY <2>1, <2>2 DEF RowsFollow
<1>9. ChildrenCounted'
  <2>1. run' > 0 => rows'[run'].open = 0
    BY <1>2, <1>4, NewRow
  <2> QED
    BY <1>4, <2>1 DEF ChildrenCounted
<1>10. BilledSoFar'
  <2>1. billed <= tokens + lost * MaxCost
    BY <1>1 DEF BilledSoFar
  <2>2. lost' * MaxCost >= lost * MaxCost /\ lost' * MaxCost \in Nat
    BY <1>1, AttemptedLeads, LostGrows, CostsHaveMax
  <2>3. lost * MaxCost \in Nat /\ tokens \in Nat /\ billed \in Nat
    BY LostTimesCost DEF TypeOK
  <2>4. billed' <= tokens' + lost' * MaxCost
    BY <1>1, <2>1, <2>2, <2>3
  <2>5. tokens = 0 \/ tokens < Budget + MaxCost
    BY DEF BilledSoFar
  <2>6. stage' = "plan" => tokens < Budget
    BY <1>4
  <2> QED
    BY <1>1, <2>4, <2>5, <2>6 DEF BilledSoFar
<1> QED
  BY <1>5, <1>6, <1>7, <1>8, <1>9, <1>10

\* Rows that keep their status and task follow the workflow as before.
LEMMA RowsFollowOn ==
  ASSUME TypeOK, RowsFollow, SameRows({"status", "task"}), run' = run, run > 0,
         stage # "closed", excused \subseteq excused',
         stage' # "closed" \/ run \in excused',
         stage = "finalize" => runStatus' = runStatus /\ stage' = "finalize"
  PROVE  RowsFollow'
<1>1. ASSUME NEW r \in DOMAIN rows' \ excused', r # run' \/ stage' = "closed"
      PROVE  Settled(r)'
  <2>1. r \in DOMAIN rows /\ r \notin excused /\ r # run
    BY <1>1 DEF SameRows
  <2>2. Settled(r) /\ rows'[r].status = rows[r].status /\ rows'[r].task = rows[r].task
    BY <2>1 DEF RowsFollow, SameRows
  <2> QED
    BY <2>2 DEF Settled
<1>2. ASSUME run' > 0, run' \notin excused', stage' # "closed"
      PROVE  \/ rows'[run'].task = "working"
             \/ stage' = "finalize" /\ rows'[run'].task = TaskState(runStatus')
  <2>1. rows'[run].task = rows[run].task /\ run \notin excused
    BY <1>2, OwnRow DEF SameRows
  <2> QED
    BY <1>2, <2>1 DEF RowsFollow
<1> QED
  BY <1>1, <1>2 DEF RowsFollow

\* So do rows that are not touched at all.
LEMMA RowsUntouched ==
  ASSUME TypeOK, UNCHANGED rows
  PROVE  SameRows({"status", "task", "msgs", "open"}) /\ SameRows({"status", "task"})
BY DEF SameRows, TypeOK

LEMMA RolesFollowOn ==
  ASSUME TypeOK, RolesBySeq, SameRows({"status", "task", "open"}), NEW seq, NEW m,
         \A r \in DOMAIN rows : \A n \in Seqs :
            \/ rows'[r].msgs[n] = rows[r].msgs[n]
            \/ n = seq /\ rows'[r].msgs[n] = m,
         \/ seq % 2 = 1 /\ m.kind = "turn"
         \/ seq % 2 = 0 /\ seq > 0 /\ m.kind = "results"
  PROVE  RolesBySeq'
<1>1. ASSUME NEW r \in DOMAIN rows', NEW n \in Seqs
      PROVE  rows'[r].msgs[n].kind \in
               IF n = 0 THEN {"user", "none"}
               ELSE IF n % 2 = 0 THEN {"results", "none"} ELSE {"turn", "none"}
  <2>1. r \in DOMAIN rows
    BY DEF SameRows
  <2>2. CASE rows'[r].msgs[n] = rows[r].msgs[n]
    BY <2>1, <2>2 DEF RolesBySeq
  <2>3. CASE n = seq /\ rows'[r].msgs[n] = m
    <3>1. 0 % 2 = 0
      OBVIOUS
    <3> QED
      BY <2>3, <3>1
  <2> QED
    BY <2>1, <2>2, <2>3
<1> QED
  BY <1>1 DEF RolesBySeq

LEMMA RolesUntouched ==
  ASSUME TypeOK, RolesBySeq, SameRows({"status", "task", "msgs"})
  PROVE  RolesBySeq'
BY DEF RolesBySeq, SameRows

LEMMA PlanTurnKeeps ==
  ASSUME IInv, NEW cost \in Costs, NEW called \in SUBSET Slots,
         NEW stored \in SUBSET {"usage", "message"}, NEW how \in Fates,
         PlanTurn(cost, called, stored, how)
  PROVE  IInv'
<1> USE DEF IInv
<1>1. /\ stage = "plan" /\ Attempted(how)
      /\ UNCHANGED <<iteration, sinceSummary, reply, run, userTurns, excused>>
      /\ turn' = Message("turn", <<run, iteration, attempt>>, called # {})
      /\ billed' = IF "usage" \in stored THEN billed + cost ELSE billed
      /\ IF "message" \in stored THEN StoreMessage(msgSeq, turn') ELSE UNCHANGED rows
  BY DEF PlanTurn
<1>2. /\ run > 0 /\ msgSeq % 2 = 1 /\ msgSeq <= 2 * iteration - 1
      /\ cost \in Nat /\ cost <= MaxCost /\ tokens < Budget
      /\ msgSeq \in Nat /\ msgSeq >= 1 /\ iteration \in Nat /\ tokens \in Nat /\ billed \in Nat
      /\ iteration <= MaxIterations
  BY <1>1, CostsHaveMax, ConstantsAssumption
     DEF RowKnown, SeqInStep, BilledSoFar, TypeOK
<1>3. \/ /\ how = "ok" /\ tokens' = tokens + cost /\ msgSeq' = msgSeq + 1
         /\ call' = [s \in Slots |-> IF s \notin called THEN "idle"
                                     ELSE IF s \in Unknown THEN "failed" ELSE "queued"]
         /\ tries' = [s \in Slots |-> 0] /\ answered' = FALSE
         /\ attempt' \in 1 .. Attempts /\ runStatus' \in RunStatuses
         /\ stage' \in {"fanout", "finalize"}
      \/ /\ how \in {"lost", "canceled"} /\ UNCHANGED <<tokens, msgSeq, call, tries, answered>>
         /\ attempt' \in 1 .. Attempts /\ runStatus' \in RunStatuses
         /\ stage' = "finalize" \/ (how = "lost" /\ stage' = "plan")
  <2>1. CASE Unfinished(how) /\ UNCHANGED <<tokens, msgSeq, fan, answered>>
    BY <1>1, <1>2, <2>1, UnfinishedLeads DEF fan
  <2>2. CASE /\ how = "ok" /\ tokens' = tokens + cost /\ msgSeq' = msgSeq + 1
             /\ call' = [s \in Slots |-> IF s \notin called THEN "idle"
                                         ELSE IF s \in Unknown THEN "failed" ELSE "queued"]
             /\ tries' = [s \in Slots |-> 0] /\ answered' = FALSE
             /\ IF called = {} THEN Conclude("completed")
                ELSE Await("fanout") /\ UNCHANGED runStatus
    BY <1>2, <2>2, ConstantsAssumption DEF Conclude, Await, RunStatuses, TypeOK
  <2> QED
    BY <2>1, <2>2 DEF PlanTurn
<1>4. turn' \in KeptMessages /\ turn'.kind = "turn"
  <2>1. run \in Nat /\ iteration \in Nat /\ attempt \in Nat
    BY ConstantsAssumption DEF TypeOK
  <2>2. PICK calls \in BOOLEAN : turn' = Message("turn", <<run, iteration, attempt>>, calls)
    BY <1>1, Zenon
  <2> QED
    BY <2>1, <2>2, MessageKept
<1>5. /\ SameRows({"status", "task", "open"}) /\ SameRows({"status", "task"})
      /\ \A r \in DOMAIN rows : \A n \in Seqs :
           \/ rows'[r].msgs[n] = rows[r].msgs[n]
           \/ n = msgSeq /\ rows'[r].msgs[n] = turn'
  <2>1. CASE StoreMessage(msgSeq, turn')
    BY <1>2, <1>4, <2>1, StoreMessageKeeps DEF SameRows
  <2>2. CASE UNCHANGED rows
    BY <2>2, RowsUntouched DEF SameRows
  <2> QED
    BY <1>1, <2>1, <2>2
<1>6. dbErrors' \in 0 .. MaxDbErrors
  BY SwallowedLeads DEF PlanTurn
<1>7. TypeOK'
  <2>1. call' \in [Slots -> CallStates] /\ tries' \in [Slots -> 0 .. Attempts]
    BY <1>3, ConstantsAssumption DEF TypeOK, CallStates
  <2>2. /\ rows' \in Seq(Row) /\ run' \in 0 .. Len(rows')
        /\ excused' \subseteq DOMAIN rows'
    BY <1>1, <1>5 DEF SameRows, TypeOK
  <2>3. msgSeq' \in 1 .. 2 * MaxIterations + 1
    BY <1>2, <1>3, ConstantsAssumption
  <2>4. tokens' \in Nat /\ billed' \in Nat
    BY <1>1, <1>2, <1>3
  <2>5. stage' \in Stages /\ answered' \in BOOLEAN
    BY <1>3 DEF Stages, TypeOK
  <2>6. attempt' \in 1 .. Attempts /\ runStatus' \in RunStatuses
    BY <1>3
  <2>7. lost' \in 0 .. MaxLost /\ cancelled' \in BOOLEAN
    BY <1>1, AttemptedLeads
  <2> QED
    BY <1>1, <1>4, <1>6, <2>1, <2>2, <2>3, <2>4, <2>5, <2>6, <2>7 DEF TypeOK
<1>8. RowKnown' /\ CallsOver' /\ ResultsComplete'
  BY <1>1, <1>2, <1>3 DEF RowKnown, CallsOver, ResultsComplete
<1>9. SeqInStep'
  <2>1. (msgSeq + 1) % 2 = 0 /\ msgSeq + 1 <= 2 * iteration
    BY <1>2
  <2> QED
    BY <1>1, <1>2, <1>3, <2>1 DEF SeqInStep
<1>10. RolesBySeq'
  BY <1>2, <1>4, <1>5, RolesFollowOn
<1>11. RowsFollow'
  BY <1>1, <1>2, <1>3, <1>5, RowsFollowOn
<1>12. ChildrenCounted'
  <2>1. lost = 0 => rows[run].open = 0
    BY <1>1, <1>2 DEF ChildrenCounted
  <2>2. rows'[run].open = rows[run].open /\ rows[run].open \in Nat
    BY <1>2, <1>5, OwnRow DEF SameRows
  <2>3. lost' = 0 => lost = 0
    BY <1>1, AttemptedLeads, ConstantsAssumption DEF TypeOK
  <2>4. stage' = "fanout" => Cardinality(Working') = 0
    <3>1. stage' = "fanout" => Working' = {}
      BY <1>3 DEF Working, InFlight
    <3> QED
      BY <3>1, FS_EmptySet
  <2> QED
    BY <1>1, <2>1, <2>2, <2>3, <2>4 DEF ChildrenCounted
<1>13. BilledSoFar'
  <2>1. billed <= tokens + lost * MaxCost
    BY <1>1 DEF BilledSoFar
  <2>2. billed' \in Nat /\ billed' <= billed + MaxCost /\ billed' <= billed + cost
    BY <1>1, <1>2, CostsHaveMax
  <2>3. lost * MaxCost \in Nat /\ MaxCost \in Nat /\ Budget \in Nat
    BY LostTimesCost, CostsHaveMax, ConstantsAssumption
  <2>4. CASE how = "ok"
    <3>1. lost' = lost /\ tokens' = tokens + cost /\ stage' # "plan"
      BY <1>1, <1>3, <2>4, AttemptedLeads
    <3>2. billed' <= tokens' + lost' * MaxCost /\ tokens' < Budget + MaxCost
      BY <1>2, <2>1, <2>2, <2>3, <3>1
    <3> QED
      BY <3>1, <3>2 DEF BilledSoFar
  <2>5. CASE how = "lost"
    <3>1. lost' = lost + 1 /\ tokens' = tokens
      BY <1>1, <1>3, <2>5, AttemptedLeads
    <3>2. lost' * MaxCost = lost * MaxCost + MaxCost
      BY <3>1, LostGrows
    <3>3. billed' <= tokens' + lost' * MaxCost /\ tokens' < Budget + MaxCost
      BY <1>2, <2>1, <2>2, <2>3, <3>1, <3>2
    <3> QED
      BY <1>2, <3>1, <3>3 DEF BilledSoFar
  <2>6. CASE how = "canceled"
    <3>1. lost' = lost /\ tokens' = tokens /\ stage' = "finalize"
      BY <1>1, <1>3, <2>6, AttemptedLeads
    <3>2. billed' <= tokens' + lost' * MaxCost + MaxCost /\ tokens' < Budget + MaxCost
      BY <1>2, <2>1, <2>2, <2>3, <3>1
    <3> QED
      BY <1>2, <3>1, <3>2 DEF BilledSoFar
  <2> QED
    BY <2>4, <2>5, <2>6 DEF Fates
<1> QED
  BY <1>7, <1>8, <1>9, <1>10, <1>11, <1>12, <1>13

(***************************************************************************)
(* The fan-out: how many calls are running is what is open                 *)
(***************************************************************************)
\* A call that starts or stops running changes Working by that call.
LEMMA WorkingMoves ==
  ASSUME TypeOK, NEW s \in Slots, NEW result \in CallStates,
         call' = [call EXCEPT ![s] = result]
  PROVE  /\ s \notin Agents => Cardinality(Working') = Cardinality(Working)
         /\ s \in Agents /\ call[s] # "running" /\ result = "running" =>
              Cardinality(Working') = Cardinality(Working) + 1
         /\ s \in Agents /\ call[s] = "running" /\ result # "running" =>
              /\ Cardinality(Working') = Cardinality(Working) - 1
              /\ Cardinality(Working) > 0
<1>1. \A t \in Slots : call'[t] = IF t = s THEN result ELSE call[t]
  BY DEF TypeOK
<1>2. CASE s \notin Agents
  <2>1. Working' = Working
    BY <1>1, <1>2 DEF Working, InFlight
  <2> QED
    BY <1>2, <2>1
<1>3. CASE s \in Agents /\ call[s] # "running" /\ result = "running"
  <2>1. Working' = Working \cup {s} /\ s \notin Working
    BY <1>1, <1>3 DEF Working, InFlight
  <2>2. Cardinality(Working') = Cardinality(Working) + 1
    BY <2>1, WorkingFinite, FS_AddElement
  <2> QED
    BY <1>3, <2>2
<1>4. CASE s \in Agents /\ call[s] = "running" /\ result # "running"
  <2>1. Working' = Working \ {s} /\ s \in Working
    BY <1>1, <1>4 DEF Working, InFlight
  <2>2. Cardinality(Working') = Cardinality(Working) - 1
    BY <2>1, WorkingFinite, FS_RemoveElement
  <2>3. Cardinality(Working) > 0
    BY <2>2, WorkingFinite
  <2> QED
    BY <1>4, <2>2, <2>3
<1> QED
  BY <1>2, <1>3, <1>4

\* A step of the fan-out or of the wait that keeps what only other steps touch.
LEMMA FanStepKeeps ==
  ASSUME IInv, stage \in {"fanout", "human"}, stage' \in {"fanout", "human", "record", "finalize"},
         attempt' \in 1 .. Attempts, runStatus' \in RunStatuses,
         UNCHANGED <<iteration, tokens, msgSeq, sinceSummary, turn, run, billed, excused>>,
         UNCHANGED <<userTurns, dbErrors>>, reply' \in BOOLEAN, answered' \in BOOLEAN,
         cancelled' \in BOOLEAN, lost' \in 0 .. MaxLost, lost' = lost \/ lost' = lost + 1,
         call' \in [Slots -> CallStates], tries' \in [Slots -> 0 .. Attempts],
         SameRows({"status", "task", "msgs"})
  PROVE  TypeOK' /\ RowKnown' /\ SeqInStep' /\ RolesBySeq' /\ BilledSoFar' /\ RowsFollow'
<1> USE DEF IInv
<1>1. run > 0 /\ SameRows({"status", "task"})
  BY DEF RowKnown, SameRows
<1>2. TypeOK'
  <2>1. /\ rows' \in Seq(Row) /\ run' \in 0 .. Len(rows')
        /\ excused' \subseteq DOMAIN rows'
    BY DEF SameRows, TypeOK
  <2> QED
    BY <2>1 DEF TypeOK, Stages
<1>3. RowKnown' /\ SeqInStep'
  BY <1>1 DEF RowKnown, SeqInStep
<1>4. RolesBySeq'
  BY RolesUntouched
<1>5. BilledSoFar'
  <2>1. billed <= tokens + lost * MaxCost
    BY DEF BilledSoFar
  <2>2. /\ lost * MaxCost \in Nat /\ lost' * MaxCost \in Nat /\ lost' * MaxCost >= lost * MaxCost
        /\ tokens \in Nat /\ billed \in Nat
    BY LostGrows DEF TypeOK
  <2>3. billed' <= tokens' + lost' * MaxCost
    BY <2>1, <2>2
  <2> QED
    BY <2>3 DEF BilledSoFar
<1>6. RowsFollow'
  BY <1>1, RowsFollowOn
<1> QED
  BY <1>2, <1>3, <1>4, <1>5, <1>6

LEMMA StartCallKeeps ==
  ASSUME IInv, NEW s \in Slots, StartCall(s)
  PROVE  IInv'
<1> USE DEF IInv
<1>1. /\ stage = "fanout" /\ call[s] = "queued" /\ call' = [call EXCEPT ![s] = "running"]
      /\ tries' = [tries EXCEPT ![s] = 1]
      /\ UNCHANGED <<stage, attempt, runStatus, iteration, tokens, msgSeq, sinceSummary, turn>>
      /\ UNCHANGED <<reply, run, cancelled, lost, dbErrors, userTurns, billed, excused, answered>>
  BY DEF StartCall, flow, loop, mind, trouble, history
<1>2. run > 0 /\ rows[run].open \in Nat
  BY <1>1, OwnRow DEF RowKnown
<1>3. IF s \in Agents THEN OpenTasks(rows[run].open + 1) ELSE UNCHANGED rows
  BY DEF StartCall
<1>4. /\ SameRows({"status", "task", "msgs"})
      /\ rows'[run].open = rows[run].open + (IF s \in Agents THEN 1 ELSE 0)
  <2>1. CASE s \in Agents
    BY <1>2, <1>3, <2>1, OpenTasksKeeps
  <2>2. CASE s \notin Agents
    BY <1>2, <1>3, <2>2, RowsUntouched DEF SameRows
  <2> QED
    BY <2>1, <2>2
<1>5. TypeOK' /\ RowKnown' /\ SeqInStep' /\ RolesBySeq' /\ BilledSoFar' /\ RowsFollow'
  <2>1. call' \in [Slots -> CallStates] /\ tries' \in [Slots -> 0 .. Attempts]
    BY <1>1, ConstantsAssumption DEF TypeOK, CallStates
  <2>2. /\ attempt' \in 1 .. Attempts /\ runStatus' \in RunStatuses /\ reply' \in BOOLEAN
        /\ answered' \in BOOLEAN /\ cancelled' \in BOOLEAN /\ lost' \in 0 .. MaxLost
    BY <1>1 DEF TypeOK
  <2> QED
    BY <1>1, <1>4, <2>1, <2>2, FanStepKeeps
<1>6. ChildrenCounted'
  <2>1. /\ s \in Agents => Cardinality(Working') = Cardinality(Working) + 1
        /\ s \notin Agents => Cardinality(Working') = Cardinality(Working)
    BY <1>1, WorkingMoves DEF CallStates
  <2> QED
    BY <1>1, <1>2, <1>4, <2>1, WorkingFinite DEF ChildrenCounted
<1>7. CallsOver' /\ ResultsComplete'
  BY <1>1 DEF CallsOver, ResultsComplete
<1> QED
  BY <1>5, <1>6, <1>7

LEMMA FinishCallKeeps ==
  ASSUME IInv, NEW s \in Slots, NEW result \in {"completed", "failed", "input-required"},
         FinishCall(s, result)
  PROVE  IInv'
<1> USE DEF IInv
<1>1. /\ stage = "fanout" /\ call[s] = "running" /\ call' = [call EXCEPT ![s] = result]
      /\ UNCHANGED <<stage, attempt, runStatus, iteration, tokens, msgSeq, sinceSummary, turn, tries>>
      /\ UNCHANGED <<reply, run, cancelled, lost, dbErrors, userTurns, billed, excused, answered>>
  BY DEF FinishCall, flow, loop, mind, trouble, history
<1>2. /\ run > 0 /\ rows[run].open \in Nat
      /\ s \in Agents => /\ Cardinality(Working') = Cardinality(Working) - 1
                         /\ Cardinality(Working) > 0
      /\ s \notin Agents => Cardinality(Working') = Cardinality(Working)
  BY <1>1, OwnRow, WorkingMoves DEF RowKnown, CallStates
<1>3. IF s \in Agents THEN OpenTasks(rows[run].open - 1) ELSE UNCHANGED rows
  BY DEF FinishCall
<1>4. /\ SameRows({"status", "task", "msgs"})
      /\ rows'[run].open = rows[run].open - (IF s \in Agents THEN 1 ELSE 0)
  <2>1. CASE s \in Agents
    <3>1. rows[run].open - 1 \in Nat
      BY <1>1, <1>2, <2>1, WorkingFinite DEF ChildrenCounted
    <3> QED
      BY <1>2, <1>3, <2>1, <3>1, OpenTasksKeeps
  <2>2. CASE s \notin Agents
    BY <1>2, <1>3, <2>2, RowsUntouched DEF SameRows
  <2> QED
    BY <2>1, <2>2
<1>5. TypeOK' /\ RowKnown' /\ SeqInStep' /\ RolesBySeq' /\ BilledSoFar' /\ RowsFollow'
  <2>1. call' \in [Slots -> CallStates] /\ tries' \in [Slots -> 0 .. Attempts]
    BY <1>1 DEF TypeOK, CallStates
  <2>2. /\ attempt' \in 1 .. Attempts /\ runStatus' \in RunStatuses /\ reply' \in BOOLEAN
        /\ answered' \in BOOLEAN /\ cancelled' \in BOOLEAN /\ lost' \in 0 .. MaxLost
    BY <1>1 DEF TypeOK
  <2> QED
    BY <1>1, <1>4, <2>1, <2>2, FanStepKeeps
<1>6. ChildrenCounted'
  BY <1>1, <1>2, <1>4, WorkingFinite DEF ChildrenCounted
<1>7. CallsOver' /\ ResultsComplete'
  BY <1>1 DEF CallsOver, ResultsComplete
<1> QED
  BY <1>5, <1>6, <1>7

LEMMA LoseCallKeeps ==
  ASSUME IInv, NEW s \in Slots, LoseCall(s)
  PROVE  IInv'
<1> USE DEF IInv
<1>1. /\ stage = "fanout" /\ call[s] = "running" /\ s \in Agents
      /\ lost < MaxLost /\ lost' = lost + 1
      /\ UNCHANGED <<stage, attempt, runStatus, iteration, tokens, msgSeq, sinceSummary, turn>>
      /\ UNCHANGED <<reply, run, cancelled, dbErrors, userTurns, billed, excused, answered>>
  BY DEF LoseCall, flow, loop, mind, history
<1>2. run > 0 /\ rows[run].open \in Nat /\ lost \in Nat /\ lost' # 0 /\ lost' \in 0 .. MaxLost
  BY <1>1, OwnRow, ConstantsAssumption DEF RowKnown, TypeOK
<1>3. /\ SameRows({"status", "task", "msgs"})
      /\ rows'[run].open >= Cardinality(Working')
      /\ call' \in [Slots -> CallStates] /\ tries' \in [Slots -> 0 .. Attempts]
  <2>1. rows[run].open >= Cardinality(Working)
    BY <1>1, <1>2 DEF ChildrenCounted
  <2>2. CASE /\ tries[s] < Attempts /\ tries' = [tries EXCEPT ![s] = @ + 1]
             /\ OpenTasks(rows[run].open + 1) /\ UNCHANGED call
    <3>1. SameRows({"status", "task", "msgs"}) /\ rows'[run].open = rows[run].open + 1
      BY <1>2, <2>2, OpenTasksKeeps
    <3>2. Working' = Working
      BY <2>2 DEF Working, InFlight
    <3>3. call' \in [Slots -> CallStates] /\ tries' \in [Slots -> 0 .. Attempts]
      BY <2>2, ConstantsAssumption DEF TypeOK
    <3>4. rows'[run].open >= Cardinality(Working')
      BY <1>2, <2>1, <3>1, <3>2, WorkingFinite
    <3> QED
      BY <3>1, <3>3, <3>4
  <2>3. CASE call' = [call EXCEPT ![s] = "failed"] /\ UNCHANGED <<tries, rows>>
    <3>1. SameRows({"status", "task", "msgs"}) /\ rows'[run].open = rows[run].open
      BY <2>3, RowsUntouched DEF SameRows
    <3>2. Cardinality(Working') = Cardinality(Working) - 1
      BY <1>1, <2>3, WorkingMoves DEF CallStates
    <3>3. call' \in [Slots -> CallStates] /\ tries' \in [Slots -> 0 .. Attempts]
      BY <2>3 DEF TypeOK, CallStates
    <3>4. rows'[run].open >= Cardinality(Working')
      BY <1>2, <2>1, <3>1, <3>2, WorkingFinite
    <3> QED
      BY <3>1, <3>3, <3>4
  <2> QED
    BY <2>2, <2>3 DEF LoseCall
<1>4. TypeOK' /\ RowKnown' /\ SeqInStep' /\ RolesBySeq' /\ BilledSoFar' /\ RowsFollow'
  <2>1. /\ attempt' \in 1 .. Attempts /\ runStatus' \in RunStatuses /\ reply' \in BOOLEAN
        /\ answered' \in BOOLEAN /\ cancelled' \in BOOLEAN
    BY <1>1 DEF TypeOK
  <2> QED
    BY <1>1, <1>2, <1>3, <2>1, FanStepKeeps
<1>5. ChildrenCounted'
  BY <1>1, <1>2, <1>3 DEF ChildrenCounted
<1>6. CallsOver' /\ ResultsComplete'
  BY <1>1 DEF CallsOver, ResultsComplete
<1> QED
  BY <1>4, <1>5, <1>6

LEMMA FanInKeeps ==
  ASSUME IInv, FanIn
  PROVE  IInv'
<1> USE DEF IInv
<1>1. /\ stage = "fanout" /\ \A s \in Slots : call[s] \notin {"queued", "running"}
      /\ UNCHANGED <<runStatus, iteration, tokens, msgSeq, sinceSummary, turn, call, tries, rows>>
      /\ UNCHANGED <<run, cancelled, lost, dbErrors, userTurns, billed, excused, answered>>
      /\ \/ stage' = "human" /\ reply' = FALSE
         \/ stage' = "record" /\ Asking = {} /\ reply' = reply
      /\ attempt' = 1
  BY DEF FanIn, Await, loop, fan, trouble, history
<1>2. run > 0 /\ rows[run].open \in Nat
  BY <1>1, OwnRow DEF RowKnown
<1>3. TypeOK' /\ RowKnown' /\ SeqInStep' /\ RolesBySeq' /\ BilledSoFar' /\ RowsFollow'
  <2>1. /\ attempt' \in 1 .. Attempts /\ runStatus' \in RunStatuses /\ reply' \in BOOLEAN
        /\ answered' \in BOOLEAN /\ cancelled' \in BOOLEAN /\ lost' \in 0 .. MaxLost
        /\ call' \in [Slots -> CallStates] /\ tries' \in [Slots -> 0 .. Attempts]
    <3>1. attempt' \in 1 .. Attempts
      BY <1>1, ConstantsAssumption
    <3>2. reply' \in BOOLEAN
      BY <1>1, Zenon DEF TypeOK
    <3> QED
      BY <1>1, <3>1, <3>2 DEF TypeOK
  <2>2. SameRows({"status", "task", "msgs"})
    BY <1>1, RowsUntouched DEF SameRows
  <2>3. stage' \in {"fanout", "human", "record", "finalize"}
    BY <1>1
  <2> QED
    BY <1>1, <2>1, <2>2, <2>3, FanStepKeeps
<1>4. ChildrenCounted'
  <2>1. Cardinality(Working) = 0
    <3>1. Working = {}
      BY <1>1 DEF Working, InFlight
    <3> QED
      BY <3>1, FS_EmptySet
  <2> QED
    BY <1>1, <1>2, <2>1 DEF ChildrenCounted
<1>5. CallsOver' /\ ResultsComplete'
  <2>1. CallsOver'
    BY <1>1 DEF CallsOver
  <2>2. stage' = "record" => \A s \in Served' : call'[s] \in {"completed", "failed"}
    BY <1>1 DEF Served, Asking, TypeOK, CallStates
  <2> QED
    BY <2>1, <2>2 DEF ResultsComplete
<1> QED
  BY <1>3, <1>4, <1>5

(***************************************************************************)
(* Waiting for a person                                                    *)
(***************************************************************************)
LEMMA InjectReplyKeeps ==
  ASSUME IInv, InjectReply
  PROVE  IInv'
<1> USE DEF IInv
<1>1. /\ stage = "human" /\ stage' = "record" /\ attempt' = 1 /\ reply' = FALSE
      /\ call' = [s \in Slots |-> IF s \in Asking THEN "completed" ELSE call[s]]
      /\ UNCHANGED <<runStatus, iteration, tokens, msgSeq, sinceSummary, turn, tries, rows>>
      /\ UNCHANGED <<run, cancelled, lost, dbErrors, userTurns, billed, excused, answered>>
  BY DEF InjectReply, Await, loop, trouble, history
<1>2. run > 0 /\ rows[run].open \in Nat
  BY <1>1, OwnRow DEF RowKnown
<1>3. TypeOK' /\ RowKnown' /\ SeqInStep' /\ RolesBySeq' /\ BilledSoFar' /\ RowsFollow'
  <2>1. call' \in [Slots -> CallStates]
    BY <1>1 DEF TypeOK, CallStates
  <2>2. attempt' \in 1 .. Attempts
    BY <1>1, ConstantsAssumption
  <2>3. /\ runStatus' \in RunStatuses /\ reply' \in BOOLEAN
        /\ answered' \in BOOLEAN /\ cancelled' \in BOOLEAN /\ lost' \in 0 .. MaxLost
        /\ tries' \in [Slots -> 0 .. Attempts]
    BY <1>1 DEF TypeOK
  <2>4. SameRows({"status", "task", "msgs"})
    BY <1>1, RowsUntouched DEF SameRows
  <2> QED
    BY <1>1, <2>1, <2>2, <2>3, <2>4, FanStepKeeps
<1>4. ChildrenCounted'
  BY <1>1, <1>2 DEF ChildrenCounted
<1>5. CallsOver' /\ ResultsComplete'
  <2>1. \A s \in Slots : call[s] \notin {"queued", "running"}
    BY <1>1 DEF CallsOver
  <2>2. \A s \in Served' : call'[s] \in {"completed", "failed"}
    BY <1>1, <2>1 DEF Served, Asking, TypeOK, CallStates
  <2> QED
    BY <1>1, <2>2 DEF CallsOver, ResultsComplete
<1> QED
  BY <1>3, <1>4, <1>5

LEMMA HumanTimeoutKeeps ==
  ASSUME IInv, HumanTimeout
  PROVE  IInv'
<1> USE DEF IInv
<1>1. run > 0 /\ rows[run].open \in Nat /\ stage = "human"
  BY OwnRow DEF RowKnown, HumanTimeout
<1>2. /\ stage' = "finalize" /\ attempt' = 1 /\ runStatus' = "failed"
      /\ UNCHANGED <<iteration, tokens, msgSeq, sinceSummary, turn, call, tries, reply, rows>>
      /\ UNCHANGED <<run, cancelled, lost, dbErrors, userTurns, billed, excused, answered>>
  BY <1>1 DEF HumanTimeout, Conclude, Await, loop, mind, fan, trouble, history, TypeOK
<1>3. TypeOK' /\ RowKnown' /\ SeqInStep' /\ RolesBySeq' /\ BilledSoFar' /\ RowsFollow'
  <2>1. attempt' \in 1 .. Attempts /\ runStatus' \in RunStatuses
    BY <1>2, ConstantsAssumption DEF RunStatuses
  <2>2. /\ reply' \in BOOLEAN /\ call' \in [Slots -> CallStates]
        /\ answered' \in BOOLEAN /\ cancelled' \in BOOLEAN /\ lost' \in 0 .. MaxLost
        /\ tries' \in [Slots -> 0 .. Attempts]
    BY <1>2 DEF TypeOK
  <2>3. SameRows({"status", "task", "msgs"})
    BY <1>2, RowsUntouched DEF SameRows
  <2> QED
    BY <1>1, <1>2, <2>1, <2>2, <2>3, FanStepKeeps
<1>4. ChildrenCounted' /\ CallsOver' /\ ResultsComplete'
  BY <1>1, <1>2 DEF ChildrenCounted, CallsOver, ResultsComplete
<1> QED
  BY <1>3, <1>4

LEMMA SendReplyKeeps ==
  ASSUME IInv, SendReply
  PROVE  IInv'
<1> USE DEF IInv
<1>1. /\ UNCHANGED <<stage, attempt, runStatus, iteration, tokens, msgSeq, sinceSummary, turn>>
      /\ UNCHANGED <<call, tries, rows, run, cancelled, lost, dbErrors, userTurns, billed, excused>>
      /\ reply' = TRUE
  BY DEF SendReply, flow, loop, mind, fan, trouble
<1>2. answered' \in BOOLEAN
  BY Zenon DEF SendReply
<1>3. TypeOK'
  BY <1>1, <1>2 DEF TypeOK
<1>4. RowKnown' /\ SeqInStep' /\ RolesBySeq' /\ BilledSoFar'
  BY <1>1 DEF RowKnown, SeqInStep, RolesBySeq, BilledSoFar
<1>5. RowsFollow' /\ CallsOver' /\ ResultsComplete'
  BY <1>1 DEF RowsFollow, Settled, CallsOver, ResultsComplete, Served
<1>6. ChildrenCounted'
  BY <1>1 DEF ChildrenCounted, Working, InFlight
<1> QED
  BY <1>3, <1>4, <1>5, <1>6

(***************************************************************************)
(* record_tool_results, summarize_context and the end of an iteration      *)
(***************************************************************************)
LEMMA EndIterationKeeps ==
  ASSUME IInv, stage \in {"record", "summary"}, NEW seq \in Nat, NEW since \in Nat,
         seq % 2 = 1, seq <= 2 * iteration + 1, EndIteration(seq, since),
         SameRows({"status", "task", "open"}), RolesBySeq',
         UNCHANGED <<userTurns, billed, lost>>,
         dbErrors' \in 0 .. MaxDbErrors, cancelled' \in BOOLEAN
  PROVE  IInv'
<1> USE DEF IInv
<1>1. run > 0 /\ iteration \in Nat /\ iteration <= MaxIterations /\ SameRows({"status", "task"})
  BY ConstantsAssumption DEF RowKnown, TypeOK, SameRows
<1>2. billed <= tokens + lost * MaxCost /\ lost * MaxCost \in Nat /\ MaxCost \in Nat
  BY LostTimesCost, CostsHaveMax DEF BilledSoFar
<1>3. /\ rows' \in Seq(Row) /\ DOMAIN rows' = DOMAIN rows /\ Len(rows') = Len(rows)
      /\ run \in DOMAIN rows /\ excused \subseteq DOMAIN rows /\ lost' \in 0 .. MaxLost
  BY <1>1, OwnRow DEF SameRows, TypeOK
<1>4. CASE ContinueAsNew
  <2>1. /\ stage' = "load" /\ attempt' = 1 /\ run' = 0 /\ msgSeq' = 1
        /\ excused' = excused \cup {run} /\ UNCHANGED <<runStatus, iteration, tokens>>
    BY <1>4, FreshMemoryLeads DEF ContinueAsNew, Await
  <2>2. TypeOK'
    <3>1. attempt' \in 1 .. Attempts /\ stage' \in Stages
      BY <2>1, ConstantsAssumption DEF Stages
    <3>2. msgSeq' \in 1 .. 2 * MaxIterations + 1
      BY <2>1, ConstantsAssumption
    <3>3. /\ turn' \in KeptMessages /\ call' \in [Slots -> CallStates]
          /\ tries' \in [Slots -> 0 .. Attempts]
          /\ reply' = FALSE /\ answered' = FALSE /\ sinceSummary' = 0
      BY <1>4, FreshMemoryLeads DEF ContinueAsNew
    <3>4. run' \in 0 .. Len(rows') /\ excused' \subseteq DOMAIN rows'
      BY <1>3, <2>1
    <3> QED
      BY <1>3, <2>1, <3>1, <3>2, <3>3, <3>4 DEF TypeOK
  <2>3. SeqInStep'
    BY <1>1, <2>1 DEF SeqInStep
  <2>4. RowKnown' /\ CallsOver' /\ ResultsComplete' /\ ChildrenCounted'
    BY <2>1 DEF RowKnown, CallsOver, ResultsComplete, ChildrenCounted
  <2>5. BilledSoFar'
    BY <1>2, <2>1 DEF BilledSoFar
  <2>6. RowsFollow'
    <3>1. ASSUME NEW r \in DOMAIN rows' \ excused'
          PROVE  Settled(r)'
      <4>1. r \in DOMAIN rows /\ r \notin excused /\ r # run
        BY <1>3, <2>1, <3>1
      <4>2. Settled(r) /\ rows'[r] = rows[r]
        BY <4>1 DEF RowsFollow, SameRows
      <4> QED
        BY <4>2 DEF Settled
    <3> QED
      BY <2>1, <3>1 DEF RowsFollow
  <2> QED
    BY <2>2, <2>3, <2>4, <2>5, <2>6
<1>5. CASE /\ LoopTop /\ msgSeq' = seq /\ sinceSummary' = since
           /\ UNCHANGED <<tokens, run, mind, fan, reply, excused, answered>>
  <2>1. /\ attempt' \in 1 .. Attempts /\ runStatus' \in RunStatuses
        /\ iteration' \in 0 .. MaxIterations
        /\ \/ stage' = "finalize"
           \/ stage' = "plan" /\ tokens < Budget /\ iteration' = iteration + 1
    BY <1>5, LoopTopLeads
  <2>2. UNCHANGED <<tokens, run, turn, call, tries, reply, excused, answered>>
    BY <1>5 DEF mind, fan
  <2>3. TypeOK'
    <3>1. msgSeq' \in 1 .. 2 * MaxIterations + 1
      BY <1>1, <1>5, ConstantsAssumption
    <3>2. run' \in 0 .. Len(rows') /\ excused' \subseteq DOMAIN rows'
      BY <1>3, <2>2 DEF TypeOK
    <3> QED
      BY <1>3, <1>5, <2>1, <2>2, <3>1, <3>2 DEF TypeOK, Stages
  <2>4. SeqInStep'
    <3>1. seq <= 2 * (iteration + 1) - 1
      BY <1>1
    <3> QED
      BY <1>5, <2>1, <3>1 DEF SeqInStep
  <2>5. RowKnown' /\ CallsOver' /\ ResultsComplete'
    BY <1>1, <2>1, <2>2 DEF RowKnown, CallsOver, ResultsComplete
  <2>6. ChildrenCounted'
    <3>1. rows'[run].open = rows[run].open /\ (lost = 0 => rows[run].open = 0)
      BY <1>1, <1>3 DEF ChildrenCounted, SameRows
    <3> QED
      BY <2>1, <2>2, <3>1 DEF ChildrenCounted
  <2>7. BilledSoFar'
    BY <1>2, <2>1, <2>2 DEF BilledSoFar
  <2>8. RowsFollow'
    BY <1>1, <2>1, <2>2, RowsFollowOn
  <2> QED
    BY <2>3, <2>4, <2>5, <2>6, <2>7, <2>8
<1> QED
  BY <1>4, <1>5 DEF EndIteration

LEMMA RecordResultsKeeps ==
  ASSUME IInv, NEW stored \in BOOLEAN, NEW how, RecordResults(stored, how)
  PROVE  IInv'
<1> USE DEF IInv
<1>1. /\ stage = "record" /\ Attempted(how) /\ UNCHANGED <<userTurns, billed>>
      /\ stored => StoreMessage(msgSeq, Results)
      /\ ~stored => UNCHANGED rows
  BY DEF RecordResults
<1>2. /\ run > 0 /\ msgSeq \in Nat /\ msgSeq > 0 /\ msgSeq % 2 = 0 /\ msgSeq <= 2 * iteration
      /\ iteration \in Nat /\ iteration <= MaxIterations /\ sinceSummary \in Nat
  BY <1>1, ConstantsAssumption DEF RowKnown, SeqInStep, TypeOK
<1>3. /\ SameRows({"status", "task", "open"}) /\ SameRows({"status", "task"})
      /\ \A r \in DOMAIN rows : \A n \in Seqs :
           \/ rows'[r].msgs[n] = rows[r].msgs[n]
           \/ n = msgSeq /\ rows'[r].msgs[n] = Results
  <2>1. CASE stored
    BY <1>1, <1>2, <2>1, MessageKept, StoreMessageKeeps DEF SameRows
  <2>2. CASE ~stored
    BY <1>1, <2>2, RowsUntouched DEF SameRows
  <2> QED
    BY <2>1, <2>2
<1>4. RolesBySeq'
  BY <1>2, <1>3, MessageKept, RolesFollowOn
<1>5. dbErrors' \in 0 .. MaxDbErrors
  BY SwallowedLeads DEF RecordResults
<1>6. CASE how = "ok" /\ SummaryOrEnd(msgSeq + 1, sinceSummary + Cardinality(Served))
  <2> DEFINE since == sinceSummary + Cardinality(Served)
  <2>1. since \in Nat
    <3>1. Served \subseteq Slots
      BY DEF Served
    <3> QED
      BY <1>2, <3>1, WorkingFinite, FS_Subset, FS_CardinalityType
  <2> HIDE DEF since
  <2>2. /\ msgSeq + 1 \in Nat /\ (msgSeq + 1) % 2 = 1 /\ msgSeq + 1 <= 2 * iteration + 1
        /\ msgSeq + 1 >= 1
    BY <1>2
  <2>3. lost' = lost /\ cancelled' = cancelled /\ cancelled' \in BOOLEAN /\ lost' \in 0 .. MaxLost
    BY <1>1, <1>6, AttemptedLeads
  <2>4. CASE EndIteration(msgSeq + 1, since)
    BY <1>1, <1>3, <1>4, <1>5, <2>1, <2>2, <2>3, <2>4, EndIterationKeeps
  <2>5. CASE /\ Await("summary") /\ msgSeq' = msgSeq + 1 /\ sinceSummary' = since
             /\ UNCHANGED <<runStatus, iteration, tokens, run, mind, fan, reply, excused, answered>>
    <3>1. /\ stage' = "summary" /\ attempt' = 1
          /\ UNCHANGED <<runStatus, iteration, tokens, run, turn, call, tries, reply, excused, answered>>
      BY <2>5 DEF Await, mind, fan
    <3>2. TypeOK'
      <4>1. attempt' \in 1 .. Attempts /\ msgSeq' \in 1 .. 2 * MaxIterations + 1
        BY <1>2, <2>2, <2>5, <3>1, ConstantsAssumption
      <4>2. /\ rows' \in Seq(Row) /\ run' \in 0 .. Len(rows')
            /\ excused' \subseteq DOMAIN rows'
        BY <1>3, <3>1 DEF SameRows, TypeOK
      <4> QED
        BY <1>1, <1>5, <2>1, <2>3, <2>5, <3>1, <4>1, <4>2 DEF TypeOK, Stages
    <3>3. RowKnown' /\ SeqInStep' /\ CallsOver' /\ ResultsComplete'
      BY <1>2, <2>2, <2>5, <3>1 DEF RowKnown, SeqInStep, CallsOver, ResultsComplete
    <3>4. ChildrenCounted'
      <4>1. rows'[run].open = rows[run].open /\ (lost = 0 => rows[run].open = 0)
        BY <1>1, <1>2, <1>3, OwnRow DEF ChildrenCounted, SameRows
      <4> QED
        BY <2>3, <3>1, <4>1 DEF ChildrenCounted
    <3>5. BilledSoFar'
      BY <1>1, <2>3, <3>1 DEF BilledSoFar
    <3>6. RowsFollow'
      BY <1>1, <1>2, <1>3, <3>1, RowsFollowOn
    <3> QED
      BY <1>4, <3>2, <3>3, <3>4, <3>5, <3>6
  <2> QED
    BY <1>6, <2>4, <2>5 DEF SummaryOrEnd, since
<1>7. CASE Unfinished(how) /\ UNCHANGED <<loop, run, mind, fan, reply, excused, answered>>
  <2>1. /\ UNCHANGED <<iteration, tokens, msgSeq, sinceSummary, run, turn, call, tries>>
        /\ UNCHANGED <<reply, excused, answered>>
    BY <1>7 DEF loop, mind, fan
  <2>2. /\ attempt' \in 1 .. Attempts /\ runStatus' \in RunStatuses
        /\ stage' \in {"record", "finalize"}
    BY <1>1, <1>2, <1>7, UnfinishedLeads DEF TypeOK
  <2>3. lost' \in 0 .. MaxLost /\ cancelled' \in BOOLEAN /\ (lost' = lost \/ lost' = lost + 1)
    BY <1>1, AttemptedLeads
  <2>4. TypeOK'
    <3>1. /\ rows' \in Seq(Row) /\ run' \in 0 .. Len(rows')
          /\ excused' \subseteq DOMAIN rows'
      BY <1>3, <2>1 DEF SameRows, TypeOK
    <3> QED
      BY <1>1, <1>5, <2>1, <2>2, <2>3, <3>1 DEF TypeOK, Stages
  <2>5. RowKnown' /\ SeqInStep' /\ CallsOver' /\ ResultsComplete'
    BY <1>1, <1>2, <2>1, <2>2 DEF RowKnown, SeqInStep, CallsOver, ResultsComplete, Served
  <2>6. ChildrenCounted'
    <3>1. rows'[run].open = rows[run].open /\ (lost = 0 => rows[run].open = 0)
      BY <1>1, <1>2, <1>3, OwnRow DEF ChildrenCounted, SameRows
    <3>2. lost' = 0 => lost = 0
      BY <2>3, ConstantsAssumption DEF TypeOK
    <3> QED
      BY <2>1, <2>2, <3>1, <3>2 DEF ChildrenCounted
  <2>7. BilledSoFar'
    <3>1. billed <= tokens + lost * MaxCost
      BY <1>1 DEF BilledSoFar
    <3>2. /\ lost * MaxCost \in Nat /\ lost' * MaxCost \in Nat
          /\ lost' * MaxCost >= lost * MaxCost /\ tokens \in Nat /\ billed \in Nat
      BY <2>3, LostGrows DEF TypeOK
    <3>3. billed' <= tokens' + lost' * MaxCost
      BY <1>1, <2>1, <3>1, <3>2
    <3> QED
      BY <1>1, <2>1, <2>2, <3>3 DEF BilledSoFar
  <2>8. RowsFollow'
    BY <1>1, <1>2, <1>3, <2>1, <2>2, RowsFollowOn
  <2> QED
    BY <1>4, <2>4, <2>5, <2>6, <2>7, <2>8
<1> QED
  BY <1>6, <1>7 DEF RecordResults

LEMMA SummarizeKeeps ==
  ASSUME IInv, NEW how, Summarize(how)
  PROVE  IInv'
<1> USE DEF IInv
<1>1. /\ stage = "summary" /\ EndIteration(msgSeq, 0)
      /\ UNCHANGED <<rows, lost, dbErrors, userTurns, billed>>
  BY DEF Summarize
<1>2. /\ msgSeq \in Nat /\ msgSeq % 2 = 1 /\ msgSeq <= 2 * iteration + 1
      /\ dbErrors' \in 0 .. MaxDbErrors
  BY <1>1, ConstantsAssumption DEF SeqInStep, TypeOK
<1>3. cancelled' \in BOOLEAN
  BY Zenon DEF Summarize
<1>4. SameRows({"status", "task", "open"}) /\ RolesBySeq'
  BY <1>1, RowsUntouched DEF SameRows, RolesBySeq
<1> QED
  BY <1>1, <1>2, <1>3, <1>4, EndIterationKeeps

(***************************************************************************)
(* finalize_run, the cancellations that escape it, and the forced one      *)
(***************************************************************************)
LEMMA FinalizeKeeps ==
  ASSUME IInv, NEW stored \in SUBSET {"run", "task"}, NEW how \in Fates, Finalize(stored, how)
  PROVE  IInv'
<1> USE DEF IInv
<1>1. /\ stage = "finalize" /\ Attempted(how)
      /\ UNCHANGED <<runStatus, iteration, tokens, msgSeq, sinceSummary, turn, call, tries>>
      /\ UNCHANGED <<reply, run, userTurns, billed, answered>>
      /\ dbErrors' \in 0 .. MaxDbErrors
  BY SwallowedLeads DEF Finalize, loop, mind, fan
<1>2. /\ run > 0 /\ run \in 1 .. Len(rows) /\ rows[run] \in Row /\ rows \in Seq(Row)
      /\ runStatus \in RunStatuses /\ run \in DOMAIN rows
  BY <1>1, OwnRow DEF RowKnown, TypeOK
<1> DEFINE status == IF "run" \in stored THEN runStatus ELSE rows[run].status
           task == IF "task" \in stored /\ rows[run].task = "working"
                   THEN TaskState(runStatus) ELSE rows[run].task
           new == [rows[run] EXCEPT !.status = status, !.task = task]
<1>3. /\ new \in Row /\ new.status = status /\ new.task = task
      /\ new.msgs = rows[run].msgs /\ new.open = rows[run].open
  <2>1. TaskState(runStatus) \in {"completed", "failed"}
    BY DEF TaskState
  <2>2. /\ status \in RunStatuses \cup {"running"}
        /\ task \in {"none", "submitted", "working", "completed", "failed"}
    BY <1>2, <2>1 DEF Row
  <2> HIDE DEF status, task
  <2> QED
    BY <1>2, <2>2 DEF Row
<1>4. rows' = [rows EXCEPT ![run] = new]
  BY <1>2 DEF Finalize, Row
<1> HIDE DEF new
<1>5. /\ rows' \in Seq(Row) /\ DOMAIN rows' = DOMAIN rows /\ Len(rows') = Len(rows)
      /\ rows'[run] = new /\ \A r \in DOMAIN rows : r # run => rows'[r] = rows[r]
  BY <1>2, <1>3, <1>4
<1>6. attempt \in 1 .. Attempts /\ Attempts \in Nat \ {0} /\ excused \subseteq DOMAIN rows'
  BY <1>5, ConstantsAssumption DEF TypeOK
<1>7. /\ attempt' \in 1 .. Attempts /\ excused \subseteq excused' /\ excused' \subseteq DOMAIN rows'
      /\ \/ how = "lost" /\ stage' = "finalize" /\ excused' = excused
         \/ /\ stage' = "closed"
            /\ run \in excused' \/ (how = "ok" /\ stored = {"run", "task"})
  <2>1. CASE /\ how = "lost" /\ attempt < Attempts
             /\ attempt' = attempt + 1 /\ UNCHANGED <<stage, excused>>
    BY <1>1, <1>6, <2>1
  <2>2. CASE /\ Await("closed")
             /\ excused' = IF how = "ok" /\ stored = {"run", "task"}
                           THEN excused ELSE excused \cup {run}
    <3>1. stage' = "closed" /\ attempt' = 1
      BY <2>2 DEF Await
    <3> QED
      BY <1>2, <1>5, <1>6, <2>2, <3>1
  <2> QED
    BY <2>1, <2>2 DEF Finalize
<1>8. lost' \in 0 .. MaxLost /\ cancelled' \in BOOLEAN /\ (lost' = lost \/ lost' = lost + 1)
  BY <1>1, AttemptedLeads
<1>9. TypeOK'
  <2>1. run' \in 0 .. Len(rows')
    BY <1>1, <1>5 DEF TypeOK
  <2> QED
    BY <1>1, <1>5, <1>7, <1>8, <2>1 DEF TypeOK, Stages
<1>10. RowKnown' /\ SeqInStep' /\ CallsOver' /\ ResultsComplete'
  BY <1>1, <1>2, <1>7 DEF RowKnown, SeqInStep, CallsOver, ResultsComplete
<1>11. RolesBySeq'
  BY <1>3, <1>5 DEF RolesBySeq
<1>12. ChildrenCounted'
  <2>1. rows'[run].open = rows[run].open /\ (lost = 0 => rows[run].open = 0)
    BY <1>1, <1>2, <1>3, <1>5 DEF ChildrenCounted
  <2>2. lost' = 0 => lost = 0
    BY <1>8, ConstantsAssumption DEF TypeOK
  <2> QED
    BY <1>1, <1>7, <2>1, <2>2 DEF ChildrenCounted
<1>13. BilledSoFar'
  <2>1. /\ lost * MaxCost \in Nat /\ lost' * MaxCost \in Nat /\ MaxCost \in Nat
        /\ lost' * MaxCost >= lost * MaxCost /\ tokens \in Nat /\ billed \in Nat
    BY <1>8, LostGrows, CostsHaveMax DEF TypeOK
  <2>2. tokens' = tokens /\ billed' = billed /\ stage' # "plan"
    BY <1>1, <1>7
  <2>3. CASE billed <= tokens + lost * MaxCost
    <3>1. billed' <= tokens' + lost' * MaxCost
      BY <2>1, <2>2, <2>3
    <3> QED
      BY <2>2, <3>1 DEF BilledSoFar
  <2>4. CASE tokens < Budget /\ billed <= tokens + lost * MaxCost + MaxCost
    <3>1. billed' <= tokens' + lost' * MaxCost + MaxCost
      BY <2>1, <2>2, <2>4
    <3> QED
      BY <1>7, <2>2, <2>4, <3>1 DEF BilledSoFar
  <2> QED
    BY <2>3, <2>4 DEF BilledSoFar
<1>14. RowsFollow'
  <2>1. run \notin excused => /\ rows[run].task \in {"working", TaskState(runStatus)}
                              /\ task \in {"working", TaskState(runStatus)}
    BY <1>1, <1>2 DEF RowsFollow
  <2>2. ASSUME NEW r \in DOMAIN rows' \ excused', r # run' \/ stage' = "closed"
        PROVE  Settled(r)'
    <3>1. r \in DOMAIN rows /\ r \notin excused
      BY <1>5, <1>7, <2>2
    <3>2. CASE r # run
      <4>1. Settled(r) /\ rows'[r] = rows[r]
        BY <1>5, <3>1, <3>2 DEF RowsFollow
      <4> QED
        BY <4>1 DEF Settled
    <3>3. CASE r = run
      <4>1. stored = {"run", "task"} /\ rows'[r].status = runStatus /\ rows'[r].task = task
        BY <1>1, <1>3, <1>5, <1>7, <2>2, <3>3
      <4>2. task = TaskState(runStatus)
        BY <2>1, <3>1, <3>3, <4>1
      <4> HIDE DEF task
      <4>3. Settled(r)'
        BY <1>2, <4>1, <4>2 DEF Settled, TaskState, RunStatuses
      <4> QED
        BY <4>3
    <3> QED
      BY <3>2, <3>3
  <2>3. ASSUME run' \notin excused', stage' # "closed"
        PROVE  \/ rows'[run'].task = "working"
               \/ stage' = "finalize" /\ rows'[run'].task = TaskState(runStatus')
    <3>1. run' = run /\ runStatus' = runStatus /\ rows'[run].task = task /\ stage' = "finalize"
      BY <1>1, <1>3, <1>5, <1>7, <2>3
    <3>2. run \notin excused
      BY <1>1, <1>7, <2>3
    <3> QED
      BY <2>1, <3>1, <3>2 DEF TaskState
  <2> QED
    BY <2>2, <2>3 DEF RowsFollow
<1> QED
  BY <1>9, <1>10, <1>11, <1>12, <1>13, <1>14

LEMMA EscapeCancelledKeeps ==
  ASSUME IInv, EscapeCancelled
  PROVE  IInv'
<1> USE DEF IInv
<1>1. /\ stage \in {"human", "fanout"} /\ stage' = "closed" /\ attempt' = 1 /\ cancelled' = TRUE
      /\ excused' = excused \cup {run} /\ call' = [s \in Slots |-> "idle"]
      /\ UNCHANGED <<runStatus, iteration, tokens, msgSeq, sinceSummary, turn, tries, reply>>
      /\ UNCHANGED <<rows, run, lost, dbErrors, userTurns, billed, answered>>
  BY DEF EscapeCancelled, Await, loop, mind
<1>2. run > 0 /\ run \in DOMAIN rows
  BY <1>1, OwnRow DEF RowKnown
<1>3. TypeOK'
  <2>1. attempt' \in 1 .. Attempts /\ stage' \in Stages
    BY <1>1, ConstantsAssumption DEF Stages
  <2>2. call' \in [Slots -> CallStates] /\ excused' \subseteq DOMAIN rows'
    BY <1>1, <1>2 DEF CallStates, TypeOK
  <2> QED
    BY <1>1, <2>1, <2>2 DEF TypeOK
<1>4. RowKnown' /\ SeqInStep' /\ CallsOver' /\ ResultsComplete' /\ ChildrenCounted'
  BY <1>1 DEF RowKnown, SeqInStep, CallsOver, ResultsComplete, ChildrenCounted
<1>5. RolesBySeq' /\ BilledSoFar'
  BY <1>1 DEF RolesBySeq, BilledSoFar
<1>6. RowsFollow'
  <2>1. SameRows({"status", "task"})
    BY <1>1, RowsUntouched
  <2> QED
    BY <1>1, <1>2, <2>1, RowsFollowOn
<1> QED
  BY <1>3, <1>4, <1>5, <1>6

LEMMA ForceCancelKeeps ==
  ASSUME IInv, NEW r \in DOMAIN rows, ForceCancel(r)
  PROVE  IInv'
<1> USE DEF IInv
<1>1. /\ rows[r].status = "running"
      /\ UNCHANGED <<stage, attempt, runStatus, iteration, tokens, msgSeq, sinceSummary, turn>>
      /\ UNCHANGED <<call, tries, reply, run, cancelled, lost, dbErrors, userTurns, billed>>
      /\ UNCHANGED <<excused, answered>>
  BY DEF ForceCancel, flow, loop, mind, fan, trouble, history
<1>2. rows \in Seq(Row) /\ r \in 1 .. Len(rows) /\ rows[r] \in Row
  BY DEF TypeOK
<1> DEFINE new == [rows[r] EXCEPT !.status = "canceled"]
<1>3. /\ new \in Row /\ new.task = rows[r].task /\ new.msgs = rows[r].msgs
      /\ new.open = rows[r].open
  BY <1>2 DEF Row, RunStatuses
<1>4. rows' = [rows EXCEPT ![r] = new]
  BY <1>2 DEF ForceCancel
<1> HIDE DEF new
<1>5. /\ rows' \in Seq(Row) /\ DOMAIN rows' = DOMAIN rows /\ Len(rows') = Len(rows)
      /\ rows'[r] = new /\ \A q \in DOMAIN rows : q # r => rows'[q] = rows[q]
  BY <1>2, <1>3, <1>4
<1>6. \A q \in DOMAIN rows : /\ rows'[q].task = rows[q].task
                             /\ rows'[q].msgs = rows[q].msgs /\ rows'[q].open = rows[q].open
  BY <1>3, <1>5
<1>7. TypeOK'
  <2>1. run' \in 0 .. Len(rows') /\ excused' \subseteq DOMAIN rows'
    BY <1>1, <1>5 DEF TypeOK
  <2> QED
    BY <1>1, <1>5, <2>1 DEF TypeOK
<1>8. RowKnown' /\ SeqInStep' /\ CallsOver' /\ ResultsComplete'
  BY <1>1 DEF RowKnown, SeqInStep, CallsOver, ResultsComplete, Served
<1>9. RolesBySeq' /\ BilledSoFar'
  BY <1>1, <1>5, <1>6 DEF RolesBySeq, BilledSoFar
<1>10. ChildrenCounted'
  <2>1. run > 0 => run \in DOMAIN rows
    BY OwnRow
  <2>2. Working' = Working
    BY <1>1 DEF Working, InFlight
  <2> QED
    BY <1>1, <1>6, <2>1, <2>2 DEF ChildrenCounted
<1>11. RowsFollow'
  <2>1. ASSUME NEW q \in DOMAIN rows' \ excused', q # run' \/ stage' = "closed"
        PROVE  Settled(q)'
    <3>1. Settled(q)
      BY <1>1, <1>5, <2>1 DEF RowsFollow
    <3>2. q # r
      BY <1>1, <3>1 DEF Settled, RunStatuses
    <3>3. rows'[q] = rows[q]
      BY <1>5, <2>1, <3>2
    <3> QED
      BY <3>1, <3>3 DEF Settled
  <2>2. run > 0 => run \in DOMAIN rows
    BY OwnRow
  <2>3. run' > 0 /\ run' \notin excused' /\ stage' # "closed" =>
          \/ rows'[run'].task = "working"
          \/ stage' = "finalize" /\ rows'[run'].task = TaskState(runStatus')
    BY <1>1, <1>6, <2>2 DEF RowsFollow
  <2> QED
    BY <2>1, <2>3 DEF RowsFollow
<1> QED
  BY <1>7, <1>8, <1>9, <1>10, <1>11

LEMMA StutterKeeps ==
  ASSUME IInv, UNCHANGED vars
  PROVE  IInv'
<1> USE DEF IInv, vars, flow, loop, mind, fan, trouble, history
<1>1. TypeOK' /\ RowKnown' /\ SeqInStep' /\ RolesBySeq'
  BY DEF TypeOK, RowKnown, SeqInStep, RolesBySeq
<1>2. BilledSoFar' /\ RowsFollow' /\ CallsOver' /\ ResultsComplete'
  BY DEF BilledSoFar, RowsFollow, Settled, CallsOver, ResultsComplete, Served
<1>3. ChildrenCounted'
  BY DEF ChildrenCounted, Working, InFlight
<1> QED
  BY <1>1, <1>2, <1>3

-----------------------------------------------------------------------------
LEMMA StepKeeps == IInv /\ [Next]_vars => IInv'
<1> SUFFICES ASSUME IInv, [Next]_vars PROVE IInv'
  OBVIOUS
<1>1. CASE ActivityStep
  <2>1. PICK how \in Fates :
          \/ LoadContext(how)
          \/ \E made \in SUBSET InitWrites : InitRun(made, how)
          \/ \E cost \in Costs, called \in SUBSET Slots, stored \in SUBSET {"usage", "message"} :
               PlanTurn(cost, called, stored, how)
          \/ \E stored \in BOOLEAN : RecordResults(stored, how)
          \/ Summarize(how)
          \/ \E stored \in SUBSET {"run", "task"} : Finalize(stored, how)
    BY <1>1 DEF ActivityStep
  <2> QED
    BY <2>1, LoadContextKeeps, InitRunKeeps, PlanTurnKeeps, RecordResultsKeeps,
       SummarizeKeeps, FinalizeKeeps
<1>2. CASE FanOutStep
  BY <1>2, StartCallKeeps, LoseCallKeeps, FinishCallKeeps, FanInKeeps DEF FanOutStep
<1>3. CASE HumanStep
  BY <1>3, InjectReplyKeeps, HumanTimeoutKeeps DEF HumanStep
<1>4. CASE \E r \in DOMAIN rows : ForceCancel(r)
  BY <1>4, ForceCancelKeeps
<1>5. CASE StartWorkflow \/ SendReply \/ EscapeCancelled
  BY <1>5, StartWorkflowKeeps, SendReplyKeeps, EscapeCancelledKeeps
<1>6. CASE UNCHANGED vars
  BY <1>6, StutterKeeps
<1> QED
  BY <1>1, <1>2, <1>3, <1>4, <1>5, <1>6 DEF Next

LEMMA Invariant == Spec => []IInv
<1>1. Init => IInv
  BY Initially
<1>2. IInv /\ [Next]_vars => IInv'
  BY StepKeeps
<1> QED
  BY <1>1, <1>2, PTL DEF Spec

\* Whatever is lost, cancelled or swallowed, rows and counters keep their
\* types: the seq of record_message, the statuses of schema.sql, the attempts
\* of the retry policies.
THEOREM TypeCorrect == Spec => []TypeOK
<1>1. IInv => TypeOK
  BY DEF IInv
<1> QED
  BY <1>1, Invariant, PTL

\* task_messages read by seq alternates user and assistant, however often
\* plan_turn was retried and whichever rows were never written.
THEOREM RolesAlternate == Spec => []RolesBySeq
<1>1. IInv => RolesBySeq
  BY DEF IInv
<1> QED
  BY <1>1, Invariant, PTL

\* The budget check of the loop bounds what run_usage adds up to, over
\* continue_as_new, retries and cancellations.
THEOREM BudgetKept == Spec => []BudgetBound
<1>1. IInv => BudgetBound
  <2> SUFFICES ASSUME IInv PROVE BudgetBound
    OBVIOUS
  <2>1. TypeOK /\ BilledSoFar
    BY DEF IInv
  <2>2. /\ lost * MaxCost \in Nat /\ (1 + lost) * MaxCost = lost * MaxCost + MaxCost
        /\ MaxCost = 0 => lost * MaxCost = 0
    BY <2>1, LostTimesCost
  <2>3. MaxCost \in Nat /\ Budget \in Nat /\ tokens \in Nat /\ billed \in Nat
    BY <2>1, CostsHaveMax, ConstantsAssumption DEF TypeOK
  <2>4. ASSUME billed > 0
        PROVE  billed < Budget + (lost * MaxCost + MaxCost)
    <3>1. CASE billed <= tokens + lost * MaxCost
      BY <2>1, <2>2, <2>3, <2>4, <3>1 DEF BilledSoFar
    <3>2. CASE tokens < Budget /\ billed <= tokens + lost * MaxCost + MaxCost
      BY <2>2, <2>3, <3>2
    <3> QED
      BY <2>1, <3>1, <3>2 DEF BilledSoFar
  <2> QED
    BY <2>2, <2>4 DEF BudgetBound
<1> QED
  BY <1>1, Invariant, PTL

\* A workflow that closed has settled its run and its root task alike, left no
\* child at work, and recorded a final result for every call, but for the rows
\* whose finalize_run never came.
THEOREM RunsAreSettled == Spec => []RunsSettled
<1>1. IInv => RunsSettled
  <2> SUFFICES ASSUME IInv PROVE RunsSettled
    OBVIOUS
  <2>1. ClosedRunsSettled
    BY DEF IInv, RowsFollow, Settled, ClosedRunsSettled
  <2>2. NoStrayChildren
    BY DEF IInv, ChildrenCounted, NoStrayChildren
  <2> QED
    BY <2>1, <2>2 DEF IInv, RunsSettled
<1> QED
  BY <1>1, Invariant, PTL

-----------------------------------------------------------------------------
(***************************************************************************)
(* The conversation.  Induction and iteration come first: FlattenSeq joins *)
(* its parts by a recursive function.                                      *)
(***************************************************************************)
\* Induction over the natural numbers, with the property as a set.
LEMMA Induct ==
  ASSUME NEW T, 0 \in T, \A n \in Nat : n \in T => n + 1 \in T
  PROVE  Nat \subseteq T
<1> DEFINE B == {n \in Nat : n \notin T}
<1> SUFFICES ASSUME B # {} PROVE FALSE
  OBVIOUS
<1> HIDE DEF B
<1>1. PICK x \in B : \A y \in B : ~(<<y, x>> \in OpToRel(<, Nat))
  <2>1. B \subseteq Nat
    BY DEF B
  <2>2. QED  BY <2>1, NatLessThanWellFounded, WFMin
<1>2. \A y \in B : ~(y < x)
  BY <1>1 DEF OpToRel, B
<1>3. x \in Nat /\ x # 0 /\ x - 1 \in Nat /\ x - 1 < x
  BY DEF B
<1>4. x - 1 \in T
  BY <1>2, <1>3 DEF B
<1>5. (x - 1) + 1 = x
  BY <1>3
<1>6. QED  BY <1>3, <1>4, <1>5 DEF B

\* A function that goes from base step by step.
IsIterate(f, n, base, grow) ==
  /\ f[0] = base /\ \A i \in 1 .. n : f[i] = grow[i][f[i - 1]]

LEMMA Iterated ==
  ASSUME NEW n \in Nat, NEW S, NEW base \in S, NEW grow \in [1 .. n -> [S -> S]]
  PROVE  \E f \in [0 .. n -> S] : IsIterate(f, n, base, grow)
<1> DEFINE T == {k \in Nat : k <= n => \E f \in [0 .. k -> S] : IsIterate(f, k, base, grow)}
<1>1. 0 \in T
  <2> DEFINE f == [i \in 0 .. 0 |-> base]
  <2>1. f \in [0 .. 0 -> S] /\ f[0] = base /\ 1 .. 0 = {}
    OBVIOUS
  <2>2. IsIterate(f, 0, base, grow)
    BY <2>1 DEF IsIterate
  <2>3. QED  BY <2>1, <2>2
<1>2. ASSUME NEW k \in Nat, k \in T, k + 1 <= n PROVE k + 1 \in T
  <2>1. PICK f \in [0 .. k -> S] : IsIterate(f, k, base, grow)
    BY <1>2
  <2> DEFINE next == grow[k + 1][f[k]]
             g == [i \in 0 .. k + 1 |-> IF i = k + 1 THEN next ELSE f[i]]
  <2>2. grow[k + 1] \in [S -> S] /\ f[k] \in S /\ next \in S
    BY <1>2
  <2>3. \A i \in 0 .. k : g[i] = f[i] /\ f[i] \in S
    BY <1>2
  <2>4. g[k + 1] = next
    BY <1>2
  <2>5. \A i \in 0 .. k + 1 : i \in 0 .. k \/ i = k + 1
    BY <1>2
  <2>6. g \in [0 .. k + 1 -> S]
    BY <2>2, <2>3, <2>4, <2>5
  <2> HIDE DEF g, next
  <2>7. ASSUME NEW i \in 1 .. k + 1 PROVE g[i] = grow[i][g[i - 1]]
    <3>1. i - 1 \in 0 .. k
      BY <1>2
    <3>2. CASE i = k + 1
      <4>1. i - 1 = k
        BY <1>2, <3>2
      <4>2. g[i - 1] = f[k]
        BY <2>3, <3>1, <4>1
      <4>3. QED  BY <2>4, <3>2, <4>2 DEF next
    <3>3. CASE i \in 1 .. k
      <4>1. f[i] = grow[i][f[i - 1]]
        BY <2>1, <3>3 DEF IsIterate
      <4>2. g[i] = f[i] /\ g[i - 1] = f[i - 1]
        BY <2>3, <3>1, <3>3
      <4>3. QED  BY <4>1, <4>2
    <3>4. i \in 1 .. k \/ i = k + 1
      BY <1>2
    <3>5. QED  BY <3>2, <3>3, <3>4
  <2>8. g[0] = base
    BY <1>2, <2>1, <2>3 DEF IsIterate
  <2>9. QED  BY <1>2, <2>6, <2>7, <2>8 DEF IsIterate
<1>3. \A k \in Nat : k \in T => k + 1 \in T
  <2>1. ASSUME NEW k \in Nat, k \in T, ~(k + 1 <= n) PROVE k + 1 \in T
    BY <2>1
  <2>2. QED  BY <1>2, <2>1
<1> HIDE DEF T
<1>4. n \in T
  BY <1>1, <1>3, Induct
<1>5. QED  BY <1>4 DEF T

(***************************************************************************)
(* Joining sequences                                                       *)
(***************************************************************************)
LEMMA Concatenated ==
  ASSUME NEW S, NEW s \in Seq(S), NEW t \in Seq(S)
  PROVE  /\ s \o t \in Seq(S) /\ Len(s \o t) = Len(s) + Len(t)
         /\ Len(s) \in Nat /\ Len(t) \in Nat
         /\ \A i \in 1 .. Len(s) : (s \o t)[i] = s[i]
         /\ \A i \in 1 .. Len(t) : (s \o t)[Len(s) + i] = t[i]
         /\ \A i \in 1 .. Len(s \o t) :
              i \in 1 .. Len(s) \/ \E k \in 1 .. Len(t) : i = Len(s) + k
<1>1. s \o t \in Seq(S) /\ Len(s \o t) = Len(s) + Len(t) /\ Len(s) \in Nat /\ Len(t) \in Nat
  OBVIOUS
<1>2. \A i \in 1 .. Len(s) : (s \o t)[i] = s[i]
  OBVIOUS
<1>3. \A i \in 1 .. Len(t) : (s \o t)[Len(s) + i] = t[i]
  OBVIOUS
<1>4. ASSUME NEW i \in 1 .. Len(s \o t), i \notin 1 .. Len(s)
      PROVE  \E k \in 1 .. Len(t) : i = Len(s) + k
  <2>1. i - Len(s) \in 1 .. Len(t) /\ i = Len(s) + (i - Len(s))
    BY <1>1, <1>4
  <2>2. QED  BY <2>1
<1>5. QED  BY <1>1, <1>2, <1>3, <1>4

\* c[n] joins the first n sequences of f.
Joins(c, f, S) ==
  /\ c \in [0 .. Len(f) -> Seq(S)] /\ c[0] = <<>>
  /\ \A n \in 1 .. Len(f) : c[n] = c[n - 1] \o f[n]

LEMMA Flattened ==
  ASSUME NEW S, NEW f \in Seq(Seq(S))
  PROVE  \E c : Joins(c, f, S) /\ FlattenSeq(f) = c[Len(f)]
<1>1. CASE Len(f) = 0
  <2> DEFINE c == [n \in 0 .. Len(f) |-> <<>>]
  <2>1. Joins(c, f, S)
    <3>1. 1 .. Len(f) = {}
      BY <1>1
    <3>2. <<>> \in Seq(S) /\ 0 \in 0 .. Len(f)
      BY <1>1
    <3>3. QED  BY <3>1, <3>2 DEF Joins
  <2>2. FlattenSeq(f) = f /\ f = <<>> /\ c[Len(f)] = <<>>
    BY <1>1 DEF FlattenSeq
  <2>3. QED  BY <2>1, <2>2
<1>2. CASE Len(f) # 0
  <2> DEFINE N == Len(f)
             add == [i \in 1 .. N |-> [s \in Seq(S) |-> s \o f[i]]]
             Eq(g) == g = [i \in 1 .. N |-> IF i = 1 THEN f[i] ELSE g[i - 1] \o f[i]]
  <2>1. N \in Nat /\ N > 0 /\ \A i \in 1 .. N : f[i] \in Seq(S)
    BY <1>2
  <2>2. add \in [1 .. N -> [Seq(S) -> Seq(S)]]
    BY <2>1
  <2>3. <<>> \in Seq(S)
    OBVIOUS
  <2>4. \A i \in 1 .. N, s \in Seq(S) : add[i][s] = s \o f[i]
    OBVIOUS
  <2> HIDE DEF add
  <2>5. PICK c \in [0 .. N -> Seq(S)] : IsIterate(c, N, <<>>, add)
    BY <2>1, <2>2, <2>3, Iterated
  <2>6. ASSUME NEW n \in 1 .. N PROVE n - 1 \in 0 .. N /\ c[n] = c[n - 1] \o f[n]
    <3>1. n - 1 \in 0 .. N /\ c[n] = add[n][c[n - 1]]
      BY <2>1, <2>5 DEF IsIterate
    <3>2. QED  BY <2>4, <2>5, <3>1
  <2>7. c[0] = <<>>
    BY <2>5 DEF IsIterate
  <2>8. Joins(c, f, S)
    BY <2>5, <2>6, <2>7 DEF Joins
  <2> DEFINE g == [i \in 1 .. N |-> c[i]]
  <2>9. ASSUME NEW i \in 1 .. N PROVE g[i] = IF i = 1 THEN f[i] ELSE g[i - 1] \o f[i]
    <3>1. CASE i = 1
      <4>1. i - 1 = 0
        BY <3>1
      <4>2. c[i] = <<>> \o f[i]
        BY <2>6, <2>7, <4>1, Zenon
      <4>3. f[i] \in Seq(S)
        BY <2>1
      <4>4. c[i] = f[i]
        BY <4>2, <4>3
      <4>5. g[i] = c[i]
        OBVIOUS
      <4>6. QED  BY <3>1, <4>4, <4>5, Zenon
    <3>2. CASE i # 1
      <4>1. i - 1 \in 1 .. N
        BY <2>1, <3>2
      <4>2. QED  BY <2>6, <3>2, <4>1
    <3>3. QED  BY <3>1, <3>2
  <2>10. Eq(g)
    BY <2>9
  <2> DEFINE h == CHOOSE h : Eq(h)
  <2>11. Eq(h)
    BY <2>10
  <2>12. FlattenSeq(f) = h[N]
    BY <1>2 DEF FlattenSeq
  <2> HIDE DEF h, g
  <2>13. \A i \in 1 .. N : h[i] = IF i = 1 THEN f[i] ELSE h[i - 1] \o f[i]
    BY <2>11
  <2> DEFINE T == {i \in Nat : i + 1 <= N => h[i + 1] = c[i + 1]}
  <2>14. 0 \in T
    <3>1. 1 \in 1 .. N /\ 1 - 1 = 0 /\ 0 + 1 = 1
      BY <2>1
    <3>2. h[1] = f[1] /\ c[1] = <<>> \o f[1] /\ f[1] \in Seq(S)
      BY <2>1, <2>6, <2>7, <2>13, <3>1
    <3>3. h[1] = c[1]
      BY <3>2
    <3>4. QED  BY <3>1, <3>3
  <2>15. ASSUME NEW i \in Nat, i \in T PROVE i + 1 \in T
    <3>1. ASSUME (i + 1) + 1 <= N PROVE h[(i + 1) + 1] = c[(i + 1) + 1]
      <4>1. i + 1 <= N /\ (i + 1) + 1 \in 1 .. N /\ (i + 1) + 1 # 1
            /\ ((i + 1) + 1) - 1 = i + 1
        BY <2>1, <3>1
      <4>2. h[i + 1] = c[i + 1]
        BY <2>15, <4>1
      <4>3. h[(i + 1) + 1] = h[((i + 1) + 1) - 1] \o f[(i + 1) + 1]
        BY <2>13, <4>1
      <4>4. c[(i + 1) + 1] = c[((i + 1) + 1) - 1] \o f[(i + 1) + 1]
        BY <2>6, <4>1
      <4>5. QED  BY <4>1, <4>2, <4>3, <4>4
    <3>2. QED  BY <3>1
  <2>16. Nat \subseteq T
    <3> HIDE DEF T
    <3>1. QED  BY <2>14, <2>15, Induct
  <2>17. h[N] = c[N]
    <3>1. N - 1 \in Nat /\ (N - 1) + 1 = N /\ N <= N
      BY <2>1
    <3>2. N - 1 \in T
      BY <2>16, <3>1
    <3>3. QED  BY <3>1, <3>2
  <2>18. QED  BY <2>8, <2>12, <2>17
<1>3. QED  BY <1>1, <1>2

\* What is joined comes from one of the sequences.
LEMMA JoinedFrom ==
  ASSUME NEW S, NEW f \in Seq(Seq(S)), NEW c, Joins(c, f, S)
  PROVE  \A n \in 0 .. Len(f) : \A i \in DOMAIN c[n] :
           \E m \in 1 .. n : \E k \in DOMAIN f[m] : c[n][i] = f[m][k]
<1> DEFINE From(n) == \A i \in DOMAIN c[n] :
                        \E m \in 1 .. n : \E k \in DOMAIN f[m] : c[n][i] = f[m][k]
           T == {n \in Nat : n <= Len(f) => From(n)}
<1>1. 0 \in T
  <2>1. DOMAIN c[0] = {}
    BY DEF Joins
  <2>2. QED  BY <2>1
<1>2. ASSUME NEW n \in Nat, n \in T PROVE n + 1 \in T
  <2> HIDE DEF From
  <2> SUFFICES ASSUME n + 1 <= Len(f) PROVE From(n + 1)
    OBVIOUS
  <2>1. n + 1 \in 1 .. Len(f) /\ n \in 0 .. Len(f) /\ (n + 1) - 1 = n /\ n <= Len(f)
    <3>1. \A x, l \in Nat : x + 1 <= l =>
            x + 1 \in 1 .. l /\ x \in 0 .. l /\ (x + 1) - 1 = x /\ x <= l
      OBVIOUS
    <3>2. Len(f) \in Nat
      OBVIOUS
    <3>3. QED  BY <3>1, <3>2, Zenon
  <2>2. PICK s \in Seq(S), t \in Seq(S) : s = c[n] /\ t = f[n + 1] /\ c[n + 1] = s \o t
    <3>1. c[n] \in Seq(S) /\ f[n + 1] \in Seq(S)
      <4>1. c \in [0 .. Len(f) -> Seq(S)]
        BY Zenon DEF Joins
      <4>2. \A k \in 1 .. Len(f) : f[k] \in Seq(S)
        OBVIOUS
      <4>3. QED  BY <2>1, <4>1, <4>2, Zenon
    <3>2. c[n + 1] = c[n] \o f[n + 1]
      BY <2>1, Zenon DEF Joins
    <3>3. QED  BY <3>1, <3>2
  <2>3. From(n)
    BY <1>2, <2>1
  <2>4. ASSUME NEW i \in DOMAIN c[n + 1]
        PROVE  \E m \in 1 .. n + 1 : \E k \in DOMAIN f[m] : c[n + 1][i] = f[m][k]
    <3>1. i \in 1 .. Len(s \o t)
      <4>1. s \o t \in Seq(S)
        BY Concatenated
      <4>2. DOMAIN (s \o t) = 1 .. Len(s \o t)
        BY <4>1
      <4>3. QED  BY <2>2, <4>2
    <3>2. CASE i \in 1 .. Len(s)
      <4>1. c[n + 1][i] = s[i] /\ i \in DOMAIN s
        BY <2>2, <3>2, Concatenated
      <4>2. PICK m \in 1 .. n : \E k \in DOMAIN f[m] : s[i] = f[m][k]
        BY <2>2, <2>3, <4>1 DEF From
      <4>3. m \in 1 .. n + 1
        OBVIOUS
      <4>4. QED  BY <4>1, <4>2, <4>3
    <3>3. CASE i \notin 1 .. Len(s)
      <4>1. PICK k \in 1 .. Len(t) : i = Len(s) + k
        BY <3>1, <3>3, Concatenated
      <4>2. c[n + 1][i] = t[k] /\ k \in DOMAIN t /\ n + 1 \in 1 .. n + 1
        BY <2>2, <4>1, Concatenated
      <4>3. QED  BY <2>2, <4>2
    <3>4. QED  BY <3>2, <3>3
  <2>5. QED  BY <2>4 DEF From
<1>3. Nat \subseteq T
  <2> HIDE DEF T
  <2>1. QED  BY <1>1, <1>2, Induct
<1>4. ASSUME NEW n \in 0 .. Len(f) PROVE From(n)
  <2>1. n \in Nat /\ n <= Len(f)
    OBVIOUS
  <2>2. n \in T
    BY <1>3, <2>1
  <2>3. QED  BY <2>1, <2>2
<1>5. QED  BY <1>4

LEMMA JoinStep ==
  ASSUME NEW S, NEW f \in Seq(Seq(S)), NEW c, Joins(c, f, S)
  PROVE  \A n \in 1 .. Len(f) :
           \E s, t \in Seq(S) : s = c[n - 1] /\ t = f[n] /\ c[n] = s \o t
<1> TAKE n \in 1 .. Len(f)
<1>1. n - 1 \in 0 .. Len(f)
  OBVIOUS
<1>2. c[n - 1] \in Seq(S)
  BY <1>1 DEF Joins
<1>3. f[n] \in Seq(S)
  OBVIOUS
<1>4. c[n] = c[n - 1] \o f[n]
  BY Zenon DEF Joins
<1>5. QED  BY <1>2, <1>3, <1>4, Zenon

LEMMA JoinStarts ==
  ASSUME NEW S, NEW f, NEW c, Joins(c, f, S)
  PROVE  c[0] = <<>> /\ DOMAIN c[0] = {}
BY DEF Joins

(***************************************************************************)
(* The transcript: what a turn, its results and the planner's input have   *)
(* to do with each other                                                   *)
(***************************************************************************)
IsTurn(m) == m.kind = "turn"
IsResults(m) == m.kind = "results"

\* The calls of a turn are answered by the next message.
Answered(h, i) == i < Len(h) /\ IsResults(h[i + 1]) /\ h[i + 1].id = h[i].id
Calling(m) == IsTurn(m) /\ m.calls
Unmatched(h) == {i \in DOMAIN h : Calling(h[i]) /\ ~Answered(h, i)}

\* Results follow their turn.
Asked(h, i) == i > 1 /\ IsTurn(h[i - 1]) /\ h[i - 1].id = h[i].id
Backed(h) == \A i \in DOMAIN h : IsResults(h[i]) => Asked(h, i)

\* A turn and its results, if both are there, are neighbours.
Aligned(h) ==
  \A i, j \in DOMAIN h : IsTurn(h[i]) /\ IsResults(h[j]) /\ h[j].id = h[i].id => j = i + 1

\* Where a position of s \o t lies.
LEMMA Placed ==
  ASSUME NEW S, NEW s \in Seq(S), NEW t \in Seq(S)
  PROVE  \A i \in DOMAIN (s \o t) :
           \/ i \in DOMAIN s /\ i \in 1 .. Len(s) /\ (s \o t)[i] = s[i]
           \/ \E k \in DOMAIN t : /\ k \in 1 .. Len(t) /\ i = Len(s) + k
                                  /\ (s \o t)[i] = t[k]
<1> TAKE i \in DOMAIN (s \o t)
<1>1. s \o t \in Seq(S)
  BY Concatenated
<1>2. i \in 1 .. Len(s \o t)
  BY <1>1
<1>3. CASE i \in 1 .. Len(s)
  <2>1. i \in DOMAIN s
    BY <1>3
  <2>2. QED  BY <1>3, <2>1, Concatenated
<1>4. CASE i \notin 1 .. Len(s)
  <2>1. PICK k \in 1 .. Len(t) : i = Len(s) + k
    BY <1>2, <1>4, Concatenated
  <2>2. k \in DOMAIN t
    OBVIOUS
  <2>3. (s \o t)[i] = t[k]
    BY <2>1, Concatenated
  <2>4. QED  BY <2>1, <2>2, <2>3
<1>5. QED  BY <1>3, <1>4

\* A turn in one sequence has its results in the same one, or it is the last of
\* its sequence and they are the first of the next.
Meet(f, m, n) ==
  \A i \in DOMAIN f[m], j \in DOMAIN f[n] :
    f[n][j].id = f[m][i].id =>
      /\ ~(IsResults(f[m][i]) /\ IsTurn(f[n][j]))
      /\ IsTurn(f[m][i]) /\ IsResults(f[n][j]) => n = m + 1 /\ i = Len(f[m]) /\ j = 1

LEMMA FlattenAligned ==
  ASSUME NEW S, NEW f \in Seq(Seq(S)), \A n \in 1 .. Len(f) : Aligned(f[n]),
         \A m, n \in 1 .. Len(f) : m < n => Meet(f, m, n)
  PROVE  Aligned(FlattenSeq(f))
<1>1. PICK c : Joins(c, f, S) /\ FlattenSeq(f) = c[Len(f)]
  BY Flattened
<1>2. \A n \in 0 .. Len(f) : \A i \in DOMAIN c[n] :
        \E m \in 1 .. n : \E k \in DOMAIN f[m] : c[n][i] = f[m][k]
  BY <1>1, JoinedFrom
<1>3. \A n \in 1 .. Len(f) : \E s, t \in Seq(S) : s = c[n - 1] /\ t = f[n] /\ c[n] = s \o t
  BY <1>1, JoinStep
<1>4. \A u, v \in Seq(S) : \A i \in DOMAIN (u \o v) :
         \/ i \in DOMAIN u /\ i \in 1 .. Len(u) /\ (u \o v)[i] = u[i]
         \/ \E k \in DOMAIN v : /\ k \in 1 .. Len(v) /\ i = Len(u) + k
                                /\ (u \o v)[i] = v[k]
  <2> TAKE u, v \in Seq(S)
  <2>1. QED  BY Placed
<1> DEFINE T == {n \in Nat : n <= Len(f) => Aligned(c[n])}
<1>5. 0 \in T
  <2>1. DOMAIN c[0] = {}
    BY <1>1, JoinStarts
  <2>2. QED  BY <2>1 DEF Aligned
<1>6. ASSUME NEW n \in Nat, n \in T PROVE n + 1 \in T
  <2> SUFFICES ASSUME n + 1 <= Len(f) PROVE Aligned(c[n + 1])
    OBVIOUS
  <2>1. n + 1 \in 1 .. Len(f) /\ n \in 0 .. Len(f) /\ (n + 1) - 1 = n /\ n <= Len(f)
    OBVIOUS
  <2>2. PICK s, t \in Seq(S) : s = c[n] /\ t = f[n + 1] /\ c[n + 1] = s \o t
    <3>1. \E s, t \in Seq(S) : s = c[(n + 1) - 1] /\ t = f[n + 1] /\ c[n + 1] = s \o t
      BY <1>3, <2>1, Zenon
    <3>2. QED  BY <2>1, <3>1, Zenon
  <2>3. Aligned(s) /\ Aligned(t)
    BY <1>6, <2>1, <2>2
  <2>4. Len(s) \in Nat
    OBVIOUS
  <2>5. ASSUME NEW i \in DOMAIN (s \o t), NEW j \in DOMAIN (s \o t),
               IsTurn((s \o t)[i]), IsResults((s \o t)[j]), (s \o t)[j].id = (s \o t)[i].id
        PROVE  j = i + 1
    <3>1. CASE i \in DOMAIN s /\ (s \o t)[i] = s[i] /\ j \in DOMAIN s /\ (s \o t)[j] = s[j]
      BY <2>3, <2>5, <3>1, Zenon DEF Aligned
    <3>2. ASSUME NEW k \in 1 .. Len(t), NEW l \in 1 .. Len(t), i = Len(s) + k, j = Len(s) + l,
                 k \in DOMAIN t, l \in DOMAIN t, (s \o t)[i] = t[k], (s \o t)[j] = t[l]
          PROVE  j = i + 1
      <4>1. l = k + 1
        BY <2>3, <2>5, <3>2, Zenon DEF Aligned
      <4>2. QED  BY <2>4, <3>2, <4>1
    <3>3. ASSUME i \in DOMAIN s, i \in 1 .. Len(s), (s \o t)[i] = s[i], NEW l \in 1 .. Len(t),
                 j = Len(s) + l, l \in DOMAIN t, (s \o t)[j] = t[l]
          PROVE  j = i + 1
      <4>1. n # 0
        <5>1. DOMAIN c[0] = {}
          BY <1>1, JoinStarts
        <5>2. QED  BY <2>2, <3>3, <5>1
      <4>2. n \in 1 .. Len(f) /\ n - 1 \in 0 .. Len(f) /\ n < n + 1
        BY <2>1, <4>1
      <4>3. PICK u, v \in Seq(S) : u = c[n - 1] /\ v = f[n] /\ s = u \o v
        BY <1>3, <2>2, <4>2, Zenon
      <4>4. i \in DOMAIN (u \o v)
        BY <3>3, <4>3
      <4>5. ASSUME i \in DOMAIN u, (u \o v)[i] = u[i] PROVE FALSE
        <5>1. PICK m \in 1 .. n - 1 : \E k \in DOMAIN f[m] : u[i] = f[m][k]
          BY <1>2, <4>2, <4>3, <4>5
        <5>2. PICK k \in DOMAIN f[m] : u[i] = f[m][k]
          BY <5>1
        <5>3. m \in 1 .. Len(f) /\ m < n + 1 /\ n + 1 # m + 1
          BY <2>1, <4>2
        <5>4. Meet(f, m, n + 1)
          BY <2>1, <5>3
        <5>5. IsTurn(f[m][k]) /\ IsResults(f[n + 1][l]) /\ f[n + 1][l].id = f[m][k].id
          BY <2>2, <2>5, <3>3, <4>3, <4>5, <5>2, Zenon
        <5>6. l \in DOMAIN f[n + 1]
          BY <2>2, <3>3
        <5>7. n + 1 = m + 1
          BY <5>4, <5>5, <5>6, Zenon DEF Meet
        <5>8. QED  BY <5>3, <5>7
      <4>6. PICK k \in DOMAIN v : k \in 1 .. Len(v) /\ i = Len(u) + k /\ (u \o v)[i] = v[k]
        <5>1. \/ i \in DOMAIN u /\ i \in 1 .. Len(u) /\ (u \o v)[i] = u[i]
              \/ \E k \in DOMAIN v : /\ k \in 1 .. Len(v) /\ i = Len(u) + k
                                     /\ (u \o v)[i] = v[k]
          BY <1>4, <4>4, Zenon
        <5>2. QED  BY <4>5, <5>1, Zenon
      <4>7. Meet(f, n, n + 1)
        BY <2>1, <4>2
      <4>8. IsTurn(f[n][k]) /\ IsResults(f[n + 1][l]) /\ f[n + 1][l].id = f[n][k].id
        BY <2>2, <2>5, <3>3, <4>3, <4>6, Zenon
      <4>9. k \in DOMAIN f[n] /\ l \in DOMAIN f[n + 1]
        BY <2>2, <3>3, <4>3, <4>6
      <4>10. k = Len(f[n]) /\ l = 1
        BY <4>7, <4>8, <4>9, Zenon DEF Meet
      <4>11. Len(s) = Len(u) + Len(v)
        BY <4>3, Concatenated
      <4>12. i = Len(s)
        BY <4>3, <4>6, <4>10, <4>11
      <4>13. QED  BY <2>4, <3>3, <4>10, <4>12
    <3>4. ASSUME j \in DOMAIN s, (s \o t)[j] = s[j], NEW k \in 1 .. Len(t),
                 k \in DOMAIN t, (s \o t)[i] = t[k]
          PROVE  FALSE
      <4>1. PICK m \in 1 .. n : \E l \in DOMAIN f[m] : s[j] = f[m][l]
        BY <1>2, <2>1, <2>2, <3>4
      <4>2. PICK l \in DOMAIN f[m] : s[j] = f[m][l]
        BY <4>1
      <4>3. m \in 1 .. Len(f) /\ m < n + 1
        BY <2>1
      <4>4. Meet(f, m, n + 1)
        BY <2>1, <4>3
      <4>5. IsTurn(f[n + 1][k]) /\ IsResults(f[m][l]) /\ f[n + 1][k].id = f[m][l].id
        BY <2>2, <2>5, <3>4, <4>2, Zenon
      <4>6. k \in DOMAIN f[n + 1]
        BY <2>2, <3>4
      <4>7. QED  BY <4>4, <4>5, <4>6, Zenon DEF Meet
    <3>5. \/ i \in DOMAIN s /\ i \in 1 .. Len(s) /\ (s \o t)[i] = s[i]
          \/ \E k \in DOMAIN t : /\ k \in 1 .. Len(t) /\ i = Len(s) + k
                                 /\ (s \o t)[i] = t[k]
      BY Placed
    <3>6. \/ j \in DOMAIN s /\ j \in 1 .. Len(s) /\ (s \o t)[j] = s[j]
          \/ \E k \in DOMAIN t : /\ k \in 1 .. Len(t) /\ j = Len(s) + k
                                 /\ (s \o t)[j] = t[k]
      BY Placed
    <3>7. QED  BY <3>1, <3>2, <3>3, <3>4, <3>5, <3>6, Zenon
  <2>6. Aligned(s \o t)
    BY <2>5, Zenon DEF Aligned
  <2>7. QED  BY <2>2, <2>6
<1>7. Nat \subseteq T
  <2> HIDE DEF T
  <2>1. QED  BY <1>5, <1>6, Induct
<1>8. Len(f) \in Nat /\ Len(f) <= Len(f)
  OBVIOUS
<1>9. Aligned(c[Len(f)])
  BY <1>7, <1>8
<1>10. QED  BY <1>1, <1>9

\* The results are the first of their sequence, and their turn the last of the
\* one before.
Follows(f, n, k) ==
  /\ k = 1 /\ n > 1 /\ f[n - 1] # <<>>
  /\ IsTurn(f[n - 1][Len(f[n - 1])]) /\ f[n - 1][Len(f[n - 1])].id = f[n][k].id

LEMMA OneLess ==
  \A x, y, z \in Nat :
    x > 1 /\ x <= y => x - 1 \in 1 .. y /\ (z + x) - 1 = z + (x - 1) /\ z + x > 1
OBVIOUS

LEMMA FlattenBacked ==
  ASSUME NEW S, NEW f \in Seq(Seq(S)),
         \A n \in 1 .. Len(f) : \A k \in DOMAIN f[n] :
           IsResults(f[n][k]) => Asked(f[n], k) \/ Follows(f, n, k)
  PROVE  Backed(FlattenSeq(f))
<1>1. PICK c : Joins(c, f, S) /\ FlattenSeq(f) = c[Len(f)]
  BY Flattened
<1>2. \A n \in 1 .. Len(f) : \E s, t \in Seq(S) : s = c[n - 1] /\ t = f[n] /\ c[n] = s \o t
  BY <1>1, JoinStep
<1> DEFINE T == {n \in Nat : n <= Len(f) => Backed(c[n])}
<1>3. 0 \in T
  <2>1. DOMAIN c[0] = {}
    BY <1>1, JoinStarts
  <2>2. QED  BY <2>1 DEF Backed
<1>4. ASSUME NEW n \in Nat, n \in T PROVE n + 1 \in T
  <2> SUFFICES ASSUME n + 1 <= Len(f) PROVE Backed(c[n + 1])
    OBVIOUS
  <2>1. n + 1 \in 1 .. Len(f) /\ n \in 0 .. Len(f) /\ (n + 1) - 1 = n /\ n <= Len(f)
    OBVIOUS
  <2>2. PICK s, t \in Seq(S) : s = c[n] /\ t = f[n + 1] /\ c[n + 1] = s \o t
    <3>1. \E s, t \in Seq(S) : s = c[(n + 1) - 1] /\ t = f[n + 1] /\ c[n + 1] = s \o t
      BY <1>2, <2>1, Zenon
    <3>2. QED  BY <2>1, <3>1, Zenon
  <2>3. Backed(s)
    BY <1>4, <2>1, <2>2
  <2>4. Len(s) \in Nat
    OBVIOUS
  <2>5. ASSUME NEW i \in DOMAIN (s \o t), IsResults((s \o t)[i])
        PROVE  Asked(s \o t, i)
    <3>1. CASE i \in DOMAIN s /\ i \in 1 .. Len(s) /\ (s \o t)[i] = s[i]
      <4>1. Asked(s, i)
        BY <2>3, <2>5, <3>1, Zenon DEF Backed
      <4>2. i > 1
        BY <4>1 DEF Asked
      <4>3. i - 1 \in 1 .. Len(s)
        BY <2>4, <3>1, <4>2
      <4>4. (s \o t)[i - 1] = s[i - 1]
        BY <4>3, Concatenated
      <4>5. QED  BY <3>1, <4>1, <4>4, Zenon DEF Asked
    <3>2. ASSUME NEW k \in DOMAIN t, k \in 1 .. Len(t), i = Len(s) + k, (s \o t)[i] = t[k]
          PROVE  Asked(s \o t, i)
      <4>0. k \in Nat /\ Len(t) \in Nat /\ k <= Len(t) /\ k >= 1
        BY <3>2
      <4>1. IsResults(f[n + 1][k]) /\ k \in DOMAIN f[n + 1]
        BY <2>2, <2>5, <3>2, Zenon
      <4>2. Asked(f[n + 1], k) \/ Follows(f, n + 1, k)
        BY <2>1, <4>1, Zenon
      <4>3. CASE Asked(f[n + 1], k)
        <5>1. Asked(t, k)
          BY <2>2, <4>3, Zenon
        <5>2. k > 1
          BY <5>1 DEF Asked
        <5>3. PICK l \in 1 .. Len(t) : l = k - 1
          BY <4>0, <5>2, OneLess
        <5>4. i - 1 = Len(s) + l /\ i > 1
          BY <2>4, <3>2, <4>0, <5>2, <5>3, OneLess
        <5>5. (s \o t)[Len(s) + l] = t[l]
          BY Concatenated
        <5>6. QED  BY <3>2, <5>1, <5>3, <5>4, <5>5, Zenon DEF Asked
      <4>4. CASE Follows(f, n + 1, k)
        <5>1. k = 1 /\ n + 1 > 1
          BY <4>4, Zenon DEF Follows
        <5>2. n \in 1 .. Len(f)
          BY <2>1, <5>1
        <5>3. PICK u, v \in Seq(S) : u = c[n - 1] /\ v = f[n] /\ s = u \o v
          BY <1>2, <2>2, <5>2, Zenon
        <5>4. v # <<>> /\ IsTurn(v[Len(v)]) /\ v[Len(v)].id = t[k].id
          BY <2>1, <2>2, <4>4, <5>3, Zenon DEF Follows
        <5>5. Len(v) \in 1 .. Len(v)
          BY <5>4
        <5>6. s[Len(u) + Len(v)] = v[Len(v)] /\ Len(s) = Len(u) + Len(v) /\ Len(u) \in Nat
          <6>1. /\ (u \o v)[Len(u) + Len(v)] = v[Len(v)]
                /\ Len(u \o v) = Len(u) + Len(v) /\ Len(u) \in Nat
            BY <5>5, Concatenated
          <6>2. QED  BY <5>3, <6>1, Zenon
        <5>7. Len(s) \in 1 .. Len(s) /\ i - 1 = Len(s) /\ i > 1
          <6>1. i = Len(s) + 1
            BY <3>2, <5>1, Zenon
          <6>2. Len(v) \in Nat /\ Len(v) >= 1
            BY <5>5
          <6>3. Len(s) >= 1
            BY <5>6, <6>2
          <6>4. \A x \in Nat : x >= 1 => x \in 1 .. x /\ (x + 1) - 1 = x /\ x + 1 > 1
            OBVIOUS
          <6>5. QED  BY <2>4, <6>1, <6>3, <6>4, Zenon
        <5>8. (s \o t)[Len(s)] = s[Len(s)]
          BY <5>7, Concatenated
        <5>9. QED  BY <3>2, <5>4, <5>6, <5>7, <5>8, Zenon DEF Asked
      <4>5. QED  BY <4>2, <4>3, <4>4
    <3>3. \/ i \in DOMAIN s /\ i \in 1 .. Len(s) /\ (s \o t)[i] = s[i]
          \/ \E k \in DOMAIN t : /\ k \in 1 .. Len(t) /\ i = Len(s) + k
                                 /\ (s \o t)[i] = t[k]
      BY Placed
    <3>4. QED  BY <3>1, <3>2, <3>3, Zenon
  <2>6. Backed(s \o t)
    BY <2>5, Zenon DEF Backed
  <2>7. QED  BY <2>2, <2>6
<1>5. Nat \subseteq T
  <2> HIDE DEF T
  <2>1. QED  BY <1>3, <1>4, Induct
<1>6. Len(f) \in Nat /\ Len(f) <= Len(f)
  OBVIOUS
<1>7. Backed(c[Len(f)])
  BY <1>5, <1>6
<1>8. QED  BY <1>1, <1>7

(***************************************************************************)
(* The repair                                                              *)
(***************************************************************************)
\* A message of a sequence is a sequence of its own, or nothing.
LEMMA Sieved ==
  ASSUME NEW S, NEW h \in Seq(S), NEW f,
         f = [i \in DOMAIN h |-> IF Kept(h, i) THEN <<h[i]>> ELSE <<>>]
  PROVE  /\ f \in Seq(Seq(S)) /\ Len(f) = Len(h) /\ DOMAIN h = 1 .. Len(h) /\ Len(h) \in Nat
         /\ \A i \in 1 .. Len(h) : /\ Kept(h, i) => f[i] = <<h[i]>>
                                   /\ ~Kept(h, i) => f[i] = <<>>
<1>1. DOMAIN h = 1 .. Len(h) /\ Len(h) \in Nat
  OBVIOUS
<1>2. \A i \in 1 .. Len(h) : h[i] \in S
  OBVIOUS
<1>3. \A i \in 1 .. Len(h) : f[i] = IF Kept(h, i) THEN <<h[i]>> ELSE <<>>
  BY <1>1
<1>4. \A m \in S : <<m>> \in Seq(S)
  OBVIOUS
<1>5. <<>> \in Seq(S)
  OBVIOUS
<1>6. \A i \in 1 .. Len(h) : f[i] \in Seq(S)
  BY <1>2, <1>3, <1>4, <1>5, Zenon
<1>7. f \in [1 .. Len(h) -> Seq(S)]
  BY <1>1, <1>6
<1>8. f \in Seq(Seq(S)) /\ Len(f) = Len(h)
  <2>1. \A T, g : \A n \in Nat : g \in [1 .. n -> T] => g \in Seq(T) /\ Len(g) = n
    OBVIOUS
  <2>2. QED  BY <1>1, <1>7, <2>1, Zenon
<1>9. QED  BY <1>1, <1>3, <1>8, Zenon

LEMMA OrphanMeans ==
  ASSUME NEW h, NEW i \in DOMAIN h
  PROVE  Orphan(h, i) <=>
           Calling(h[i]) /\ \A j \in DOMAIN h : ~(IsResults(h[j]) /\ h[j].id = h[i].id)
BY DEF Orphan, Calling, IsTurn, IsResults

\* A turn with calls that is kept has its results behind it, and they are kept.
LEMMA KeptAnswered ==
  ASSUME NEW S, NEW h \in Seq(S), Aligned(h), NEW n \in DOMAIN h, Kept(h, n), Calling(h[n])
  PROVE  /\ n + 1 \in DOMAIN h /\ IsResults(h[n + 1]) /\ h[n + 1].id = h[n].id
         /\ Kept(h, n + 1)
<1>1. ~Orphan(h, n)
  BY DEF Kept
<1>2. PICK j \in DOMAIN h : IsResults(h[j]) /\ h[j].id = h[n].id
  BY <1>1, OrphanMeans
<1>3. j = n + 1
  BY <1>2, Zenon DEF Aligned, Calling
<1>4. n \in Nat /\ (n + 1) - 1 = n
  OBVIOUS
<1>5. ~Orphan(h, n + 1)
  BY <1>2, <1>3 DEF Orphan, IsResults
<1>6. Kept(h, n + 1)
  BY <1>1, <1>4, <1>5, Zenon DEF Kept
<1>7. QED  BY <1>2, <1>3, <1>6

\* The repaired history: every call has its results behind it.
LEMMA SanitizePairs ==
  ASSUME NEW S, NEW h \in Seq(S), Aligned(h)
  PROVE  Sanitize(h) \in Seq(S) /\ Unmatched(Sanitize(h)) = {}
<1> DEFINE f == [i \in DOMAIN h |-> IF Kept(h, i) THEN <<h[i]>> ELSE <<>>]
<1>1. /\ f \in Seq(Seq(S)) /\ Len(f) = Len(h) /\ DOMAIN h = 1 .. Len(h) /\ Len(h) \in Nat
      /\ \A i \in 1 .. Len(h) : /\ Kept(h, i) => f[i] = <<h[i]>>
                                /\ ~Kept(h, i) => f[i] = <<>>
  BY Sieved
<1>2. Sanitize(h) = FlattenSeq(f)
  BY DEF Sanitize
<1> HIDE DEF f
<1>3. PICK c : Joins(c, f, S) /\ FlattenSeq(f) = c[Len(f)]
  BY <1>1, Flattened
<1>4. \A n \in 1 .. Len(h) : \E s, t \in Seq(S) : s = c[n - 1] /\ t = f[n] /\ c[n] = s \o t
  <2>1. f \in Seq(Seq(S)) /\ Joins(c, f, S)
    BY <1>1, <1>3, Zenon
  <2>2. \A n \in 1 .. Len(f) : \E s, t \in Seq(S) : s = c[n - 1] /\ t = f[n] /\ c[n] = s \o t
    BY <2>1, JoinStep
  <2>3. QED  BY <1>1, <2>2, Zenon
<1> DEFINE Open(n) ==
             \A i \in DOMAIN c[n] :
               Calling(c[n][i]) /\ ~Answered(c[n], i) =>
                 i = Len(c[n]) /\ n > 0 /\ Kept(h, n) /\ c[n][i] = h[n]
           T == {n \in Nat : n <= Len(h) => Open(n)}
<1>5. 0 \in T
  <2>1. DOMAIN c[0] = {}
    BY <1>1, <1>3, JoinStarts
  <2>2. QED  BY <2>1
<1>6. ASSUME NEW n \in Nat, n \in T PROVE n + 1 \in T
  <2> HIDE DEF Open
  <2> SUFFICES ASSUME n + 1 <= Len(h) PROVE Open(n + 1)
    OBVIOUS
  <2>1. n + 1 \in 1 .. Len(h) /\ n \in 0 .. Len(h) /\ (n + 1) - 1 = n /\ n <= Len(h) /\ n + 1 > 0
        /\ (n > 0 => n \in 1 .. Len(h))
    BY <1>1
  <2>2. PICK s, t \in Seq(S) : s = c[n] /\ t = f[n + 1] /\ c[n + 1] = s \o t
    <3>1. \E s, t \in Seq(S) : s = c[(n + 1) - 1] /\ t = f[n + 1] /\ c[n + 1] = s \o t
      BY <1>4, <2>1, Zenon
    <3>2. QED  BY <2>1, <3>1, Zenon
  <2>3. Open(n)
    BY <1>6, <2>1
  <2>4. Len(s) \in Nat /\ DOMAIN s = 1 .. Len(s) /\ Len(s \o t) = Len(s) + Len(t)
    BY Concatenated
  <2>5. ASSUME NEW i \in DOMAIN (s \o t), Calling((s \o t)[i]), ~Answered(s \o t, i)
        PROVE  i = Len(s \o t) /\ Kept(h, n + 1) /\ (s \o t)[i] = h[n + 1]
    <3>1. ASSUME i \in DOMAIN s, i \in 1 .. Len(s), (s \o t)[i] = s[i]
          PROVE  FALSE
      <4>1. ~Answered(s, i)
        <5>1. ASSUME Answered(s, i) PROVE FALSE
          <6>1. i < Len(s) /\ IsResults(s[i + 1]) /\ s[i + 1].id = s[i].id
            BY <5>1, Zenon DEF Answered
          <6>2. i + 1 \in 1 .. Len(s)
            BY <2>4, <3>1, <6>1
          <6>3. (s \o t)[i + 1] = s[i + 1]
            BY <6>2, Concatenated
          <6>4. i < Len(s \o t)
            <7>1. Len(t) \in Nat /\ i \in Nat
              BY <3>1
            <7>2. \A x, y, z \in Nat : x < y => x < y + z
              OBVIOUS
            <7>3. QED  BY <2>4, <6>1, <7>1, <7>2, Zenon
          <6>5. QED  BY <2>5, <3>1, <6>1, <6>3, <6>4, Zenon DEF Answered
        <5>2. QED  BY <5>1
      <4>2. i = Len(s) /\ n > 0 /\ Kept(h, n) /\ s[i] = h[n]
        BY <2>2, <2>3, <2>5, <3>1, <4>1, Zenon DEF Open
      <4>3. n \in DOMAIN h /\ Calling(h[n])
        BY <1>1, <2>1, <2>5, <3>1, <4>2, Zenon
      <4>4. IsResults(h[n + 1]) /\ h[n + 1].id = h[n].id /\ Kept(h, n + 1)
        BY <4>2, <4>3, KeptAnswered
      <4>5. t = <<h[n + 1]>>
        BY <1>1, <2>1, <2>2, <4>4, Zenon
      <4>6. Len(t) = 1 /\ t[1] = h[n + 1]
        BY <4>5
      <4>7. 1 \in 1 .. Len(t)
        BY <4>6
      <4>8. (s \o t)[i + 1] = h[n + 1]
        <5>1. (s \o t)[Len(s) + 1] = t[1]
          BY <4>7, Concatenated
        <5>2. QED  BY <4>2, <4>6, <5>1, Zenon
      <4>9. i < Len(s \o t)
        BY <2>4, <4>2, <4>6
      <4>10. (s \o t)[i + 1].id = (s \o t)[i].id /\ IsResults((s \o t)[i + 1])
        BY <3>1, <4>2, <4>4, <4>8, Zenon
      <4>11. QED  BY <2>5, <3>1, <4>2, <4>9, <4>10, Zenon DEF Answered
    <3>2. ASSUME NEW k \in DOMAIN t, k \in 1 .. Len(t), i = Len(s) + k, (s \o t)[i] = t[k]
          PROVE  i = Len(s \o t) /\ Kept(h, n + 1) /\ (s \o t)[i] = h[n + 1]
      <4>1. t # <<>>
        BY <3>2
      <4>2. Kept(h, n + 1) /\ t = <<h[n + 1]>>
        BY <1>1, <2>1, <2>2, <4>1, Zenon
      <4>3. Len(t) = 1 /\ t[1] = h[n + 1]
        BY <4>2
      <4>4. k = 1
        BY <3>2, <4>3
      <4>5. QED  BY <2>4, <3>2, <4>2, <4>3, <4>4, Zenon
    <3>3. \/ i \in DOMAIN s /\ i \in 1 .. Len(s) /\ (s \o t)[i] = s[i]
          \/ \E k \in DOMAIN t : /\ k \in 1 .. Len(t) /\ i = Len(s) + k
                                 /\ (s \o t)[i] = t[k]
      BY Placed
    <3>4. QED  BY <3>1, <3>2, <3>3, Zenon
  <2>6. QED  BY <2>1, <2>2, <2>5, Zenon DEF Open
<1>7. Nat \subseteq T
  <2> HIDE DEF T
  <2>1. QED  BY <1>5, <1>6, Induct
<1>8. Open(Len(h))
  <2>1. Len(h) \in T /\ Len(h) <= Len(h)
    BY <1>1, <1>7
  <2>2. QED  BY <2>1
<1>9. Sanitize(h) = c[Len(h)]
  BY <1>1, <1>2, <1>3, Zenon
<1>10. c[Len(h)] \in Seq(S)
  <2>1. Len(h) \in 0 .. Len(h)
    BY <1>1
  <2>2. c \in [0 .. Len(h) -> Seq(S)]
    BY <1>1, <1>3, Zenon DEF Joins
  <2>3. QED  BY <2>1, <2>2
<1>11. ASSUME NEW i \in DOMAIN c[Len(h)], Calling(c[Len(h)][i]), ~Answered(c[Len(h)], i)
       PROVE  FALSE
  <2>1. Len(h) > 0 /\ Kept(h, Len(h)) /\ c[Len(h)][i] = h[Len(h)]
    BY <1>8, <1>11, Zenon
  <2>2. Len(h) \in DOMAIN h /\ Calling(h[Len(h)])
    BY <1>1, <1>11, <2>1
  <2>3. Len(h) + 1 \in DOMAIN h
    BY <2>1, <2>2, KeptAnswered
  <2>4. QED  BY <1>1, <2>3
<1>12. QED  BY <1>9, <1>10, <1>11, Zenon DEF Unmatched

\* Results keep their turn.
LEMMA SanitizeBacked ==
  ASSUME NEW S, NEW h \in Seq(S), Backed(h)
  PROVE  Backed(Sanitize(h))
<1> DEFINE f == [i \in DOMAIN h |-> IF Kept(h, i) THEN <<h[i]>> ELSE <<>>]
<1>1. /\ f \in Seq(Seq(S)) /\ Len(f) = Len(h) /\ DOMAIN h = 1 .. Len(h) /\ Len(h) \in Nat
      /\ \A i \in 1 .. Len(h) : /\ Kept(h, i) => f[i] = <<h[i]>>
                                /\ ~Kept(h, i) => f[i] = <<>>
  BY Sieved
<1>2. Sanitize(h) = FlattenSeq(f)
  BY DEF Sanitize
<1> HIDE DEF f
<1>3. ASSUME NEW n \in 1 .. Len(f), NEW k \in DOMAIN f[n], IsResults(f[n][k])
      PROVE  Follows(f, n, k)
  <2>1. f[n] # <<>> /\ n \in DOMAIN h /\ n \in 1 .. Len(h)
    BY <1>1
  <2>2. Kept(h, n) /\ f[n] = <<h[n]>>
    BY <1>1, <2>1, Zenon
  <2>3. k = 1 /\ f[n][k] = h[n]
    BY <2>2
  <2>4. n > 1 /\ IsTurn(h[n - 1]) /\ h[n - 1].id = h[n].id
    BY <1>3, <2>1, <2>3, Zenon DEF Backed, Asked
  <2>5. n - 1 \in 1 .. Len(h)
    BY <1>1, <2>1, <2>4
  <2>6. ~Orphan(h, n - 1)
    BY <1>3, <2>2, <2>3, <2>4, Zenon DEF Kept, IsResults
  <2>7. Kept(h, n - 1)
    BY <2>4, <2>6 DEF Kept, IsTurn
  <2>8. f[n - 1] = <<h[n - 1]>>
    BY <1>1, <2>5, <2>7, Zenon
  <2>9. Len(f[n - 1]) = 1 /\ f[n - 1][1] = h[n - 1] /\ f[n - 1] # <<>>
    BY <2>8
  <2>10. QED  BY <2>3, <2>4, <2>9, Zenon DEF Follows
<1>4. Backed(FlattenSeq(f))
  BY <1>1, <1>3, FlattenBacked
<1>5. QED  BY <1>2, <1>4, Zenon
\* No result was lost and no write missing so far.
Clean == lost = 0 /\ dbErrors = 0

Serving == {"fanout", "human", "record"}

\* A message of a row belongs to it, and a turn and its results are neighbours.
RowOwned(r) ==
  \A n \in Seqs : rows[r].msgs[n].kind \in {"turn", "results"} => rows[r].msgs[n].id[1] = r
RowAligned(r) ==
  \A n, k \in Seqs :
    /\ IsTurn(rows[r].msgs[n]) /\ IsResults(rows[r].msgs[k])
    /\ rows[r].msgs[k].id[2] = rows[r].msgs[n].id[2]
    => k = n + 1
RowBacked(r) ==
  \A n \in Seqs :
    IsResults(rows[r].msgs[n]) =>
      n > 0 /\ IsTurn(rows[r].msgs[n - 1]) /\ rows[r].msgs[n - 1].id = rows[r].msgs[n].id

RowsKept == \A r \in DOMAIN rows : RowOwned(r) /\ RowAligned(r) /\ (Clean => RowBacked(r))

\* The messages of the current row, against the turn being planned or served.
OwnTurns ==
  run > 0 => \A n \in Seqs :
    /\ rows[run].msgs[n].kind \in {"turn", "results"} => rows[run].msgs[n].id[2] <= iteration
    /\ IsTurn(rows[run].msgs[n]) /\ rows[run].msgs[n].id[2] = iteration =>
         /\ stage = "plan" => n = msgSeq
         /\ stage \in Serving => n + 1 = msgSeq
    /\ IsResults(rows[run].msgs[n]) /\ rows[run].msgs[n].id[2] = iteration =>
         stage \notin {"plan", "fanout", "human"}

\* Nothing is stored ahead of the turn, and the turn is, unless something failed.
OwnSlots ==
  Clean =>
    /\ stage \in {"plan", "fanout", "human", "record", "summary"} =>
         \A n \in Seqs : n >= msgSeq => rows[run].msgs[n] = NoMessage
    /\ stage \in Serving => rows[run].msgs[msgSeq - 1] = turn

TurnServed ==
  stage \in Serving => IsTurn(turn) /\ turn.id[1] = run /\ turn.id[2] = iteration

\* What the planner is shown, or what it has been shown and the turn it took.
MindKept ==
  /\ messages \in Seq(KeptMessages)
  /\ stage \in {"init", "plan", "record", "summary"} =>
       Unmatched(messages) = {} /\ (Clean => Backed(messages))
  /\ stage \in {"fanout", "human"} =>
       /\ messages # <<>> /\ messages[Len(messages)] = turn
       /\ Unmatched(messages) \subseteq {Len(messages)} /\ (Clean => Backed(messages))

PInv == RowsKept /\ OwnTurns /\ OwnSlots /\ TurnServed /\ MindKept

(***************************************************************************)
(* The stored rows, read as a history                                      *)
(***************************************************************************)
\* A sequence of sequences, given by its members.
LEMMA SequenceOf ==
  ASSUME NEW n \in Nat, NEW S, NEW f \in [1 .. n -> S]
  PROVE  f \in Seq(S) /\ Len(f) = n
OBVIOUS

LEMMA SingleOrNone ==
  ASSUME NEW S, NEW m \in S
  PROVE  /\ <<>> \in Seq(S) /\ <<m>> \in Seq(S) /\ DOMAIN <<m>> = {1} /\ Len(<<m>>) = 1
         /\ <<m>>[1] = m /\ <<m>> # <<>>
OBVIOUS

LEMMA AlignedSingle ==
  ASSUME NEW S, NEW m \in S
  PROVE  Aligned(<<m>>) /\ Aligned(<<>>)
<1>1. DOMAIN <<m>> = {1} /\ <<m>>[1] = m
  BY SingleOrNone
<1>2. ~(IsTurn(m) /\ IsResults(m))
  BY DEF IsTurn, IsResults
<1>3. Aligned(<<m>>)
  BY <1>1, <1>2, Zenon DEF Aligned
<1>4. Aligned(<<>>)
  BY DEF Aligned
<1>5. QED  BY <1>3, <1>4

LEMMA TranscriptKept ==
  ASSUME TypeOK, RowsKept, NEW r \in DOMAIN rows
  PROVE  /\ Transcript(rows[r]) \in Seq(KeptMessages)
         /\ Aligned(Transcript(rows[r]))
         /\ Clean => Backed(Transcript(rows[r]))
         /\ \A i \in DOMAIN Transcript(rows[r]) :
              Transcript(rows[r])[i].kind \in {"turn", "results"} =>
                Transcript(rows[r])[i].id[1] = r
<1> DEFINE w == rows[r].msgs
           N == 2 * MaxIterations + 1
           f == [i \in 1 .. N |-> IF w[i - 1] = NoMessage THEN <<>> ELSE <<w[i - 1]>>]
           t == FlattenSeq(f)
<1>1. N \in Nat /\ w \in [Seqs -> KeptMessages]
  <2>1. rows \in Seq(Row)
    BY DEF TypeOK
  <2>2. rows[r] \in Row
    BY <2>1
  <2>3. QED  BY <2>2, ConstantsAssumption DEF Row
<1>2. \A i \in 1 .. N : i - 1 \in Seqs /\ i - 1 >= 0
  BY ConstantsAssumption DEF Seqs
<1>3. RowOwned(r) /\ RowAligned(r) /\ (Clean => RowBacked(r))
  BY DEF RowsKept
<1> HIDE DEF N
<1>4. \A i \in 1 .. N : w[i - 1] \in KeptMessages
  BY <1>1, <1>2
<1> HIDE DEF w
<1>5. \A i \in 1 .. N : f[i] \in Seq(KeptMessages)
  <2> TAKE i \in 1 .. N
  <2>1. <<>> \in Seq(KeptMessages) /\ <<w[i - 1]>> \in Seq(KeptMessages)
    BY <1>4, SingleOrNone
  <2>2. QED  BY <2>1
<1>6. f \in [1 .. N -> Seq(KeptMessages)]
  BY <1>5
<1>7. f \in Seq(Seq(KeptMessages)) /\ Len(f) = N
  BY <1>1, <1>6, SequenceOf
<1>8. ASSUME NEW i \in 1 .. N, NEW k \in DOMAIN f[i]
      PROVE  k = 1 /\ f[i] = <<w[i - 1]>> /\ f[i][k] = w[i - 1] /\ Len(f[i]) = 1
  <2>1. f[i] # <<>>
    BY <1>8
  <2>2. f[i] = <<w[i - 1]>>
    BY <2>1
  <2>3. DOMAIN <<w[i - 1]>> = {1} /\ Len(<<w[i - 1]>>) = 1 /\ <<w[i - 1]>>[1] = w[i - 1]
    BY <1>4, SingleOrNone
  <2>4. k = 1
    BY <1>8, <2>2, <2>3, Zenon
  <2>5. QED  BY <2>2, <2>3, <2>4, Zenon
<1>9. ASSUME NEW i \in 1 .. N, w[i - 1] # NoMessage
      PROVE  f[i] = <<w[i - 1]>> /\ Len(f[i]) = 1 /\ f[i][1] = w[i - 1] /\ f[i] # <<>>
  <2>1. f[i] = <<w[i - 1]>>
    BY <1>9
  <2>2. /\ Len(<<w[i - 1]>>) = 1 /\ <<w[i - 1]>>[1] = w[i - 1] /\ <<w[i - 1]>> # <<>>
    BY <1>4, SingleOrNone
  <2>3. QED  BY <2>1, <2>2, Zenon
<1>10. \A i \in 1 .. N : Aligned(f[i])
  <2> TAKE i \in 1 .. N
  <2>1. CASE w[i - 1] = NoMessage
    <3>1. f[i] = <<>>
      BY <2>1
    <3>2. QED  BY <1>4, <3>1, AlignedSingle
  <2>2. CASE w[i - 1] # NoMessage
    <3>1. f[i] = <<w[i - 1]>>
      BY <1>9, <2>2
    <3>2. QED  BY <1>4, <3>1, AlignedSingle
  <2>3. QED  BY <2>1, <2>2
<1>11. Transcript(rows[r]) = IF t = <<>> THEN <<UserMessage>> ELSE t
  BY DEF Transcript, N, w
<1> HIDE DEF f
<1>12. ASSUME NEW m \in 1 .. N, NEW n \in 1 .. N, m < n
       PROVE  Meet(f, m, n)
  <2>1. m - 1 \in Seqs /\ n - 1 \in Seqs
    BY <1>2
  <2>2. \A i, j \in Seqs :
          IsTurn(w[i]) /\ IsResults(w[j]) /\ w[j].id[2] = w[i].id[2] => j = i + 1
    BY <1>3, Zenon DEF RowAligned, w
  <2>3. ASSUME NEW i \in DOMAIN f[m], NEW j \in DOMAIN f[n], f[n][j].id = f[m][i].id
        PROVE  /\ ~(IsResults(f[m][i]) /\ IsTurn(f[n][j]))
               /\ IsTurn(f[m][i]) /\ IsResults(f[n][j]) => n = m + 1 /\ i = Len(f[m]) /\ j = 1
    <3>1. i = 1 /\ f[m][i] = w[m - 1] /\ Len(f[m]) = 1 /\ j = 1 /\ f[n][j] = w[n - 1]
      BY <1>8
    <3>2. w[n - 1].id[2] = w[m - 1].id[2]
      BY <2>3, <3>1, Zenon
    <3>3. IsResults(w[m - 1]) /\ IsTurn(w[n - 1]) => m - 1 = (n - 1) + 1
      BY <2>1, <2>2, <3>2, Zenon
    <3>4. IsTurn(w[m - 1]) /\ IsResults(w[n - 1]) => n - 1 = (m - 1) + 1
      BY <2>1, <2>2, <3>2, Zenon
    <3>5. m - 1 # (n - 1) + 1 /\ (n - 1 = (m - 1) + 1 => n = m + 1)
      BY <1>1, <1>12
    <3>6. QED  BY <3>1, <3>3, <3>4, <3>5, Zenon
  <2>4. QED  BY <2>3, Zenon DEF Meet
<1>13. Aligned(t)
  BY <1>7, <1>10, <1>12, FlattenAligned
<1>14. ASSUME Clean PROVE Backed(t)
  <2>1. ASSUME NEW n \in 1 .. N, NEW k \in DOMAIN f[n], IsResults(f[n][k])
        PROVE  Follows(f, n, k)
    <3>1. k = 1 /\ f[n][k] = w[n - 1] /\ n - 1 \in Seqs
      BY <1>2, <1>8
    <3>2. n - 1 > 0 /\ IsTurn(w[(n - 1) - 1]) /\ w[(n - 1) - 1].id = w[n - 1].id
      BY <1>3, <1>14, <2>1, <3>1, Zenon DEF RowBacked, w
    <3>3. n > 1 /\ n - 1 \in 1 .. N
      BY <1>1, <3>2
    <3>4. w[(n - 1) - 1] # NoMessage
      BY <3>2, MessageKept DEF IsTurn
    <3>5. Len(f[n - 1]) = 1 /\ f[n - 1][1] = w[(n - 1) - 1] /\ f[n - 1] # <<>>
      BY <1>9, <3>3, <3>4
    <3>6. QED  BY <3>1, <3>2, <3>3, <3>5, Zenon DEF Follows
  <2>2. QED  BY <1>7, <2>1, FlattenBacked
<1>15. PICK c : Joins(c, f, KeptMessages) /\ t = c[Len(f)]
  BY <1>7, Flattened
<1>16. Len(f) \in 0 .. Len(f)
  BY <1>1, <1>7
<1>17. t \in Seq(KeptMessages)
  <2>1. c \in [0 .. Len(f) -> Seq(KeptMessages)]
    BY <1>15, Zenon DEF Joins
  <2>2. QED  BY <1>15, <1>16, <2>1
<1>18. ASSUME NEW i \in DOMAIN t, t[i].kind \in {"turn", "results"} PROVE t[i].id[1] = r
  <2>1. PICK m \in 1 .. Len(f) : \E k \in DOMAIN f[m] : t[i] = f[m][k]
    <3>1. \A n \in 0 .. Len(f) : \A l \in DOMAIN c[n] :
            \E m \in 1 .. n : \E k \in DOMAIN f[m] : c[n][l] = f[m][k]
      BY <1>7, <1>15, JoinedFrom
    <3>2. i \in DOMAIN c[Len(f)] /\ t[i] = c[Len(f)][i]
      BY <1>15, <1>18, Zenon
    <3>3. \A l \in DOMAIN c[Len(f)] :
            \E m \in 1 .. Len(f) : \E k \in DOMAIN f[m] : c[Len(f)][l] = f[m][k]
      BY <1>16, <3>1, Zenon
    <3> HIDE DEF t
    <3>4. QED  BY <3>2, <3>3, Zenon
  <2>2. t[i] = w[m - 1] /\ m - 1 \in Seqs
    BY <1>2, <1>7, <1>8, <2>1
  <2>3. QED  BY <1>3, <1>18, <2>2, Zenon DEF RowOwned, w
<1> HIDE DEF t
<1>19. CASE t = <<>>
  <2>1. Transcript(rows[r]) = <<UserMessage>>
    BY <1>11, <1>19
  <2>2. /\ UserMessage \in KeptMessages /\ ~IsTurn(UserMessage) /\ ~IsResults(UserMessage)
        /\ UserMessage.kind \notin {"turn", "results"}
    BY MessageKept DEF IsTurn, IsResults
  <2>3. /\ <<UserMessage>> \in Seq(KeptMessages) /\ DOMAIN <<UserMessage>> = {1}
        /\ <<UserMessage>>[1] = UserMessage
    BY <2>2, SingleOrNone
  <2>4. Aligned(<<UserMessage>>)
    BY <2>2, AlignedSingle
  <2>5. Backed(<<UserMessage>>)
    BY <2>2, <2>3, Zenon DEF Backed
  <2>6. QED  BY <2>1, <2>2, <2>3, <2>4, <2>5, Zenon
<1>20. CASE t # <<>>
  <2>1. Transcript(rows[r]) = t
    BY <1>11, <1>20
  <2>2. QED  BY <1>13, <1>14, <1>17, <1>18, <2>1, Zenon
<1>21. QED  BY <1>19, <1>20

LEMMA LoadedKept ==
  ASSUME TypeOK, RowsKept
  PROVE  /\ LoadedHistory \in Seq(KeptMessages) /\ Aligned(LoadedHistory)
         /\ Clean => Backed(LoadedHistory)
<1> DEFINE f == [r \in DOMAIN rows |-> IF r \in Recent THEN Transcript(rows[r]) ELSE <<>>]
           N == Len(rows)
<1>1. N \in Nat /\ DOMAIN rows = 1 .. N
  BY DEF TypeOK
<1>2. LoadedHistory = FlattenSeq(f)
  BY DEF LoadedHistory
<1>3. \A r \in DOMAIN rows : f[r] = Transcript(rows[r]) \/ f[r] = <<>>
  OBVIOUS
<1>4. DOMAIN f = DOMAIN rows /\ f = [r \in DOMAIN rows |-> f[r]]
  OBVIOUS
<1> HIDE DEF f, N
<1>5. ASSUME NEW r \in DOMAIN rows
      PROVE  /\ f[r] \in Seq(KeptMessages) /\ Aligned(f[r]) /\ (Clean => Backed(f[r]))
             /\ \A i \in DOMAIN f[r] :
                  f[r][i].kind \in {"turn", "results"} => f[r][i].id[1] = r
  <2>1. CASE f[r] = Transcript(rows[r])
    BY <2>1, TranscriptKept, Zenon
  <2>2. CASE f[r] = <<>>
    <3>1. /\ <<>> \in Seq(KeptMessages) /\ Aligned(<<>>) /\ Backed(<<>>) /\ DOMAIN <<>> = {}
      BY DEF Aligned, Backed
    <3>2. QED  BY <2>2, <3>1, Zenon
  <2>3. QED  BY <1>3, <2>1, <2>2
<1>6. f \in [1 .. N -> Seq(KeptMessages)]
  BY <1>1, <1>4, <1>5, Zenon
<1>7. f \in Seq(Seq(KeptMessages)) /\ Len(f) = N
  BY <1>1, <1>6, SequenceOf
<1>8. ASSUME NEW m \in 1 .. N, NEW n \in 1 .. N, m < n
      PROVE  Meet(f, m, n)
  <2>1. m \in DOMAIN rows /\ n \in DOMAIN rows /\ m # n
    BY <1>1, <1>8
  <2>2. \A i \in DOMAIN f[m] : f[m][i].kind \in {"turn", "results"} => f[m][i].id[1] = m
    BY <1>5, <2>1
  <2>3. \A i \in DOMAIN f[n] : f[n][i].kind \in {"turn", "results"} => f[n][i].id[1] = n
    BY <1>5, <2>1
  <2>4. QED  BY <2>1, <2>2, <2>3, Zenon DEF Meet, IsTurn, IsResults
<1>9. Aligned(FlattenSeq(f))
  BY <1>1, <1>5, <1>7, <1>8, FlattenAligned
<1>10. ASSUME Clean PROVE Backed(FlattenSeq(f))
  <2>1. \A n \in 1 .. N : \A k \in DOMAIN f[n] : IsResults(f[n][k]) => Asked(f[n], k)
    BY <1>1, <1>5, <1>10, Zenon DEF Backed
  <2>2. QED  BY <1>7, <2>1, FlattenBacked
<1>11. FlattenSeq(f) \in Seq(KeptMessages)
  <2>1. PICK c : Joins(c, f, KeptMessages) /\ FlattenSeq(f) = c[Len(f)]
    BY <1>7, Flattened
  <2>2. Len(f) \in 0 .. Len(f) /\ c \in [0 .. Len(f) -> Seq(KeptMessages)]
    <3>1. c \in [0 .. Len(f) -> Seq(KeptMessages)]
      BY <2>1, Zenon DEF Joins
    <3>2. QED  BY <1>1, <1>7, <3>1
  <2>3. c[Len(f)] \in Seq(KeptMessages)
    BY <2>2
  <2>4. QED  BY <2>1, <2>3, Zenon
<1>12. QED  BY <1>2, <1>9, <1>10, <1>11, Zenon

LEMMA PriorKept ==
  ASSUME TypeOK, RowsKept
  PROVE  /\ PriorHistory \in Seq(KeptMessages) /\ Unmatched(PriorHistory) = {}
         /\ Clean => Backed(PriorHistory)
<1>1. /\ LoadedHistory \in Seq(KeptMessages) /\ Aligned(LoadedHistory)
      /\ Clean => Backed(LoadedHistory)
  BY LoadedKept
<1>2. /\ Sanitize(LoadedHistory) \in Seq(KeptMessages)
      /\ Unmatched(Sanitize(LoadedHistory)) = {}
  BY <1>1, SanitizePairs
<1>3. ASSUME Clean PROVE Backed(Sanitize(LoadedHistory))
  BY <1>1, <1>3, SanitizeBacked
<1>4. QED  BY <1>2, <1>3, Zenon DEF PriorHistory

(***************************************************************************)
(* Every action keeps the transcript in order                              *)
(***************************************************************************)
\* What was clean stays unspoilt only if nothing is lost or missing.
LEMMA CleanBefore ==
  ASSUME TypeOK, lost' = lost \/ lost' = lost + 1, dbErrors' = dbErrors \/ dbErrors' = dbErrors + 1
  PROVE  Clean' => Clean /\ lost' = lost /\ dbErrors' = dbErrors
<1>1. lost \in Nat /\ dbErrors \in Nat
  BY ConstantsAssumption DEF TypeOK
<1>2. QED  BY <1>1 DEF Clean

LEMMA AppendMind ==
  ASSUME NEW h \in Seq(KeptMessages), NEW m \in KeptMessages
  PROVE  /\ Append(h, m) \in Seq(KeptMessages) /\ Append(h, m) # <<>>
         /\ Append(h, m)[Len(Append(h, m))] = m
         /\ Unmatched(h) = {} => Unmatched(Append(h, m)) \subseteq {Len(Append(h, m))}
         /\ Unmatched(h) = {} /\ ~Calling(m) => Unmatched(Append(h, m)) = {}
         /\ /\ h # <<>> /\ Unmatched(h) \subseteq {Len(h)} /\ IsResults(m) /\ m.id = h[Len(h)].id
            => Unmatched(Append(h, m)) = {}
         /\ /\ Backed(h)
            /\ IsResults(m) => h # <<>> /\ IsTurn(h[Len(h)]) /\ h[Len(h)].id = m.id
            => Backed(Append(h, m))
<1> DEFINE g == Append(h, m)
           L == Len(h)
<1>1. /\ g \in Seq(KeptMessages) /\ L \in Nat /\ Len(g) = L + 1 /\ g[L + 1] = m
      /\ \A i \in 1 .. L : g[i] = h[i]
      /\ DOMAIN g = 1 .. L + 1 /\ DOMAIN h = 1 .. L /\ g # <<>> /\ (h # <<>> => L > 0)
  <2>1. g \in Seq(KeptMessages) /\ L \in Nat /\ Len(g) = L + 1
    OBVIOUS
  <2>2. g[L + 1] = m /\ \A i \in 1 .. L : g[i] = h[i]
    OBVIOUS
  <2>3. DOMAIN h = 1 .. L /\ (h # <<>> => L > 0)
    OBVIOUS
  <2> HIDE DEF g
  <2>4. DOMAIN g = 1 .. Len(g) /\ (g = <<>> => Len(g) = 0)
    BY <2>1
  <2>5. g # <<>>
    BY <2>1, <2>4
  <2>6. QED  BY <2>1, <2>2, <2>3, <2>4, <2>5, Zenon
<1> HIDE DEF g, L
<1>2. \A i \in 1 .. L + 1 : i \in 1 .. L \/ i = L + 1
  BY <1>1
<1>3. ASSUME NEW i \in 1 .. L, Answered(h, i) PROVE Answered(g, i)
  <2>1. i < L /\ IsResults(h[i + 1]) /\ h[i + 1].id = h[i].id
    BY <1>3, Zenon DEF Answered, L
  <2>2. i + 1 \in 1 .. L /\ i < Len(g)
    BY <1>1, <2>1
  <2>3. QED  BY <1>1, <2>1, <2>2, Zenon DEF Answered
<1>4. ASSUME NEW i \in Unmatched(g), i # L + 1 PROVE i \in Unmatched(h) /\ ~Answered(g, i)
  <2>1. i \in DOMAIN g /\ Calling(g[i]) /\ ~Answered(g, i)
    BY Zenon DEF Unmatched
  <2>2. i \in 1 .. L
    BY <1>1, <1>2, <1>4, <2>1, Zenon
  <2>3. QED  BY <1>1, <1>3, <2>1, <2>2, Zenon DEF Unmatched
<1>5. Unmatched(h) = {} => Unmatched(g) \subseteq {Len(g)}
  BY <1>1, <1>4
<1>6. ASSUME Unmatched(h) = {}, ~Calling(m) PROVE Unmatched(g) = {}
  <2>1. L + 1 \notin Unmatched(g)
    BY <1>1, <1>6, Zenon DEF Unmatched
  <2>2. QED  BY <1>4, <1>6, <2>1
<1>7. ASSUME h # <<>>, Unmatched(h) \subseteq {L}, IsResults(m), m.id = h[L].id
      PROVE  Unmatched(g) = {}
  <2>1. L \in 1 .. L /\ L < Len(g)
    BY <1>1, <1>7
  <2>2. Answered(g, L)
    BY <1>1, <1>7, <2>1, Zenon DEF Answered
  <2>3. L + 1 \notin Unmatched(g)
    <3>1. ~Calling(m)
      BY <1>7 DEF Calling, IsTurn, IsResults
    <3>2. QED  BY <1>1, <3>1, Zenon DEF Unmatched
  <2>4. QED  BY <1>4, <1>7, <2>2, <2>3
<1>8. ASSUME Backed(h), IsResults(m) => h # <<>> /\ IsTurn(h[L]) /\ h[L].id = m.id
      PROVE  Backed(g)
  <2>1. ASSUME NEW i \in DOMAIN g, IsResults(g[i]) PROVE Asked(g, i)
    <3>1. CASE i \in 1 .. L
      <4>1. i > 1 /\ IsTurn(h[i - 1]) /\ h[i - 1].id = h[i].id
        BY <1>1, <1>8, <2>1, <3>1, Zenon DEF Backed, Asked
      <4>2. i - 1 \in 1 .. L
        BY <1>1, <3>1, <4>1
      <4>3. QED  BY <1>1, <3>1, <4>1, <4>2, Zenon DEF Asked
    <3>2. CASE i = L + 1
      <4>1. h # <<>> /\ IsTurn(h[L]) /\ h[L].id = m.id
        BY <1>1, <1>8, <2>1, <3>2, Zenon
      <4>2. L \in 1 .. L /\ i > 1 /\ i - 1 = L
        BY <1>1, <3>2, <4>1
      <4>3. QED  BY <1>1, <3>2, <4>1, <4>2, Zenon DEF Asked
    <3>3. QED  BY <1>1, <1>2, <2>1, <3>1, <3>2, Zenon
  <2>2. QED  BY <2>1, Zenon DEF Backed
<1>9. g[Len(g)] = m
  BY <1>1
<1>10. QED  BY <1>1, <1>5, <1>6, <1>7, <1>8, <1>9, Zenon DEF g, L

\* No message of any row changes.
SameMessages ==
  /\ DOMAIN rows' = DOMAIN rows
  /\ \A r \in DOMAIN rows : rows'[r].msgs = rows[r].msgs

LEMMA RowsFramed ==
  ASSUME RowsKept, SameMessages, Clean' => Clean
  PROVE  RowsKept'
<1>1. ASSUME NEW r \in DOMAIN rows'
      PROVE  RowOwned(r)' /\ RowAligned(r)' /\ (Clean' => RowBacked(r)')
  <2>1. r \in DOMAIN rows /\ rows'[r].msgs = rows[r].msgs
    BY Zenon DEF SameMessages
  <2>2. RowOwned(r) /\ RowAligned(r) /\ (Clean => RowBacked(r))
    BY <2>1, Zenon DEF RowsKept
  <2>3. RowOwned(r)' /\ RowAligned(r)'
    BY <2>1, <2>2, Zenon DEF RowOwned, RowAligned
  <2>4. Clean' => RowBacked(r)'
    BY <2>1, <2>2, Zenon DEF RowBacked
  <2>5. QED  BY <2>3, <2>4
<1>2. QED  BY <1>1, Zenon DEF RowsKept

\* A step that neither reads nor writes messages, and goes on within the turn
\* or gives it up.
LEMMA Framed ==
  ASSUME IInv, PInv, SameMessages, Clean' => Clean,
         UNCHANGED <<run, msgSeq, iteration, turn, messages>>,
         \/ stage' \in {stage, "finalize", "closed"}
         \/ stage = "fanout" /\ stage' = "human"
  PROVE  PInv'
<1>1. RowsKept'
  BY RowsFramed DEF PInv
<1>2. run > 0 => run \in DOMAIN rows /\ rows'[run].msgs = rows[run].msgs
  BY OwnRow DEF IInv, SameMessages
<1>3. stage' \in {"plan", "fanout", "human", "record", "summary"} => run > 0
  BY DEF IInv, RowKnown
<1>4. OwnTurns'
  <2>1. /\ stage' = "plan" => stage = "plan"
        /\ stage' \in Serving => stage \in Serving
        /\ stage' \in {"plan", "fanout", "human"} => stage \in {"plan", "fanout", "human"}
    BY DEF Serving
  <2>2. QED  BY <1>2, <2>1, Zenon DEF PInv, OwnTurns
<1>5. OwnSlots'
  <2>1. /\ stage' \in {"plan", "fanout", "human", "record", "summary"} =>
             stage \in {"plan", "fanout", "human", "record", "summary"}
        /\ stage' \in Serving =>
             stage \in Serving /\ stage' \in {"plan", "fanout", "human", "record", "summary"}
    BY DEF Serving
  <2>2. QED  BY <1>2, <1>3, <2>1, Zenon DEF PInv, OwnSlots
<1>6. TurnServed'
  BY DEF PInv, TurnServed, Serving
<1>7. MindKept'
  BY DEF PInv, MindKept, Unmatched, Backed, Answered, Asked
<1>8. QED  BY <1>1, <1>4, <1>5, <1>6, <1>7 DEF PInv

\* record_message writes one message of the current row, or none.
Written(seq, m) ==
  /\ DOMAIN rows' = DOMAIN rows
  /\ \A r \in DOMAIN rows : \A n \in Seqs :
       \/ rows'[r].msgs[n] = rows[r].msgs[n]
       \/ r = run /\ n = seq /\ rows[r].msgs[n] = NoMessage /\ rows'[r].msgs[n] = m

LEMMA StoreMessageWrites ==
  ASSUME TypeOK, run > 0, NEW seq \in Nat, NEW m, StoreMessage(seq, m)
  PROVE  /\ Written(seq, m)
         /\ seq \in Seqs /\ rows[run].msgs[seq] = NoMessage => rows'[run].msgs[seq] = m
<1> DEFINE old == rows[run].msgs
           new == [old EXCEPT ![seq] = IF @ = NoMessage THEN m ELSE @]
<1>1. rows \in Seq(Row) /\ run \in DOMAIN rows /\ rows[run] \in Row
  BY OwnRow DEF TypeOK
<1>2. old \in [Seqs -> KeptMessages]
  BY <1>1 DEF Row
<1>3. /\ \A n \in Seqs : \/ new[n] = old[n]
                         \/ n = seq /\ old[n] = NoMessage /\ new[n] = m
      /\ seq \in Seqs /\ old[seq] = NoMessage => new[seq] = m
  BY <1>2
<1> HIDE DEF new, old
<1>4. rows' = [rows EXCEPT ![run] = [rows[run] EXCEPT !.msgs = new]]
  BY <1>1 DEF StoreMessage, new, old
<1>5. [rows[run] EXCEPT !.msgs = new].msgs = new
  BY <1>1 DEF Row
<1>6. /\ DOMAIN rows' = DOMAIN rows /\ rows'[run].msgs = new
      /\ \A r \in DOMAIN rows : r # run => rows'[r] = rows[r]
  BY <1>1, <1>4, <1>5
<1>7. QED  BY <1>3, <1>6, Zenon DEF Written, old

LEMMA UntouchedWrites ==
  ASSUME UNCHANGED rows, NEW seq, NEW m
  PROVE  Written(seq, m)
BY DEF Written

\* The turn of a planning attempt, or what an earlier attempt left in its place.
LEMMA TurnWritten ==
  ASSUME IInv, PInv, stage = "plan", Clean' => Clean, NEW m, Written(msgSeq, m),
         IsTurn(m), m.id[1] = run, m.id[2] = iteration
  PROVE  /\ RowsKept'
         /\ \A n \in Seqs :
              /\ rows'[run].msgs[n].kind \in {"turn", "results"} =>
                   rows'[run].msgs[n].id[2] <= iteration
              /\ IsTurn(rows'[run].msgs[n]) /\ rows'[run].msgs[n].id[2] = iteration => n = msgSeq
              /\ IsResults(rows'[run].msgs[n]) => rows'[run].msgs[n].id[2] # iteration
              /\ Clean' /\ n > msgSeq => rows'[run].msgs[n] = NoMessage
<1>1. run > 0 /\ run \in DOMAIN rows /\ iteration \in Nat /\ msgSeq \in Nat
  BY OwnRow, ConstantsAssumption DEF IInv, RowKnown, TypeOK
<1>2. ~IsResults(m)
  BY DEF IsTurn, IsResults
<1>3. \A n \in Seqs :
        /\ rows[run].msgs[n].kind \in {"turn", "results"} => rows[run].msgs[n].id[2] <= iteration
        /\ IsTurn(rows[run].msgs[n]) /\ rows[run].msgs[n].id[2] = iteration => n = msgSeq
        /\ IsResults(rows[run].msgs[n]) => rows[run].msgs[n].id[2] # iteration
  BY <1>1 DEF PInv, OwnTurns
<1>4. Clean => \A n \in Seqs : n >= msgSeq => rows[run].msgs[n] = NoMessage
  BY DEF PInv, OwnSlots
<1>5. \A n \in Seqs : \/ rows'[run].msgs[n] = rows[run].msgs[n]
                      \/ n = msgSeq /\ rows[run].msgs[n] = NoMessage /\ rows'[run].msgs[n] = m
  BY <1>1, Zenon DEF Written
<1>6. ASSUME NEW n \in Seqs
      PROVE  /\ rows'[run].msgs[n].kind \in {"turn", "results"} =>
                  rows'[run].msgs[n].id[2] <= iteration
             /\ IsTurn(rows'[run].msgs[n]) /\ rows'[run].msgs[n].id[2] = iteration => n = msgSeq
             /\ IsResults(rows'[run].msgs[n]) => rows'[run].msgs[n].id[2] # iteration
             /\ Clean' /\ n > msgSeq => rows'[run].msgs[n] = NoMessage
  <2>1. iteration <= iteration /\ (n > msgSeq => n >= msgSeq /\ n # msgSeq)
    BY <1>1 DEF Seqs
  <2>2. CASE rows'[run].msgs[n] = rows[run].msgs[n]
    BY <1>3, <1>4, <2>1, <2>2, Zenon
  <2>3. CASE n = msgSeq /\ rows'[run].msgs[n] = m
    BY <1>2, <2>1, <2>3, Zenon
  <2>4. QED  BY <1>5, <2>2, <2>3
<1>7. ASSUME NEW r \in DOMAIN rows'
      PROVE  RowOwned(r)' /\ RowAligned(r)' /\ (Clean' => RowBacked(r)')
  <2>1. /\ r \in DOMAIN rows /\ RowOwned(r) /\ RowAligned(r) /\ (Clean' => RowBacked(r))
        /\ \A n \in Seqs : \/ rows'[r].msgs[n] = rows[r].msgs[n]
                           \/ /\ r = run /\ n = msgSeq /\ rows[r].msgs[n] = NoMessage
                              /\ rows'[r].msgs[n] = m
    BY Zenon DEF PInv, RowsKept, Written
  <2>2. RowOwned(r)'
    BY <2>1, Zenon DEF RowOwned
  <2>3. RowAligned(r)'
    <3>1. ASSUME NEW n \in Seqs, NEW k \in Seqs, IsTurn(rows'[r].msgs[n]),
                 IsResults(rows'[r].msgs[k]), rows'[r].msgs[k].id[2] = rows'[r].msgs[n].id[2]
          PROVE  k = n + 1
      <4>1. rows'[r].msgs[k] = rows[r].msgs[k]
        BY <1>2, <2>1, <3>1, Zenon
      <4>2. CASE rows'[r].msgs[n] = rows[r].msgs[n]
        BY <2>1, <3>1, <4>1, <4>2, Zenon DEF RowAligned
      <4>3. CASE r = run /\ rows'[r].msgs[n] = m
        BY <1>6, <3>1, <4>3, Zenon
      <4>4. QED  BY <2>1, <4>2, <4>3, Zenon
    <3>2. QED  BY <3>1, Zenon DEF RowAligned
  <2>4. ASSUME Clean' PROVE RowBacked(r)'
    <3>1. ASSUME NEW n \in Seqs, IsResults(rows'[r].msgs[n])
          PROVE  /\ n > 0 /\ IsTurn(rows'[r].msgs[n - 1])
                 /\ rows'[r].msgs[n - 1].id = rows'[r].msgs[n].id
      <4>1. rows'[r].msgs[n] = rows[r].msgs[n]
        BY <1>2, <2>1, <3>1, Zenon
      <4>2. /\ n > 0 /\ IsTurn(rows[r].msgs[n - 1])
            /\ rows[r].msgs[n - 1].id = rows[r].msgs[n].id
        BY <2>1, <2>4, <3>1, <4>1, Zenon DEF RowBacked
      <4>3. n - 1 \in Seqs
        BY <4>2, ConstantsAssumption DEF Seqs
      <4>4. rows[r].msgs[n - 1] # NoMessage
        BY <4>2, MessageKept DEF IsTurn
      <4>5. rows'[r].msgs[n - 1] = rows[r].msgs[n - 1]
        BY <2>1, <4>3, <4>4, Zenon
      <4>6. QED  BY <4>1, <4>2, <4>5, Zenon
    <3>2. QED  BY <3>1, Zenon DEF RowBacked
  <2>5. QED  BY <2>2, <2>3, <2>4
<1>8. RowsKept'
  BY <1>7, Zenon DEF RowsKept
<1>9. QED  BY <1>6, <1>8, Zenon

LEMMA PlanTurnOrders ==
  ASSUME IInv, PInv, NEW cost \in Costs, NEW called \in SUBSET Slots,
         NEW stored \in SUBSET {"usage", "message"}, NEW how \in Fates,
         PlanTurn(cost, called, stored, how)
  PROVE  PInv'
<1>1. /\ stage = "plan" /\ Attempted(how) /\ Swallowed(how = "ok" /\ stored # {"usage", "message"})
      /\ UNCHANGED <<iteration, run>>
      /\ turn' = Message("turn", <<run, iteration, attempt>>, called # {})
      /\ IF "message" \in stored THEN StoreMessage(msgSeq, turn') ELSE UNCHANGED rows
  BY DEF PlanTurn
<1>2. /\ TypeOK /\ run > 0 /\ run \in DOMAIN rows /\ iteration \in Nat /\ msgSeq \in Nat
      /\ attempt \in Nat /\ run \in Nat /\ msgSeq \in Seqs
  <2>1. TypeOK /\ run > 0 /\ msgSeq <= 2 * iteration - 1
    BY <1>1 DEF IInv, RowKnown, SeqInStep
  <2>2. iteration \in 0 .. MaxIterations /\ msgSeq \in Nat /\ MaxIterations \in Nat
    BY <2>1, ConstantsAssumption DEF TypeOK
  <2>3. msgSeq \in Seqs
    BY <2>1, <2>2 DEF Seqs
  <2>4. QED  BY <2>1, <2>2, <2>3, OwnRow, ConstantsAssumption DEF TypeOK
<1>3. /\ turn' \in KeptMessages /\ IsTurn(turn') /\ turn'.id[1] = run /\ turn'.id[2] = iteration
      /\ turn'.calls <=> called # {}
  <2>1. PICK calls \in BOOLEAN :
          turn' = Message("turn", <<run, iteration, attempt>>, calls) /\ (calls <=> called # {})
    BY <1>1, Zenon
  <2>2. turn'.id = <<run, iteration, attempt>> /\ turn'.calls = calls
    BY <2>1 DEF Message
  <2>3. turn'.id[1] = run /\ turn'.id[2] = iteration
    BY <2>2
  <2>4. turn' \in KeptMessages /\ IsTurn(turn')
    BY <1>2, <2>1, MessageKept DEF IsTurn
  <2>5. turn'.calls <=> called # {}
    BY <2>1, <2>2, Zenon
  <2>6. QED  BY <2>3, <2>4, <2>5
<1>4. Clean' => Clean /\ lost' = lost /\ dbErrors' = dbErrors
  <2>1. lost' = lost \/ lost' = lost + 1
    BY <1>1 DEF Attempted
  <2>2. dbErrors' = dbErrors \/ dbErrors' = dbErrors + 1
    BY <1>1 DEF Swallowed
  <2>3. QED  BY <1>2, <2>1, <2>2, CleanBefore
<1>5. /\ Written(msgSeq, turn')
      /\ "message" \in stored /\ rows[run].msgs[msgSeq] = NoMessage => rows'[run].msgs[msgSeq] = turn'
  <2>1. CASE "message" \in stored
    BY <1>1, <1>2, <2>1, StoreMessageWrites
  <2>2. CASE "message" \notin stored
    BY <1>1, <2>2, UntouchedWrites
  <2>3. QED  BY <2>1, <2>2
<1>6. /\ RowsKept'
      /\ \A n \in Seqs :
           /\ rows'[run].msgs[n].kind \in {"turn", "results"} =>
                rows'[run].msgs[n].id[2] <= iteration
           /\ IsTurn(rows'[run].msgs[n]) /\ rows'[run].msgs[n].id[2] = iteration => n = msgSeq
           /\ IsResults(rows'[run].msgs[n]) => rows'[run].msgs[n].id[2] # iteration
           /\ Clean' /\ n > msgSeq => rows'[run].msgs[n] = NoMessage
  BY <1>1, <1>3, <1>4, <1>5, TurnWritten
<1>7. CASE Unfinished(how) /\ UNCHANGED <<msgSeq, messages>>
  <2>1. stage' = "finalize" \/ (stage' = "plan" /\ how = "lost")
    BY <1>1, <1>2, <1>7, UnfinishedLeads
  <2>2. stage' = "plan" => ~Clean'
    <3>1. lost \in Nat
      BY <1>2, ConstantsAssumption DEF TypeOK
    <3>2. how = "lost" => lost' = lost + 1
      BY <1>1 DEF Attempted
    <3>3. QED  BY <2>1, <3>1, <3>2 DEF Clean
  <2>3. OwnTurns'
    BY <1>1, <1>6, <1>7, <2>1, Zenon DEF OwnTurns, Serving
  <2>4. OwnSlots' /\ TurnServed'
    BY <2>1, <2>2 DEF OwnSlots, TurnServed, Serving
  <2>5. MindKept'
    BY <1>1, <1>4, <1>7, <2>1 DEF PInv, MindKept, Unmatched, Backed, Answered, Asked
  <2>6. QED  BY <1>6, <2>3, <2>4, <2>5 DEF PInv
<1>8. CASE /\ how = "ok" /\ msgSeq' = msgSeq + 1 /\ messages' = Append(messages, turn')
           /\ IF called = {} THEN Conclude("completed") ELSE Await("fanout") /\ UNCHANGED runStatus
  <2>1. \/ stage' = "finalize"
        \/ stage' = "fanout" /\ called # {}
    BY <1>2, <1>8 DEF Conclude, Await
  <2>2. OwnTurns'
    <3>1. \A n \in Seqs : n = msgSeq => n + 1 = msgSeq'
      BY <1>8
    <3>2. QED  BY <1>1, <1>6, <2>1, <3>1, Zenon DEF OwnTurns, Serving
  <2>3. OwnSlots'
    <3>1. ASSUME Clean', NEW n \in Seqs, n >= msgSeq' PROVE rows'[run].msgs[n] = NoMessage
      <4>1. n > msgSeq
        BY <1>2, <1>8, <3>1 DEF Seqs
      <4>2. QED  BY <1>6, <3>1, <4>1, Zenon
    <3>2. ASSUME Clean' PROVE rows'[run].msgs[msgSeq' - 1] = turn'
      <4>1. stored = {"usage", "message"}
        <5>1. dbErrors \in Nat
          BY <1>2, ConstantsAssumption DEF TypeOK
        <5>2. stored # {"usage", "message"} => dbErrors' = dbErrors + 1
          BY <1>1, <1>8 DEF Swallowed
        <5>3. QED  BY <1>4, <3>2, <5>1, <5>2
      <4>2. rows[run].msgs[msgSeq] = NoMessage
        <5>1. msgSeq >= msgSeq
          BY <1>2
        <5>2. QED  BY <1>1, <1>2, <1>4, <3>2, <5>1 DEF PInv, OwnSlots
      <4>3. msgSeq' - 1 = msgSeq
        BY <1>2, <1>8
      <4>4. QED  BY <1>5, <4>1, <4>2, <4>3
    <3>3. QED  BY <1>1, <3>1, <3>2, Zenon DEF OwnSlots
  <2>4. TurnServed'
    BY <1>1, <1>3, Zenon DEF TurnServed
  <2>5. MindKept'
    <3>1. messages \in Seq(KeptMessages) /\ Unmatched(messages) = {} /\ (Clean => Backed(messages))
      BY <1>1 DEF PInv, MindKept
    <3>2. ~IsResults(turn')
      BY <1>3 DEF IsTurn, IsResults
    <3>3. /\ messages' \in Seq(KeptMessages) /\ messages' # <<>>
          /\ messages'[Len(messages')] = turn'
          /\ Unmatched(messages') \subseteq {Len(messages')}
          /\ Clean' => Backed(messages')
      BY <1>3, <1>4, <1>8, <3>1, <3>2, AppendMind
    <3>4. Unmatched(messages)' = Unmatched(messages') /\ (Backed(messages)' <=> Backed(messages'))
      BY DEF Unmatched, Backed, Answered, Asked
    <3>5. QED  BY <2>1, <3>3 DEF MindKept, Unmatched, Backed, Answered, Asked
  <2>6. QED  BY <1>6, <2>2, <2>3, <2>4, <2>5 DEF PInv
<1>9. QED  BY <1>7, <1>8 DEF PlanTurn
LEMMA CountersNat ==
  ASSUME TypeOK
  PROVE  /\ iteration \in Nat /\ msgSeq \in Nat /\ attempt \in Nat
         /\ lost \in Nat /\ dbErrors \in Nat
BY ConstantsAssumption DEF TypeOK

LEMMA StoredId ==
  ASSUME NEW R \in Seq(Row), NEW r \in DOMAIN R, NEW n \in Seqs,
         R[r].msgs[n].kind \in {"turn", "results"}
  PROVE  R[r].msgs[n].id[2] \in Nat
<1> DEFINE m == R[r].msgs[n]
<1>1. R[r] \in Row
  OBVIOUS
<1>2. m \in KeptMessages
  BY <1>1 DEF Row
<1> HIDE DEF m
<1>3. m \notin {UserMessage, NoMessage}
  BY MessageKept, Zenon DEF m
<1>4. m.id \in Nat \X Nat \X Nat
  BY <1>2, <1>3 DEF KeptMessages
<1>5. m.id[2] \in Nat
  BY <1>4
<1>6. QED  BY <1>5 DEF m

\* The results of a turn take the place next to it.
LEMMA ResultsWritten ==
  ASSUME IInv, PInv, stage = "record", Clean' => Clean, Written(msgSeq, Results)
  PROVE  /\ RowsKept'
         /\ \A n \in Seqs :
              /\ rows'[run].msgs[n].kind \in {"turn", "results"} =>
                   rows'[run].msgs[n].id[2] <= iteration
              /\ IsTurn(rows'[run].msgs[n]) /\ rows'[run].msgs[n].id[2] = iteration =>
                   n + 1 = msgSeq
              /\ Clean' /\ n > msgSeq => rows'[run].msgs[n] = NoMessage
<1>1. /\ run > 0 /\ run \in DOMAIN rows /\ iteration \in Nat /\ msgSeq \in Nat /\ msgSeq > 1
      /\ msgSeq \in Seqs /\ msgSeq - 1 \in Seqs
  <2>1. TypeOK /\ run > 0 /\ msgSeq % 2 = 0 /\ msgSeq <= 2 * iteration
    BY DEF IInv, RowKnown, SeqInStep
  <2>2. iteration \in 0 .. MaxIterations /\ msgSeq \in Nat /\ msgSeq >= 1 /\ MaxIterations \in Nat
    BY <2>1, ConstantsAssumption DEF TypeOK
  <2>3. msgSeq # 1
    BY <2>1
  <2>4. msgSeq \in Seqs /\ msgSeq - 1 \in Seqs /\ msgSeq > 1
    BY <2>1, <2>2, <2>3 DEF Seqs
  <2>5. QED  BY <2>1, <2>2, <2>4, OwnRow
<1> DEFINE m == Results
<1>2. IsTurn(turn) /\ turn.id[1] = run /\ turn.id[2] = iteration
  BY DEF PInv, TurnServed, Serving
<1>3. IsResults(m) /\ ~IsTurn(m) /\ m.id = turn.id
  <2>1. m.kind = "results" /\ m.id = turn.id
    BY DEF Results, Message
  <2>2. QED  BY <2>1 DEF IsTurn, IsResults
<1>4. m.id[1] = run /\ m.id[2] = iteration
  BY <1>2, <1>3
<1> HIDE DEF m
<1>5. \A n \in Seqs :
        /\ rows[run].msgs[n].kind \in {"turn", "results"} => rows[run].msgs[n].id[2] <= iteration
        /\ IsTurn(rows[run].msgs[n]) /\ rows[run].msgs[n].id[2] = iteration => n + 1 = msgSeq
  BY <1>1 DEF PInv, OwnTurns, Serving
<1>6. Clean => /\ \A n \in Seqs : n >= msgSeq => rows[run].msgs[n] = NoMessage
               /\ rows[run].msgs[msgSeq - 1] = turn
  BY DEF PInv, OwnSlots, Serving
<1>7. \A r \in DOMAIN rows : \A n \in Seqs :
        \/ rows'[r].msgs[n] = rows[r].msgs[n]
        \/ r = run /\ n = msgSeq /\ rows[r].msgs[n] = NoMessage /\ rows'[r].msgs[n] = m
  BY Zenon DEF Written, m
<1>8. ASSUME NEW n \in Seqs
      PROVE  /\ rows'[run].msgs[n].kind \in {"turn", "results"} =>
                  rows'[run].msgs[n].id[2] <= iteration
             /\ IsTurn(rows'[run].msgs[n]) /\ rows'[run].msgs[n].id[2] = iteration =>
                  n + 1 = msgSeq
             /\ Clean' /\ n > msgSeq => rows'[run].msgs[n] = NoMessage
  <2>1. iteration <= iteration /\ (n > msgSeq => n >= msgSeq /\ n # msgSeq)
    BY <1>1 DEF Seqs
  <2>2. CASE rows'[run].msgs[n] = rows[run].msgs[n]
    BY <1>5, <1>6, <2>1, <2>2, Zenon
  <2>3. CASE n = msgSeq /\ rows'[run].msgs[n] = m
    BY <1>3, <1>4, <2>1, <2>3, Zenon
  <2>4. QED  BY <1>1, <1>7, <2>2, <2>3, Zenon
<1>9. ASSUME NEW r \in DOMAIN rows'
      PROVE  RowOwned(r)' /\ RowAligned(r)' /\ (Clean' => RowBacked(r)')
  <2>1. /\ r \in DOMAIN rows /\ RowOwned(r) /\ RowAligned(r) /\ (Clean' => RowBacked(r))
        /\ \A n \in Seqs : \/ rows'[r].msgs[n] = rows[r].msgs[n]
                           \/ /\ r = run /\ n = msgSeq /\ rows[r].msgs[n] = NoMessage
                              /\ rows'[r].msgs[n] = m
    BY <1>7, Zenon DEF PInv, RowsKept, Written
  <2>2. RowOwned(r)'
    BY <1>4, <2>1, Zenon DEF RowOwned
  <2>3. RowAligned(r)'
    <3>1. ASSUME NEW n \in Seqs, NEW k \in Seqs, IsTurn(rows'[r].msgs[n]),
                 IsResults(rows'[r].msgs[k]), rows'[r].msgs[k].id[2] = rows'[r].msgs[n].id[2]
          PROVE  k = n + 1
      <4>1. rows'[r].msgs[n] = rows[r].msgs[n]
        BY <1>3, <2>1, <3>1, Zenon
      <4>2. CASE rows'[r].msgs[k] = rows[r].msgs[k]
        BY <2>1, <3>1, <4>1, <4>2, Zenon DEF RowAligned
      <4>3. CASE r = run /\ k = msgSeq /\ rows'[r].msgs[k] = m
        BY <1>4, <1>5, <3>1, <4>1, <4>3, Zenon
      <4>4. QED  BY <2>1, <4>2, <4>3, Zenon
    <3>2. QED  BY <3>1, Zenon DEF RowAligned
  <2>4. ASSUME NEW n \in Seqs, IsTurn(rows[r].msgs[n])
        PROVE  rows'[r].msgs[n] = rows[r].msgs[n]
    <3>1. rows[r].msgs[n] # NoMessage
      BY <2>4, MessageKept DEF IsTurn
    <3>2. QED  BY <2>1, <3>1, Zenon
  <2>5. ASSUME Clean' PROVE RowBacked(r)'
    <3>1. ASSUME NEW n \in Seqs, IsResults(rows'[r].msgs[n])
          PROVE  /\ n > 0 /\ IsTurn(rows'[r].msgs[n - 1])
                 /\ rows'[r].msgs[n - 1].id = rows'[r].msgs[n].id
      <4>1. CASE rows'[r].msgs[n] = rows[r].msgs[n]
        <5>1. /\ n > 0 /\ IsTurn(rows[r].msgs[n - 1])
              /\ rows[r].msgs[n - 1].id = rows[r].msgs[n].id
          BY <2>1, <2>5, <3>1, <4>1, Zenon DEF RowBacked
        <5>2. n - 1 \in Seqs
          BY <5>1, ConstantsAssumption DEF Seqs
        <5>3. rows'[r].msgs[n - 1] = rows[r].msgs[n - 1]
          BY <2>4, <5>1, <5>2, Zenon
        <5>4. QED  BY <4>1, <5>1, <5>3, Zenon
      <4>2. CASE r = run /\ n = msgSeq /\ rows'[r].msgs[n] = m
        <5>1. rows[r].msgs[n - 1] = turn
          BY <1>6, <2>5, <4>2, Zenon
        <5>2. rows'[r].msgs[n - 1] = turn
          BY <1>1, <1>2, <2>4, <4>2, <5>1, Zenon
        <5>3. n > 0
          BY <1>1, <4>2
        <5>4. QED  BY <1>2, <1>3, <4>2, <5>2, <5>3, Zenon
      <4>3. QED  BY <2>1, <4>1, <4>2, Zenon
    <3>2. QED  BY <3>1, Zenon DEF RowBacked
  <2>6. QED  BY <2>2, <2>3, <2>5
<1>10. RowsKept'
  BY <1>9, Zenon DEF RowsKept
<1>11. QED  BY <1>8, <1>10, Zenon

\* The next iteration begins behind everything the row holds.
LEMMA NextIteration ==
  ASSUME IInv, PInv, TypeOK', stage \in {"record", "summary"}, DOMAIN rows' = DOMAIN rows,
         Clean' => Clean, RowsKept', NEW seq \in Nat, NEW since, EndIteration(seq, since),
         \A n \in Seqs :
           /\ rows'[run].msgs[n].kind \in {"turn", "results"} =>
                rows'[run].msgs[n].id[2] <= iteration
           /\ Clean' /\ n >= seq => rows'[run].msgs[n] = NoMessage
  PROVE  PInv'
<1>1. run \in DOMAIN rows /\ run > 0 /\ iteration \in Nat
  <2>1. TypeOK /\ run > 0
    BY DEF IInv, RowKnown
  <2>2. QED  BY <2>1, OwnRow, CountersNat
<1>2. CASE ContinueAsNew
  <2>1. stage' = "load" /\ run' = 0 /\ messages' = <<>>
    BY <1>2 DEF ContinueAsNew, FreshMemory, Await
  <2>2. OwnTurns' /\ OwnSlots' /\ TurnServed' /\ MindKept'
    BY <2>1 DEF OwnTurns, OwnSlots, TurnServed, MindKept, Serving
  <2>3. QED  BY <2>2 DEF PInv
<1>3. CASE LoopTop /\ msgSeq' = seq /\ UNCHANGED <<run, messages, turn>>
  <2>1. \/ stage' = "finalize" /\ iteration' \in {iteration, iteration + 1}
        \/ stage' = "plan" /\ iteration' = iteration + 1
    BY <1>3 DEF LoopTop, Await
  <2>2. \A n \in Seqs : rows'[run].msgs[n].kind \in {"turn", "results"} =>
          /\ rows'[run].msgs[n].id[2] <= iteration'
          /\ stage' = "plan" => rows'[run].msgs[n].id[2] # iteration'
    <3>1. ASSUME NEW n \in Seqs, rows'[run].msgs[n].kind \in {"turn", "results"}
          PROVE  rows'[run].msgs[n].id[2] \in Nat
      <4>1. rows' \in Seq(Row) /\ run \in DOMAIN rows'
        BY <1>1 DEF TypeOK
      <4>2. QED  BY <3>1, <4>1, StoredId
    <3>2. \A x, i \in Nat : x <= i => x <= i + 1 /\ x # i + 1
      OBVIOUS
    <3>3. QED  BY <1>1, <2>1, <3>1, <3>2
  <2>3. OwnTurns'
    BY <1>3, <2>1, <2>2, Zenon DEF OwnTurns, Serving, IsTurn, IsResults
  <2>4. OwnSlots'
    BY <1>3, <2>1, Zenon DEF OwnSlots, Serving
  <2>5. TurnServed'
    BY <2>1 DEF TurnServed, Serving
  <2>6. MindKept'
    BY <1>3, <2>1 DEF PInv, MindKept, Unmatched, Backed, Answered, Asked
  <2>7. QED  BY <2>3, <2>4, <2>5, <2>6 DEF PInv
<1>4. QED  BY <1>2, <1>3 DEF EndIteration, mind

LEMMA RecordResultsOrders ==
  ASSUME IInv, PInv, TypeOK', NEW stored \in BOOLEAN, NEW how \in Fates,
         RecordResults(stored, how)
  PROVE  PInv'
<1>1. /\ stage = "record" /\ Attempted(how) /\ Swallowed(how = "ok" /\ ~stored)
      /\ IF stored THEN StoreMessage(msgSeq, Results) ELSE UNCHANGED rows
  BY DEF RecordResults
<1>2. TypeOK /\ run > 0 /\ msgSeq \in Nat /\ iteration \in Nat
  <2>1. TypeOK /\ run > 0
    BY <1>1 DEF IInv, RowKnown
  <2>2. QED  BY <2>1, CountersNat
<1>3. Clean' => Clean /\ lost' = lost
  <2>1. lost' = lost \/ lost' = lost + 1
    BY <1>1 DEF Attempted
  <2>2. dbErrors' = dbErrors \/ dbErrors' = dbErrors + 1
    BY <1>1 DEF Swallowed
  <2>3. QED  BY <1>2, <2>1, <2>2, CleanBefore
<1>4. Written(msgSeq, Results)
  <2>1. CASE stored
    BY <1>1, <1>2, <2>1, StoreMessageWrites
  <2>2. CASE ~stored
    BY <1>1, <2>2, UntouchedWrites
  <2>3. QED  BY <2>1, <2>2
<1>5. /\ RowsKept'
      /\ \A n \in Seqs :
           /\ rows'[run].msgs[n].kind \in {"turn", "results"} =>
                rows'[run].msgs[n].id[2] <= iteration
           /\ IsTurn(rows'[run].msgs[n]) /\ rows'[run].msgs[n].id[2] = iteration =>
                n + 1 = msgSeq
           /\ Clean' /\ n > msgSeq => rows'[run].msgs[n] = NoMessage
  BY <1>1, <1>3, <1>4, ResultsWritten
<1>6. \A n \in Seqs : n >= msgSeq + 1 => n > msgSeq
  BY <1>2 DEF Seqs
<1>7. CASE Unfinished(how) /\ UNCHANGED <<msgSeq, iteration, run, messages, turn>>
  <2>1. stage' = "finalize" \/ (stage' = "record" /\ how = "lost")
    BY <1>1, <1>2, <1>7, UnfinishedLeads
  <2>2. stage' = "record" => ~Clean'
    <3>1. lost \in Nat
      BY <1>2, ConstantsAssumption DEF TypeOK
    <3>2. how = "lost" => lost' = lost + 1
      BY <1>1 DEF Attempted
    <3>3. QED  BY <2>1, <3>1, <3>2 DEF Clean
  <2>3. OwnTurns'
    BY <1>1, <1>5, <1>7, <2>1, Zenon DEF OwnTurns, Serving
  <2>4. OwnSlots'
    BY <2>1, <2>2 DEF OwnSlots, Serving
  <2>5. TurnServed'
    BY <1>1, <1>7, <2>1 DEF PInv, TurnServed, Serving
  <2>6. MindKept'
    BY <1>1, <1>3, <1>7, <2>1 DEF PInv, MindKept, Unmatched, Backed, Answered, Asked
  <2>7. QED  BY <1>5, <2>3, <2>4, <2>5, <2>6 DEF PInv
<1>8. CASE /\ stage' = "summary" /\ msgSeq' = msgSeq + 1
           /\ UNCHANGED <<iteration, run, messages, turn>>
  <2>1. OwnTurns'
    BY <1>5, <1>8, Zenon DEF OwnTurns, Serving
  <2>2. OwnSlots'
    BY <1>5, <1>6, <1>8, Zenon DEF OwnSlots, Serving
  <2>3. TurnServed'
    BY <1>8 DEF TurnServed, Serving
  <2>4. MindKept'
    BY <1>1, <1>3, <1>8 DEF PInv, MindKept, Unmatched, Backed, Answered, Asked
  <2>5. QED  BY <1>5, <2>1, <2>2, <2>3, <2>4 DEF PInv
<1>9. ASSUME NEW since, EndIteration(msgSeq + 1, since)
      PROVE  PInv'
  <2>1. DOMAIN rows' = DOMAIN rows /\ msgSeq + 1 \in Nat
    BY <1>2, <1>4 DEF Written
  <2>2. \A n \in Seqs :
          /\ rows'[run].msgs[n].kind \in {"turn", "results"} =>
               rows'[run].msgs[n].id[2] <= iteration
          /\ Clean' /\ n >= msgSeq + 1 => rows'[run].msgs[n] = NoMessage
    BY <1>5, <1>6, Zenon
  <2>3. QED  BY <1>1, <1>3, <1>5, <1>9, <2>1, <2>2, NextIteration
<1>10. CASE how = "ok" /\ SummaryOrEnd(msgSeq + 1, sinceSummary + Cardinality(Served))
  BY <1>8, <1>9, <1>10 DEF SummaryOrEnd, Await, mind
<1>11. QED  BY <1>7, <1>10 DEF RecordResults, loop, mind

LEMMA SummarizeOrders ==
  ASSUME IInv, PInv, TypeOK', NEW how \in Fates, Summarize(how)
  PROVE  PInv'
<1>1. stage = "summary" /\ EndIteration(msgSeq, 0) /\ UNCHANGED <<rows, lost, dbErrors>>
  BY DEF Summarize
<1>2. TypeOK /\ run > 0 /\ msgSeq \in Nat
  <2>1. TypeOK /\ run > 0
    BY <1>1 DEF IInv, RowKnown
  <2>2. QED  BY <2>1, CountersNat
<1>3. Clean' => Clean
  BY <1>1 DEF Clean
<1>4. RowsKept'
  BY <1>1, <1>3, RowsFramed DEF PInv, SameMessages
<1>5. \A n \in Seqs :
        /\ rows'[run].msgs[n].kind \in {"turn", "results"} =>
             rows'[run].msgs[n].id[2] <= iteration
        /\ Clean' /\ n >= msgSeq => rows'[run].msgs[n] = NoMessage
  BY <1>1, <1>2, <1>3 DEF PInv, OwnTurns, OwnSlots
<1>6. QED  BY <1>1, <1>2, <1>3, <1>4, <1>5, NextIteration

\* The results follow the turn they answer into the planner's input.
LEMMA ResultsAdded ==
  ASSUME IInv, PInv, stage \in {"fanout", "human"}, stage' = "record", AddResults,
         UNCHANGED <<rows, run, msgSeq, iteration, turn, lost, dbErrors>>
  PROVE  PInv'
<1>1. /\ TypeOK /\ run > 0 /\ IsTurn(turn) /\ (Clean' <=> Clean)
      /\ stage \in Serving /\ stage \notin {"plan", "load", "init"}
  BY DEF IInv, RowKnown, PInv, TurnServed, Serving, Clean
<1>2. RowsKept'
  BY <1>1, RowsFramed DEF PInv, SameMessages
<1>3. OwnTurns' /\ OwnSlots' /\ TurnServed'
  <2>1. OwnTurns'
    BY <1>1, Zenon DEF PInv, OwnTurns
  <2>2. OwnSlots'
    BY <1>1, Zenon DEF PInv, OwnSlots
  <2>3. TurnServed'
    BY <1>1 DEF PInv, TurnServed
  <2>4. QED  BY <2>1, <2>2, <2>3
<1>4. MindKept'
  <2>1. /\ messages \in Seq(KeptMessages) /\ messages # <<>> /\ messages[Len(messages)] = turn
        /\ Unmatched(messages) \subseteq {Len(messages)} /\ (Clean => Backed(messages))
    BY DEF PInv, MindKept
  <2>2. Results \in KeptMessages /\ IsResults(Results) /\ Results.id = turn.id
    BY <1>1, MessageKept DEF IsResults, Results, Message
  <2>3. messages' = Append(messages, Results)
    BY DEF AddResults
  <2>4. /\ messages' \in Seq(KeptMessages) /\ Unmatched(messages') = {}
        /\ Clean' => Backed(messages')
    BY <1>1, <2>1, <2>2, <2>3, AppendMind
  <2>5. QED  BY <2>4 DEF MindKept, Unmatched, Backed, Answered, Asked
<1>5. QED  BY <1>2, <1>3, <1>4 DEF PInv

LEMMA FanInOrders ==
  ASSUME IInv, PInv, FanIn
  PROVE  PInv'
<1>1. /\ stage = "fanout" /\ UNCHANGED <<rows, run, msgSeq, iteration, turn, lost, dbErrors>>
      /\ \/ stage' = "human" /\ UNCHANGED messages
         \/ stage' = "record" /\ AddResults
  BY DEF FanIn, Await, loop, fan, trouble
<1>2. CASE stage' = "record" /\ AddResults
  BY <1>1, <1>2, ResultsAdded
<1>3. CASE stage' = "human" /\ UNCHANGED messages
  <2>1. SameMessages /\ (Clean' => Clean)
    BY <1>1 DEF SameMessages, Clean
  <2>2. QED  BY <1>1, <1>3, <2>1, Framed
<1>4. QED  BY <1>1, <1>2, <1>3

LEMMA InjectReplyOrders ==
  ASSUME IInv, PInv, InjectReply
  PROVE  PInv'
<1>1. /\ stage = "human" /\ stage' = "record" /\ AddResults
      /\ UNCHANGED <<rows, run, msgSeq, iteration, turn, lost, dbErrors>>
  BY DEF InjectReply, Await, loop, trouble
<1>2. QED  BY <1>1, ResultsAdded

\* The planner starts from a repaired history and the new message.
LEMMA LoadContextOrders ==
  ASSUME IInv, PInv, NEW how \in Fates, LoadContext(how)
  PROVE  PInv'
<1>1. /\ stage = "load" /\ TypeOK /\ run = 0 /\ Attempted(how)
      /\ UNCHANGED <<iteration, msgSeq, turn, rows, run, dbErrors>>
  BY DEF LoadContext, loop, IInv, RowKnown
<1>2. lost' = lost \/ lost' = lost + 1
  BY <1>1 DEF Attempted
<1>3. Clean' => Clean
  BY <1>1, <1>2, CleanBefore
<1>4. SameMessages
  BY <1>1 DEF SameMessages
<1>5. CASE Unfinished(how) /\ UNCHANGED messages
  <2>1. stage' \in {"load", "closed"}
    BY <1>1, <1>5, UnfinishedLeads
  <2>2. QED  BY <1>1, <1>3, <1>4, <1>5, <2>1, Framed
<1>6. CASE messages' = Append(PriorHistory, UserMessage) /\ stage' = "init"
  <2>1. RowsKept'
    BY <1>3, <1>4, RowsFramed DEF PInv
  <2>2. OwnTurns' /\ OwnSlots' /\ TurnServed'
    BY <1>1, <1>6 DEF OwnTurns, OwnSlots, TurnServed, Serving
  <2>3. /\ PriorHistory \in Seq(KeptMessages) /\ Unmatched(PriorHistory) = {}
        /\ Clean => Backed(PriorHistory)
    BY <1>1, PriorKept DEF PInv
  <2>4. UserMessage \in KeptMessages /\ ~Calling(UserMessage) /\ ~IsResults(UserMessage)
    BY MessageKept DEF Calling, IsTurn, IsResults
  <2>5. /\ messages' \in Seq(KeptMessages) /\ Unmatched(messages') = {}
        /\ Clean' => Backed(messages')
    BY <1>3, <1>6, <2>3, <2>4, AppendMind
  <2>6. MindKept'
    BY <1>6, <2>5 DEF MindKept, Unmatched, Backed, Answered, Asked
  <2>7. QED  BY <2>1, <2>2, <2>6 DEF PInv
<1>7. QED  BY <1>5, <1>6 DEF LoadContext, Await

LEMMA StartWorkflowOrders ==
  ASSUME IInv, PInv, StartWorkflow
  PROVE  PInv'
<1>1. /\ stage' = "load" /\ run' = 0 /\ messages' = <<>> /\ UNCHANGED <<rows, lost, dbErrors>>
  BY DEF StartWorkflow, FreshMemory, Await
<1>2. RowsKept'
  BY <1>1, RowsFramed DEF PInv, SameMessages, Clean
<1>3. OwnTurns' /\ OwnSlots' /\ TurnServed' /\ MindKept'
  BY <1>1 DEF OwnTurns, OwnSlots, TurnServed, MindKept, Serving
<1>4. QED  BY <1>2, <1>3 DEF PInv

\* A new row holds at most the user's message.
LEMMA InitRunOrders ==
  ASSUME IInv, PInv, NEW made \in SUBSET InitWrites, NEW how \in Fates, InitRun(made, how)
  PROVE  PInv'
<1>1. /\ stage = "init" /\ run = 0 /\ msgSeq' = 1 /\ TypeOK /\ Attempted(how)
      /\ Swallowed(how = "ok" /\ made # InitWrites)
      /\ UNCHANGED <<messages, turn>>
      /\ rows' = IF made = {} THEN rows ELSE Append(rows, RunRow(made))
  BY DEF InitRun, mind, IInv, RowKnown
<1>2. Clean' => Clean
  <2>1. lost' = lost \/ lost' = lost + 1
    BY <1>1 DEF Attempted
  <2>2. dbErrors' = dbErrors \/ dbErrors' = dbErrors + 1
    BY <1>1 DEF Swallowed
  <2>3. QED  BY <1>1, <2>1, <2>2, CleanBefore
<1> DEFINE new == RunRow(made)
<1>3. /\ \A n \in Seqs : new.msgs[n].kind \notin {"turn", "results"}
      /\ \A n \in Seqs : n >= 1 => new.msgs[n] = NoMessage
  <2>1. \A n \in Seqs : new.msgs[n] \in {UserMessage, NoMessage}
                        /\ (n # 0 => new.msgs[n] = NoMessage)
    BY DEF RunRow
  <2>2. \A n \in Seqs : n >= 1 => n # 0
    OBVIOUS
  <2>3. QED  BY <2>1, <2>2, MessageKept
<1> HIDE DEF new
<1>4. /\ \A r \in DOMAIN rows' : (r \in DOMAIN rows /\ rows'[r] = rows[r]) \/ rows'[r] = new
      /\ made # {} => Len(rows') \in DOMAIN rows' /\ rows'[Len(rows')] = new /\ Len(rows') > 0
  <2>1. rows \in Seq(Row) /\ new \in Row /\ rows' = IF made = {} THEN rows ELSE Append(rows, new)
    BY <1>1, NewRow DEF TypeOK, new
  <2>2. QED  BY <2>1
<1>5. RowsKept'
  <2>1. ASSUME NEW r \in DOMAIN rows'
        PROVE  RowOwned(r)' /\ RowAligned(r)' /\ (Clean' => RowBacked(r)')
    <3>1. CASE r \in DOMAIN rows /\ rows'[r] = rows[r]
      <4>1. RowOwned(r) /\ RowAligned(r) /\ (Clean => RowBacked(r))
        BY <3>1, Zenon DEF PInv, RowsKept
      <4>2. RowOwned(r)' /\ RowAligned(r)'
        BY <3>1, <4>1, Zenon DEF RowOwned, RowAligned
      <4>3. Clean' => RowBacked(r)'
        BY <1>2, <3>1, <4>1, Zenon DEF RowBacked
      <4>4. QED  BY <4>2, <4>3
    <3>2. CASE rows'[r] = new
      <4>1. \A n \in Seqs : /\ rows'[r].msgs[n].kind \notin {"turn", "results"}
                            /\ ~IsTurn(rows'[r].msgs[n]) /\ ~IsResults(rows'[r].msgs[n])
        BY <1>3, <3>2 DEF IsTurn, IsResults
      <4>2. QED  BY <4>1, Zenon DEF RowOwned, RowAligned, RowBacked
    <3>3. QED  BY <1>4, <3>1, <3>2
  <2>2. QED  BY <2>1, Zenon DEF RowsKept
<1>6. CASE stage' \in {"init", "closed"} /\ run' = 0
  <2>1. OwnTurns' /\ OwnSlots' /\ TurnServed'
    BY <1>6 DEF OwnTurns, OwnSlots, TurnServed, Serving
  <2>2. MindKept'
    BY <1>1, <1>2, <1>6 DEF PInv, MindKept, Unmatched, Backed, Answered, Asked
  <2>3. QED  BY <1>5, <2>1, <2>2 DEF PInv
<1>7. CASE stage' \in {"plan", "finalize"} /\ run' = Len(rows') /\ made # {}
  <2>1. run' \in DOMAIN rows' /\ rows'[run'] = new
    BY <1>4, <1>7
  <2>2. OwnTurns'
    BY <1>3, <2>1 DEF OwnTurns, IsTurn, IsResults
  <2>3. OwnSlots'
    BY <1>1, <1>3, <1>7, <2>1 DEF OwnSlots, Serving
  <2>4. TurnServed'
    BY <1>7 DEF TurnServed, Serving
  <2>5. MindKept'
    BY <1>1, <1>2, <1>7 DEF PInv, MindKept, Unmatched, Backed, Answered, Asked
  <2>6. QED  BY <1>5, <2>2, <2>3, <2>4, <2>5 DEF PInv
<1>8. CASE how = "ok" /\ run' = Len(rows') /\ LoopTop
  <2>1. made # {}
    BY <1>8 DEF InitRun
  <2>2. stage' \in {"plan", "finalize"}
    BY <1>1, <1>8, LoopTopLeads
  <2>3. QED  BY <1>7, <1>8, <2>1, <2>2
<1>9. CASE Unfinished(how) /\ UNCHANGED run
  <2>1. stage' \in {"init", "closed"}
    BY <1>1, <1>9, UnfinishedLeads
  <2>2. QED  BY <1>1, <1>6, <1>9, <2>1
<1>10. QED  BY <1>8, <1>9 DEF InitRun

\* The steps that leave every message as it is.
LEMMA OpenTasksFrames ==
  ASSUME TypeOK, run > 0, NEW n, OpenTasks(n)
  PROVE  SameMessages
<1> DEFINE new == [rows[run] EXCEPT !.open = n]
<1>1. rows \in Seq(Row) /\ run \in DOMAIN rows /\ rows[run] \in Row
  BY OwnRow DEF TypeOK
<1>2. new.msgs = rows[run].msgs
  BY <1>1 DEF Row
<1>3. rows' = [rows EXCEPT ![run] = new]
  BY <1>1 DEF OpenTasks
<1> HIDE DEF new
<1>4. QED  BY <1>1, <1>2, <1>3 DEF SameMessages

LEMMA CallOrders ==
  ASSUME IInv, PInv, stage = "fanout", stage' = stage,
         lost' = lost \/ lost' = lost + 1,
         UNCHANGED <<run, msgSeq, iteration, turn, messages, dbErrors>>,
         UNCHANGED rows \/ \E n : OpenTasks(n)
  PROVE  PInv'
<1>1. TypeOK /\ run > 0
  BY DEF IInv, RowKnown
<1>2. SameMessages
  BY <1>1, OpenTasksFrames DEF SameMessages
<1>3. Clean' => Clean
  BY <1>1, CleanBefore
<1>4. QED  BY <1>2, <1>3, Framed

LEMMA StartCallOrders ==
  ASSUME IInv, PInv, NEW s \in Slots, StartCall(s)
  PROVE  PInv'
<1>1. /\ stage = "fanout" /\ stage' = stage /\ lost' = lost
      /\ UNCHANGED <<run, msgSeq, iteration, turn, messages, dbErrors>>
      /\ UNCHANGED rows \/ OpenTasks(rows[run].open + 1)
  BY DEF StartCall, flow, loop, mind, trouble
<1>2. QED  BY <1>1, CallOrders

LEMMA FinishCallOrders ==
  ASSUME IInv, PInv, NEW s \in Slots, NEW result, FinishCall(s, result)
  PROVE  PInv'
<1>1. /\ stage = "fanout" /\ stage' = stage /\ lost' = lost
      /\ UNCHANGED <<run, msgSeq, iteration, turn, messages, dbErrors>>
      /\ UNCHANGED rows \/ OpenTasks(rows[run].open - 1)
  BY DEF FinishCall, flow, loop, mind, trouble
<1>2. QED  BY <1>1, CallOrders

LEMMA LoseCallOrders ==
  ASSUME IInv, PInv, NEW s \in Slots, LoseCall(s)
  PROVE  PInv'
<1>1. /\ stage = "fanout" /\ stage' = stage /\ lost' = lost + 1
      /\ UNCHANGED <<run, msgSeq, iteration, turn, messages, dbErrors>>
      /\ UNCHANGED rows \/ OpenTasks(rows[run].open + 1)
  BY DEF LoseCall, flow, loop, mind
<1>2. QED  BY <1>1, CallOrders

LEMMA FinalizeOrders ==
  ASSUME IInv, PInv, NEW stored \in SUBSET {"run", "task"}, NEW how \in Fates,
         Finalize(stored, how)
  PROVE  PInv'
<1>1. /\ stage = "finalize" /\ Attempted(how)
      /\ Swallowed(how = "ok" /\ stored # {"run", "task"})
      /\ UNCHANGED <<run, msgSeq, iteration, turn, messages>>
      /\ stage' \in {stage, "closed"}
  BY DEF Finalize, loop, mind, Await
<1>2. TypeOK /\ run > 0
  BY <1>1 DEF IInv, RowKnown
<1>3. Clean' => Clean
  <2>1. lost' = lost \/ lost' = lost + 1
    BY <1>1 DEF Attempted
  <2>2. dbErrors' = dbErrors \/ dbErrors' = dbErrors + 1
    BY <1>1 DEF Swallowed
  <2>3. QED  BY <1>2, <2>1, <2>2, CleanBefore
<1>4. SameMessages
  <2>1. rows \in Seq(Row) /\ run \in DOMAIN rows /\ rows[run] \in Row
    BY <1>2, OwnRow DEF TypeOK
  <2> DEFINE status == IF "run" \in stored THEN runStatus ELSE rows[run].status
             task == IF "task" \in stored /\ rows[run].task = "working"
                     THEN TaskState(runStatus) ELSE rows[run].task
             new == [rows[run] EXCEPT !.status = status, !.task = task]
  <2>2. rows' = [rows EXCEPT ![run] = new]
    BY <2>1 DEF Finalize, Row
  <2> HIDE DEF status, task
  <2>3. new.msgs = rows[run].msgs
    BY <2>1 DEF Row
  <2> HIDE DEF new
  <2>4. QED  BY <2>1, <2>2, <2>3 DEF SameMessages
<1>5. QED  BY <1>1, <1>3, <1>4, Framed

LEMMA ForceCancelOrders ==
  ASSUME IInv, PInv, NEW r \in DOMAIN rows, ForceCancel(r)
  PROVE  PInv'
<1>1. UNCHANGED <<stage, run, msgSeq, iteration, turn, messages, lost, dbErrors>>
  BY DEF ForceCancel, flow, loop, mind, trouble
<1>2. rows \in Seq(Row) /\ rows[r] \in Row
  BY DEF IInv, TypeOK
<1> DEFINE new == [rows[r] EXCEPT !.status = "canceled"]
<1>3. new.msgs = rows[r].msgs
  BY <1>2 DEF Row
<1>4. rows' = [rows EXCEPT ![r] = new]
  BY <1>2 DEF ForceCancel
<1> HIDE DEF new
<1>5. SameMessages
  BY <1>2, <1>3, <1>4 DEF SameMessages
<1>6. QED  BY <1>1, <1>5, Framed DEF Clean

\* A wait given up, a reply sent, a cancellation: nothing is read or written.
LEMMA RestOrders ==
  ASSUME IInv, PInv, HumanTimeout \/ SendReply \/ EscapeCancelled \/ UNCHANGED vars
  PROVE  PInv'
<1>1. /\ UNCHANGED <<rows, run, msgSeq, iteration, turn, messages, lost, dbErrors>>
      /\ stage' \in {stage, "finalize", "closed"}
  <2>1. CASE HumanTimeout
    BY <2>1 DEF HumanTimeout, Conclude, Await, loop, mind, trouble
  <2>2. CASE SendReply
    BY <2>2 DEF SendReply, flow, loop, mind, trouble
  <2>3. CASE EscapeCancelled
    BY <2>3 DEF EscapeCancelled, Await, loop, mind
  <2>4. CASE UNCHANGED vars
    BY <2>4 DEF vars, flow, loop, mind, trouble
  <2>5. QED  BY <2>1, <2>2, <2>3, <2>4
<1>2. SameMessages /\ (Clean' => Clean)
  BY <1>1 DEF SameMessages, Clean
<1>3. QED  BY <1>1, <1>2, Framed

LEMMA OrderedInitially == Init => PInv
<1> SUFFICES ASSUME Init PROVE PInv
  OBVIOUS
<1>1. stage = "closed" /\ run = 0 /\ messages = <<>> /\ DOMAIN rows = {}
  BY DEF Init
<1>2. QED
  BY <1>1 DEF PInv, RowsKept, OwnTurns, OwnSlots, TurnServed, MindKept, Serving

LEMMA StepOrders == IInv /\ PInv /\ [Next]_vars => PInv'
<1> SUFFICES ASSUME IInv, PInv, [Next]_vars PROVE PInv'
  OBVIOUS
<1>1. TypeOK'
  BY StepKeeps DEF IInv
<1>2. CASE ActivityStep
  <2>1. PICK how \in Fates :
          \/ LoadContext(how)
          \/ \E made \in SUBSET InitWrites : InitRun(made, how)
          \/ \E cost \in Costs, called \in SUBSET Slots, stored \in SUBSET {"usage", "message"} :
               PlanTurn(cost, called, stored, how)
          \/ \E stored \in BOOLEAN : RecordResults(stored, how)
          \/ Summarize(how)
          \/ \E stored \in SUBSET {"run", "task"} : Finalize(stored, how)
    BY <1>2 DEF ActivityStep
  <2>2. QED
    BY <1>1, <2>1, LoadContextOrders, InitRunOrders, PlanTurnOrders, RecordResultsOrders,
       SummarizeOrders, FinalizeOrders
<1>3. CASE FanOutStep
  BY <1>3, StartCallOrders, LoseCallOrders, FinishCallOrders, FanInOrders DEF FanOutStep
<1>4. CASE HumanStep
  BY <1>4, InjectReplyOrders, RestOrders DEF HumanStep
<1>5. CASE \E r \in DOMAIN rows : ForceCancel(r)
  BY <1>5, ForceCancelOrders
<1>6. CASE StartWorkflow \/ SendReply \/ EscapeCancelled \/ UNCHANGED vars
  BY <1>6, StartWorkflowOrders, RestOrders
<1>7. QED
  BY <1>2, <1>3, <1>4, <1>5, <1>6 DEF Next

LEMMA OrderInvariant == Spec => []PInv
<1>1. Init => PInv
  BY OrderedInitially
<1>2. IInv /\ PInv /\ [Next]_vars => PInv'
  BY StepOrders
<1>3. QED  BY <1>1, <1>2, Invariant, PTL DEF Spec

\* What plan_turn sends to the provider answers every tool call with the very
\* next message, whatever earlier runs of the conversation left in the
\* database; while no result was lost and no write was missing, no results
\* stand without their turn either.
THEOREM InputPaired == Spec => []PlannerInputPaired
<1>1. IInv /\ PInv => PlannerInputPaired
  <2> SUFFICES ASSUME PInv, stage = "plan"
               PROVE  /\ \A i \in DOMAIN messages :
                           messages[i].kind = "turn" /\ messages[i].calls =>
                             /\ i < Len(messages)
                             /\ messages[i + 1].kind = "results"
                             /\ messages[i + 1].id = messages[i].id
                      /\ lost = 0 /\ dbErrors = 0 =>
                           \A i \in DOMAIN messages :
                             messages[i].kind = "results" =>
                               /\ i > 1 /\ messages[i - 1].kind = "turn"
                               /\ messages[i - 1].id = messages[i].id
    BY DEF PlannerInputPaired
  <2>1. Unmatched(messages) = {} /\ (Clean => Backed(messages))
    BY DEF PInv, MindKept
  <2>2. \A i \in DOMAIN messages : Calling(messages[i]) => Answered(messages, i)
    BY <2>1 DEF Unmatched
  <2>3. QED
    BY <2>1, <2>2 DEF Clean, Backed, Asked, Calling, Answered, IsTurn, IsResults
<1>2. QED  BY <1>1, Invariant, OrderInvariant, PTL

=============================================================================
