------------------------------ MODULE A2aRunner ------------------------------
(***************************************************************************)
(* SendMessage of the A2A server, and the in-process runner it drives.     *)
(*                                                                         *)
(* A message owns two rows of them.tasks: the one its caller knows (outer, *)
(* with an owner and a deadline) and the root task the runner makes for    *)
(* itself (inner, with neither), with a run row, a transcript and a child  *)
(* task for every tool call.  Several messages may name the same context.  *)
(* The handler reads the runner's events and drops the generator at the    *)
(* first error event, so the runner stops at the yield that sent it.       *)
(*                                                                         *)
(* transition() reads a row and commits a move by primary key, without a   *)
(* lock or a version.  On the caller's task it has three writers, each in  *)
(* a session of its own: the handler, CancelTask and the reaper.  On the   *)
(* runner's own rows it has one, and is one step.                          *)
(***************************************************************************)
EXTENDS Naturals, FiniteSets, Sequences, SequencesExt

CONSTANTS
  Msgs,           \* SendMessage requests, all of one context
  Calls,          \* tool calls the model may ask for in a turn
  MaxIterations,  \* orch.max_iterations
  HistoryWindow,  \* orch.history_window
  Ceiling,        \* _MAX_TASKS_PER_CONTEXT
  MaxFaults,      \* bound: failed commits, raised database errors and dead pods
  MaxLoads        \* bound: rows loaded by CancelTask requests and sweeps

ASSUME ConstantsAssumption ==
  /\ IsFiniteSet(Msgs) /\ IsFiniteSet(Calls)
  /\ MaxIterations \in Nat /\ HistoryWindow \in Nat
  /\ Ceiling \in Nat \ {0}
  /\ MaxFaults \in Nat /\ MaxLoads \in Nat

VARIABLES
  at,         \* where the handler of each message is
  outer,      \* state of the task the caller was given
  inner,      \* state of the runner's root task
  run,        \* status of the run row
  log,        \* task_messages of the inner task, in order of seq
  prior,      \* prior_history, loaded once
  iteration,
  child,      \* what became of each tool call of the turn
  erred,      \* the handler has an error, and a text for it
  seen,       \* the caller's task as each writer has it loaded
  order,      \* the context's root tasks, in order of creation
  faults, loads,
  \* History, read by the properties only:
  patchy      \* messages a swallowed or raised database error has hit

rows == <<outer, inner, run, child>>
loop == <<log, prior, iteration>>
views == <<seen, loads>>
vars == <<at, rows, loop, erred, views, order, faults, patchy>>

Active == {"submitted", "working"}
Terminal == {"completed", "failed", "canceled"}
TaskStates == {"absent"} \cup Active \cup Terminal

\* before the task / before the rows / in the loop / after it.
Places == {"idle", "checked", "refused", "created", "loading",
           "started", "rooted", "ready", "turn", "fanout",
           "answered", "recorded", "closing", "deciding", "done", "dead"}

\* The sessions that move the caller's task; "absent" is seen by one that has
\* not loaded it.
Writers == {"handler", "cancel", "reaper"}

\* A child: its row is open while the agent works and may stay open if its
\* last commit fails.  A call that raised has no row, or leaves an open one.
ChildStates == {"none", "queued", "open", "closed", "stuck", "raised", "lost"}
Returned == {"closed", "stuck"}
Raised == {"raised", "lost"}

\* An entry of a transcript: whose it is, in which iteration, what it holds.
Entry(m, i, kind) == [of |-> m, turn |-> i, kind |-> kind]

Init ==
  /\ at = [m \in Msgs |-> "idle"]
  /\ outer = [m \in Msgs |-> "absent"] /\ inner = [m \in Msgs |-> "absent"]
  /\ run = [m \in Msgs |-> "absent"]
  /\ log = [m \in Msgs |-> <<>>] /\ prior = [m \in Msgs |-> <<>>]
  /\ iteration = [m \in Msgs |-> 0]
  /\ child = [m \in Msgs |-> [c \in Calls |-> "none"]]
  /\ erred = [m \in Msgs |-> "no"]
  /\ seen = [m \in Msgs |-> [w \in Writers |-> "absent"]]
  /\ order = <<>> /\ faults = 0 /\ loads = 0 /\ patchy = {}

(***************************************************************************)
(* Helpers                                                                 *)
(***************************************************************************)
Move(m, from, to) == at[m] = from /\ at' = [at EXCEPT ![m] = to]

\* A database error: swallowed by the callee, or raised, as the caller says.
Fault(bad) ==
  /\ bad => faults < MaxFaults
  /\ faults' = IF bad THEN faults + 1 ELSE faults

Faulty(m, bad) ==
  /\ Fault(bad)
  /\ patchy' = IF bad THEN patchy \cup {m} ELSE patchy

\* Mutant: whatever the row's state, the new one is written.
AllowedAny(from) == TaskStates

\* _TRANSITIONS, for the states these writers know.
Allowed(from) ==
  CASE from = "submitted" -> {"working", "canceled"}
    [] from = "working"   -> Terminal
    [] OTHER              -> {}

\* transition() where nobody else writes the row.
Moved(from, to) == IF to \in Allowed(from) THEN to ELSE from

\* transition() on the caller's task: the row as the session loads it, and the
\* commit, which is checked against that and not against the row.
Load(m, w) == seen' = [seen EXCEPT ![m][w] = outer[m]]
Write(m, w, to, bad) ==
  /\ seen' = [seen EXCEPT ![m][w] = "absent"]
  /\ outer' = [outer EXCEPT ![m] = IF to \in Allowed(seen[m][w]) /\ ~bad THEN to ELSE @]

\* What the generator had in memory goes with it.
Forget(m) ==
  /\ prior' = [prior EXCEPT ![m] = <<>>]
  /\ iteration' = [iteration EXCEPT ![m] = 0]

\* The generator is over where it stands.
Leave(m, from, error) ==
  /\ Move(m, from, "closing")
  /\ Forget(m) /\ UNCHANGED <<log, views>>
  /\ erred' = [erred EXCEPT ![m] = error]

\* The handler hears an error event, which always has a text, and drops the
\* generator.
Abandon(m, from) == Leave(m, from, "told")

\* A database error escapes from the generator; str(exc) may be empty.
Escape(m, from) ==
  /\ Faulty(m, TRUE)
  /\ \E error \in {"told", "mute"} : Leave(m, from, error)

\* count_context_tasks: roots and children that are not terminal.
Tasks == (Msgs \X {"outer", "inner"}) \cup (Msgs \X Calls)
IsActive(t) ==
  CASE t[2] = "outer" -> outer[t[1]] \in Active
    [] t[2] = "inner" -> inner[t[1]] \in Active
    [] OTHER          -> child[t[1]][t[2]] \in {"open", "stuck", "lost"}
ContextTasks == Cardinality({t \in Tasks : IsActive(t)})

(***************************************************************************)
(* The handler, up to the detached or awaited run                          *)
(***************************************************************************)
\* The guard's own failure is logged and the message goes on.
Check(m, bad) ==
  /\ Move(m, "idle", IF bad \/ ContextTasks < Ceiling THEN "checked" ELSE "refused")
  /\ Faulty(m, bad)
  /\ UNCHANGED <<rows, loop, erred, views, order>>

\* In a session of its own, after the guard's: the scope check, then the row.
Create(m) ==
  /\ \/ /\ Move(m, "checked", "created")
        /\ outer' = [outer EXCEPT ![m] = "submitted"]
        /\ order' = Append(order, <<m, "outer">>)
     \/ Move(m, "checked", "refused") /\ UNCHANGED <<outer, order>>
  /\ UNCHANGED <<inner, run, child, loop, erred, views, faults, patchy>>

\* The same session moves the row it has just made.  A failed commit is
\* swallowed; if the select raises, the caller is refused and the row stays.
Begin(m, bad) ==
  /\ \/ Move(m, "created", "loading")
     \/ bad /\ Move(m, "created", "refused")
  /\ Faulty(m, bad)
  /\ outer' = [outer EXCEPT ![m] = IF bad THEN @ ELSE "working"]
  /\ UNCHANGED <<inner, run, child, loop, erred, views, order>>

(***************************************************************************)
(* run(): the rows                                                         *)
(***************************************************************************)
\* No such orchestrator, a token of another one, no agents: an error event
\* before any row.  A failed start_run is swallowed: the run has no row.
StartRun(m, bad) ==
  /\ Move(m, "loading", "started")
  /\ Faulty(m, bad)
  /\ run' = [run EXCEPT ![m] = IF bad THEN @ ELSE "running"]
  /\ UNCHANGED <<outer, inner, child, loop, erred, views, order>>

\* An error event, or the exception of a select.
RefuseRun(m) ==
  /\ \/ Abandon(m, "loading") /\ UNCHANGED <<faults, patchy>>
     \/ Escape(m, "loading")
  /\ UNCHANGED <<rows, order>>

CreateRoot(m) ==
  /\ Move(m, "started", "rooted")
  /\ inner' = [inner EXCEPT ![m] = "submitted"]
  /\ order' = Append(order, <<m, "inner">>)
  /\ UNCHANGED <<outer, run, child, loop, erred, views, faults, patchy>>

\* Outside every handler of run(): create_task, the selects of transition()
\* and the record of the answer.
Raise(m) ==
  /\ \E from \in {"started", "rooted", "recorded"} : Escape(m, from)
  /\ UNCHANGED <<rows, order>>

\* The transition, the user's message as seq 0, "ready".
BeginRoot(m, bad) ==
  /\ Move(m, "rooted", "ready")
  /\ Faulty(m, bad)
  /\ \/ /\ ~bad
        /\ inner' = [inner EXCEPT ![m] = "working"]
        /\ log' = [log EXCEPT ![m] = <<Entry(m, 0, "user")>>]
     \/ /\ bad
        /\ \/ inner' = [inner EXCEPT ![m] = "working"] /\ UNCHANGED log
           \/ log' = [log EXCEPT ![m] = <<Entry(m, 0, "user")>>] /\ UNCHANGED inner
  /\ UNCHANGED <<outer, run, child, prior, iteration, erred, views, order>>

(***************************************************************************)
(* _load_context_history                                                   *)
(***************************************************************************)
\* Every other root task of the context, the message's own outer task too;
\* the last HistoryWindow of them ([-0:] would be the whole list).
Others(m) == {i \in DOMAIN order : order[i] # <<m, "inner">>}
Recent(m) ==
  {i \in Others(m) :
     HistoryWindow = 0 \/ Cardinality({j \in Others(m) : j > i}) < HistoryWindow}

\* The transcript of a task; a task without one has its input instead.
Transcript(t) ==
  IF t[2] = "inner" /\ log[t[1]] # <<>> THEN log[t[1]]
  ELSE <<Entry(t[1], 0, "user")>>

History(m) ==
  FlattenSeq([i \in DOMAIN order |-> IF i \in Recent(m) THEN Transcript(order[i]) ELSE <<>>])

\* _build_messages_from_store: an empty transcript falls back on the input.
Current(m) == Transcript(<<m, "inner">>)
PlannerInput(m) == prior[m] \o Current(m)

(***************************************************************************)
(* The loop                                                                *)
(***************************************************************************)
\* The provider is built, the history loaded; an error of that is swallowed.
StartLoop(m, bad) ==
  /\ Move(m, "ready", "turn")
  /\ Faulty(m, bad)
  /\ prior' = [prior EXCEPT ![m] = IF bad THEN <<>> ELSE History(m)]
  /\ UNCHANGED <<rows, log, iteration, erred, views, order>>

\* The error event comes before complete_run and the transition.
ProviderFails(m) ==
  /\ Abandon(m, "ready")
  /\ UNCHANGED <<rows, order, faults, patchy>>

Store(m, kind, bad) ==
  log' = [log EXCEPT ![m] = IF bad THEN @ ELSE Append(@, Entry(m, iteration'[m], kind))]

\* A planning call that asks for tools: its turn is stored, its calls begin.
\* A slot whose row is stuck is not used again, so that the row stays counted.
Plan(m, called, bad) ==
  /\ iteration[m] < MaxIterations
  /\ Move(m, "turn", "fanout")
  /\ called # {} /\ \A c \in called : child[m][c] # "stuck"
  /\ iteration' = [iteration EXCEPT ![m] = @ + 1]
  /\ Faulty(m, bad)
  /\ Store(m, "calls", bad)
  /\ child' = [child EXCEPT ![m] = [c \in Calls |-> IF c \in called THEN "queued" ELSE @[c]]]
  /\ UNCHANGED <<outer, inner, run, prior, erred, views, order>>

\* One that answers.  Its turn is stored if the provider's done event carries
\* it: Anthropic's does, that of the OpenAI-compatible providers does not.
Conclude(m, kept, bad) ==
  /\ iteration[m] < MaxIterations
  /\ Move(m, "turn", "answered")
  /\ iteration' = [iteration EXCEPT ![m] = @ + 1]
  /\ Faulty(m, bad)
  /\ Store(m, "answer", bad \/ ~kept)
  /\ UNCHANGED <<rows, prior, erred, views, order>>

\* Budget exceeded, the model's error, an exception.
PlanFails(m) ==
  /\ iteration[m] < MaxIterations
  /\ Abandon(m, "turn")
  /\ UNCHANGED <<rows, order, faults, patchy>>

\* Mutant: running out of iterations sends no error event.
ExhaustedQuietly(m) ==
  /\ iteration[m] >= MaxIterations
  /\ Move(m, "turn", "closing")
  /\ UNCHANGED <<rows, loop, erred, views, order, faults, patchy>>

\* while ... else: "stopped", and an error event.
Exhausted(m) ==
  /\ iteration[m] >= MaxIterations
  /\ Abandon(m, "turn")
  /\ UNCHANGED <<rows, order, faults, patchy>>

(***************************************************************************)
(* The fan-out: asyncio.gather over _run_one                               *)
(***************************************************************************)
SetChild(m, c, state) == child' = [child EXCEPT ![m][c] = state]

\* The child's own session makes its row and moves it; either may raise.  A
\* call waits for a semaphore until then, and goes on whatever became of the
\* gather.
StartChild(m, c, bad) ==
  /\ at[m] # "dead" /\ child[m][c] = "queued"
  /\ Faulty(m, bad)
  /\ \E state \in IF bad THEN {"open", "raised", "lost"} ELSE {"open"} : SetChild(m, c, state)
  /\ UNCHANGED <<at, outer, inner, run, loop, erred, views, order>>

\* The agent answered, failed or timed out: all is caught and recorded.  The
\* record's last commit may fail, and its select may raise.
EndChild(m, c, bad) ==
  /\ at[m] # "dead" /\ child[m][c] = "open"
  /\ Faulty(m, bad)
  /\ \E state \in IF bad THEN {"stuck", "lost"} ELSE {"closed"} : SetChild(m, c, state)
  /\ UNCHANGED <<at, outer, inner, run, loop, erred, views, order>>

Asked(m) == {c \in Calls : child[m][c] # "none"}

\* The slots of the turn are free again, but for rows nothing will close.
Free(m) ==
  child' = [child EXCEPT ![m] = [c \in Calls |-> IF @[c] = "stuck" THEN "stuck" ELSE "none"]]

\* Mutant: the results of the last turn are not stored.
JoinUnlessLast(m, bad) ==
  /\ \A c \in Asked(m) : child[m][c] \in Returned
  /\ Move(m, "fanout", "turn")
  /\ Faulty(m, bad) /\ UNCHANGED iteration
  /\ Store(m, "results", bad \/ iteration[m] = MaxIterations)
  /\ Free(m)
  /\ UNCHANGED <<outer, inner, run, prior, erred, views, order>>

\* Mutant: a call has returned once its row is closed.
JoinClosed(m, bad) ==
  /\ \A c \in Asked(m) : child[m][c] = "closed"
  /\ Move(m, "fanout", "turn")
  /\ Faulty(m, bad) /\ UNCHANGED iteration
  /\ Store(m, "results", bad)
  /\ Free(m)
  /\ UNCHANGED <<outer, inner, run, prior, erred, views, order>>

\* Every call has returned: the results are stored (or swallowed) and the
\* loop comes round.
Join(m, bad) ==
  /\ \A c \in Asked(m) : child[m][c] \in Returned
  /\ Move(m, "fanout", "turn")
  /\ Faulty(m, bad) /\ UNCHANGED iteration
  /\ Store(m, "results", bad)
  /\ Free(m)
  /\ UNCHANGED <<outer, inner, run, prior, erred, views, order>>

\* gather raises with the first call that did; its siblings are not cancelled.
JoinRaised(m) ==
  /\ \E c \in Calls : child[m][c] \in Raised
  /\ Abandon(m, "fanout")
  /\ UNCHANGED <<rows, order, faults, patchy>>

(***************************************************************************)
(* The end                                                                 *)
(***************************************************************************)
Complete(m, bad) ==
  /\ Move(m, "answered", "recorded")
  /\ Faulty(m, bad)
  /\ run' = [run EXCEPT ![m] = IF bad \/ @ = "absent" THEN @ ELSE "completed"]
  /\ UNCHANGED <<outer, inner, child, loop, erred, views, order>>

Settle(m, bad) ==
  /\ Move(m, "recorded", "closing")
  /\ Faulty(m, bad)
  /\ inner' = [inner EXCEPT ![m] = IF bad THEN @ ELSE Moved(@, "completed")]
  /\ Forget(m)
  /\ UNCHANGED <<outer, run, child, log, erred, views, order>>

\* _run_and_finalize, in a session of its own: the select, whose error is
\* caught, and the commit.  An error without a text counts as none.
Reload(m, bad) ==
  /\ \/ ~bad /\ Move(m, "closing", "deciding") /\ Load(m, "handler")
     \/ bad /\ Move(m, "closing", "done") /\ UNCHANGED seen
  /\ Faulty(m, bad)
  /\ UNCHANGED <<rows, loop, erred, loads, order>>

Finalize(m, bad) ==
  /\ Move(m, "deciding", "done")
  /\ Faulty(m, bad)
  /\ Write(m, "handler", IF erred[m] = "told" THEN "failed" ELSE "completed", bad)
  /\ UNCHANGED <<inner, run, child, loop, erred, loads, order>>

(***************************************************************************)
(* Others that read or write the caller's task, and the death of the pod   *)
(***************************************************************************)
\* What GetTask answers, and SendMessage in the end.
Answer(m) == outer[m]

\* get_task: a task that is over is refused.  Its id is known to its owner
\* once the handler has put it to work.
OpenCancel(m) ==
  /\ at[m] \notin {"idle", "checked", "refused", "created"}
  /\ seen[m]["cancel"] = "absent" /\ outer[m] \in Active
  /\ loads < MaxLoads /\ loads' = loads + 1
  /\ Load(m, "cancel")
  /\ UNCHANGED <<at, rows, loop, erred, order, faults, patchy>>

CancelTask(m, bad) ==
  /\ seen[m]["cancel"] # "absent"
  /\ Fault(bad)
  /\ Write(m, "cancel", "canceled", bad)
  /\ UNCHANGED <<at, inner, run, child, loop, erred, loads, order, patchy>>

\* The reaper's sweep loads the overdue tasks that are open, all at once, and
\* then moves one after the other.
Sweep(m) ==
  /\ seen[m]["reaper"] = "absent" /\ outer[m] \in Active
  /\ loads < MaxLoads /\ loads' = loads + 1
  /\ Load(m, "reaper")
  /\ UNCHANGED <<at, rows, loop, erred, order, faults, patchy>>

Expire(m, bad) ==
  /\ seen[m]["reaper"] # "absent"
  /\ Fault(bad)
  /\ Write(m, "reaper", "failed", bad)
  /\ UNCHANGED <<at, inner, run, child, loop, erred, loads, order, patchy>>

Crash(m) ==
  /\ at[m] \notin {"idle", "checked", "refused", "done", "dead"}
  /\ faults < MaxFaults /\ faults' = faults + 1
  /\ at' = [at EXCEPT ![m] = "dead"]
  /\ seen' = [seen EXCEPT ![m]["handler"] = "absent"]
  /\ Forget(m)
  /\ UNCHANGED <<rows, log, erred, loads, order, patchy>>

HandlerStep(m) ==
  \/ Create(m) \/ RefuseRun(m) \/ CreateRoot(m) \/ Raise(m) \/ ProviderFails(m)
  \/ PlanFails(m) \/ Exhausted(m) \/ JoinRaised(m)
  \/ \E bad \in BOOLEAN :
       \/ Begin(m, bad) \/ StartRun(m, bad)
       \/ BeginRoot(m, bad) \/ StartLoop(m, bad) \/ Join(m, bad)
       \/ Complete(m, bad) \/ Settle(m, bad)
       \/ Reload(m, bad) \/ Finalize(m, bad)
       \/ \E called \in SUBSET Calls : Plan(m, called, bad)
       \/ \E kept \in BOOLEAN : Conclude(m, kept, bad)

\* Each in other pods, at any time.
OtherWriter(m) ==
  \/ OpenCancel(m) \/ Sweep(m)
  \/ \E bad \in BOOLEAN : CancelTask(m, bad) \/ Expire(m, bad)

ChildStep(m, c) ==
  \E bad \in BOOLEAN : StartChild(m, c, bad) \/ EndChild(m, c, bad)

Next ==
  \E m \in Msgs :
    \/ \E bad \in BOOLEAN : Check(m, bad)
    \/ HandlerStep(m)
    \/ \E c \in Calls : ChildStep(m, c)
    \/ OtherWriter(m) \/ Crash(m)

Spec == Init /\ [][Next]_vars

(***************************************************************************)
(* Properties                                                              *)
(***************************************************************************)
TypeOK ==
  /\ at \in [Msgs -> Places]
  /\ outer \in [Msgs -> TaskStates] /\ inner \in [Msgs -> TaskStates]
  /\ run \in [Msgs -> {"absent", "running", "completed"}]
  /\ child \in [Msgs -> [Calls -> ChildStates]]
  /\ iteration \in [Msgs -> 0 .. MaxIterations]
  /\ erred \in [Msgs -> {"no", "told", "mute"}]
  /\ seen \in [Msgs -> [Writers -> TaskStates]]
  /\ faults \in 0 .. MaxFaults /\ loads \in 0 .. MaxLoads

\* A caller who is told "completed" has an answer: no error was heard, the run
\* and the runner's task are completed too, no call is under way, and the
\* transcript ends with the answer, or with what the answer is to if the
\* provider did not hand it over; unless the database failed the message.
CompletedMeansDone ==
  \A m \in Msgs :
    Answer(m) = "completed" /\ m \notin patchy =>
      /\ erred[m] = "no" /\ run[m] = "completed" /\ inner[m] = "completed"
      /\ Asked(m) = {} /\ Last(log[m]).kind # "calls"

\* A child of the message still works after its run is over only because a
\* sibling raised out of the gather.
NoStrayChildren ==
  \A m \in Msgs :
    /\ at[m] \notin {"fanout", "dead"}
    /\ \E c \in Calls : child[m][c] \in {"queued", "open"}
    => \E c \in Calls : child[m][c] \in Raised

\* The outcome a caller is told of, the rows behind it and the calls under it
\* agree.
OutcomesSettled == CompletedMeansDone /\ NoStrayChildren

\* What _load_context_history shows the planner of a message that is done is
\* paired, although nothing repairs it: every turn with tool calls comes with
\* its results, unless the database refused a write.
CleanHandover ==
  [][\A m \in Msgs :
       prior'[m] # prior[m] =>
         \A i \in DOMAIN prior'[m] :
           LET e == prior'[m][i]
           IN e.kind = "calls" /\ at[e.of] = "done" /\ e.of \notin patchy =>
                /\ i < Len(prior'[m])
                /\ prior'[m][i + 1] = Entry(e.of, e.turn, "results")]_vars

\* A task that is over, while no writer has it loaded from before.
Firm(m) == Answer(m) \in Terminal /\ \A w \in Writers : seen[m][w] \notin Active

\* A task a caller is told is over stays over.  The outcome told is contradicted
\* only by a writer that loaded the task before it was over: once the last of
\* those has committed or gone, the answer is the same for ever.
AnswersAgree ==
  [][\A m \in Msgs :
       /\ Answer(m) \in Terminal => Answer(m)' \in Terminal
       /\ Firm(m) => Firm(m)' /\ Answer(m)' = Answer(m)]_vars

\* Nobody waits on nobody: a handler that has not returned can go on, or a
\* child it waits for can.  The iterations are bounded, so it then returns.
NeverStuck ==
  \A m \in Msgs :
    at[m] \in {"idle", "refused", "done", "dead"} \/ ENABLED HandlerStep(m)
      \/ \E c \in Calls : ENABLED ChildStep(m, c)

\* _run_and_finalize, a2a_server.py:261: "Drive the orchestrator loop to
\* completion and finalize the task row."
DrivenToCompletion ==
  \A m \in Msgs : at[m] = "done" /\ m \notin patchy => run[m] # "running"

\* _load_context_history, task_runner.py:412: "(excluding current task)".
OwnMessageOnce ==
  \A m \in Msgs :
    at[m] = "turn" =>
      Cardinality({i \in DOMAIN PlannerInput(m) :
                    PlannerInput(m)[i] = Entry(m, 0, "user")}) = 1
=============================================================================
