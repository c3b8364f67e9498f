---------------------------- MODULE Orchestration ----------------------------
(***************************************************************************)
(* OrchestrationWorkflow: the agentic loop that plans a turn, calls agents *)
(* in parallel, waits for a person, records the transcript and finalises   *)
(* the run, together with the rows its activities write.                   *)
(*                                                                         *)
(* One conversation (context_id) is modelled, over several user messages.  *)
(* The workflow's own code is deterministic and runs between awaits; every *)
(* action ends at the next await.  An activity attempt may succeed, or be  *)
(* lost (worker crash, timeout, exception) after any part of its writes    *)
(* was committed, or be cut by the cancellation of the workflow.           *)
(***************************************************************************)
EXTENDS Naturals, FiniteSets, Sequences, SequencesExt

CONSTANTS
  Agents,         \* tool calls served by invoke_agent_activity
  Subs,           \* tool calls served by a child workflow
  Unknown,        \* tool calls refused at once: no such agent, or too deep
  Costs,          \* tokens a planning turn may use
  Budget,         \* orch.budget_tokens
  MaxIterations,  \* orch.max_iterations
  MaxParallel,    \* orch.max_parallel_tools
  SummarizeEvery, \* orch.summarize_every_n_calls; 0 stands for memory disabled
  CarryAt,        \* iterations before continue_as_new (50)
  MaxMessages,    \* messages before continue_as_new (200)
  HistoryWindow,  \* orch.history_window
  Attempts,       \* maximum_attempts of the retry policies (2 to 5)
  MaxTurns,       \* bound: user messages in the conversation
  MaxLost,        \* bound: activity attempts whose result is lost
  MaxDbErrors     \* bound: database errors a recorder swallows

Slots == Agents \cup Subs \cup Unknown

ASSUME ConstantsAssumption ==
  /\ IsFiniteSet(Slots)
  /\ Agents \cap Subs = {} /\ Unknown \cap (Agents \cup Subs) = {}
  /\ Costs \subseteq Nat /\ \E c \in Costs : \A d \in Costs : d <= c
  /\ Budget \in Nat /\ MaxIterations \in Nat
  /\ MaxParallel \in Nat \ {0} /\ SummarizeEvery \in Nat
  /\ CarryAt \in Nat \ {0} /\ MaxMessages \in Nat
  /\ HistoryWindow \in Nat
  /\ Attempts \in Nat \ {0}
  /\ MaxTurns \in Nat /\ MaxLost \in Nat /\ MaxDbErrors \in Nat

VARIABLES
  stage,        \* the await the workflow is at
  attempt,      \* attempt of the activity being awaited
  runStatus,    \* run_status, as finalize will record it
  iteration, tokens, msgSeq, sinceSummary,   \* the counters of run()
  messages,     \* self.messages, as the planner sees them
  turn,         \* the assistant turn being served
  call,         \* what has become of each tool call of the turn
  tries,        \* attempts of each agent invocation
  reply,        \* self._human_response is set
  rows,         \* runs, root tasks and their messages, in order of creation
  run,          \* the row of this execution; 0 while run_id is None
  cancelled,    \* the workflow of this user message was asked to cancel (once)
  userTurns,    \* user messages so far
  lost, dbErrors,
  \* History, read by the properties only:
  billed,       \* tokens in the run_usage rows of this user message
  excused,      \* rows that no finalize is going to settle, and why not
  answered      \* a reply was accepted after an agent of this turn asked

flow    == <<stage, attempt, runStatus>>
loop    == <<iteration, tokens, msgSeq, sinceSummary>>
mind    == <<messages, turn>>
fan     == <<call, tries>>
trouble == <<cancelled, lost, dbErrors>>
history == <<billed, excused, answered>>
vars == <<flow, loop, mind, fan, reply, rows, run, trouble, userTurns, history>>

Stages == {"load", "init", "plan", "fanout", "human", "record", "summary",
           "finalize", "closed"}
RunStatuses == {"completed", "failed", "stopped", "canceled"}

\* A message: its kind, the turn it belongs to (row, iteration and attempt of
\* the planning call) and whether it holds tool calls.
NoTurn == <<0, 0, 0>>
Message(kind, id, calls) == [kind |-> kind, id |-> id, calls |-> calls]
UserMessage == Message("user", NoTurn, FALSE)
NoMessage == Message("none", NoTurn, FALSE)
Results == Message("results", turn.id, FALSE)

\* seq of task_messages: the user's is 0, then two for every iteration.
Seqs == 0 .. 2 * MaxIterations

Init ==
  /\ stage = "closed" /\ attempt = 1 /\ runStatus = "completed"
  /\ iteration = 0 /\ tokens = 0 /\ msgSeq = 1 /\ sinceSummary = 0
  /\ messages = <<>> /\ turn = NoMessage
  /\ call = [s \in Slots |-> "idle"] /\ tries = [s \in Slots |-> 0]
  /\ reply = FALSE
  /\ rows = <<>> /\ run = 0
  /\ cancelled = FALSE /\ userTurns = 0 /\ lost = 0 /\ dbErrors = 0
  /\ billed = 0 /\ excused = {} /\ answered = FALSE

(***************************************************************************)
(* Moving between awaits                                                   *)
(***************************************************************************)
Await(st) == stage' = st /\ attempt' = 1

\* finalize_run is scheduled only once the run's ids are known.
Conclude(status) ==
  /\ runStatus' = status
  /\ Await(IF run = 0 THEN "closed" ELSE "finalize")

\* The fate of an activity attempt: its result arrives ("ok"), is "lost", or
\* the workflow is "canceled" while it waits.
Attempted(how) ==
  /\ how = "lost" => lost < MaxLost
  /\ how = "canceled" => ~cancelled
  /\ lost' = IF how = "lost" THEN lost + 1 ELSE lost
  /\ cancelled' = (cancelled \/ how = "canceled")

\* Without a result: Temporal tries again, then run() records the failure.
Unfinished(how) ==
  \/ /\ how = "lost" /\ attempt < Attempts
     /\ attempt' = attempt + 1
     /\ UNCHANGED <<stage, runStatus>>
  \/ how = "lost" /\ attempt >= Attempts /\ Conclude("failed")
  \/ how = "canceled" /\ Conclude("canceled")

\* A recorder logs a database error, rolls back and returns.
Swallowed(missing) ==
  /\ missing => dbErrors < MaxDbErrors
  /\ dbErrors' = IF missing THEN dbErrors + 1 ELSE dbErrors

\* Mutant: running out of budget returns without finalising.
LoopTopReturns ==
  IF iteration >= MaxIterations
  THEN runStatus' = "stopped" /\ Await("finalize") /\ UNCHANGED iteration
  ELSE /\ iteration' = iteration + 1
       /\ IF tokens >= Budget
          THEN runStatus' = "failed" /\ Await("closed")
          ELSE Await("plan") /\ UNCHANGED runStatus

\* The head of the while loop, reached with the run's ids known.
LoopTop ==
  IF iteration >= MaxIterations
  THEN runStatus' = "stopped" /\ Await("finalize") /\ UNCHANGED iteration
  ELSE /\ iteration' = iteration + 1
       /\ IF tokens >= Budget
          THEN runStatus' = "failed" /\ Await("finalize")
          ELSE Await("plan") /\ UNCHANGED runStatus

\* __init__ of a new execution: what the last one held in memory is gone.
FreshMemory ==
  /\ messages' = <<>> /\ turn' = NoMessage
  /\ call' = [s \in Slots |-> "idle"] /\ tries' = [s \in Slots |-> 0]
  /\ reply' = FALSE /\ answered' = FALSE
  /\ run' = 0 /\ msgSeq' = 1 /\ sinceSummary' = 0

\* Mutant: the carry leaves out tokens_used.
ContinueAsNewForgets ==
  /\ Await("load")
  /\ FreshMemory /\ tokens' = 0
  /\ excused' = excused \cup {run}
  /\ UNCHANGED <<runStatus, iteration>>

\* A fresh execution: only tokens and iteration are carried, and the row of
\* this one is never finalised.
ContinueAsNew ==
  /\ Await("load")
  /\ FreshMemory
  /\ excused' = excused \cup {run}
  /\ UNCHANGED <<runStatus, iteration, tokens>>

\* The end of an iteration, with the counters as they are by then.
EndIteration(seq, since) ==
  \/ /\ iteration >= CarryAt \/ Len(messages) > MaxMessages
     /\ ContinueAsNew
  \/ /\ iteration < CarryAt /\ Len(messages) <= MaxMessages
     /\ LoopTop
     /\ msgSeq' = seq /\ sinceSummary' = since
     /\ UNCHANGED <<tokens, run, mind, fan, reply, excused, answered>>

(***************************************************************************)
(* load_orchestration_context: the prior conversation, repaired            *)
(***************************************************************************)
\* The last HistoryWindow root tasks; prior_tasks[-0:] is the whole list.
WithTask == {r \in DOMAIN rows : rows[r].task # "none"}
Recent ==
  {r \in WithTask : HistoryWindow = 0 \/ Cardinality({q \in WithTask : q > r}) < HistoryWindow}

\* The stored messages of a task by seq, or its input if there are none.
Transcript(r) ==
  LET stored == FlattenSeq([i \in 1 .. 2 * MaxIterations + 1 |->
                              IF r.msgs[i - 1] = NoMessage THEN <<>> ELSE <<r.msgs[i - 1]>>])
  IN IF stored = <<>> THEN <<UserMessage>> ELSE stored

\* Mutant: only an unanswered turn at the very end is repaired.
OrphanIfLast(h, i) ==
  h[i].kind = "turn" /\ h[i].calls /\ i = Len(h)

\* Mutant: the last message is not looked at.
OrphanUnlessLast(h, i) ==
  /\ i < Len(h) /\ h[i].kind = "turn" /\ h[i].calls
  /\ \A j \in DOMAIN h : ~(h[j].kind = "results" /\ h[j].id = h[i].id)

\* An assistant turn whose calls have no results anywhere in the history.
Orphan(h, i) ==
  h[i].kind = "turn" /\ h[i].calls
    /\ \A j \in DOMAIN h : ~(h[j].kind = "results" /\ h[j].id = h[i].id)

\* Orphans are dropped, and the results that directly follow one.
Kept(h, i) ==
  /\ ~Orphan(h, i)
  /\ ~(h[i].kind = "results" /\ i > 1 /\ Orphan(h, i - 1))
Sanitize(h) == FlattenSeq([i \in DOMAIN h |-> IF Kept(h, i) THEN <<h[i]>> ELSE <<>>])

LoadedHistory ==
  FlattenSeq([r \in DOMAIN rows |-> IF r \in Recent THEN Transcript(rows[r]) ELSE <<>>])
PriorHistory == Sanitize(LoadedHistory)

\* A user message arrives in a conversation whose last execution has closed.
StartWorkflow ==
  /\ stage = "closed" /\ userTurns < MaxTurns
  /\ userTurns' = userTurns + 1
  /\ Await("load")
  /\ FreshMemory /\ runStatus' = "completed"
  /\ iteration' = 0 /\ tokens' = 0 /\ cancelled' = FALSE
  /\ billed' = 0
  /\ UNCHANGED <<rows, lost, dbErrors, excused>>

LoadContext(how) ==
  /\ stage = "load"
  /\ Attempted(how)
  /\ \/ /\ how = "ok"
        /\ messages' = Append(PriorHistory, UserMessage)
        /\ Await("init") /\ UNCHANGED runStatus
     \/ Unfinished(how) /\ UNCHANGED messages
  /\ UNCHANGED <<loop, turn, fan, reply, rows, run, dbErrors, userTurns, history>>

(***************************************************************************)
(* init_run: a run row, a root task, its transition and the user's message *)
(***************************************************************************)
RunRow(made) ==
  [status |-> "running",
   task   |-> IF "task" \notin made THEN "none"
              ELSE IF "working" \in made THEN "working" ELSE "submitted",
   msgs   |-> [n \in Seqs |-> IF n = 0 /\ "message" \in made
                              THEN UserMessage ELSE NoMessage],
   open   |-> 0]   \* delegated tasks that are still working

InitWrites == {"run", "task", "working", "message"}

\* The ids are made by start_run and create_task, not the workflow's: every
\* attempt makes rows of its own.
InitRun(made, how) ==
  /\ stage = "init"
  /\ "task" \in made => "run" \in made
  /\ made \cap {"working", "message"} # {} => "task" \in made
  /\ how = "ok" => "task" \in made
  /\ Attempted(how) /\ Swallowed(how = "ok" /\ made # InitWrites)
  /\ rows' = IF made = {} THEN rows ELSE Append(rows, RunRow(made))
  /\ \/ /\ how = "ok" /\ run' = Len(rows') /\ LoopTop
        \* A task left "submitted" can be neither completed nor failed.
        /\ excused' = IF "working" \in made THEN excused ELSE excused \cup {run'}
     \/ /\ Unfinished(how) /\ UNCHANGED <<iteration, run>>
        /\ excused' = excused \cup (DOMAIN rows' \ DOMAIN rows)
  /\ UNCHANGED <<tokens, msgSeq, sinceSummary, mind, fan, reply, userTurns,
                 billed, answered>>
(***************************************************************************)
(* plan_turn                                                               *)
(***************************************************************************)
\* UNIQUE (task_id, seq): a second message with the same seq is refused, and
\* record_message swallows the error.
StoreMessage(seq, m) ==
  rows' = [rows EXCEPT ![run].msgs[seq] = IF @ = NoMessage THEN m ELSE @]

\* The model's turn: the tokens it cost and the tool calls it asks for.
PlanTurn(cost, called, stored, how) ==
  /\ stage = "plan"
  /\ Attempted(how)
  /\ Swallowed(how = "ok" /\ stored # {"usage", "message"})
  /\ turn' = Message("turn", <<run, iteration, attempt>>, called # {})
  /\ billed' = IF "usage" \in stored THEN billed + cost ELSE billed
  /\ IF "message" \in stored THEN StoreMessage(msgSeq, turn') ELSE UNCHANGED rows
  /\ \/ /\ how = "ok"
        /\ tokens' = tokens + cost /\ msgSeq' = msgSeq + 1
        /\ messages' = Append(messages, turn')
        /\ call' = [s \in Slots |-> IF s \notin called THEN "idle"
                                    ELSE IF s \in Unknown THEN "failed" ELSE "queued"]
        /\ tries' = [s \in Slots |-> 0]
        /\ answered' = FALSE
        /\ IF called = {} THEN Conclude("completed")
           ELSE Await("fanout") /\ UNCHANGED runStatus
     \/ Unfinished(how) /\ UNCHANGED <<tokens, msgSeq, messages, fan, answered>>
  /\ UNCHANGED <<iteration, sinceSummary, reply, run, userTurns, excused>>

(***************************************************************************)
(* The fan-out: _invoke_one for every call, under a semaphore              *)
(***************************************************************************)
InFlight == {s \in Slots : call[s] = "running"}
Asking == {s \in Slots : call[s] = "input-required"}

\* What an agent's child task row does as its invocation starts or ends.
OpenTasks(n) == rows' = [rows EXCEPT ![run].open = n]

StartCall(s) ==
  /\ stage = "fanout" /\ call[s] = "queued"
  /\ Cardinality(InFlight) < MaxParallel
  /\ call' = [call EXCEPT ![s] = "running"]
  /\ tries' = [tries EXCEPT ![s] = 1]
  /\ IF s \in Agents THEN OpenTasks(rows[run].open + 1) ELSE UNCHANGED rows
  /\ UNCHANGED <<flow, loop, mind, reply, run, trouble, userTurns, history>>

\* The agent answered, failed, or asks for input: its child task is closed.
FinishCall(s, result) ==
  /\ stage = "fanout" /\ call[s] = "running"
  /\ result = "input-required" => s \in Agents
  /\ call' = [call EXCEPT ![s] = result]
  /\ IF s \in Agents THEN OpenTasks(rows[run].open - 1) ELSE UNCHANGED rows
  /\ UNCHANGED <<flow, loop, mind, tries, reply, run, trouble, userTurns, history>>

\* The attempt died with its child task working; the next makes another one.
LoseCall(s) ==
  /\ stage = "fanout" /\ call[s] = "running" /\ s \in Agents
  /\ lost < MaxLost /\ lost' = lost + 1
  /\ \/ /\ tries[s] < Attempts
        /\ tries' = [tries EXCEPT ![s] = @ + 1]
        /\ OpenTasks(rows[run].open + 1) /\ UNCHANGED call
     \/ /\ tries[s] >= Attempts
        /\ call' = [call EXCEPT ![s] = "failed"]
        /\ UNCHANGED <<tries, rows>>
  /\ UNCHANGED <<flow, loop, mind, reply, run, cancelled, dbErrors, userTurns,
                 history>>

AddResults == messages' = Append(messages, Results)

\* gather has every result.  If an agent asks, the reply is forgotten and the
\* wait for one begins.
FanIn ==
  /\ stage = "fanout"
  /\ \A s \in Slots : call[s] \notin {"queued", "running"}
  /\ \/ /\ Asking # {}
        /\ Await("human") /\ reply' = FALSE /\ UNCHANGED messages
     \/ /\ Asking = {}
        /\ Await("record") /\ AddResults /\ UNCHANGED reply
  /\ UNCHANGED <<runStatus, loop, turn, fan, rows, run, trouble, userTurns, history>>
(***************************************************************************)
(* Waiting for a person                                                    *)
(***************************************************************************)
\* The reply becomes the result of every call that asked.
InjectReply ==
  /\ stage = "human" /\ reply
  /\ call' = [s \in Slots |-> IF s \in Asking THEN "completed" ELSE call[s]]
  /\ reply' = FALSE
  /\ Await("record") /\ AddResults
  /\ UNCHANGED <<runStatus, loop, turn, tries, rows, run, trouble, userTurns, history>>

\* Mutant: no timeout while a person has not been answered.
HumanTimeoutOnce ==
  /\ stage = "human" /\ ~reply /\ answered
  /\ Conclude("failed")
  /\ UNCHANGED <<loop, mind, fan, reply, rows, run, trouble, userTurns, history>>

\* wait_condition raises after ten minutes.
HumanTimeout ==
  /\ stage = "human" /\ ~reply
  /\ Conclude("failed")
  /\ UNCHANGED <<loop, mind, fan, reply, rows, run, trouble, userTurns, history>>

\* POST /runs/{id}/signal: 409 unless a row of the conversation says running.
SendReply ==
  /\ stage # "closed" /\ ~reply
  /\ \E r \in DOMAIN rows : rows[r].status = "running"
  /\ reply' = TRUE
  /\ answered' = (answered \/ stage = "human" \/ (stage = "fanout" /\ Asking # {}))
  /\ UNCHANGED <<flow, loop, mind, fan, rows, run, trouble, userTurns, billed,
                 excused>>

(***************************************************************************)
(* record_tool_results and summarize_context                               *)
(***************************************************************************)
\* The iteration goes on with the summary, when one is due.
SummaryOrEnd(seq, since) ==
  \/ /\ SummarizeEvery > 0 /\ since >= SummarizeEvery
     /\ Await("summary")
     /\ msgSeq' = seq /\ sinceSummary' = since
     /\ UNCHANGED <<runStatus, iteration, tokens, run, mind, fan, reply, excused,
                    answered>>
  \/ /\ SummarizeEvery = 0 \/ since < SummarizeEvery
     /\ EndIteration(seq, since)

Served == {s \in Slots : call[s] # "idle"}

\* Mutant: msg_seq is not advanced.
RecordResultsInPlace(stored, how) ==
  /\ stage = "record"
  /\ Attempted(how) /\ Swallowed(how = "ok" /\ ~stored)
  /\ IF stored THEN StoreMessage(msgSeq, Results) ELSE UNCHANGED rows
  /\ \/ how = "ok" /\ SummaryOrEnd(msgSeq, sinceSummary + Cardinality(Served))
     \/ Unfinished(how) /\ UNCHANGED <<loop, run, mind, fan, reply, excused, answered>>
  /\ UNCHANGED <<userTurns, billed>>

RecordResults(stored, how) ==
  /\ stage = "record"
  /\ Attempted(how) /\ Swallowed(how = "ok" /\ ~stored)
  /\ IF stored THEN StoreMessage(msgSeq, Results) ELSE UNCHANGED rows
  /\ \/ how = "ok" /\ SummaryOrEnd(msgSeq + 1, sinceSummary + Cardinality(Served))
     \/ Unfinished(how) /\ UNCHANGED <<loop, run, mind, fan, reply, excused, answered>>
  /\ UNCHANGED <<userTurns, billed>>

\* Whatever becomes of the summary, cancellation included, the loop goes on.
Summarize(how) ==
  /\ stage = "summary"
  /\ how = "canceled" => ~cancelled
  /\ cancelled' = (cancelled \/ how = "canceled")
  /\ EndIteration(msgSeq, 0)
  /\ UNCHANGED <<rows, lost, dbErrors, userTurns, billed>>

(***************************************************************************)
(* finalize_run, and the cancellations that never reach it                 *)
(***************************************************************************)
TaskState(status) == IF status = "completed" THEN "completed" ELSE "failed"

\* complete_run is a blind UPDATE; transition only leaves "working".
Finalize(stored, how) ==
  /\ stage = "finalize"
  /\ Attempted(how) /\ Swallowed(how = "ok" /\ stored # {"run", "task"})
  /\ rows' = [rows EXCEPT
       ![run].status = IF "run" \in stored THEN runStatus ELSE @,
       ![run].task = IF "task" \in stored /\ @ = "working"
                     THEN TaskState(runStatus) ELSE @]
  /\ \/ /\ how = "lost" /\ attempt < Attempts
        /\ attempt' = attempt + 1 /\ UNCHANGED <<stage, excused>>
     \/ /\ how = "lost" => attempt >= Attempts
        /\ Await("closed")
        /\ excused' = IF how = "ok" /\ stored = {"run", "task"}
                      THEN excused ELSE excused \cup {run}
  /\ UNCHANGED <<runStatus, loop, mind, fan, reply, run, userTurns, billed, answered>>

\* asyncio.CancelledError passes both except clauses of run() and finalize.
EscapeCancelled ==
  /\ stage = "human" \/ (stage = "fanout" /\ \E s \in Slots : call[s] \in {"queued", "running"})
  /\ ~cancelled /\ cancelled' = TRUE
  /\ Await("closed")
  /\ excused' = excused \cup {run}
  /\ call' = [s \in Slots |-> "idle"]   \* the child tasks stay as they are
  /\ UNCHANGED <<runStatus, loop, mind, tries, reply, rows, run, lost, dbErrors,
                 userTurns, billed, answered>>

\* PATCH /runs/{id}/cancel changes the row and nothing else.
ForceCancel(r) ==
  /\ rows[r].status = "running"
  /\ rows' = [rows EXCEPT ![r].status = "canceled"]
  /\ UNCHANGED <<flow, loop, mind, fan, reply, run, trouble, userTurns, history>>

-----------------------------------------------------------------------------
Fates == {"ok", "lost", "canceled"}

ActivityStep ==
  \E how \in Fates :
    \/ LoadContext(how)
    \/ \E made \in SUBSET InitWrites : InitRun(made, how)
    \/ \E cost \in Costs, called \in SUBSET Slots, stored \in SUBSET {"usage", "message"} :
         PlanTurn(cost, called, stored, how)
    \/ \E stored \in BOOLEAN : RecordResults(stored, how)
    \/ Summarize(how)
    \/ \E stored \in SUBSET {"run", "task"} : Finalize(stored, how)

FanOutStep ==
  \/ \E s \in Slots : StartCall(s) \/ LoseCall(s)
  \/ \E s \in Slots, result \in {"completed", "failed", "input-required"} :
       FinishCall(s, result)
  \/ FanIn

HumanStep == InjectReply \/ HumanTimeout

Next ==
  \/ StartWorkflow \/ ActivityStep \/ FanOutStep \/ HumanStep
  \/ SendReply \/ EscapeCancelled
  \/ \E r \in DOMAIN rows : ForceCancel(r)

Spec == Init /\ [][Next]_vars

\* Every activity has a schedule-to-close timeout and every wait a timeout, so
\* Temporal always brings the workflow to its next await.
FairSpec == Spec /\ WF_vars(ActivityStep \/ FanOutStep \/ HumanStep)

(***************************************************************************)
(* Properties                                                              *)
(***************************************************************************)
KeptMessages ==
  {UserMessage, NoMessage}
    \cup [kind : {"turn", "results"}, id : Nat \X Nat \X Nat, calls : BOOLEAN]

CallStates == {"idle", "queued", "running", "completed", "failed", "input-required"}

\* A row of runs with its root task, as schema.sql constrains them.
Row == [status : RunStatuses \cup {"running"},
        task   : {"none", "submitted", "working", "completed", "failed"},
        msgs   : [Seqs -> KeptMessages],
        open   : Nat]

\* Rows and counters stay within their types, whatever is lost or cut short: a
\* task only ever has a status schema.sql accepts, the seq of a message stays
\* within two per iteration, and no more child tasks close than were opened.
TypeOK ==
  /\ stage \in Stages /\ attempt \in 1 .. Attempts /\ runStatus \in RunStatuses
  /\ iteration \in 0 .. MaxIterations /\ tokens \in Nat
  /\ msgSeq \in 1 .. 2 * MaxIterations + 1 /\ sinceSummary \in Nat
  /\ turn \in KeptMessages
  /\ call \in [Slots -> CallStates] /\ tries \in [Slots -> 0 .. Attempts]
  /\ reply \in BOOLEAN /\ cancelled \in BOOLEAN /\ answered \in BOOLEAN
  /\ rows \in Seq(Row) /\ run \in 0 .. Len(rows) /\ excused \subseteq DOMAIN rows
  /\ userTurns \in 0 .. MaxTurns /\ lost \in 0 .. MaxLost /\ dbErrors \in 0 .. MaxDbErrors
  /\ billed \in Nat

\* The provider refuses a conversation with an unanswered tool call or with
\* results nobody asked for, so _sanitize_history has to repair what timeouts,
\* cancellations, lost attempts and unwritten rows left in the transcript.  It
\* always removes unanswered calls.  Stray results cannot come up unless a
\* planning turn was planned twice or a message was not written.
PlannerInputPaired ==
  stage = "plan" =>
    /\ \A i \in DOMAIN messages :
         messages[i].kind = "turn" /\ messages[i].calls =>
           /\ i < Len(messages)
           /\ messages[i + 1].kind = "results" /\ messages[i + 1].id = messages[i].id
    /\ lost = 0 /\ dbErrors = 0 =>
         \A i \in DOMAIN messages :
           messages[i].kind = "results" =>
             i > 1 /\ messages[i - 1].kind = "turn" /\ messages[i - 1].id = messages[i].id

\* Ordering a task's messages by seq alternates the roles, whichever of them
\* were written: the user's and the results are even, the assistant's odd.
RolesBySeq ==
  \A r \in DOMAIN rows : \A n \in Seqs :
    rows[r].msgs[n].kind \in
      IF n = 0 THEN {"user", "none"}
      ELSE IF n % 2 = 0 THEN {"results", "none"} ELSE {"turn", "none"}

MaxCost == CHOOSE c \in Costs : \A d \in Costs : d <= c

\* The budget is enforced across continue_as_new: what the usage rows of one
\* user message add up to passes it by less than one planning turn, and one
\* more for every attempt whose result was lost after its usage was written.
BudgetBound == billed > 0 => billed < Budget + (1 + lost) * MaxCost

\* A closed workflow has settled its run and its root task alike, but for the
\* rows it no longer knew or whose finalisation was cut short.
ClosedRunsSettled ==
  stage = "closed" =>
    \A r \in DOMAIN rows \ excused :
      /\ rows[r].status \in RunStatuses
      /\ rows[r].task \in {"completed", "failed"}
      /\ rows[r].status = "completed" <=> rows[r].task = "completed"

\* No agent works on for a workflow that closed on its own: the fan-out waits
\* for every call before the turn goes on.
NoStrayChildren ==
  stage = "closed" /\ run > 0 /\ ~cancelled /\ lost = 0 => rows[run].open = 0

\* The results recorded for a turn are final for every call it made: a reply
\* from a person fills every call that asked for one.
ResultsComplete ==
  stage = "record" => \A s \in Served : call[s] \in {"completed", "failed"}

\* Whatever cuts a message short, the rows of the run, of its task and of its
\* calls tell one story when it is over.
RunsSettled == ClosedRunsSettled /\ NoStrayChildren /\ ResultsComplete

\* An execution ends: iterations and attempts are bounded and every wait, the
\* one for a person included, has a timeout.
Terminates == stage # "closed" ~> stage = "closed"

\* Claims of the documents that the code does not keep.
\* docs/ARCHITECTURE.md: finalize_run always runs, even on cancellation, so
\* them.runs never leaks a running row.  Asked only of the row whose id the
\* workflow knew when it closed.
NoRunLeaks == stage = "closed" /\ run > 0 => rows[run].status # "running"

\* docs/ARCHITECTURE.md: the reply signal unblocks the workflow that waits.
AnswerUnblocks == stage = "human" /\ answered => reply

\* README.md: retries are idempotent, DB writes are keyed by sequence number:
\* the turn in the database is the turn the workflow acts on.
StoredAsPlanned ==
  stage = "fanout" => rows[run].msgs[msgSeq - 1] = turn

=============================================================================
