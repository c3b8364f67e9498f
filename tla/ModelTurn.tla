------------------------------ MODULE ModelTurn ------------------------------
(***************************************************************************)
(* A planning turn as the LLM providers see it: what the planner's request *)
(* holds, how the model's stream becomes tool calls, and in which shape    *)
(* the turn is stored for the messages that follow.                        *)
(*                                                                         *)
(* A conversation goes on for ever.  Each of its messages is served by the *)
(* Temporal workflow or by the in-process runner, with the provider its    *)
(* orchestrator has by then.  The workflow keeps its messages in memory;   *)
(* the runner rebuilds them from the store before every turn, so what it   *)
(* appends to them in between is never sent.                               *)
(*                                                                         *)
(* The message of a turn stands for its blocks: the ids of a turn's calls  *)
(* are stored, answered and dropped together.                              *)
(***************************************************************************)
EXTENDS Naturals, FiniteSets, Sequences, SequencesExt

CONSTANTS
  Paths,          \* of {"workflow", "runner"}
  Families,       \* of {"anthropic", "openai"}: groq and gemini are openai's
  MaxCalls,       \* bound: tool calls of one turn
  Pieces,         \* bound: fragments of one call's arguments
  Attempts,       \* maximum_attempts of plan_turn
  MaxIterations,  \* orch.max_iterations
  HistoryWindow,  \* orch.history_window; 0 and less take the whole conversation
  Kept            \* bound: past messages whose transcript is remembered

ASSUME ConstantsAssumption ==
  /\ Paths \subseteq {"workflow", "runner"}
  /\ Families \subseteq {"anthropic", "openai"}
  /\ MaxCalls \in Nat \ {0} /\ Pieces \in Nat \ {0}
  /\ Attempts \in Nat \ {0} /\ MaxIterations \in Nat
  /\ HistoryWindow \in Nat /\ Kept \in Nat /\ HistoryWindow < Kept

VARIABLES
  stage,      \* where the message that is being served is
  path,       \* what serves it
  family,     \* the provider that was built for it
  tasks,      \* transcripts of the conversation's last messages
  rows,       \* the transcript of this one
  prior,      \* the history loaded for it
  memory,     \* the workflow's self.messages
  iteration, attempt,
  sent,       \* fragments the model has streamed of each call
  acc,        \* accumulated_tool_calls
  calls,      \* tool_calls_ready
  \* History, read by the properties only:
  serial,     \* number of the message, round and round
  truncated,  \* the stream stopped at max_tokens
  patchy,     \* a row of this message was not written
  streak      \* messages in a row whose first request was refused

message == <<path, family, prior>>
stream  == <<sent, acc, calls, truncated>>
vars == <<stage, message, tasks, rows, memory, iteration, attempt, stream,
          serial, patchy, streak>>

Index == 1 .. MaxCalls
NoTurn == <<0, 0>>
Turn == <<serial, iteration>>

\* A row of task_messages: what it is and which provider serialised it.
Row(kind, by, turn) == [kind |-> kind, by |-> by, turn |-> turn]
UserRow == Row("user", "none", NoTurn)

\* A message of a request.  "nested" is an assistant message whose content is
\* the list serialize_turn made of another assistant message.
Msg(form, turn) == [form |-> form, turn |-> turn]

Nothing == [i \in Index |-> <<>>]

Init ==
  /\ stage = "idle" /\ path \in Paths /\ family \in Families
  /\ tasks = <<>> /\ rows = <<>> /\ prior = <<>> /\ memory = <<>>
  /\ iteration = 0 /\ attempt = 1
  /\ sent = [i \in Index |-> 0] /\ acc = Nothing /\ calls = <<>>
  /\ serial = 0 /\ truncated = FALSE /\ patchy = FALSE /\ streak = 0

(***************************************************************************)
(* deserialize_history, and the history of a message                       *)
(***************************************************************************)
\* Content lists are passed on as they are; only the OpenAI provider turns
\* results into a shape of its own.
Native(f, r) ==
  CASE r.kind \in {"user", "answer"} -> Msg("text", NoTurn)
    [] r.kind = "calls" -> Msg(IF r.by = "openai" THEN "nested" ELSE "uses", r.turn)
    [] r.kind = "results" -> Msg(IF f = "openai" THEN "reply" ELSE "results", r.turn)

Deserialize(f, rs) == [i \in DOMAIN rs |-> Native(f, rs[i])]

\* Mutant: a turn is kept only if it is the last one.
OrphanUnlessLast(h, i) ==
  h[i].form = "uses" /\ i + 1 # Len(h)

\* Calls without a tool_result anywhere in the history.
Orphan(h, i) ==
  h[i].form = "uses" /\ Msg("results", h[i].turn) \notin ToSet(h)

\* The k-th of a set of positions.
Nth(S, k) == CHOOSE i \in S : Cardinality({j \in S : j <= i}) = k

\* _sanitize_history: such turns go, and results right after one.
KeptIn(h) ==
  {i \in DOMAIN h :
     /\ ~Orphan(h, i)
     /\ ~(h[i].form = "results" /\ i > 1 /\ Orphan(h, i - 1))}
Sanitize(h) == [k \in 1 .. Cardinality(KeptIn(h)) |-> h[Nth(KeptIn(h), k)]]

LastOf(s, n) == SubSeq(s, Len(s) - n + 1, Len(s))

\* Mutant: one more than the window.
RecentPlusOne ==
  IF HistoryWindow > 0 /\ Len(tasks) > HistoryWindow + 1
  THEN LastOf(tasks, HistoryWindow + 1) ELSE tasks

\* prior_tasks[-history_window:], which for 0 is the whole list.
Recent ==
  IF HistoryWindow > 0 /\ Len(tasks) > HistoryWindow
  THEN LastOf(tasks, HistoryWindow) ELSE tasks

RecentRows == FlattenSeq([i \in DOMAIN Recent |-> Recent[i].rows])

\* Mutant: the repair is only made for the runner.
HistoryUnrepaired(p, f) ==
  LET h == Deserialize(f, RecentRows) IN IF p = "runner" THEN Sanitize(h) ELSE h

\* Only the workflow repairs what it loads.
History(p, f) ==
  LET h == Deserialize(f, RecentRows) IN IF p = "workflow" THEN Sanitize(h) ELSE h

\* What the next request holds.
Request == IF path = "workflow" THEN memory ELSE prior \o Deserialize(family, rows)

\* The provider's API.  Anthropic wants every tool_use answered in the next
\* message, and nothing else answered.  A "tool" message of OpenAI must follow
\* one with tool_calls, which nothing here ever sends; it knows no tool_use, no
\* tool_result and, like Anthropic, no content without a type.
Accepts(f, h) ==
  IF f = "openai" THEN \A i \in DOMAIN h : h[i].form = "text"
  ELSE \A i \in DOMAIN h :
         /\ h[i].form \in {"text", "uses", "results"}
         /\ h[i].form = "uses" =>
              i < Len(h) /\ h[i + 1] = Msg("results", h[i].turn)
         /\ h[i].form = "results" =>
              i > 1 /\ h[i - 1] = Msg("uses", h[i].turn)

(***************************************************************************)
(* A message begins and ends                                               *)
(***************************************************************************)
NoStream ==
  /\ sent' = [i \in Index |-> 0] /\ acc' = Nothing
  /\ calls' = <<>> /\ truncated' = FALSE

\* An error while the history is loaded is swallowed: there is none then.
Start(p, f, lost) ==
  /\ stage = "idle" /\ stage' = "plan"
  /\ path' = p /\ family' = f
  /\ rows' = <<UserRow>>
  /\ prior' = IF lost THEN <<>> ELSE History(p, f)
  /\ memory' = IF p = "workflow" THEN Append(prior', Msg("text", NoTurn)) ELSE <<>>
  /\ serial' = (serial + 1) % (Kept + 1)
  /\ patchy' = lost
  /\ UNCHANGED <<tasks, iteration, attempt, stream, streak>>

\* The root task keeps its transcript, whatever became of the message.
Close(transcript, hit) ==
  LET all == Append(tasks, [rows |-> transcript, patchy |-> hit])
  IN /\ stage' = "idle"
     /\ tasks' = IF Len(all) > Kept THEN LastOf(all, Kept) ELSE all
     /\ rows' = <<>> /\ prior' = <<>> /\ memory' = <<>>
     /\ iteration' = 0 /\ attempt' = 1 /\ patchy' = FALSE
     /\ NoStream
     /\ UNCHANGED <<path, family, serial>>

\* stream_call: the API takes the request or refuses it.  What it refuses once
\* it refuses at every attempt, and the run fails.
Ask ==
  /\ stage = "plan" /\ iteration < MaxIterations
  /\ \/ /\ Accepts(family, Request)
        /\ stage' = "stream" /\ iteration' = iteration + 1
        /\ streak' = 0
        /\ UNCHANGED <<message, tasks, rows, memory, attempt, stream, serial, patchy>>
     \/ /\ ~Accepts(family, Request)
        /\ Close(rows, patchy)
        /\ streak' = IF iteration > 0 THEN 0 ELSE IF streak < Kept THEN streak + 1 ELSE streak

Exhausted ==
  /\ stage = "plan" /\ iteration >= MaxIterations
  /\ Close(rows, patchy) /\ UNCHANGED streak

(***************************************************************************)
(* The stream                                                              *)
(***************************************************************************)
\* A call streams as its id and name, then the pieces of its arguments.
Whole(i) == [k \in 1 .. Pieces + 1 |-> <<i, k>>]

\* Mutant: a fragment belongs to the call announced last.
AccumulateLast(i, piece) ==
  LET last == CHOOSE j \in Index : (j = i \/ sent[j] > 0)
                /\ \A l \in Index : l = i \/ sent[l] > 0 => l <= j
  IN [acc EXCEPT ![last] = Append(@, piece)]

\* tc_chunk.index says which call a fragment belongs to.
Accumulate(i, piece) == [acc EXCEPT ![i] = Append(@, piece)]

\* Calls are announced in order; their fragments come in any.
Fragment(i) ==
  /\ stage = "stream" /\ family = "openai"
  /\ sent[i] <= Pieces /\ (i > 1 => sent[i - 1] > 0)
  /\ sent' = [sent EXCEPT ![i] = @ + 1]
  /\ acc' = Accumulate(i, <<i, sent'[i]>>)
  /\ UNCHANGED <<stage, message, tasks, rows, memory, iteration, attempt, calls,
                 truncated, serial, patchy, streak>>

\* json.loads fails on arguments that were cut short, which become {}.
Call(i, whole) == [index |-> i, input |-> IF whole THEN "whole" ELSE "empty"]

\* What the OpenAI provider makes of its fragments, sorted by index.
Begun == {i \in Index : acc[i] # <<>>}
Assembled ==
  [k \in 1 .. Cardinality(Begun) |->
     LET i == Nth(Begun, k) IN Call(i, acc[i] = Whole(i))]

\* Anthropic's client assembles the final message; only its last call can have
\* been cut short.
Blocks(n, cut) == [k \in 1 .. n |-> Call(k, ~(cut /\ k = n))]

\* serialize_turn and record_message: a stored turn, unless the write fails.
Record(kind, bad) ==
  IF bad THEN rows ELSE Append(rows, Row(kind, family, Turn))

\* _build_assistant_message, of what plan_turn serialised.
Remember(bad) ==
  IF path = "workflow" /\ ~bad
  THEN Append(memory, Native(family, Row("calls", family, Turn))) ELSE memory

\* A turn with tool calls.
TurnCalls(made, cut, bad) ==
  /\ made # <<>>
  /\ stage' = "fanout"
  /\ calls' = made /\ truncated' = cut
  /\ rows' = Record("calls", bad) /\ memory' = Remember(bad)
  /\ patchy' = (patchy \/ bad)
  /\ attempt' = 1
  /\ UNCHANGED <<message, tasks, iteration, sent, acc, serial, streak>>

\* An answer ends the message.  OpenAI's "done" event carries no raw_response,
\* so its answers are not stored.
TurnAnswers(bad) ==
  /\ Close(IF family = "openai" THEN rows ELSE Record("answer", bad), patchy \/ bad)
  /\ UNCHANGED streak

FinishOpenAI(cut, bad) ==
  /\ stage = "stream" /\ family = "openai"
  /\ cut \/ \A i \in Index : sent[i] \in {0, Pieces + 1}
  /\ IF Assembled = <<>> THEN ~bad /\ TurnAnswers(bad) ELSE TurnCalls(Assembled, cut, bad)

FinishAnthropic(n, cut, bad) ==
  /\ stage = "stream" /\ family = "anthropic"
  /\ IF n = 0 THEN TurnAnswers(bad) ELSE TurnCalls(Blocks(n, cut), cut, bad)

\* An error event, or a tool name without "__": the activity is tried again,
\* the runner's loop ends.
StreamFails ==
  /\ stage = "stream"
  /\ \/ /\ path = "workflow" /\ attempt < Attempts
        /\ attempt' = attempt + 1 /\ NoStream
        /\ UNCHANGED <<stage, message, tasks, rows, memory, iteration, serial,
                       patchy, streak>>
     \/ /\ path = "runner" \/ attempt >= Attempts
        /\ Close(rows, patchy) /\ UNCHANGED streak

(***************************************************************************)
(* The results                                                             *)
(***************************************************************************)
\* Both paths store Anthropic's blocks; the workflow appends them too, with
\* their text compacted.
Answered(bad) ==
  /\ stage = "fanout" /\ stage' = "plan"
  /\ rows' = Record("results", bad)
  /\ memory' = IF path = "workflow" THEN Append(memory, Msg("results", Turn)) ELSE memory
  /\ patchy' = (patchy \/ bad)
  /\ NoStream
  /\ UNCHANGED <<message, tasks, iteration, attempt, serial, streak>>

\* Cancelled, timed out, raised or killed while the agents work.
CutShort ==
  /\ stage = "fanout"
  /\ Close(rows, patchy) /\ UNCHANGED streak

Next ==
  \/ \E p \in Paths, f \in Families, lost \in BOOLEAN : Start(p, f, lost)
  \/ Ask \/ Exhausted \/ StreamFails \/ CutShort
  \/ \E i \in Index : Fragment(i)
  \/ \E bad \in BOOLEAN :
       \/ Answered(bad)
       \/ \E cut \in BOOLEAN :
            \/ FinishOpenAI(cut, bad)
            \/ \E n \in 0 .. MaxCalls : FinishAnthropic(n, cut, bad)

Spec == Init /\ [][Next]_vars

(***************************************************************************)
(* Properties                                                              *)
(***************************************************************************)
\* Fragments of parallel calls come interleaved: every call that was begun is
\* made once, in the model's order, and with its own whole arguments unless
\* the stream was cut at max_tokens.
CallsAssembled ==
  stage = "fanout" =>
    /\ \A k \in DOMAIN calls :
         calls[k].index = k /\ (calls[k].input = "whole" \/ truncated)
    /\ family = "openai" => Len(calls) = Cardinality({i \in Index : sent[i] > 0})

\* The transcripts a request is built from, when every write of theirs went well.
Window == RecentRows \o rows
AllWritten == ~patchy /\ \A i \in DOMAIN Recent : ~Recent[i].patchy
TurnOf(kind, t) == \E j \in DOMAIN Window : Window[j].kind = kind /\ Window[j].turn = t
Cut(r) == r.kind = "calls" /\ ~TurnOf("results", r.turn)

\* A planning request is refused exactly when its history holds tool calls of
\* OpenAI, tool calls of Anthropic and their results while the provider is
\* OpenAI, or, in the runner, a turn that was cut short: histories that mix
\* paths and providers and break off anywhere are otherwise always accepted.
RefusedExactly ==
  stage = "plan" /\ AllWritten =>
    LET turns == {Window[j] : j \in {i \in DOMAIN Window : Window[i].kind = "calls"}}
    IN Accepts(family, Request) <=>
         \A r \in turns :
           /\ r.by = "anthropic"
           /\ Cut(r) => path = "workflow"
           /\ ~Cut(r) => family = "anthropic"

\* A conversation gets out of it by itself: a window's length of messages after
\* a turn that poisons the history, the first request is accepted again.
RefusalPasses == HistoryWindow > 0 => streak <= HistoryWindow

\* The repair takes nothing else away: in front of Anthropic, every row of the
\* window but a turn that was cut short is in the request.
AnsweredTurnsKept ==
  stage = "plan" /\ AllWritten /\ family = "anthropic" =>
    \A j \in DOMAIN Window :
      ~Cut(Window[j]) => Native(family, Window[j]) \in ToSet(Request)

=============================================================================
