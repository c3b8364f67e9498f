----------------------------- MODULE RemoteCall -----------------------------
(***************************************************************************)
(* The call of a remote A2A agent: the adapter that submits the message,   *)
(* polls the remote task or reads its event stream and turns what it sees  *)
(* into events; the chain of middlewares (guard, cache) around it; the two *)
(* consumers of the events, invoke_agent_activity (route "activity",       *)
(* retried by Temporal) and _invoke_agent of the legacy runner (route      *)
(* "runner", never retried); the rows and the entry of the set of active   *)
(* agents a call leaves behind; and the wiring of the chains, which the    *)
(* administrator edits and Redis caches.                                   *)
(*                                                                         *)
(* The adapter is an asynchronous generator with one deadline around the   *)
(* whole exchange.  When it passes while the generator waits, the consumer *)
(* gets an error event; when it passes while the consumer itself waits     *)
(* between two events, the consumer is cancelled instead (DeadlineEscapes).*)
(***************************************************************************)
EXTENDS Naturals, Sequences, SequencesExt

CONSTANTS
  Calls,        \* tool calls of one session
  Requests,     \* [route, agent, text, message, pieces, streams, typed]: what a call
                \* may ask, whether that text is the "message" of its input or in
                \* another field, and how much its agent answers
  Agents,       \* slugs of the agents
  Chains,       \* wirings an administrator may choose, sequences over Kinds
  Chunks,       \* most pieces a complete answer has; it may have none
  MaxAttempts,  \* maximum_attempts of the retry policy
  Budget,       \* bound on the crashes, escaping deadlines and edits of the wiring
  None

Kinds == {"cache", "block", "redact"}   \* a guard in mode "block" or "redact"
Texts == {"plain", "personal", "forbidden"}
Routes == {"activity", "runner"}
Outcomes == {"completed", "failed", "input-required", "cancelled"}

ASSUME RemoteCallAssumption ==
  /\ Chunks \in Nat \ {0} /\ MaxAttempts \in Nat \ {0}
  /\ Budget \in Nat
  /\ Chains \subseteq Seq(Kinds) /\ <<>> \in Chains
  /\ Requests \subseteq [route : Routes, agent : Agents, text : Texts, message : BOOLEAN,
                       pieces : 0 .. Chunks, streams : BOOLEAN, typed : BOOLEAN]
  /\ None \notin Chains /\ None \notin Outcomes

VARIABLES
  want,       \* what each call asks
  pc,         \* where its current attempt stands
  attempt,    \* number of that attempt
  child,      \* states of the child task rows, one per attempt
  step,       \* statuses of the run_steps rows, one per attempt
  answers,    \* artifacts recorded: [attempt, parts]
  chain,      \* middlewares the attempt goes through
  remote,     \* the remote task as it was last seen: its state, the pieces of its
              \* answer, and the text it was sent
  view,       \* how the adapter looks: polling or streaming, artifact seen or not
  pending,    \* events the generator has yet to hand over
  text,       \* result_text of the consumer
  files,      \* its file_parts: the parts that came with a media type
  outcome,    \* status of the consumer
  verdict,    \* what the workflow or the runner's loop was told
  active,     \* agents in the session's set of active agents
  orphaned,   \* history: entries of that set a crash or a failed call of Redis left
  wired,      \* middleware_wirings of each agent
  chainCache, \* them:mw:chain:* in Redis
  settled,    \* history: no edit is unflushed and no older read under way
  flushing,   \* an edit was committed, its flush is due
  stored,     \* answers the cache middleware wrote to Redis
  spent

rowVars == <<child, step, answers>>
adapterVars == <<remote, view, pending>>
consumerVars == <<text, files, outcome, verdict>>
activeVars == <<active, orphaned>>
wiringVars == <<wired, chainCache, settled, flushing>>
vars == <<want, pc, attempt, rowVars, chain, adapterVars, consumerVars,
          activeVars, wiringVars, stored, spent>>

Terminal == {"completed", "failed"}
RemoteStates == {"none", "sent", "submitted", "working", "input-required"} \cup Terminal
NoTask == [state |-> "none", made |-> 0, text |-> "none"]
Unseen == [mode |-> "poll", artifact |-> FALSE]

\* the pieces 1 .. n, each once and in order
Pieces(n) == [i \in 1 .. n |-> i]

\* an event of the adapter: a status has a state, the others a number of pieces
\* or (a token) the piece itself
Event(kind, n) == [kind |-> kind, n |-> n, state |-> "none"]
Status(state) == [kind |-> "status", n |-> 0, state |-> state]
Latest(rows, s) == [rows EXCEPT ![Len(rows)] = s]
Agent(c) == want[c].agent

Spend == spent < Budget /\ spent' = spent + 1

\* the locals of an attempt that ended, or died with its worker
Forget(c) ==
  /\ chain' = [chain EXCEPT ![c] = <<>>]
  /\ remote' = [remote EXCEPT ![c] = NoTask] /\ view' = [view EXCEPT ![c] = Unseen]
  /\ pending' = [pending EXCEPT ![c] = <<>>] /\ text' = [text EXCEPT ![c] = <<>>]
  /\ files' = [files EXCEPT ![c] = <<>>]

\* Between set_active_agent and clear_active_agent: the activity calls them
\* around its loop, the runner around the whole call, for which it may have to
\* wait first.
Loop == {"submit", "wait", "stream", "handle", "publish", "leave"}
Bracket(route) ==
  IF route = "activity" THEN Loop
  ELSE Loop \cup {"queued", "rows", "store", "close", "finish", "return"}
Showing(c) == pc[c] \in Bracket(want[c].route)

Init ==
  /\ want \in [Calls -> Requests]
  /\ wired \in [Agents -> Chains]
  /\ pc = [c \in Calls |-> "idle"] /\ attempt = [c \in Calls |-> 0]
  /\ child = [c \in Calls |-> <<>>] /\ step = [c \in Calls |-> <<>>]
  /\ answers = [c \in Calls |-> {}]
  /\ chain = [c \in Calls |-> <<>>]
  /\ remote = [c \in Calls |-> NoTask] /\ view = [c \in Calls |-> Unseen]
  /\ pending = [c \in Calls |-> <<>>]
  /\ text = [c \in Calls |-> <<>>] /\ files = [c \in Calls |-> <<>>]
  /\ outcome = [c \in Calls |-> None] /\ verdict = [c \in Calls |-> None]
  /\ active = {} /\ orphaned = {}
  /\ chainCache = [a \in Agents |-> None]
  /\ settled = TRUE /\ flushing = FALSE
  /\ stored = {} /\ spent = 0

-----------------------------------------------------------------------------
\* The rows of an attempt, and its place in the set of active agents.

\* Both are best-effort: an error of Redis is swallowed.
SetActiveAgent(a) == active' \in {active, active \cup {a}} /\ UNCHANGED orphaned
ClearActiveAgent(a) ==
  \/ active' = active \ {a} /\ orphaned' = orphaned \ {a}
  \/ active' = active /\ orphaned' = orphaned \cup {a}

\* The runner shows the agent as active, then waits for parallel_sem.
Enter(c) ==
  /\ pc[c] = "idle" /\ want[c].route = "runner"
  /\ SetActiveAgent(Agent(c))
  /\ pc' = [pc EXCEPT ![c] = "queued"]
  /\ UNCHANGED <<want, attempt, rowVars, chain, adapterVars, consumerVars, wiringVars, stored,
                 spent>>

\* create_task of a child task; the locals of the consumer start afresh.
Begin(c) ==
  /\ \/ pc[c] = "queued"
     \/ pc[c] \in {"idle", "lost"} /\ want[c].route = "activity" /\ verdict[c] = None
  /\ attempt[c] < MaxAttempts
  /\ attempt' = [attempt EXCEPT ![c] = @ + 1]
  /\ child' = [child EXCEPT ![c] = Append(@, "submitted")]
  /\ step' = [step EXCEPT ![c] = Append(@, "none")]
  /\ outcome' = [outcome EXCEPT ![c] = None]
  /\ pc' = [pc EXCEPT ![c] = "rows"]
  /\ UNCHANGED <<want, answers, chain, adapterVars, text, files, verdict, activeVars, wiringVars,
                 stored, spent>>

\* transition(child, "working") and record_step; the runner has no chain.
Work(c) ==
  /\ pc[c] = "rows"
  /\ child' = [child EXCEPT ![c] = Latest(@, "working")]
  /\ step' = [step EXCEPT ![c] = Latest(@, "running")]
  /\ pc' = [pc EXCEPT ![c] = IF want[c].route = "activity" THEN "resolve" ELSE "submit"]
  /\ UNCHANGED <<want, attempt, answers, chain, adapterVars, consumerVars, activeVars,
                 wiringVars, stored, spent>>

\* resolve_chain: the cached chain or, when the key is missing or has expired,
\* the rows, which are then cached.
ReadChain(c) ==
  /\ pc[c] = "resolve"
  /\ \/ /\ chainCache[Agent(c)] # None
        /\ chain' = [chain EXCEPT ![c] = chainCache[Agent(c)]]
        /\ SetActiveAgent(Agent(c))
        /\ pc' = [pc EXCEPT ![c] = "submit"]
     \/ /\ chain' = [chain EXCEPT ![c] = wired[Agent(c)]]
        /\ pc' = [pc EXCEPT ![c] = "fill"]
        /\ UNCHANGED activeVars
  /\ UNCHANGED <<want, attempt, rowVars, adapterVars, consumerVars, wiringVars, stored, spent>>

\* The chain resolved, the agent is shown as active.
FillChain(c) ==
  /\ pc[c] = "fill"
  /\ chainCache' = [chainCache EXCEPT ![Agent(c)] = chain[c]]
  /\ SetActiveAgent(Agent(c))
  /\ pc' = [pc EXCEPT ![c] = "submit"]
  /\ UNCHANGED <<want, attempt, rowVars, chain, adapterVars, consumerVars, wired, settled,
                 flushing, stored, spent>>

\* The query of the wirings fails, which fails the call but not the activity.
ChainFails(c) ==
  /\ pc[c] = "resolve"
  /\ outcome' = [outcome EXCEPT ![c] = "failed"]
  /\ pc' = [pc EXCEPT ![c] = "store"]
  /\ UNCHANGED <<want, attempt, rowVars, chain, adapterVars, text, files, verdict, activeVars,
                 wiringVars, stored, spent>>

-----------------------------------------------------------------------------
\* The middlewares, from the outside in.

\* the key the cache makes of the message alone: one for all inputs without it
CacheKey(req, carried) == <<req.agent, IF req.message THEN carried ELSE "none">>

\* Mutant: in mode "redact" the guard only redacts.
RedactLetsPass(carried, kind) ==
  CASE carried \in {"forbidden", "personal"} /\ kind = "block" -> "refused"
    [] carried = "personal" /\ kind # "block" -> "redacted"
    [] OTHER -> carried

\* what a guard makes of a message
Checked(carried, kind) ==
  CASE carried = "forbidden" -> "refused"
    [] carried = "personal" -> IF kind = "block" THEN "refused" ELSE "redacted"
    [] OTHER -> carried

\* What one layer lets through: the cache looks for a stored answer, the guard
\* looks at the message of the input and at nothing else; an input without one,
\* of an agent with a schema of its own, passes as it is.
Layer(req, carried, kind) ==
  IF carried \in {"refused", "answered"} THEN carried
  ELSE CASE kind = "cache" -> IF CacheKey(req, carried) \in stored THEN "answered" ELSE carried
         [] kind # "cache" /\ req.message -> Checked(carried, kind)
         [] OTHER -> carried

\* the text behind each number of layers
PassedBy(c) ==
  LET t[n \in 0 .. Len(chain[c])] ==
        IF n = 0 THEN want[c].text ELSE Layer(want[c], t[n - 1], chain[c][n])
  IN  t

Passed(c) == PassedBy(c)[Len(chain[c])]

\* the keys under which the cache layers of the chain file an answer
CacheKeys(c) ==
  {CacheKey(want[c], PassedBy(c)[i - 1]) : i \in {j \in DOMAIN chain[c] : chain[c][j] = "cache"}}

-----------------------------------------------------------------------------
\* The adapter.

Reports(c, events) ==
  /\ pending' = [pending EXCEPT ![c] = events]
  /\ pc' = [pc EXCEPT ![c] = "handle"]

\* The pipeline answers by itself: a refusal is an error, a hit the end.
Intercept(c) ==
  /\ pc[c] = "submit" /\ Passed(c) \in {"refused", "answered"}
  /\ Reports(c, <<IF Passed(c) = "refused" THEN Event("error", 0) ELSE Event("done", Chunks)>>)
  /\ UNCHANGED <<want, attempt, rowVars, chain, remote, view, consumerVars, activeVars,
                 wiringVars, stored, spent>>

\* submit: POST SendMessage with the message or, when the input has other fields
\* or no message, the whole input, as data or in words; it is answered with the id
\* of the remote task.  The runner opens the event stream of an agent that has one,
\* or polls.
Submit(c, opens) ==
  /\ pc[c] = "submit" /\ Passed(c) \notin {"refused", "answered"}
  /\ opens => want[c].route = "runner" /\ want[c].streams
  /\ remote' = [remote EXCEPT ![c] = [state |-> "sent", made |-> 0, text |-> Passed(c)]]
  /\ view' = [view EXCEPT ![c].mode = IF opens THEN "stream" ELSE "poll"]
  /\ pc' = [pc EXCEPT ![c] = IF opens THEN "stream" ELSE "wait"]
  /\ UNCHANGED <<want, attempt, rowVars, chain, pending, consumerVars, activeVars, wiringVars,
                 stored, spent>>

\* The POST fails or times out; the agent may have received the message.
SubmitFails(c) ==
  /\ pc[c] = "submit" /\ Passed(c) \notin {"refused", "answered"}
  /\ \/ remote' = [remote EXCEPT ![c].text = Passed(c)]
     \/ UNCHANGED remote
  /\ Reports(c, <<Event("error", 0)>>)
  /\ UNCHANGED <<want, attempt, rowVars, chain, view, consumerVars, activeVars, wiringVars,
                 stored, spent>>

Ends(state, n) ==
  CASE state = "completed" -> <<Event("done", n)>>
    [] state = "failed" -> <<Event("error", 0)>>
    [] OTHER -> <<>>

\* What an executor does next: it enqueues the task, goes to work, writes the n
\* pieces of its answer and completes, or breaks off with an error; an agent from
\* elsewhere may also ask its user something and wait.
Starts(r) ==
  CASE r.state = "sent"      -> {[r EXCEPT !.state = "submitted"]}
    [] r.state = "submitted" -> {[r EXCEPT !.state = "working"]}
    [] OTHER                 -> {}
Writes(r, n) ==
  IF r.state = "working" /\ r.made < n THEN {[r EXCEPT !.made = @ + 1]} ELSE {}
Finishes(r, n) ==
  IF r.state = "working" /\ r.made = n THEN {[r EXCEPT !.state = "completed"]} ELSE {}
Breaks(r) == IF r.state = "working" THEN {[r EXCEPT !.state = "failed"]} ELSE {}
Asks(r) == IF r.state = "working" THEN {[r EXCEPT !.state = "input-required"]} ELSE {}

After(r, n) == Starts(r) \cup Writes(r, n) \cup Finishes(r, n) \cup Breaks(r) \cup Asks(r)

\* where a task last seen as r can be at the next look
Later(r, n) ==
  LET reach[i \in 0 .. Chunks + 3] ==
        IF i = 0 THEN {r} ELSE reach[i - 1] \cup UNION {After(x, n) : x \in reach[i - 1]}
  IN  reach[Chunks + 3]

\* What one answer of GetTask yields: a status other than the last, an artifact
\* not seen before, as far as it is made, and the end.
Seen(c, r) ==
  (IF r.state # remote[c].state THEN <<Status(r.state)>> ELSE <<>>)
    \o (IF r.made > 0 /\ ~view[c].artifact THEN <<Event("artifact", r.made)>> ELSE <<>>)
    \o Ends(r.state, r.made)

\* _poll_events: a GetTask that shows something new.
Poll(c) ==
  /\ pc[c] = "wait"
  /\ \E r \in Later(remote[c], want[c].pieces) :
       /\ Seen(c, r) # <<>>
       /\ Reports(c, Seen(c, r))
       /\ remote' = [remote EXCEPT ![c] = r]
       /\ view' = [view EXCEPT ![c].artifact = @ \/ r.made > 0]
  /\ UNCHANGED <<want, attempt, rowVars, chain, consumerVars, activeVars, wiringVars, stored,
                 spent>>

\* Mutant: no deadline around the polling.
AskFailsStreaming(c) ==
  /\ pc[c] = "stream"
  /\ Reports(c, <<Event("error", 0)>>)
  /\ UNCHANGED <<want, attempt, rowVars, chain, remote, view, consumerVars, activeVars,
                 wiringVars, stored, spent>>

\* GetTask or the connection fails, or asyncio.timeout expires while the
\* generator waits: the adapter ends with an error event.
AskFails(c) ==
  /\ pc[c] \in {"wait", "stream"}
  /\ Reports(c, <<Event("error", 0)>>)
  /\ UNCHANGED <<want, attempt, rowVars, chain, remote, view, consumerVars, activeVars,
                 wiringVars, stored, spent>>

\* One event of the stream, in the order of the task's steps: a piece of the
\* artifact, the first of which is handed over twice, or a status; the last
\* status may carry the artifacts (whole) or nothing.
StreamEvent(c, whole) ==
  /\ pc[c] = "stream"
  /\ \E r \in After(remote[c], want[c].pieces) :
       /\ remote' = [remote EXCEPT ![c] = r]
       /\ Reports(c,
            IF r.made > remote[c].made
            THEN (IF r.made = 1 THEN <<Event("artifact", 1)>> ELSE <<>>)
                   \o <<Event("token", r.made)>>
            ELSE <<Status(r.state)>> \o Ends(r.state, IF whole THEN r.made ELSE 0))
  /\ UNCHANGED <<want, attempt, rowVars, chain, view, consumerVars, activeVars, wiringVars,
                 stored, spent>>

\* The generator is exhausted without a last event: the loop of the consumer
\* ends with its status as it was initialised, and only here would the cache
\* middleware store the answer.
EndOfStream(c) ==
  /\ pc[c] = "stream"
  /\ outcome' = [outcome EXCEPT ![c] = "completed"]
  /\ stored' = IF text[c] # <<>> THEN stored \cup CacheKeys(c) ELSE stored
  /\ pc' = [pc EXCEPT ![c] = "store"]
  /\ UNCHANGED <<want, attempt, rowVars, chain, adapterVars, text, files, verdict,
                 activeVars, wiringVars, spent>>

-----------------------------------------------------------------------------
\* The consumer.

\* Where the consumer goes on when it leaves its loop.
Done(c) == IF want[c].route = "activity" THEN "leave" ELSE "store"
Onward(c) == IF view[c].mode = "stream" THEN "stream" ELSE "wait"

\* an artifact goes to the files when its parts have a media type, else to the
\* text unless there are files already
WithArtifact(loop, typed, n) ==
  IF typed THEN [loop EXCEPT !.files = @ \o Pieces(n)]
           ELSE [loop EXCEPT !.text = IF loop.files = <<>> THEN @ \o Pieces(n) ELSE @]

\* Mutant: the result is added to what the artifacts gave.
AddResult(loop, n) == loop.text \o Pieces(n)

\* the result of the end, or the text so far when it has none
Result(loop, n) == IF n > 0 THEN Pieces(n) ELSE loop.text

\* what the loop makes of one of the events behind a status, between which it
\* never waits: [text, files, outcome]
Taken(loop, typed, ev) ==
  CASE ev.kind = "artifact" -> WithArtifact(loop, typed, ev.n)
    [] ev.kind = "token"    -> [loop EXCEPT !.text = Append(@, ev.n)]
    [] ev.kind = "done"     -> [loop EXCEPT !.text = Result(loop, ev.n), !.outcome = "completed"]
    [] ev.kind = "error"    -> [loop EXCEPT !.outcome = "failed"]
    [] OTHER                -> loop

\* its variables after each number of the pending events
Loops(c) ==
  LET l[n \in 0 .. Len(pending[c])] ==
        IF n = 0 THEN [text |-> text[c], files |-> files[c], outcome |-> None]
        ELSE Taken(l[n - 1], want[c].typed, pending[c][n])
  IN  l

Consume(c) ==
  LET loop == Loops(c)[Len(pending[c])]
  IN  /\ pending' = [pending EXCEPT ![c] = <<>>]
      /\ text' = [text EXCEPT ![c] = loop.text]
      /\ files' = [files EXCEPT ![c] = loop.files]
      /\ outcome' = [outcome EXCEPT ![c] = loop.outcome]
      /\ pc' = [pc EXCEPT ![c] = IF loop.outcome # None THEN Done(c) ELSE Onward(c)]

\* The events one look at the remote task gave.  Only the activity heeds
\* input_required, and only it waits after a status, for its publish.
Handle(c) ==
  /\ pc[c] = "handle"
  /\ LET ev == Head(pending[c])
         heeded == want[c].route = "activity" /\ ev.kind = "status"
     IN  \/ /\ heeded /\ ev.state = "input-required"
            /\ outcome' = [outcome EXCEPT ![c] = "input-required"]
            /\ pending' = [pending EXCEPT ![c] = <<>>]
            /\ pc' = [pc EXCEPT ![c] = "publish"]
            /\ UNCHANGED <<text, files>>
         \/ /\ heeded /\ ev.state # "input-required"
            /\ pending' = [pending EXCEPT ![c] = Tail(@)]
            /\ pc' = [pc EXCEPT ![c] = "publish"]
            /\ UNCHANGED <<text, files, outcome>>
         \/ ~heeded /\ Consume(c)
  /\ UNCHANGED <<want, attempt, rowVars, chain, remote, view, verdict, activeVars,
                 wiringVars, stored, spent>>

Published(c) ==
  /\ pc[c] = "publish"
  /\ \/ outcome[c] = None /\ Consume(c)
     \/ /\ outcome[c] = "input-required"
        /\ pc' = [pc EXCEPT ![c] = "leave"]
        /\ UNCHANGED <<pending, text, files, outcome>>
  /\ UNCHANGED <<want, attempt, rowVars, chain, remote, view, verdict, activeVars,
                 wiringVars, stored, spent>>

\* The deadline of the adapter cancels the activity in its publish.
DeadlineEscapes(c) ==
  /\ pc[c] = "publish" /\ Spend
  /\ outcome' = [outcome EXCEPT ![c] = "cancelled"]
  /\ pc' = [pc EXCEPT ![c] = "leave"]
  /\ UNCHANGED <<want, attempt, rowVars, chain, adapterVars, text, files, verdict,
                 activeVars, wiringVars, stored>>

\* Mutant: the entry is cleared after the loop instead of in a finally.
LeaveAfterLoop(c) ==
  /\ pc[c] = "leave"
  /\ IF outcome[c] = "cancelled"
     THEN /\ Forget(c) /\ pc' = [pc EXCEPT ![c] = "lost"]
          /\ UNCHANGED activeVars
     ELSE /\ ClearActiveAgent(Agent(c))
          /\ pc' = [pc EXCEPT ![c] = "store"]
          /\ UNCHANGED <<chain, adapterVars, text, files>>
  /\ UNCHANGED <<want, attempt, rowVars, outcome, verdict, wiringVars, stored, spent>>

\* clear_active_agent in the activity's finally; when cancelled it then raises.
Leave(c) ==
  /\ pc[c] = "leave"
  /\ ClearActiveAgent(Agent(c))
  /\ IF outcome[c] = "cancelled"
     THEN Forget(c) /\ pc' = [pc EXCEPT ![c] = "lost"]
     ELSE pc' = [pc EXCEPT ![c] = "store"] /\ UNCHANGED <<chain, adapterVars, text, files>>
  /\ UNCHANGED <<want, attempt, rowVars, outcome, verdict,
                 wiringVars, stored, spent>>

\* the parts an attempt has to record: its files or else its text
Parts(c) == IF files[c] # <<>> THEN files[c] ELSE text[c]

\* Mutant: whatever there is becomes an artifact.
StoreAnything(c) ==
  /\ pc[c] = "store"
  /\ answers' = [answers EXCEPT ![c] =
       @ \cup {[attempt |-> attempt[c], parts |-> p] : p \in {Parts(c)} \ {<<>>}}]
  /\ pc' = [pc EXCEPT ![c] = "close"]
  /\ UNCHANGED <<want, attempt, child, step, chain, adapterVars, consumerVars, activeVars,
                 wiringVars, stored, spent>>

\* record_and_cache_artifact, for a completed call with something to record
StoreAnswer(c) ==
  /\ pc[c] = "store"
  /\ answers' = [answers EXCEPT ![c] =
       @ \cup {[attempt |-> attempt[c], parts |-> p] :
               p \in {q \in {Parts(c)} : outcome[c] = "completed" /\ q # <<>>}}]
  /\ pc' = [pc EXCEPT ![c] = "close"]
  /\ UNCHANGED <<want, attempt, child, step, chain, adapterVars, consumerVars, activeVars,
                 wiringVars, stored, spent>>

\* transition(child, child_state): only "completed" is not "failed"
CloseTask(c) ==
  /\ pc[c] = "close"
  /\ child' = [child EXCEPT ![c] =
       Latest(@, IF outcome[c] = "completed" THEN "completed" ELSE "failed")]
  /\ pc' = [pc EXCEPT ![c] = "finish"]
  /\ UNCHANGED <<want, attempt, step, answers, chain, adapterVars, consumerVars,
                 activeVars, wiringVars, stored, spent>>

\* complete_step, whose error is swallowed: the CHECK of the table knows no
\* status "input-required", and the update is rolled back.
CloseStep(c) ==
  /\ pc[c] = "finish"
  /\ step' = [step EXCEPT ![c] = IF outcome[c] \in Terminal THEN Latest(@, outcome[c]) ELSE @]
  /\ pc' = [pc EXCEPT ![c] = "return"]
  /\ UNCHANGED <<want, attempt, child, answers, chain, adapterVars, consumerVars, activeVars,
                 wiringVars, stored, spent>>

\* The workflow or the runner gets the outcome; the runner's finally comes first.
Return(c) ==
  /\ pc[c] = "return"
  /\ IF want[c].route = "runner" THEN ClearActiveAgent(Agent(c)) ELSE UNCHANGED activeVars
  /\ verdict' = [verdict EXCEPT ![c] = IF @ = None THEN outcome[c] ELSE @]
  /\ pc' = [pc EXCEPT ![c] = "over"]
  /\ Forget(c)
  /\ UNCHANGED <<want, attempt, rowVars, outcome, wiringVars, stored, spent>>

\* The database fails a write of the rows, and the attempt raises; the runner
\* clears its entry all the same.
Raise(c) ==
  /\ pc[c] \in {"rows", "store", "close"} /\ Spend
  /\ IF want[c].route = "runner" THEN ClearActiveAgent(Agent(c)) ELSE UNCHANGED activeVars
  /\ pc' = [pc EXCEPT ![c] = "lost"]
  /\ Forget(c)
  /\ UNCHANGED <<want, attempt, rowVars, outcome, verdict, wiringVars, stored>>

\* Temporal: no attempt is left after a lost one ...
GiveUp(c) ==
  /\ pc[c] = "lost" /\ want[c].route = "activity"
  /\ attempt[c] = MaxAttempts \/ verdict[c] # None
  /\ verdict' = [verdict EXCEPT ![c] = IF @ = None THEN "failed" ELSE @]
  /\ pc' = [pc EXCEPT ![c] = "over"]
  /\ UNCHANGED <<want, attempt, rowVars, chain, adapterVars, text, files, outcome,
                 activeVars, wiringVars, stored, spent>>

\* ... or schedule_to_close_timeout, which leaves a second attempt less time
\* than its own deadline, has passed while the attempt runs on.
Overdue(c) ==
  /\ attempt[c] > 1 /\ verdict[c] = None /\ pc[c] \notin {"lost", "over"}
  /\ verdict' = [verdict EXCEPT ![c] = "failed"]
  /\ UNCHANGED <<want, pc, attempt, rowVars, chain, adapterVars, text, files, outcome,
                 activeVars, wiringVars, stored, spent>>

-----------------------------------------------------------------------------
\* The worker and the administrator.

Crash(c) ==
  /\ pc[c] \notin {"idle", "lost", "over"} /\ Spend
  /\ orphaned' = IF Showing(c) THEN orphaned \cup {Agent(c)} ELSE orphaned
  /\ pc' = [pc EXCEPT ![c] = "lost"]
  /\ Forget(c)
  /\ UNCHANGED <<want, attempt, rowVars, outcome, verdict, active,
                 wiringVars, stored>>

\* Readers between their query and their write of the cache hold the rows as
\* they are in w.
ReadersAgree(w) == \A c \in Calls : pc[c] = "fill" => chain[c] = w[Agent(c)]

\* New rows are committed; who wrote them may owe a flush.
Rewire(w, owes) ==
  /\ ~flushing /\ w # wired /\ Spend
  /\ wired' = w
  /\ flushing' = owes
  /\ settled' = FALSE
  /\ UNCHANGED <<want, pc, attempt, rowVars, chain, adapterVars, consumerVars, activeVars,
                 chainCache, stored>>

\* compile_graph replaces the wirings of the application and flushes nothing.
Recompile(a, new) == Rewire([wired EXCEPT ![a] = new], FALSE)

\* put_middleware_wirings replaces them and flushes the application's keys.
PutWirings(a, new) == Rewire([wired EXCEPT ![a] = new], TRUE)

\* A middleware definition is switched, changed or deleted under every wiring.
UpdateDef(w) == Rewire(w, TRUE)

\* Mutant: the flush looks for keys under another prefix.
FlushOthers(ok) ==
  /\ flushing
  /\ flushing' = FALSE
  /\ settled' = (ok /\ ReadersAgree(wired))
  /\ UNCHANGED <<want, pc, attempt, rowVars, chain, adapterVars, consumerVars,
                 activeVars, wired, chainCache, stored, spent>>

\* _flush_mw_chain_cache; when the call fails nothing is dropped.
Flush(ok) ==
  /\ flushing
  /\ flushing' = FALSE
  /\ chainCache' = IF ok THEN [a \in Agents |-> None] ELSE chainCache
  /\ settled' = (ok /\ ReadersAgree(wired))
  /\ UNCHANGED <<want, pc, attempt, rowVars, chain, adapterVars, consumerVars,
                 activeVars, wired, stored, spent>>

-----------------------------------------------------------------------------
Steps(c) ==
  \/ Enter(c) \/ Begin(c) \/ Work(c)
  \/ ReadChain(c) \/ FillChain(c) \/ ChainFails(c) \/ Intercept(c)
  \/ (\E opens \in BOOLEAN : Submit(c, opens)) \/ SubmitFails(c) \/ Poll(c) \/ AskFails(c)
  \/ (\E whole \in BOOLEAN : StreamEvent(c, whole)) \/ EndOfStream(c)
  \/ Handle(c) \/ Published(c) \/ DeadlineEscapes(c) \/ Leave(c)
  \/ StoreAnswer(c) \/ CloseTask(c) \/ CloseStep(c) \/ Return(c) \/ GiveUp(c)

Environment ==
  \/ \E a \in Agents, new \in Chains : Recompile(a, new) \/ PutWirings(a, new)
  \/ \E w \in [Agents -> Chains] : UpdateDef(w)
  \/ \E ok \in BOOLEAN : Flush(ok)

Next == (\E c \in Calls : Steps(c) \/ Overdue(c) \/ Raise(c) \/ Crash(c)) \/ Environment

(* The worker's event loop, its timer and Temporal go on with every attempt;
   the agent, the administrator and the crashes owe nothing. *)
Fairness == \A c \in Calls : WF_vars(Steps(c))

Spec == Init /\ [][Next]_vars /\ Fairness

-----------------------------------------------------------------------------
Events == {e \in [kind : {"status", "artifact", "token", "done", "error"},
                  n : 0 .. Chunks, state : RemoteStates] : e.kind = "token" => e.n > 0}
Tasks == [state : RemoteStates, made : 0 .. Chunks, text : Texts \cup {"none", "redacted"}]
Parted == Seq(1 .. Chunks)
Places == Bracket("runner") \cup {"idle", "resolve", "fill", "lost", "over"}

TypeOK ==
  /\ want \in [Calls -> Requests] /\ pc \in [Calls -> Places]
  /\ attempt \in [Calls -> 0 .. MaxAttempts]
  /\ child \in [Calls -> Seq({"submitted", "working"} \cup Terminal)]
  /\ step \in [Calls -> Seq({"none", "running"} \cup Terminal)]
  /\ answers \in [Calls -> SUBSET [attempt : Nat, parts : Parted \ {<<>>}]]
  /\ chain \in [Calls -> Chains]
  /\ remote \in [Calls -> Tasks]
  /\ view \in [Calls -> [mode : {"poll", "stream"}, artifact : BOOLEAN]]
  /\ pending \in [Calls -> Seq(Events)]
  /\ text \in [Calls -> Parted] /\ files \in [Calls -> Parted]
  /\ outcome \in [Calls -> Outcomes \cup {None}]
  /\ verdict \in [Calls -> Outcomes \cup {None}]
  /\ active \subseteq Agents /\ orphaned \subseteq Agents
  /\ wired \in [Agents -> Chains] /\ chainCache \in [Agents -> Chains \cup {None}]
  /\ settled \in BOOLEAN /\ flushing \in BOOLEAN
  /\ stored \subseteq Agents \X (Texts \cup {"redacted", "none"}) /\ spent \in 0 .. Budget

\* A polled call that counts as completed carries the whole answer of a
\* completed remote task, each piece once and in order, although the adapter
\* hands over an artifact it saw half made and never looks at it again.
PolledWhole ==
  \A c \in Calls :
    pc[c] \in {"leave", "store"} /\ outcome[c] = "completed" /\ view[c].mode = "poll" =>
    remote[c].state = "completed" /\ text[c] = Pieces(want[c].pieces)

\* What a call was reported as is what its rows say, and a row says completed
\* only when the artifact of its answer is there: a crash between the writes may
\* leave an artifact of an unfinished task, never a finished task without its
\* artifact or a failed one with it.
RowsAgree ==
  \A c \in Calls :
    /\ verdict[c] = "completed" => Last(child[c]) = "completed" /\ Last(step[c]) = "completed"
    /\ verdict[c] = "input-required" => Last(child[c]) = "failed"
    /\ \A k \in DOMAIN child[c] :
         /\ child[c][k] = "completed" =>
              want[c].streams \/ want[c].pieces = 0 \/ \E a \in answers[c] : a.attempt = k
         /\ child[c][k] = "failed" => \A a \in answers[c] : a.attempt # k
         /\ step[c][k] \in Terminal => child[c][k] = step[c][k]

\* The session shows an agent as active only while a call shows it (for an
\* activity its loop, for the runner the whole call and the wait for it), but for
\* the entry that a crash or a failed clear_active_agent leaves until it expires:
\* a call that raises, or is cancelled in the middle of its loop, clears it.
ActiveMeansRunning ==
  active \subseteq orphaned \cup {Agent(c) : c \in {d \in Calls : Showing(d)}}

\* Whatever stands before or behind it in its chain, a guard keeps every message
\* it refuses or redacts from the agent, on every attempt; of an input without a
\* message it keeps nothing.
GuardHeld ==
  \A c \in Calls :
    ToSet(chain[c]) \cap {"block", "redact"} # {} =>
      remote[c].text \in {"none"} \cup (IF want[c].message THEN {"plain", "redacted"}
                                                           ELSE {want[c].text})

\* After a flush that succeeded while no lookup held older rows, and until the
\* next edit, no call is given a chain that is not wired.
WiringHolds ==
  settled => ReadersAgree(wired) /\ \A a \in Agents : chainCache[a] \in {None, wired[a]}

\* Every call that was started is reported, whatever the agent does or fails
\* to do; only a call of the legacy runner dies with its process or raises.
CallsEnd ==
  \A c \in Calls :
    pc[c] # "idle" ~> pc[c] = "over" \/ (pc[c] = "lost" /\ want[c].route = "runner")

\* complete_step, "Update run_step to completed/failed": the row of a call
\* that returned says so.
StepsClosed ==
  \A c \in Calls : pc[c] = "over" /\ outcome[c] \notin {None, "cancelled"} =>
    Last(step[c]) \in Terminal

\* "Call a downstream agent via its adapter and persist the result": what is
\* recorded of a polled call is the whole answer the call returned.
RecordedWhole ==
  \A c \in Calls : ~want[c].streams => \A a \in answers[c] : a.parts = Pieces(want[c].pieces)

\* The "exact-match response cache": an answer that passed a cache is stored.
AnsweredIsCached ==
  \A c \in Calls : pc[c] = "store" /\ outcome[c] = "completed" => CacheKeys(c) \subseteq stored
=============================================================================
