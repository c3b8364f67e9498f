# A formal model of the-M

The-M routes a user's message to an orchestrator: a loop that lets a language
model plan, calls remote agents in parallel, asks a person when an agent needs
an answer, and records everything in Postgres. Several bridge pods serve
clients; Temporal workers run the loop; Redis holds sessions, caches, rate
limits and the event streams. This directory holds TLA+ models of the parts
whose correctness depends on the order in which those processes act, or on how
data survives a conversion, the TLC runs that check them on small instances,
and proofs that TLAPS checks for any instance.

Run a model with `tlc -config <cfg> <MC module>.tla`, a proof with
`tlapm <Module>Proofs.tla`. `PROJECT.json` lists the runs, maps every
definition to the lines it models and names the hazards each property covers.

## 1. Inventory

| Component | State | Operations | Interacts through |
|---|---|---|---|
| Runtime gate, session manager (`services/runtime_manager.py`, `session_manager.py`, `rate_limiter.py`) | Redis: the set of an entry point's sessions, the set of an application's, one hash with a TTL per session, hourly counters | `runtime_gate`, `ep_gate_try` (Lua), `register`, `end`, `signal_disconnect` | Redis, called by every session handler; control channel |
| Entry points (`routers/apps.py`, `ws_orchestrator.py`) | one coroutine per connection, a queue loop, a control listener | accept, queue, stream, end; REST task | gate, bridge client, task store |
| Bridge client (`temporal/bridge_client.py`), edges | a pub/sub subscription, a reader task, an event that stops it | start or attach to `ctx-{context_id}`, stream events, cancel | Temporal, Redis channels |
| OrchestrationWorkflow (`temporal/workflows.py`, `activities.py`) | counters, messages, reply; rows of runs, tasks, messages, steps, usage | load, init, plan, fan out, wait for a person, record, summarise, continue as new, finalise | Temporal activities, signal, cancellation; Postgres |
| LLM providers (`services/providers/`) | the tool calls being assembled | stream a turn, shape tool results | the model's API; history in `task_messages` |
| Runs API (`routers/runs.py`) | none | cancel a row, forward a reply | Postgres, Temporal signal |
| Task store (`services/task_store.py`), reaper (`main.py`) | one row per task, artifacts, messages | create, transition, record; sweep of overdue tasks | Postgres; A2A, REST, workflow |
| A2A server (`routers/a2a_server.py`) | none of its own | SendMessage, GetTask, CancelTask, push webhook | task store, runner |
| In-process runner (`services/task_runner.py`) | the loop in process memory | as the workflow, without its retries | A2A server, SSE |
| A2A adapter (`adapters/a2a_async_adapter.py`), middleware (`middleware/`) | a remote task; the wiring and its cache | submit, stream or poll; guard and cache | HTTP, Redis; workflow activity and runner |
| Token cache, authentication client (`services/token_cache.py`, `auth_client.py`) | a dictionary per pod, two kinds of Redis keys | look up, invalidate | Postgres, Redis, authentication service |
| Context and memory (`services/context_service.py`, `memory_service.py`) | the cached artifact list and the summary of a context | record, read through, summarise | Postgres, Redis |
| Administration, application compiler (`routers/admin_*.py`, `services/app_compiler.py`), loaders | application graphs as rows; cached orchestrator configurations | save, import, restore, export, delete; load by name | Postgres, Redis |
| Agent registry, dashboards, voice, authentication service, sample agents, frontend | configuration rows or none | CRUD, forwarding, rendering | |

What is hard, and what correctness means, by component:

* **Gate and sessions.** Admission is spread over several Redis calls of
  several pods; a hash that expires looks like a crash. Right means: the cap
  of an entry point binds, a refused or ended session leaves nothing, the soft
  cap overshoots by racers only, a queued client is answered.
* **Workflow.** Attempts are retried after parts of their writes were
  committed, cancellation may arrive at any await, replies at any time. Right
  means: it ends, settles its rows, keeps its budget across
  `continue_as_new`, and never sends the provider an unanswered tool call.
* **Task store.** A row has independent writers that read and write without a
  lock. Right means: the state machine of `_TRANSITIONS`, no undone terminal
  state, no task open for ever.
* **Bridge client.** Pub/sub loses what nobody listens to, and a reader task
  outlives the stream that made it. Right means: what a client sees is one
  run's stream, in order, with a true last word.
* **Providers.** Fragments of parallel tool calls are interleaved and a stream
  may be cut; two paths store turns in different shapes and read each other's.
  Right means: calls are made as the model meant them, and a later request is
  accepted.
* **A2A server and runner.** A handler drops a generator half way; siblings of
  a failed call go on; the handler, CancelTask and the reaper each load the
  caller's task and write it later. Right means: an answer that was given is true
  and settled, and nobody who comes after it contradicts it.
* **Adapter and middleware.** A remote agent may never end, and grows its
  answer while it is polled. Right means: every call is reported, whole, and
  a message a guard refuses never leaves.
* **Caches.** An invalidation races a reader that fills the cache. Right
  means: what is written becomes visible; a revoked token stops working.
* **Compiler.** A save compares a drawing with rows another save may be
  changing. Right means: what was drawn is what is stored.

## 2. Modules

| Module | Models |
|---|---|
| `SessionGate` | admission, queue, registration, stream and end of sessions, expiry, crash, Redis faults, admin disconnect |
| `Orchestration` | the workflow, its activities' rows, cancellation, replies, retries |
| `ModelTurn` | what a planning turn is to the providers: request, stream, tool calls, stored shape |
| `RemoteCall` | one call of a remote agent: adapter, middleware chain, both consumers, rows and retries |
| `TaskStore` | one task row, its owner, requests, pushes and the reaper |
| `A2aRunner` | messages of one context through the A2A server and the runner it drives |
| `EventStream` | abstract: what a client of a run may see |
| `BridgeStream` | starting or joining a conversation's workflow, the two phases of its stream, the stops; implements `EventStream` |
| `TokenCache` | `validate_bearer_token`, its caches, and the edits of tokens and users |
| `ContextCache` | the artifact list of a context, its summarisers and its summary |
| `CanvasGraph`, `Deployment` | the drawn graph and its compilation; saves, imports, restores and deletions, and the cached configurations pods load |

Each has an `MC` module with the instances; `SessionGate`, `Orchestration`,
`ModelTurn`, `RemoteCall`, `TaskStore`, `A2aRunner` and `BridgeStream` have a
`Proofs` module, and `TokenCache`, `Deployment` and `ContextCache` share
`CacheProofs`. They meet
where one's step is another's whole behaviour: `RemoteCall` is the inside of an
agent slot of `Orchestration` and of a child of `A2aRunner`; `ModelTurn` the
inside of their planning steps; `TaskStore` the inside of each transition;
`BridgeStream` what becomes of the events a workflow publishes.

### SessionGate

`pc` is the next Redis call of each session's handler; an action is one call,
because handlers of other pods run between two calls. `epSet`, `appSet`,
`sess` and `hits` are the Redis keys; `LuaGate` is the script, atomic in
Redis. The script removes every member without a hash and admits if fewer
than the cap are left. `sess[s]` distinguishes a hash with and without TTL
because `register` writes them in two calls. `RedisFault` is a call that
raises: each caller's `except` decides what follows, which is to go on in the
gate (it fails open) and to give the chain up in `register` and `end`. A block
list may be republished at any time, so a session in `Blocked` may be refused
or not. `evicted`, `unguarded` and `raced` are history variables. A rate-limit
key left without a TTL by a crash between `INCR` and `EXPIRE` belongs to an
hour that is over and changes no decision.

### Orchestration

The code of a workflow is deterministic between awaits, so `stage` is the
await `run()` is at and an action takes it to the next one. An activity
attempt has one of three fates: its result arrives, is lost after any part of
its writes was committed (each write commits by itself), or the workflow is
cancelled meanwhile. Late writes of an attempt Temporal has given up are folded
into the step that gives it up. A message is its kind, the turn it belongs to
and whether it has tool calls: that is all `_sanitize_history` looks at. A row
of `rows` is a run with its root task, its messages by `seq` and the number of
its delegated tasks at work. Each attempt of `init_run` makes rows of its own,
because `start_run` and `create_task` choose the ids.

Cancellation of a single activity arrives as an `ActivityError`, is caught and
finalised (`Unfinished`). Cancellation of `gather` or of `wait_condition` is
`asyncio.CancelledError`, which no clause of `run()` catches: `EscapeCancelled`.
The branch after a timeout of `wait_condition` is dead, since the wait raises;
the exception is finalised as a failure (`HumanTimeout`).

Abstractions: one conversation, one cancellation per user message, the
Anthropic format (`ModelTurn` has both), sub-orchestrators as calls that
complete or fail, `SummarizeEvery = 0` for a memory that is off.

### ModelTurn

A conversation without end: each message is served by the workflow or the
runner, with the provider its orchestrator has by then. `sent` and `acc` are
the fragments of each call and what `stream_call` has assembled of them; `rows`
and `tasks` are transcripts as stored, `memory` the workflow's own list. The
workflow repairs a loaded history, the runner does not, and rebuilds its
messages from the store before each turn. OpenAI's `done` event carries no
`raw_response`, so its answers are not stored and its turns with tool calls are
stored as the runner or the workflow makes them up. `RefusedExactly` says when
a request is refused; that every request after a tool call is, with OpenAI and
the providers built on it, on both paths, is part of it (`base.py:139` and
`:149` promise the shapes the API wants). Text the model says beside OpenAI
tool calls is dropped, arguments cut at `max_tokens` become `{}` in silence, a
tool name without `__` raises. `history_window` 0 or less takes the whole
conversation. A retried `plan_turn` is in `Orchestration`; `continue_as_new`
and the rule about the first message's role are left out.

### RemoteCall

`pc` is the await a call's current attempt is at: in the adapter's generator,
in the middlewares around it, or in the consumer. `remote` is the remote task
as last seen; what it did in between is chosen when it is looked at again.
`pending` are the events the generator has yet to hand over. The one deadline
around the exchange becomes an error event when it passes inside the generator
and cancels the consumer when it passes while that waits (`DeadlineEscapes`);
`Overdue` is Temporal's own limit for all attempts of a call. `child`, `step`
and `answers` are the rows, one per attempt; `active` the session's set of active
agents. Setting and clearing an entry of it is best-effort (`orphaned` remembers
what a failed clear or a crash left). The activity shows the agent around its
loop; the runner does so around the whole call, from before it waits for its
semaphore (`Enter`) to its `finally` (`Return`, `Raise`). `Raise` is a database
error of a write of the rows, `ChainFails` one of the lookup of the wiring, which
fails the call. A guard reads the `message` of an input and nothing else: a
request with `message = FALSE` has its text in another field, as the input of a
typed agent may; it passes every guard, is sent as it is, and has one cache key
with all other inputs of its agent that have no message. `pieces` is how much the
agent answers; with 0 there is neither text nor file, and nothing is recorded.
`wired`, `chainCache`, `flushing`
and `settled` are the wiring, its cache and the administrator's edits.

Left out: an old attempt that still runs after its heartbeat timed out (the
attempts of a call do not overlap here), the set's own TTL, which no `touch`
refreshes although `session_manager.py:201` says so, parallel calls of one
agent that share an entry. The poll loop's own deadline is unreachable. An
event stream is assumed to be replayed from its start, as the adapter assumes;
no agent of the repository serves one. A stream that ends without a last event
counts as completed. `parallel_sem` is a wait of any length. A commit that fails
in a recorder is `Orchestration`'s `Swallowed`. A crash after the task is closed and before the report gives a
second completed row on the retry; `RowsAgree` allows it. A chain wired by
`compile_graph` applies up to ten minutes late, since nothing flushes it.

### TaskStore

`state` is the row; `view[s]` what the identity map of session `s` holds. The
sessions do not expire on commit, so a row once loaded keeps the attributes it
had, and `transition` checks those. `invoke_agent` (kind `delegated`) uses one
session from creation to the end; A2A and REST (kind `root`) open another one
to finalise. `Rollback` is an error of a recorder that shares the session: it
expires what the session had loaded. Requests come once the handler has put
the task to work, when its id is first given out. Delegated tasks have no
deadline, so the reaper never selects them; it selects submitted tasks it may
not fail.

### A2aRunner

A message owns two task rows, the `outer` one its caller knows and the `inner`
one the runner makes for itself, with a run, a transcript and a child per tool
call. The handler breaks out of the generator at the first error event, so the
runner stops at that yield: `Abandon` leaves `run` and `inner` as they are.
`Escape` is an exception that reaches the handler, with a text (`erred` is
`told`) or without one (`mute`), which the handler takes for no error.
`transition()` is the atomic `Moved` on rows with one writer. The caller's task
has three: each loads the row (`Reload`, `OpenCancel`, `Sweep`: `seen`) and
commits later, by primary key, what the loaded state allows (`Finalize`,
`CancelTask`, `Expire`). `Conclude` stores the answer only if the provider's
`done` event carries it, as Anthropic's does.
`JoinRaised` is a database error that ends `gather` while siblings go on. The
ceiling of open tasks counts both rows, and counts for ever those nobody
closes; the follow-up by `taskId` of `docs/A2A_REFERENCE.md` does not exist in
the code. The
push webhook, the state `input-required` and the deadline are in `TaskStore`;
here the reaper may find any open task overdue. The history load is
one step; it counts tasks, of which a message has two, and repairs nothing. A
child of a finished turn that still works keeps its slot: `NeverStuck` is about
handlers, `OutcomesSettled` about what such a child may belong to.

### BridgeStream

The workflow is reduced to what it publishes and returns (`stage`, `results`).
`at`, `topic`, `inbox`, `reader`, `heard` and `cancelSet` are the locals of
`stream_run_events` and of the handler around it; a message is delivered to the
pubsub objects that are subscribed when it is published, and to nobody else.
`EventStream` is the abstract promise, checked with `shown` as the shared
variable. Left out: the branch for an unavailable Redis, SSE's closing frame,
and a stop that falls between the stream's end and the handler noticing it,
except a disconnect. `run_start` and `ready` are published as one step.

### TokenCache

A copy is the ticks it has left. `at` cuts a lookup at every await. A lookup
takes at most `Delay` ticks from what it read to its last write: without such a
bound no bound on revocation holds, and the code has none beyond its clients'
timeouts. `Replies` is what the authentication service says: its user route is
mounted twice under `/users`, so the client's request finds nothing and
`get_user` returns `None`; both are instances. A user's cached state is
compared with `b"1"` although the client decodes its answers, and `get_user`
catches its errors, so the branch that fails open never runs. Edits of a label
or an expiry behave as any edit of the row. The JWT branch keeps no state.

### ContextCache

Artifacts are numbered by commit; a list is its newest number, a summary
likewise. Writers commit and then delete the list; a summariser may take the
list from the cache or from the database and write it back late. The webhook
records without deleting (`Push`). The list's key does not hold `limit`.
Overlapping summarisers may let an older summary overwrite a newer.

### CanvasGraph and Deployment

`CanvasGraph` is the pure part of the compiler: validation, agents within
reach, delegates, chains. `Deployment` makes each request three steps (read,
commit, flush), computes a commit from the request's own reading and applies it
to the rows as they are by then, as the ORM does; a constraint of the schema
makes it fail whole. `config` and `locator` are the two Redis keys a pod loads
an orchestrator through, `load` its load in progress. `Over` is what a table or
a hash is after rows were written to it. Two new rows of one name make a
commit fail as a row of a taken name does (`Collides`).

Left out: columns nothing else reads, `put_app_runtime`, a drawing in which a
label occurs both rebuilt and redrawn. The cross-application checks are made
with the commit, and an entry point re-created under its slug counts as the
same row. A request whose application vanished and that has nothing to write
answers 404 (`Refuse`). Read and noted only: a cycle of middleware makes
`app_compiler.py:175` loop for ever, so no drawing has one; an empty
`allowed_agent_ids` means every agent; ids of sub-orchestrators never reach it,
so `loaders.py:195` never offers a delegate; `compile_graph` flushes no chain.

## 3. Runs

Every bound is a constant with a comment in its module.

| Run | Instance | Shows |
|---|---|---|
| `gate_safety` | three sessions of an entry point, one of a blocked user, on two pods and a direct one; entry point cap 1, application cap 2 | `AdmissionBound`, `SlotBook`, `SoftCapOvershoot`, `OnlyGhostsRemoved` |
| `gate_faults` | two sessions, one raising call, one admin disconnect, one turn of the hour, two requests per user and hour, fair handlers | `Settles`, `DeliveredTerminates` |
| `orchestration` | two agents, four iterations, carry after two and then after each, budget passed by the third turn, one lost and retried result, a cancellation, any replies | `PlannerInputPaired`, `RolesBySeq`, `BudgetBound`, `RunsSettled`, `Terminates` |
| `orchestration_history` | two messages, an agent, a sub-orchestrator and an unknown tool, two activities that run out of attempts and a swallowed database error | `PlannerInputPaired` |
| `task_store` | both kinds of task, two pushes of four possible states, a cancel request, the reaper, a crash, a failing commit | `OwnerSettles`, `LatecomersNeverUndo`, `ReapedForGood` |
| `bridge_stream` | two clients, one on the direct socket and one on an entry point's socket or SSE stream, two runs of one token, one trouble (a lost publish, a stop, a further run) | `SeesAnEventStream` (refinement), `DoneIsTrue`, `NoWastedRun`, `StreamingEnds` |
| `token_cache` | two pods, two lookups, TTL 2, user TTL 1, delay 1, three edits, failing Redis, restarts | `RevokedStaysOut`, `DeactivatedStaysOut` |
| `a2a_runner` | two messages, two parallel calls, two iterations, window and ceiling 3, one fault, one row loaded by a cancel request or a sweep | `OutcomesSettled`, `NeverStuck`, `CleanHandover`, `AnswersAgree` |
| `deployment` | two applications, two requests at a time, three in all, three drawings | `Referential`, `SavedAsDrawn`, `CacheHonest`, `DrawnRowsSurvive`, `CacheConverges` |
| `remote_call` | one call, three attempts, five requests (typed or not, with a message or not, an answer of two pieces or of none, either route), two crashes, late deadlines, raised errors or edits, three chains | `PolledWhole`, `RowsAgree`, `GuardHeld`, `ActiveMeansRunning`, `WiringHolds`, `CallsEnd` |
| `model_turn` | any number of messages, both paths and families, two calls of two fragments, two attempts, two iterations, window 1 | `CallsAssembled`, `RefusedExactly`, `RefusalPasses`, `AnsweredTurnsKept` |
| `context_cache` | two summarisers, three artifacts, no fault | `CacheConsistent` is violated (section 5) |

Why the bounds are enough:

* The gate's races need a session that runs, one that prunes and one that is
  pruned, on two pods; a cap of one makes every second admission matter.
  `gate_safety` has no faults: that `AdmissionBound` survives a gate that fails
  open is the theorem `CapUpToEvictions`.
* In the workflow each iteration depends on earlier ones only through the
  counters and the messages; four iterations reach two carries, a turn planned
  from a carried transcript and the budget, and `orchestration_history` the
  iteration limit and a semaphore of one for two calls. `orchestration` has
  two attempts and one loss, so every activity may be retried;
  `orchestration_history` one attempt and two losses, so any two may run out
  of attempts. Two messages are what it takes for one to read the other's
  transcript; within one message the carry reads it as well.
* The task's races are between a pair of sessions around a third's write, and
  `task_store` has five sessions.
* A client of a stream meets one other client and one further run; with one
  token the token before, at and after a change of phase are all reached.
* Staleness of a token is a chain row, lookup, Redis, lookup, dictionary: two
  lookups on two pods. What the instance finds for these times the proofs say
  for all.
* Two messages share a context's history and ceiling; two calls make a
  `gather` one of whose members fails; two iterations a turn that reads one.
  One row loaded early and committed late contradicts the handler once; a race
  of CancelTask with the reaper is in `task_store`, and `OnlyOldRowsContradict`
  has any number of loads. The states are compared without `prior`, which no
  guard reads.
* Two requests at a time overlap in every way, a third sees their result; the
  drawings have a delegate, a chain of two, and slugs they share with the list
  form and slugs they do not.
* Three attempts have a first, a middle and a last; a chunk before and one
  after a poll make a half made artifact. Crashes, errors and edits are two in
  all: an error and the attempt after it, or an edit beside a lookup.
* `model_turn` forgets all but two transcripts, one more than its window.
  Its message counter goes round, so the run covers endless conversations.

Deadlock is checked in `model_turn`, which never stops. Elsewhere the system
may rest: sessions and calls end, a conversation rests when no message comes,
bounded faults and requests run out. That no wait in between lasts for ever is
what the liveness properties and `NeverStuck` say.

### Fairness

* `SessionGate`: `HandlerStep` of each session (asyncio runs ready coroutines;
  every step is a Redis call that returns or raises) and `Expire` (Redis expires
  keys with a TTL). No fairness for runs that finish, admins or crashes.
* `Orchestration`: the steps of the workflow and its activities. Every activity
  has a schedule-to-close timeout and bounded attempts, the wait for a person
  ten minutes; Temporal fires timers and replays workflows after a crash. No
  fairness for replies, cancellations or users. A child workflow has no timeout
  of its own; that it ends is this property of the child.
* `TaskStore`: the two steps of the reaper, whose loop catches every error.
* `BridgeStream`: the workflow (by `Terminates` of `Orchestration`), each
  client's stream and the end of its session. None for stops and losses.
* `Deployment`: each step of a request that was received (a request handler
  runs to its answer), the two fills of a load, and the expiry of the cached
  keys. None for editors.
* `RemoteCall`: the steps of each call, which include the deadline; the agent,
  administrators and crashes owe nothing.
* `A2aRunner`, `TokenCache`, `ModelTurn`, `ContextCache`: none; what they say
  is safety.

## 4. What is proved

For any number of sessions, pods, agents, users and requests, any caps, times
and bounds:

* `SessionGateProofs`: `TypeCorrect`; `CapUpToEvictions`, the bound on admitted
  sessions; `OvershootBounded`, the soft cap; `BookKept`, what a refused or
  ended session leaves; `GhostsOnly`, who is pruned.
  `AdmissionBound` alone is not inductive: that a new admission fits says
  nothing unless the running sessions are in the set the script counts. The
  invariant adds `SetWithinCap` and `HoldersCounted` (every running session that
  is not excused is in the set). `register`'s second `SADD` could break the
  first, but only puts back sessions that were evicted and so are excused.
  For the soft cap the invariant adds that a session yet to check counts
  everybody in the set as raced after its check, and that nobody who has not
  joined is counted (`JoinedAreRaced`).
* `OrchestrationProofs`: `TypeCorrect`; `RolesAlternate`, that the messages of a
  task alternate by `seq`; `BudgetKept`; `RunsAreSettled`; `InputPaired`, that
  every turn with tool calls the planner is shown has its results next to it.
  The invariant fixes
  where `seq` stands at each stage (`SeqInStep`, twice the iteration but one
  after a plan) and which kind of message a `seq` holds (`RolesBySeq` in every
  row, of abandoned attempts too); what the usage rows add up to against the
  counters (`BilledSoFar`: billed is at most the tokens counted plus one turn
  for each lost result, one more turn only once a planning turn was cancelled,
  and none follows it); that only the current row is at work (`RowsFollow`,
  `RowKnown`); and that children are closed by the step that ends their call
  (`ChildrenCounted`, `CallsOver`, `ResultsComplete`). For `InputPaired` it also
  says (`PInv`) that in every row, of other tasks too, a turn and its results are
  neighbours and belong to that row, and that nothing is stored ahead of the turn
  at hand unless a result was lost; the input is then the repaired history
  (`Sanitize` pairs every call it keeps) followed by the turns served.
  `FlattenSeq`, which joins the rows, is a recursive function: its equations are
  proved by induction over the parts (`Induct`, `Iterated`, `Flattened`), with the
  property as a set of numbers.
* `TaskStoreProofs`: `TypeCorrect`; `Settled`, that a handler leaves its task
  terminal; `TerminalUpToRaces`, that nobody who comes after a task became
  terminal undoes it. The invariant says that an open view of a terminal row
  belongs to a racer (`RacersHoldStaleViews`), and what the owner believes at
  each step while no commit failed and no agent parked the task (`OwnerKnows`):
  without it a write by the owner could be illegal and change nothing.
* `CacheProofs`, of the token cache: `TypeCorrect`; `RevocationHolds` and `DeactivationHolds`,
  that a token is accepted for less than 2 (TTL + Delay) - 1 ticks after its
  row or its user is off. The invariant (`AgesKept`) counts, for a copy in
  Redis, one in a dictionary and a lookup at each await, how long after the
  revocation it may still be there: every copy descends from a read of the
  enabled row by at most two fills.
* `CacheProofs`, of the context cache: `StalenessBounded`, that the cached list hides an
  artifact for at most its lifetime and one reader's delay, whatever races and
  fails. Consistency itself is refuted; this is what remains of it.
* `CacheProofs`, of the applications: `RowsHangTogether`, that `Referential`
  holds whatever requests overlap. A commit writes what its request planned when
  it read, so the invariant (`TablesKept`) says what is left of the plan by
  then: the ids it took are in no table and no other plan, the rows it read are
  gone or still the application's under the same name, and it links entry points
  only to rows it keeps or adds, none of them dropped. That the latter holds of
  what `compile_graph` and `_apply_entry_point_diff` compute are lemmas of their
  own (`PlacedIs`, `GraphPlanIs`, `ListPlanIs`), for any drawing. A unique index
  is stated by a number of keys, so that no two rows are alike is shown by
  cardinality (`NoTwoAlike`).
* `CacheProofs`, of what a save takes away: `DrawnRowsStay`, that
  `DrawnRowsSurvive`. The commit deletes what the reading planned, so the
  invariant (`DrawnInv`) is that a request between the two still has the drawing
  and the rows it planned from, and that no row to be deleted is drawn. A row
  a node was matched with is never dropped (`MatchedStays`); that a row with a
  drawn node is matched needs that the rows read have different nodes, which
  `TablesKept` gives. The property excepts a row
  named by a node whose id another row has; section 5 says when that happens.
* `CacheProofs`, of the cached orchestrators: `CacheStaysHonest`. `CacheHonest`
  says nothing of a load in progress; the invariant (`CacheInv`) adds that it
  holds what the database holds, unless its name is excused, and that the
  configuration it wrote is still under its key when it writes the locator. Each
  commit leaves every name it does not flush with the row it had
  (`SaveResolves`). The theorem has the hypothesis `ListNamesFree`: no template
  bears a name the list form generates for a row of its own. It is needed, see
  section 5.
* `ModelTurnProofs`: `CallsOwnArguments`, that every call the model began is made
  once, in order, with its own arguments; `RefusalsExact`, when a provider
  refuses a planning request; `RefusalsPass`, that refused messages cannot fill
  the window for ever; `RepairTakesOrphansOnly`, that the repair of the history
  takes nothing but turns that were cut short. The transcripts of the window
  hold turns of their own message's number, and within a window those numbers
  differ (`TasksInv`), so that in the joined window a turn's results are next to
  it or nowhere (`Chained`): the repair then takes exactly the turns without
  results, and what it leaves is a chain the provider accepts. The invariant also
  says that the memory of a turn is what was read of the history followed by what
  became of its own rows (`SentInv`), that a refused message leaves its user row
  and nothing else (`StreakInv`), and that the fragments of each call arrive in
  order and the calls begun are the first ones (`StreamInv`).
* `A2aRunnerProofs`: `TypeCorrect`; `OutcomesAreSettled`, what holds in the rows
  when a caller is told its task is completed; `OnlyOldRowsContradict`, that a
  task that is over stays over, and that its outcome changes only by a writer
  that loaded the row before it was; `HandoverIsClean`,
  that finished messages hand their turns over whole. The invariant
  (`PlaceInv`) says of each await what the caller's row, the run's row, the
  runner's task and the transcript are by then, as long as no write of the
  message failed (`OuterAt`, `RunAt`, `InnerAt`, `AnswerAt`), that nobody has a
  row loaded to cancel or fail it before it is given out and that an error without
  a text is one of the database (`SeenAt`, `ErredAt`), and that a child is
  at work outside the fan-out only beside a sibling that raised (`ChildrenAt`):
  the properties speak of the end, where none of this can be recovered. For the
  handover it adds (`PairedAt`) that a transcript holds its own message's entries
  and that a turn with calls has its results behind it or is the one being fanned
  out; that an error leaves the fan-out only after a failed write (`ChildrenAt`)
  is what makes it inductive. What follows an entry in its transcript follows it
  in the joined history (`JoinedNext`, by the same induction).
* `BridgeStreamProofs`: `ImplementsEventStream`, the refinement of
  `EventStream`: `shown` is the same variable in both, each step sends at most
  one event to one client, and that event may follow what was sent. The
  invariant says of a running reader that what it has sent and what it will
  read together are in order, and that a token in either was published, so that
  the next one has a higher number (`InOrder`, `Said`); that whoever may be sent
  a run's event was introduced to it (`Introduced`); and that a handler whose
  reader is still to send an event has not sent a last word itself, except at
  its very end, when `cancel_event` stops the reader after that one event
  (`Timely`). `DonesAreTrue` and `NoRunWasted`: a client told "done" has a
  run or a workflow that completed, and whoever left the direct socket has had
  the workflow cancelled or finds it closed. Their invariant (`OInv`) follows an
  outcome through the run's row, the workflow's result, what a reader is still
  to relay and what the handler holds, and rests on outcomes never being undone
  (`Settling`).
* `RemoteCallProofs`: `TypeCorrect`; `NeverStored`, that the response cache stays
  empty whatever chain is wired, which is why `AnsweredIsCached` of section 5
  fails; `PollsAreWhole`, that a polled answer arrives whole at its consumer;
  `RowsInAgreement`, what the child task, the step and the report say of the
  same call; `GuardsHold`, that a message a guard refuses or redacts never reaches the
  agent as it was; `ActiveOnlyWhileRunning`, that an agent is shown as active
  only while a call of either route shows it, or for an entry that a crash or a
  failed clear left; `WiringsHold`, that a chain read through the cache is one that
  was wired. For one call the invariant says where in the chain each await is
  (`Located`), which chunks were handed over and which are pending (`Whole`),
  what passed the guards (`Guarded`), and which rows of which attempt are open
  (`RowsKept`, `RowsOpen`, `RowsAgreeAt`). An attempt forgets its locals but not
  the rows of those before it, so the properties, which speak of all attempts,
  need the invariant to separate the two. How far a request gets through a
  chain is a recursive function over the chain's positions; its equations and
  what it bounds are proved by induction on the positions (`Induct`,
  `Iterated`), with the property as a set of numbers.

Assumptions: those the modules declare of their constants (disjoint sets,
finite sets of agents with a dearest turn, finite drawings in which no node
stands for a row, natural bounds), which the runs evaluate; and two hypotheses
that are part of a theorem's statement, `ContextConstants` (natural bounds) and
`ListNamesFree`.

By model checking only:

* liveness (`Settles`, `DeliveredTerminates`, `Terminates`, `ReapedForGood`,
  `StreamingEnds`, `CacheConverges`, `CallsEnd`) and what speaks of enabledness
  (`NeverStuck`), out of the prover's reach;
* `SavedAsDrawn`, which compares the walks of `ResolveAgents` and `ChainFrom`,
  recursive functions over a graph, with their definitions: what they compute
  for every graph is an induction over data.

## 5. Where code and documents part

Met while modelling. Each of the configurations named here states what the text
says and has a counterexample; `context_cache` is the one kept among the runs.

| Text | What the code does | Configuration, property |
|---|---|---|
| `context_service.py:131`, invalidation "guarantees cache consistency" | a reader that queried before the commit writes its list after the delete | `MCContextCache`, `CacheConsistent` |
| `runtime_manager.py:13`, strict cap | exceeded when a gate prunes a session whose hash is not written yet, or expired: nothing calls `touch()` | `MCSessionGateStrict`, `StrictCap` |
| `docs/REDIS.md:20`, active sessions of an application | sessions whose pod crashed stay, with no TTL | `MCSessionGateAppLeak`, `CrashedLeavesApp` |
| `docs/ARCHITECTURE.md:168`, `finalize_run` always runs | not on a cancellation of `gather` or of the wait, nor once it is itself cancelled | `MCOrchestrationLeak`, `NoRunLeaks` |
| `docs/ARCHITECTURE.md:179`, a reply unblocks the workflow | a reply given while other agents work is reset | `MCOrchestrationReply`, `AnswerUnblocks` |
| `README.md:124`, retries are idempotent | usage is recorded twice, and the stored turn is not the one acted on | `MCOrchestrationRetry`, `StoredAsPlanned` |
| `task_store.py:6`, transitions are guarded | not against a concurrent one | `MCTaskStoreGuarded`, `Guarded` |
| `bridge_client.py:165`, a final event is guaranteed | not in phase 1, whose deadline is looked at only when a message comes | `MCBridgeStreamHang`, `AlwaysTold` |
| `token_cache.py:104`, an active user is let in when the service cannot be reached | refused | `MCTokenCacheActive`, `ActiveUserAccepted` |
| `task_runner.py:412`, history excludes the current task | the A2A server's own task of the message is in it | `MCA2aRunnerOwn`, `OwnMessageOnce` |
| `a2a_server.py:261`, the loop is driven to completion | dropped at the first error event: run and inner task stay at work and count against the ceiling | `MCA2aRunnerDriven`, `DrivenToCompletion` |
| `admin_applications.py:831`, export and import round-trip | edges to other orchestrators and to middleware are not exported | `MCDeploymentRoundTrip`, `RoundTrip` |
| `admin_applications.py:485`, an orchestrator goes if no other entry point has it | a renamed entry point goes with the orchestrator of its old slug | `MCDeploymentListedEntriesExist`, `ListedEntriesExist` |
| `run_recorder.py:99`, `complete_step` completes the step | `input-required` is refused by the table's CHECK; the step stays running | `MCRemoteCallSteps`, `StepsClosed` |
| `activities.py:535`, the result is persisted | an artifact that grows after the first poll is recorded in part | `MCRemoteCallRecorded`, `RecordedWhole` |
| `db/013_agentic_middleware.sql:60`, a response cache | no answer is ever stored | `MCRemoteCallCache`, `AnsweredIsCached` |

`PlannerInputPaired` excludes by name the one case the retry of a planning turn
spoils: if the stored turn had no tool calls, the results recorded next answer
nothing, and the repaired history keeps them.

The save of a list of entry points flushes the names of the rows it read, which
are those of before (`expire_on_commit=False`, `database.py:56`), and not the
ones it generated for new rows. A template that is created under such a name
between the reading and the commit, and loaded, is served until its key expires,
though the row comes first. With `Watched` and `TemplateNames` the name
`<<"list", 0>>`, TLC finds `CacheHonest` violated; `deployment` has no such
template, and `CacheStaysHonest` excludes it by name.

A node is matched by its id first and by the row it names second, so the restore
of an exported file can delete a row the file names. Two overlapping saves can
leave a row under the node id a file gives to another row; when that other row
has been given a new id by the editor in between, the restore takes the first
row for the node and deletes the second. This takes more requests than
`deployment` makes; `DrawnRowsSurvive` states the exception, and `DrawnRowsStay`
shows it is the only one.

`AnswersAgree` of `A2aRunner` says who may contradict an answer, because the code
lets somebody: CancelTask, or the reaper, loads a task that works, the handler
commits `completed` and answers it, and `canceled` or `failed` is committed over
it (`task_store.py:122` reads without a lock and without a version). An exception
without a text completes the caller's task (`a2a_server.py:280`, `:286`). The last
answer of a conversation with an OpenAI-compatible provider is not in its
transcript (`task_runner.py:883`, `openai_compat.py:218`), so a later turn does
not see it. If the select of the first transition raises, a submitted task without
a handler remains, which the reaper may not fail.

A guard checks `input["message"]` only (`guard.py:39`); whatever else the input of
an agent with a schema of its own holds passes every guard as it is, and is sent
as data or as `str(input)` (`a2a_async_adapter.py:76`, `:88`). All inputs without
a message share a key of the response cache (`cache.py:26`). An agent that answers
with neither text nor file completes without an artifact (`activities.py:718`).

Noted without a model: an empty error text makes the REST handler complete the
task of a failed run (`apps.py:312`); the branch of the SSE entry point without
Temporal uses a name that is not defined (`apps.py`, around 479); a second
message to a running conversation is dropped; a person has ten minutes where
`README.md:126` says indefinitely; a revoked token lives longer than the five
minutes of `docs/AUTH.md:24` (section 4 has the bound); `ApplicationExport`
speaks of clones, which the slugs always refuse.

## 6. Not modelled

* **Authentication service.** Its statements and the deployed schema differ
  (`auth_audit.result`, `user_sessions.token_hash`, `users.user_type` and
  `source`, and two tables are missing), so most operations only fail: no audit
  entry is ever written, against `auth_service/README.md:12`, and
  creating, listing and reading users answer 500. Also read: a logout revokes
  its token before the audit verifies it; a token issued in the second of its
  predecessor's logout is the same token and blacklisted; `mcp_restrictions`
  cannot take anything from `['*']`. A model of what would run would be a model
  of failing statements; `TokenCache` takes its answers as given.
* **Agent registry's cache.** `get_enabled_agents` has no caller.
* **Non-Temporal branches of the entry points, the conversation budget, the
  rate limiter of the A2A endpoint.** Plain checks before what is modelled.
* **Voice and WebRTC, dashboards.** Forwarding, with no state of their own.
* **CRUD of agents and single columns.** One row, one statement.
* **Prompts, prices, rendering, frontend, migrations, operator scripts, what
  the sample agents compute.** Data and presentation. The constraints of the
  schema a model relies on are named where it does.

## 7. What is left

1. The push webhook and the state `input-required` in `A2aRunner`, which has the
   other writers of the caller's task.
2. Of `SavedAsDrawn`, the part that needs no walk: that the rows of an
   application are the orchestrators last drawn, and its entry points lead to
   theirs.
