------------------------------ MODULE TaskStore ------------------------------
(***************************************************************************)
(* One row of them.tasks and the sessions that write it: the handler that  *)
(* owns the task, CancelTask requests, push webhooks of the remote agent   *)
(* and the reaper, in any pod.                                             *)
(*                                                                         *)
(* transition() reads the row, checks the move against what it read and    *)
(* updates by primary key, without a lock or a version.  The read goes     *)
(* through the identity map of the SQLAlchemy session (expire_on_commit is *)
(* off): a row the session has loaded before keeps the attributes of then. *)
(* So each session checks its own view, however old.                       *)
(***************************************************************************)
EXTENDS FiniteSets, Naturals

CONSTANTS
  Owner,      \* the handler that creates the task and finalises it
  Reaper,     \* _reaper_loop
  Cancels,    \* CancelTask requests
  Pushes,     \* requests to the push webhook
  Reported,   \* states a remote agent may report, known ones or not
  MaxFaults   \* bound: commits that fail and recorder errors that roll back

Requests == Cancels \cup Pushes
Sessions == {Owner, Reaper} \cup Requests

ASSUME SessionsAssumption ==
  /\ Owner # Reaper /\ {Owner, Reaper} \cap Requests = {}
  /\ Cancels \cap Pushes = {}
  /\ MaxFaults \in Nat

VARIABLES
  kind,     \* "root" of A2A and REST, or "delegated" by invoke_agent
  state,    \* the row's state; "absent" before it is created
  overdue,  \* the row's deadline has passed; delegated tasks have none
  at,       \* where each session is
  view,     \* the state each session believes the row has; "none" if unloaded
  faults,
  \* History, read by the properties only:
  racers,   \* who had the row loaded when it last became terminal
  parked    \* a push moved the task to a state that is not terminal

vars == <<kind, state, overdue, at, view, faults, racers, parked>>

Terminal == {"completed", "failed", "canceled", "rejected"}
States == {"submitted", "working", "input-required"} \cup Terminal

\* Mutant: a working task can complete or be cancelled only.
AllowedNoFailure(from) ==
  CASE from = "submitted"      -> {"working", "canceled", "rejected"}
    [] from = "working"        -> {"input-required", "completed", "canceled"}
    [] from = "input-required" -> {"working", "canceled"}
    [] OTHER                   -> {}

\* Mutant: transition() takes whatever state it is given.
AllowedAny(from) == States \cup Reported

\* _TRANSITIONS
Allowed(from) ==
  CASE from = "submitted"      -> {"working", "canceled", "rejected"}
    [] from = "working"        -> {"input-required", "completed", "failed", "canceled"}
    [] from = "input-required" -> {"working", "canceled"}
    [] OTHER                   -> {}

Places == {"start", "created", "begun", "serving", "deciding", "done", "crashed"}

Init ==
  /\ kind \in {"root", "delegated"}
  /\ state = "absent" /\ overdue = FALSE
  /\ at = [s \in Sessions |-> "start"]
  /\ view = [s \in Sessions |-> "none"]
  /\ faults = 0 /\ racers = {} /\ parked = FALSE

(***************************************************************************)
(* task_store                                                              *)
(***************************************************************************)
Go(s, next) == at' = [at EXCEPT ![s] = next]

\* A session that goes away takes its identity map with it.
See(s, what) == view' = [view EXCEPT ![s] = what]

Loaded == {s \in Sessions : view[s] # "none"}

SetState(new) ==
  /\ state' = new
  /\ racers' = IF new \in Terminal /\ state \notin Terminal THEN Loaded ELSE racers

\* transition() after its read; next and seen are where the session goes and
\* what it believes then.  An illegal move is logged and changes nothing; a
\* failed commit rolls back, which expires what the session had loaded.
Transition(s, new, next, seen) ==
  \/ /\ new \in Allowed(view[s])
     /\ SetState(new) /\ See(s, seen) /\ UNCHANGED faults
     /\ Go(s, next)
  \/ /\ new \in Allowed(view[s])
     /\ faults < MaxFaults /\ faults' = faults + 1
     /\ See(s, "none") /\ UNCHANGED <<state, racers>>
     /\ Go(s, next)
  \/ /\ new \notin Allowed(view[s])
     /\ See(s, IF seen = "none" THEN "none" ELSE view[s])
     /\ UNCHANGED <<state, racers, faults>>
     /\ Go(s, next)

(***************************************************************************)
(* The owner                                                               *)
(***************************************************************************)
Create ==
  /\ at[Owner] = "start"
  /\ SetState("submitted") /\ See(Owner, "submitted") /\ Go(Owner, "created")
  /\ UNCHANGED <<kind, overdue, faults, parked>>

Begin ==
  /\ at[Owner] = "created"
  /\ Transition(Owner, "working", "begun", "working")
  /\ UNCHANGED <<kind, overdue, parked>>

\* db.refresh after the commit; a root task's handler then closes its session.
Refresh ==
  /\ at[Owner] = "begun"
  /\ See(Owner, IF kind = "root" \/ view[Owner] = "none" THEN "none" ELSE state)
  /\ Go(Owner, "serving")
  /\ UNCHANGED <<kind, state, overdue, faults, racers, parked>>

\* While the agent works, a recorder's error rolls the shared session back.
Rollback ==
  /\ at[Owner] = "serving" /\ view[Owner] # "none"
  /\ faults < MaxFaults /\ faults' = faults + 1
  /\ See(Owner, "none")
  /\ UNCHANGED <<kind, state, overdue, at, racers, parked>>

\* transition()'s select: the row itself, unless the session already has it.
Read ==
  /\ at[Owner] = "serving"
  /\ See(Owner, IF view[Owner] = "none" THEN state ELSE view[Owner])
  /\ Go(Owner, "deciding")
  /\ UNCHANGED <<kind, state, overdue, faults, racers, parked>>

Finish(outcome) ==
  /\ at[Owner] = "deciding"
  /\ Transition(Owner, outcome, "done", "none")
  /\ UNCHANGED <<kind, overdue, parked>>

\* The pod dies or, in invoke_agent, the activity is cancelled.
Crash ==
  /\ at[Owner] \notin {"start", "done", "crashed"}
  /\ See(Owner, "none") /\ Go(Owner, "crashed")
  /\ UNCHANGED <<kind, state, overdue, faults, racers, parked>>

(***************************************************************************)
(* CancelTask and the push webhook                                         *)
(***************************************************************************)
\* get_task; a task already terminal is refused, or accepted in silence.  Its
\* id is given out once the handler has put it to work.
Open(s) ==
  /\ at[s] = "start" /\ at[Owner] \notin {"start", "created"}
  /\ \/ /\ state \in Terminal
        /\ Go(s, "done") /\ UNCHANGED view
     \/ /\ state \notin Terminal
        /\ Go(s, "deciding") /\ See(s, state)
  /\ UNCHANGED <<kind, state, overdue, faults, racers, parked>>

Cancel(s) ==
  /\ at[s] = "deciding"
  /\ Transition(s, "canceled", "done", "none")
  /\ UNCHANGED <<kind, overdue, parked>>

Push(s, new) ==
  /\ at[s] = "deciding"
  /\ Transition(s, new, "done", "none")
  /\ parked' = (parked \/ (state' # state /\ state' \notin Terminal))
  /\ UNCHANGED <<kind, overdue>>

(***************************************************************************)
(* The reaper                                                              *)
(***************************************************************************)
DeadlinePasses ==
  /\ kind = "root" /\ state # "absent" /\ ~overdue
  /\ overdue' = TRUE
  /\ UNCHANGED <<kind, state, at, view, faults, racers, parked>>

\* The list of expired tasks is loaded once per sweep.
Sweep ==
  /\ at[Reaper] = "start"
  /\ overdue /\ state \in {"submitted", "working"}
  /\ See(Reaper, state) /\ Go(Reaper, "deciding")
  /\ UNCHANGED <<kind, state, overdue, faults, racers, parked>>

\* Mutant: an error ends the loop instead of the iteration.
ExpireOnce ==
  /\ at[Reaper] = "deciding"
  /\ Transition(Reaper, "failed", "done", "none")
  /\ UNCHANGED <<kind, overdue, parked>>

Expire ==
  /\ at[Reaper] = "deciding"
  /\ Transition(Reaper, "failed", "start", "none")
  /\ UNCHANGED <<kind, overdue, parked>>

-----------------------------------------------------------------------------
OwnerStep ==
  \/ Create \/ Begin \/ Refresh \/ Rollback \/ Read
  \/ \E outcome \in {"completed", "failed"} : Finish(outcome)
  \/ Crash

RequestStep ==
  \/ \E s \in Requests : Open(s)
  \/ \E s \in Cancels : Cancel(s)
  \/ \E s \in Pushes, new \in Reported : Push(s, new)

Next == OwnerStep \/ RequestStep \/ DeadlinePasses \/ Sweep \/ Expire

Spec == Init /\ [][Next]_vars

\* The reaper's loop sleeps 60 seconds between sweeps and survives its errors.
FairSpec == Spec /\ WF_vars(Sweep) /\ WF_vars(Expire)

(***************************************************************************)
(* Properties                                                              *)
(***************************************************************************)
\* The row only ever holds a state its CHECK constraint accepts, whatever a
\* remote agent reports.
TypeOK ==
  /\ kind \in {"root", "delegated"} /\ overdue \in BOOLEAN /\ parked \in BOOLEAN
  /\ state \in States \cup {"absent"}
  /\ at \in [Sessions -> Places]
  /\ view \in [Sessions -> States \cup {"none"}]
  /\ faults \in 0 .. MaxFaults /\ racers \subseteq Sessions

\* A handler that finalised its task leaves it terminal, with requests and the
\* reaper racing it: only an agent that parks the task or a failing commit can
\* keep it open.
OwnerSettles ==
  at[Owner] = "done" /\ faults = 0 /\ ~parked => state \in Terminal

\* A terminal state is undone only by a session that had the row loaded when
\* it became terminal: whoever comes later never undoes it.
LatecomersNeverUndo ==
  [][state' # state /\ state \in Terminal =>
       (\E s \in racers : at'[s] # at[s])]_vars

\* The reaper never leaves an overdue task working for good, whichever stale
\* session puts it back to work.
ReapedForGood == <>[](overdue => state # "working")

\* task_store: state transitions are guarded, illegal moves are rejected.
Guarded ==
  [][state' # state => state = "absent" \/ state' \in Allowed(state)]_vars

=============================================================================
