---------------------------- MODULE BridgeStream ----------------------------
(***************************************************************************)
(* bridge_client: how a client's request starts or joins the workflow of   *)
(* its conversation and how the run's events reach the client over Redis   *)
(* pub/sub, with the handlers that stop the stream (cancel, disconnect, an *)
(* admin).  The workflow is reduced to what it publishes and returns.      *)
(***************************************************************************)
EXTENDS Naturals, Sequences, FiniteSets

CONSTANTS
  Clients,
  Transports, \* the transports each of them may come by
  MaxRuns,   \* bound: run rows the conversation's workflows get to make
  MaxTokens, \* bound: tokens of a run
  MaxTroubles \* bound: failures, stops and further runs together

\* WS /ws/orchestrate/{name}, WS and GET of /apps/{slug}.
Transport == {"direct", "entry", "sse"}
Runs == 1 .. MaxRuns

ASSUME ConstantsAssumption ==
  /\ IsFiniteSet(Clients) /\ Transports \in [Clients -> SUBSET Transport]
  /\ MaxRuns \in Nat \ {0} /\ MaxTokens \in Nat /\ MaxTroubles \in Nat

VARIABLES
  stage,       \* what the current workflow does next
  run, said,   \* its run row and the tokens published for it
  results,     \* outcome of every workflow of the conversation, in order
  cancelAsked, \* somebody asked Temporal to cancel the current workflow
  recorded,    \* status of each run row
  troubles,
  via,         \* the transport a client came by
  at,          \* where each handler is
  why,         \* what stopped a handler's stream
  handle,      \* the workflow a client holds
  runId,       \* the run it was introduced to
  topic,       \* the channel its pubsub is subscribed to
  inbox,       \* messages delivered to that pubsub and not yet read
  reader,      \* the task that relays them
  heard,       \* terminal_received
  cancelSet,   \* cancel_event
  gone,        \* the connection is closed
  shown        \* what the client was sent

workflowVars == <<stage, run, said, results, cancelAsked, recorded, troubles>>
clientVars == <<via, at, why, handle, runId, topic, inbox, reader, heard, cancelSet, gone,
                shown>>
vars == <<workflowVars, clientVars>>

\* Channels: the context's, a run's, or none.
Ctx == 0
NoTopic == MaxRuns + 1

Event(kind, r, n) == [kind |-> kind, run |-> r, n |-> n]
Terminal == {"done", "error"}

Init ==
  /\ stage = "none" /\ run = 0 /\ said = 0 /\ results = <<>>
  /\ cancelAsked = FALSE /\ recorded = [r \in Runs |-> "running"] /\ troubles = 0
  /\ via = [c \in Clients |-> "none"]
  /\ at = [c \in Clients |-> "idle"] /\ why = [c \in Clients |-> "none"]
  /\ handle = [c \in Clients |-> 0] /\ runId = [c \in Clients |-> 0]
  /\ topic = [c \in Clients |-> NoTopic]
  /\ inbox = [c \in Clients |-> <<>>] /\ reader = [c \in Clients |-> "none"]
  /\ heard = [c \in Clients |-> FALSE] /\ cancelSet = [c \in Clients |-> FALSE]
  /\ gone = [c \in Clients |-> FALSE] /\ shown = [c \in Clients |-> <<>>]

(***************************************************************************)
(* The workflow's side                                                     *)
(***************************************************************************)
Running(c) == reader[c] \in {"listening", "sending", "sendingLast"}

\* Some task of c will look at its pubsub again.
Reads(c) ==
  \/ at[c] \in {"starting", "attaching", "waiting", "leaving", "switching"}
  \/ Running(c)

Trouble == troubles < MaxTroubles /\ troubles' = troubles + 1

\* PUBLISH: every pubsub subscribed to the channel now, and no other, gets the
\* messages.  A publish that raises is logged and forgotten.
Publish(channel, messages) ==
  \/ /\ inbox' = [c \in Clients |-> IF topic[c] = channel /\ Reads(c)
                                    THEN inbox[c] \o messages ELSE inbox[c]]
     /\ UNCHANGED troubles
  \/ Trouble /\ UNCHANGED inbox

Quiet == UNCHANGED <<via, at, why, handle, runId, topic, reader, heard, cancelSet, gone, shown>>

\* init_run commits a run row of its own in every attempt and execution.
BeginRun ==
  /\ stage = "load" /\ run < MaxRuns
  /\ run' = run + 1 /\ said' = 0 /\ stage' = "begun"
  /\ IF run = 0 THEN UNCHANGED troubles ELSE Trouble
  /\ UNCHANGED <<results, cancelAsked, recorded, inbox>> /\ Quiet

\* run_start and ready, on the context's channel.
AnnounceContext ==
  /\ stage = "begun"
  /\ Publish(Ctx, <<Event("start", run, 0), Event("ready", run, 0)>>)
  /\ stage' = IF troubles' = troubles THEN "announced" ELSE "talk"
  /\ UNCHANGED <<run, said, results, cancelAsked, recorded>> /\ Quiet

\* ready, on the run's channel.
AnnounceRun ==
  /\ stage = "announced"
  /\ Publish(run, <<Event("ready", run, 0)>>)
  /\ stage' = "talk"
  /\ UNCHANGED <<run, said, results, cancelAsked, recorded>> /\ Quiet

PublishToken ==
  /\ stage = "talk" /\ said < MaxTokens
  /\ said' = said + 1
  /\ Publish(run, <<Event("token", run, said')>>)
  /\ UNCHANGED <<stage, run, results, cancelAsked, recorded>> /\ Quiet

\* The attempt of init_run is lost and retried, or the workflow continues as
\* new: another run row, announced to whoever is still on the context's channel.
Again ==
  /\ stage \in {"announced", "talk"} /\ run < MaxRuns /\ troubles < MaxTroubles
  /\ stage' = "load" /\ said' = 0
  /\ UNCHANGED <<run, results, cancelAsked, recorded, troubles, inbox>> /\ Quiet

\* finalize_run: the row, then the terminal event.
FinalizeRun(status) ==
  /\ stage = "talk"
  /\ recorded' = [recorded EXCEPT ![run] = status]
  /\ Publish(run, <<Event(IF status = "completed" THEN "done" ELSE "error", run, 0)>>)
  /\ stage' = "final" /\ said' = 0
  /\ UNCHANGED <<run, results, cancelAsked>> /\ Quiet

CloseWith(outcome) ==
  /\ stage' = "closed" /\ results' = [results EXCEPT ![Len(results)] = outcome]
  /\ UNCHANGED <<run, said, cancelAsked, recorded, inbox>> /\ Quiet

\* run() returns; or finalize_run ran out of attempts after publishing.
ReturnResult ==
  /\ stage = "final"
  /\ \/ CloseWith(recorded[run]) /\ UNCHANGED troubles
     \/ CloseWith("failed") /\ Trouble

\* load_orchestration_context failed: there is no run to finalise.
FailWhileLoading == stage = "load" /\ CloseWith("failed") /\ UNCHANGED troubles

\* A cancellation that passes finalize_run by, see Orchestration.
EscapeCancelled ==
  /\ cancelAsked /\ stage \in {"load", "begun", "announced", "talk", "final"}
  /\ CloseWith("failed") /\ UNCHANGED troubles

WorkflowStep ==
  \/ BeginRun \/ AnnounceContext \/ AnnounceRun \/ PublishToken \/ Again
  \/ \E status \in {"completed", "failed"} : FinalizeRun(status)
  \/ ReturnResult \/ FailWhileLoading \/ EscapeCancelled

(***************************************************************************)
(* start_orchestration_workflow                                            *)
(***************************************************************************)
Goto(c, from, to) == at[c] = from /\ at' = [at EXCEPT ![c] = to]
Tell(c, e) == shown' = [shown EXCEPT ![c] = Append(@, e)]

\* A send to a closed connection raises.  The edge passes that on, _ws_emit
\* catches it and sets cancel_event.
Socket(c) == via[c] \in {"direct", "entry"}
Broken(c) == Socket(c) /\ gone[c]
Emit(c, e) ==
  /\ IF Broken(c) THEN UNCHANGED shown ELSE Tell(c, e)
  /\ cancelSet' = [cancelSet EXCEPT ![c] = @ \/ (Broken(c) /\ via[c] = "entry")]
Raises(c) == Broken(c) /\ via[c] = "direct"

\* Subscribed before the workflow starts.
Subscribe(c) ==
  /\ Goto(c, "idle", "starting")
  /\ \E v \in Transports[c] : via' = [via EXCEPT ![c] = v]
  /\ topic' = [topic EXCEPT ![c] = Ctx]
  /\ UNCHANGED <<workflowVars, why, handle, runId, inbox, reader, heard, cancelSet, gone, shown>>

\* One workflow id per conversation; a closed workflow may be started anew.
StartWorkflow(c) ==
  /\ stage \in {"none", "closed"}
  /\ Goto(c, "starting", "waiting")
  /\ stage' = "load" /\ cancelAsked' = FALSE
  /\ results' = Append(results, "open")
  /\ handle' = [handle EXCEPT ![c] = Len(results')]
  /\ UNCHANGED <<run, said, recorded, troubles, via, why, runId, topic, inbox, reader, heard,
                 cancelSet, gone, shown>>

\* WorkflowAlreadyStartedError: the request joins the workflow that runs.
FindRunning(c) ==
  /\ stage \notin {"none", "closed"}
  /\ Goto(c, "starting", "attaching")
  /\ handle' = [handle EXCEPT ![c] = Len(results)]
  /\ UNCHANGED <<workflowVars, via, why, runId, topic, inbox, reader, heard, cancelSet, gone, shown>>

\* Temporal cannot be reached: an error and the end.
FailToStart(c) ==
  /\ Goto(c, "starting", "over")
  /\ Tell(c, Event("error", 0, 0)) /\ Trouble
  /\ UNCHANGED <<stage, run, said, results, cancelAsked, recorded, via, why, handle, runId,
                 topic, inbox, reader, heard, cancelSet, gone>>

\* describe(): DeadContextError once the workflow has closed.
Attach(c) ==
  /\ \/ /\ Goto(c, "attaching", "waiting") /\ results[handle[c]] = "open"
        /\ UNCHANGED shown
     \/ /\ Goto(c, "attaching", "over") /\ results[handle[c]] # "open"
        /\ Tell(c, Event("error", 0, 0))
  /\ UNCHANGED <<workflowVars, via, why, handle, runId, topic, inbox, reader, heard, cancelSet, gone>>

(***************************************************************************)
(* stream_run_events                                                       *)
(***************************************************************************)
\* What nobody will read is forgotten.
Drop(c) == inbox' = [inbox EXCEPT ![c] = <<>>]
Pop(c) == inbox' = [inbox EXCEPT ![c] = Tail(@)]

\* Phase 1: the first ready on the context's channel names the run.
TakeReady(c) ==
  /\ Goto(c, "waiting", IF Raises(c) THEN "ending" ELSE "leaving")
  /\ inbox[c] # <<>> /\ Head(inbox[c]).kind = "ready"
  /\ Pop(c) /\ Emit(c, Head(inbox[c]))
  /\ runId' = [runId EXCEPT ![c] = Head(inbox[c]).run]
  /\ UNCHANGED <<workflowVars, via, why, handle, topic, reader, heard, gone>>

\* Anything else is skipped, or shows that the fifteen seconds are over.
SkipEarly(c) ==
  /\ at[c] = "waiting" /\ inbox[c] # <<>> /\ Head(inbox[c]).kind # "ready"
  /\ Pop(c)
  /\ \/ UNCHANGED <<at, cancelSet, shown>>
     \/ Goto(c, "waiting", "ending") /\ Emit(c, Event("error", 0, 0))
  /\ UNCHANGED <<workflowVars, via, why, handle, runId, topic, reader, heard, gone>>

LeaveContext(c) ==
  /\ Goto(c, "leaving", "switching")
  /\ topic' = [topic EXCEPT ![c] = NoTopic]
  /\ UNCHANGED <<workflowVars, via, why, handle, runId, inbox, reader, heard, cancelSet, gone, shown>>

\* Phase 2: what the old channel had delivered stays in the inbox.
JoinRun(c) ==
  /\ Goto(c, "switching", "streaming")
  /\ topic' = [topic EXCEPT ![c] = runId[c]]
  /\ reader' = [reader EXCEPT ![c] = "listening"]
  /\ UNCHANGED <<workflowVars, via, why, handle, runId, inbox, heard, cancelSet, gone, shown>>

\* _reader emits an event.  A socket may keep it waiting in the send, a queue
\* does not.  The reader ends when the emit raises.
Relay(c) ==
  /\ reader[c] = "listening" /\ inbox[c] # <<>>
  /\ LET e == Head(inbox[c])
         last == e.kind \in Terminal
     IN /\ Emit(c, e)
        /\ heard' = [heard EXCEPT ![c] = last /\ ~Raises(c) /\ (via[c] = "sse" \/ Broken(c))]
        /\ reader' = [reader EXCEPT ![c] =
             IF Broken(c) \/ (last /\ via[c] = "sse") THEN "stopped"
             ELSE IF via[c] = "sse" THEN "listening"
             ELSE IF last THEN "sendingLast" ELSE "sending"]
  /\ IF reader'[c] \in {"stopped", "sendingLast"} THEN Drop(c) ELSE Pop(c)
  /\ UNCHANGED <<workflowVars, via, at, why, handle, runId, topic, gone>>

\* Mutant: cancel_event is not looked at.
SentIgnoresCancel(c) ==
  /\ reader[c] \in {"sending", "sendingLast"}
  /\ heard' = [heard EXCEPT ![c] = reader[c] = "sendingLast"]
  /\ reader' = [reader EXCEPT ![c] =
       IF reader[c] = "sendingLast" THEN "stopped" ELSE "listening"]
  /\ UNCHANGED <<workflowVars, via, at, why, handle, runId, topic, inbox, cancelSet, gone, shown>>

\* After the send: a terminal event or cancel_event ends the reader.
Sent(c) ==
  /\ reader[c] \in {"sending", "sendingLast"}
  /\ heard' = [heard EXCEPT ![c] = reader[c] = "sendingLast"]
  /\ reader' = [reader EXCEPT ![c] =
       IF reader[c] = "sendingLast" \/ cancelSet[c] THEN "stopped" ELSE "listening"]
  /\ IF reader'[c] = "stopped" THEN Drop(c) ELSE UNCHANGED inbox
  /\ UNCHANGED <<workflowVars, via, at, why, handle, runId, topic, cancelSet, gone, shown>>

\* What is left of the stream once asyncio.wait returns: the reader is stopped,
\* the channel left.
CloseStream(c) ==
  /\ Goto(c, "streaming", "ending")
  /\ topic' = [topic EXCEPT ![c] = NoTopic]
  /\ reader' = [reader EXCEPT ![c] = "stopped"] /\ Drop(c)
  /\ UNCHANGED <<workflowVars, via, why, handle, runId, heard, gone>>

ResultIn(c) == results[handle[c]] # "open"

\* The reader is done and the result is not in, or not needed.
FinishByReader(c) ==
  /\ CloseStream(c) /\ reader[c] = "stopped"
  /\ UNCHANGED <<shown, cancelSet>>

\* Mutant: any result is a success.
FinishByResultAsDone(c) ==
  /\ CloseStream(c) /\ ResultIn(c) /\ ~heard[c]
  /\ Emit(c, Event("done", runId[c], 0))

\* Mutant: the reader is waited for too.
FinishByResultAfterReader(c) ==
  /\ reader[c] = "stopped" /\ CloseStream(c) /\ ResultIn(c) /\ ~heard[c]
  /\ Emit(c, Event(IF results[handle[c]] = "completed" THEN "done" ELSE "error",
                   runId[c], 0))

\* The result is in and no terminal event was heard: it becomes one.
FinishByResult(c) ==
  /\ CloseStream(c) /\ ResultIn(c) /\ ~heard[c]
  /\ Emit(c, Event(IF results[handle[c]] = "completed" THEN "done" ELSE "error",
                   runId[c], 0))

(***************************************************************************)
(* The handlers around it                                                  *)
(***************************************************************************)
Streaming(c) == at[c] \in {"waiting", "leaving", "switching", "streaming"}

\* The connection breaks: receives and sends of the server fail from now on.
Leave(c) ==
  /\ Socket(c) /\ Streaming(c) /\ ~gone[c] /\ Trouble
  /\ gone' = [gone EXCEPT ![c] = TRUE] /\ why' = [why EXCEPT ![c] = "leave"]
  /\ UNCHANGED <<stage, run, said, results, cancelAsked, recorded, via, at, handle,
                 runId, topic, inbox, reader, heard, cancelSet, shown>>

\* The client's {"type": "cancel"}, its disconnect or an admin's signal comes
\* first: the stream task is cancelled.  Its reader, if it has one, is a task of
\* its own and goes on.
StopStream(c, reason) ==
  /\ Socket(c) /\ Streaming(c) /\ (reason = "leave" <=> gone[c])
  /\ IF reason = "leave" THEN UNCHANGED troubles ELSE Trouble
  /\ at' = [at EXCEPT ![c] = "stopping"] /\ why' = [why EXCEPT ![c] = reason]
  /\ cancelSet' = [cancelSet EXCEPT ![c] =
       @ \/ reason = "cancel" \/ (reason = "leave" /\ via[c] = "direct")]
  /\ IF Running(c) THEN UNCHANGED inbox ELSE Drop(c)
  /\ UNCHANGED <<stage, run, said, results, cancelAsked, recorded, via, handle, runId,
                 topic, reader, heard, gone, shown>>

\* Mutant: a stream that has ended needs no cancellation.
WantsCancelIfStopped(c) ==
  at[c] = "stopping" /\ (why[c] = "admin" \/ cancelSet[c])

\* Whether the handler has Temporal cancel the workflow: asyncio.wait returns
\* everything that is done, so a disconnect counts with the stream's end too.
WantsCancel(c) ==
  \/ why[c] = "admin" \/ cancelSet[c]
  \/ why[c] = "leave" /\ via[c] = "direct"

\* cancel_workflow, and what a Direct client or an admin's victim is told.
EndSession(c) ==
  /\ at[c] \in {"stopping", "ending"} /\ at' = [at EXCEPT ![c] = "over"]
  /\ cancelAsked' = (cancelAsked \/ (WantsCancel(c) /\ stage \notin {"none", "closed"}))
  /\ IF gone[c] \/ at[c] = "ending" THEN UNCHANGED <<shown, gone>>
     ELSE \/ /\ why[c] = "admin" /\ Tell(c, Event("terminated", 0, 0))
             /\ gone' = [gone EXCEPT ![c] = TRUE]
          \/ /\ why[c] = "cancel" /\ via[c] = "direct" /\ Tell(c, Event("canceled", 0, 0))
             /\ UNCHANGED gone
          \/ /\ why[c] = "cancel" /\ via[c] = "entry" /\ UNCHANGED <<shown, gone>>
  /\ IF Running(c) THEN UNCHANGED <<topic, heard, cancelSet>>
     ELSE /\ topic' = [topic EXCEPT ![c] = NoTopic]   \* nobody looks at them again
          /\ heard' = [heard EXCEPT ![c] = FALSE]
          /\ cancelSet' = [cancelSet EXCEPT ![c] = FALSE]
  /\ UNCHANGED <<stage, run, said, results, recorded, troubles, via, why, handle, runId,
                 inbox, reader>>

\* edge.close(), or the handler's return: only a reader it left notices.
CloseConnection(c) ==
  /\ at[c] = "over" /\ ~gone[c] /\ Running(c)
  /\ gone' = [gone EXCEPT ![c] = TRUE]
  /\ UNCHANGED <<workflowVars, via, at, why, handle, runId, topic, inbox, reader, heard,
                 cancelSet, shown>>

StartStep(c) ==
  \/ Subscribe(c) \/ StartWorkflow(c) \/ FindRunning(c) \/ FailToStart(c) \/ Attach(c)

StreamStep(c) ==
  \/ TakeReady(c) \/ SkipEarly(c) \/ LeaveContext(c) \/ JoinRun(c)
  \/ Relay(c) \/ Sent(c)
  \/ FinishByReader(c) \/ FinishByResult(c)

Next ==
  \/ WorkflowStep
  \/ \E c \in Clients :
       \/ StartStep(c) \/ StreamStep(c) \/ EndSession(c)
       \/ Leave(c) \/ CloseConnection(c)
       \/ \E reason \in {"cancel", "leave", "admin"} : StopStream(c, reason)

Spec == Init /\ [][Next]_vars

\* Temporal brings a workflow to its end (Orchestration's Terminates), and
\* asyncio runs the tasks that are ready.
FairSpec ==
  /\ Spec /\ WF_vars(WorkflowStep)
  /\ \A c \in Clients : WF_vars(StreamStep(c)) /\ WF_vars(EndSession(c))

(***************************************************************************)
(* Properties                                                              *)
(***************************************************************************)
\* What clients see keeps to EventStream: they are introduced to one run, its
\* tokens come in order, and at most one event follows a last word, although
\* readers outlive the streams they served and both the reader and the result
\* may report the end.
Promise == INSTANCE EventStream WITH Clients <- Clients, shown <- shown
SeesAnEventStream == Promise!Spec

\* A client is told done only when the run it was introduced to, or the workflow
\* it holds, has completed; the two differ when a client whose ready was lost
\* is still there for the next one.
DoneIsTrue ==
  \A c \in Clients : \A i \in DOMAIN shown[c] :
    shown[c][i].kind = "done" =>
      recorded[runId[c]] = "completed" \/ results[handle[c]] = "completed"

\* A stream that has joined its run ends: by the run's terminal event, or by the
\* workflow's result if that event was lost or sent to another channel.
StreamingEnds == \A c \in Clients : at[c] = "streaming" ~> at[c] # "streaming"

\* Nobody leaves a workflow running by leaving /ws/orchestrate: its handler
\* has it cancelled, whether the stream or the connection ended first.
NoWastedRun ==
  \A c \in Clients :
    /\ at[c] = "over" /\ why[c] = "leave" /\ via[c] = "direct" /\ handle[c] = Len(results)
    => cancelAsked \/ results[handle[c]] # "open"

-----------------------------------------------------------------------------
\* bridge_client.py: "Always emits the final done/error from
\* workflow_handle.result() as a guarantee": a client that waits for its run is
\* told something, unless it is the one who stops.
AlwaysTold ==
  \A c \in Clients : at[c] = "waiting" ~> shown[c] # <<>> \/ why[c] # "none"
=============================================================================
