-------------------------- MODULE BridgeStreamProofs --------------------------
(***************************************************************************)
(* BridgeStream implements EventStream, for any clients, transports, runs, *)
(* tokens and troubles: what a client is sent is introduced, in order, and *)
(* at most one event follows a last word.  A client is told done only when *)
(* something completed, and none leaves its workflow running by leaving.   *)
(***************************************************************************)
EXTENDS BridgeStream, TLAPS

Stages == {"none", "load", "begun", "announced", "talk", "final", "closed"}
Early == {"starting", "attaching", "waiting"}
Between == {"leaving", "switching"}
Places == {"idle", "streaming", "stopping", "ending", "over"} \cup Early \cup Between
Readers == {"none", "listening", "sending", "sendingLast", "stopped"}
Reasons == {"cancel", "leave", "admin"}

Opening == {"start", "ready"}
Relayed == Opening \cup Terminal \cup {"token"}
LastWords == Terminal \cup {"canceled", "terminated"}
Events == [kind : Relayed \cup LastWords, run : 0 .. MaxRuns, n : 0 .. MaxTokens]

TypeInv ==
  /\ stage \in Stages /\ run \in 0 .. MaxRuns /\ said \in 0 .. MaxTokens
  /\ via \in [Clients -> Transport \cup {"none"}]
  /\ at \in [Clients -> Places] /\ why \in [Clients -> Reasons \cup {"none"}]
  /\ runId \in [Clients -> 0 .. MaxRuns] /\ topic \in [Clients -> 0 .. MaxRuns + 1]
  /\ inbox \in [Clients -> Seq(Events)] /\ reader \in [Clients -> Readers]
  /\ cancelSet \in [Clients -> BOOLEAN] /\ gone \in [Clients -> BOOLEAN]
  /\ shown \in [Clients -> Seq(Events)]

\* There is a run to publish for, and nothing was said before it is announced.
RunBegun ==
  /\ stage \in {"begun", "announced", "talk", "final"} => run \in Runs
  /\ stage \in {"begun", "announced"} => said = 0

\* A token that was published: nothing of its run is announced after it, and
\* what is said after it has a higher number.
Said(e) ==
  \/ e.run < run
  \/ e.run = run /\ \/ stage \in {"load", "final", "closed"}
                    \/ stage = "talk" /\ e.n <= said

\* Where a handler is tells its reader, its channel and why it stops.
Placed(c) ==
  /\ at[c] = "idle" => inbox[c] = <<>>
  /\ at[c] \in {"idle"} \cup Early => shown[c] = <<>>
  /\ at[c] \in {"idle"} \cup Early \cup Between => reader[c] = "none"
  /\ at[c] \in Early \cup {"leaving"} => topic[c] = Ctx
  /\ at[c] = "switching" => topic[c] = NoTopic
  /\ at[c] \in Between => runId[c] \in Runs
  /\ Running(c) => runId[c] \in Runs /\ topic[c] = runId[c]
  /\ at[c] = "ending" => ~Running(c)
  /\ at[c] = "stopping" => /\ Socket(c) /\ why[c] \in Reasons
                           /\ why[c] = "cancel" => cancelSet[c]
                           /\ why[c] = "leave" <=> gone[c]
  /\ at[c] = "over" /\ Running(c) => Socket(c)

\* A client that may be sent an event of a run was introduced to it, unless its
\* connection broke before.
Introduced(c) ==
  /\ at[c] \in Between => \A i \in DOMAIN shown[c] : shown[c][i].kind = "ready"
  /\ at[c] \in Between \/ Running(c) =>
       Broken(c) \/ (/\ shown[c] # <<>> /\ shown[c][1].kind = "ready"
                     /\ shown[c][1].run = runId[c])

\* The context's channel carries announcements only.
EarlyQueue(c) ==
  at[c] \in Early \cup Between =>
    \A i \in DOMAIN inbox[c] : inbox[c][i].kind \in Opening /\ inbox[c][i].run \in Runs

\* e may come after the token t.
After(t, e) == e.kind \notin Opening /\ (e.kind = "token" => t.n < e.n)

\* What a running reader has sent and what it will read: announcements, the
\* tokens of the client's run in order, its end.
InOrder(c) ==
  Running(c) =>
    /\ \A i \in DOMAIN inbox[c] :
         /\ inbox[c][i].kind \in Relayed
         /\ inbox[c][i].kind = "token" => inbox[c][i].run = runId[c] /\ Said(inbox[c][i])
    /\ \A i, j \in DOMAIN inbox[c] :
         i < j /\ inbox[c][i].kind = "token" => After(inbox[c][i], inbox[c][j])
    /\ \A i \in DOMAIN shown[c] :
         shown[c][i].kind = "token" =>
           /\ shown[c][i].run = runId[c] /\ Said(shown[c][i])
           /\ \A j \in DOMAIN inbox[c] : After(shown[c][i], inbox[c][j])

\* While anything may still be sent, at most the very last event is a last word.
Timely(c) ==
  /\ at[c] \in {"streaming", "stopping"} =>
       /\ Promise!OnTime(shown[c])
       /\ reader[c] \in {"listening", "sending"} => ~Promise!Ended(shown[c])
  /\ at[c] = "over" /\ Running(c) /\ ~gone[c] =>
       /\ cancelSet[c]
       /\ reader[c] = "listening" => Promise!OnTime(shown[c])

ClientInv(c) == Placed(c) /\ Introduced(c) /\ EarlyQueue(c) /\ InOrder(c) /\ Timely(c)

IInv == TypeInv /\ RunBegun /\ \A c \in Clients : ClientInv(c)

(***************************************************************************)
(* Helpers                                                                 *)
(***************************************************************************)
\* Nothing of a client changed but what its pubsub was delivered, or nothing.
Kept(c) ==
  /\ via'[c] = via[c] /\ at'[c] = at[c] /\ why'[c] = why[c] /\ runId'[c] = runId[c]
  /\ topic'[c] = topic[c] /\ reader'[c] = reader[c] /\ cancelSet'[c] = cancelSet[c]
  /\ gone'[c] = gone[c] /\ shown'[c] = shown[c]
Untouched(c) == Kept(c) /\ inbox'[c] = inbox[c]

SaidGrows == \A e \in Events : Said(e) => Said(e)'

LEMMA EventInEvents ==
  ASSUME NEW k \in Relayed \cup LastWords, NEW r \in 0 .. MaxRuns, NEW n \in 0 .. MaxTokens
  PROVE  /\ Event(k, r, n) \in Events
         /\ Event(k, r, n).kind = k /\ Event(k, r, n).run = r /\ Event(k, r, n).n = n
BY DEF Event, Events

LEMMA Numbers == /\ 0 \in 0 .. MaxRuns /\ 0 \in 0 .. MaxTokens /\ NoTopic \in 0 .. MaxRuns + 1
                 /\ Runs \subseteq 0 .. MaxRuns /\ Ctx \notin Runs /\ NoTopic \notin Runs
                 /\ Ctx \in 0 .. MaxRuns + 1 /\ NoTopic # Ctx
BY ConstantsAssumption DEF NoTopic, Ctx, Runs

LEMMA InitInv == Init => IInv
<1> SUFFICES ASSUME Init PROVE IInv
  OBVIOUS
<1>1. TypeInv
  BY Numbers DEF Init, TypeInv, Stages, Places, Readers
<1>2. RunBegun /\ \A c \in Clients : ClientInv(c)
  BY DEF Init, RunBegun, ClientInv, Placed, Introduced, EarlyQueue, InOrder, Timely, Running,
         Early, Between
<1>3. QED  BY <1>1, <1>2 DEF IInv

\* A client whom a step does not touch keeps its invariant, as the run only
\* goes on.
LEMMA Framed ==
  ASSUME TypeInv, NEW c \in Clients, ClientInv(c), Untouched(c), SaidGrows
  PROVE  ClientInv(c)'
<1> USE DEF Untouched, Kept, ClientInv, Running, Socket
<1>1. Placed(c)' /\ Introduced(c)' /\ EarlyQueue(c)' /\ Timely(c)'
  BY DEF Placed, Introduced, EarlyQueue, Timely, Broken
<1>2. /\ \A i \in DOMAIN inbox[c] : inbox[c][i] \in Events
      /\ \A i \in DOMAIN shown[c] : shown[c][i] \in Events
  BY DEF TypeInv
<1>3. InOrder(c)'
  BY <1>2 DEF InOrder, SaidGrows, After
<1>4. QED  BY <1>1, <1>3

(***************************************************************************)
(* The workflow's side                                                     *)
(***************************************************************************)
\* Announcements delivered to a client on the context's channel.
LEMMA DeliveredEarly ==
  ASSUME TypeInv, NEW c \in Clients, ClientInv(c), Kept(c), ~Running(c),
         NEW ms \in Seq(Events), inbox'[c] = inbox[c] \o ms, at[c] # "idle",
         \A i \in DOMAIN ms : ms[i].kind \in Opening /\ ms[i].run \in Runs
  PROVE  ClientInv(c)'
<1> USE DEF Kept, ClientInv, Running, Socket
<1>1. Placed(c)' /\ Introduced(c)' /\ Timely(c)' /\ InOrder(c)'
  BY DEF Placed, Introduced, InOrder, Timely, Broken
<1>2. EarlyQueue(c)'
  <2> SUFFICES ASSUME at[c] \in Early \cup Between, NEW i \in DOMAIN inbox'[c]
               PROVE  inbox'[c][i].kind \in Opening /\ inbox'[c][i].run \in Runs
    BY DEF EarlyQueue
  <2>1. inbox[c] \in Seq(Events)
    BY DEF TypeInv
  <2>2. CASE i \in DOMAIN inbox[c]
    BY <2>1, <2>2 DEF EarlyQueue
  <2>3. CASE i \notin DOMAIN inbox[c]
    <3>1. i - Len(inbox[c]) \in DOMAIN ms /\ inbox'[c][i] = ms[i - Len(inbox[c])]
      BY <2>1, <2>3
    <3>2. QED  BY <3>1
  <2>4. QED  BY <2>2, <2>3
<1>3. QED  BY <1>1, <1>2

\* One event delivered to a reader on its run's channel.
LEMMA DeliveredLate ==
  ASSUME TypeInv, NEW c \in Clients, ClientInv(c), Kept(c), Running(c), SaidGrows,
         NEW e \in Events, inbox'[c] = inbox[c] \o <<e>>,
         e.kind \in Relayed, e.kind = "token" => e.run = runId[c] /\ Said(e)',
         \A i \in DOMAIN inbox[c] : inbox[c][i].kind = "token" => After(inbox[c][i], e),
         \A i \in DOMAIN shown[c] : shown[c][i].kind = "token" => After(shown[c][i], e)
  PROVE  ClientInv(c)'
<1> USE DEF Kept, ClientInv, Running, Socket
<1>1. Placed(c)' /\ Introduced(c)' /\ Timely(c)' /\ EarlyQueue(c)'
  BY DEF Placed, Introduced, EarlyQueue, Timely, Broken, Early, Between
<1>2. /\ inbox[c] \in Seq(Events) /\ shown[c] \in Seq(Events)
      /\ \A i \in DOMAIN inbox[c] : inbox[c][i] \in Events
      /\ \A i \in DOMAIN shown[c] : shown[c][i] \in Events
  BY DEF TypeInv
<1>3. /\ DOMAIN inbox'[c] = 1 .. Len(inbox[c]) + 1
      /\ \A i \in DOMAIN inbox[c] : inbox'[c][i] = inbox[c][i]
      /\ inbox'[c][Len(inbox[c]) + 1] = e
      /\ DOMAIN inbox[c] = 1 .. Len(inbox[c]) /\ Len(inbox[c]) \in Nat
  BY <1>2
<1>4. \A i \in DOMAIN inbox'[c] :
         /\ inbox'[c][i].kind \in Relayed
         /\ inbox'[c][i].kind = "token" => inbox'[c][i].run = runId[c] /\ Said(inbox[c][i])'
  <2> SUFFICES ASSUME NEW i \in DOMAIN inbox'[c]
               PROVE  /\ inbox'[c][i].kind \in Relayed
                      /\ inbox'[c][i].kind = "token" =>
                           inbox'[c][i].run = runId[c] /\ Said(inbox[c][i])'
    OBVIOUS
  <2>1. CASE i \in DOMAIN inbox[c]
    BY <1>2, <1>3, <2>1 DEF InOrder, SaidGrows, Said
  <2>2. CASE i = Len(inbox[c]) + 1
    BY <1>3, <2>2 DEF Said
  <2>3. QED  BY <1>3, <2>1, <2>2
<1>5. \A i, j \in DOMAIN inbox'[c] :
         i < j /\ inbox'[c][i].kind = "token" => After(inbox'[c][i], inbox'[c][j])
  <2> SUFFICES ASSUME NEW i \in DOMAIN inbox'[c], NEW j \in DOMAIN inbox'[c],
                      i < j, inbox'[c][i].kind = "token"
               PROVE  After(inbox'[c][i], inbox'[c][j])
    OBVIOUS
  <2>1. i \in DOMAIN inbox[c]
    BY <1>3
  <2>2. CASE j \in DOMAIN inbox[c]
    BY <1>3, <2>1, <2>2 DEF InOrder
  <2>3. CASE j = Len(inbox[c]) + 1
    BY <1>3, <2>1, <2>3
  <2>4. QED  BY <1>3, <2>2, <2>3
<1>6. ASSUME NEW i \in DOMAIN shown[c], shown[c][i].kind = "token"
      PROVE  /\ shown[c][i].run = runId[c] /\ Said(shown[c][i])'
             /\ \A j \in DOMAIN inbox'[c] : After(shown[c][i], inbox'[c][j])
  <2>1. shown[c][i].run = runId[c] /\ Said(shown[c][i])'
    BY <1>2, <1>6 DEF InOrder, SaidGrows, Said
  <2>2. ASSUME NEW j \in DOMAIN inbox'[c] PROVE After(shown[c][i], inbox'[c][j])
    <3>1. CASE j \in DOMAIN inbox[c]
      BY <1>3, <1>6, <3>1 DEF InOrder
    <3>2. CASE j = Len(inbox[c]) + 1
      BY <1>3, <1>6, <3>2
    <3>3. QED  BY <1>3, <3>1, <3>2
  <2>3. QED  BY <2>1, <2>2
<1>7. InOrder(c)'
  BY <1>4, <1>5, <1>6 DEF InOrder
<1>8. QED  BY <1>1, <1>7

\* The pubsubs hold events, whatever is published.
LEMMA PublishTypes ==
  ASSUME TypeInv, NEW channel, NEW ms \in Seq(Events), Publish(channel, ms)
  PROVE  inbox' \in [Clients -> Seq(Events)]
<1>1. CASE UNCHANGED inbox
  BY <1>1 DEF TypeInv
<1>2. CASE inbox' = [c \in Clients |-> IF topic[c] = channel /\ Reads(c)
                                       THEN inbox[c] \o ms ELSE inbox[c]]
  <2>1. \A c \in Clients : inbox[c] \in Seq(Events) /\ inbox[c] \o ms \in Seq(Events)
    BY DEF TypeInv
  <2>2. QED  BY <1>2, <2>1
<1>3. QED  BY <1>1, <1>2 DEF Publish

LEMMA WorkflowTypes == ASSUME TypeInv, RunBegun, WorkflowStep PROVE TypeInv' /\ RunBegun'
<1> USE ConstantsAssumption, Numbers DEF TypeInv, RunBegun, Quiet, Stages, Runs
<1>1. CASE BeginRun
  BY <1>1 DEF BeginRun
<1>2. CASE AnnounceContext
  <2>1. run \in 0 .. MaxRuns /\ run \in Runs
    BY <1>2 DEF AnnounceContext
  <2>2. <<Event("start", run, 0), Event("ready", run, 0)>> \in Seq(Events)
    <3>1. Event("start", run, 0) \in Events /\ Event("ready", run, 0) \in Events
      BY <2>1 DEF Event, Events, Relayed, Opening
    <3>2. QED  BY <3>1
  <2>3. inbox' \in [Clients -> Seq(Events)]
    BY <1>2, <2>2, PublishTypes DEF AnnounceContext
  <2>4. QED  BY <1>2, <2>3 DEF AnnounceContext
<1>3. CASE AnnounceRun
  <2>1. Event("ready", run, 0) \in Events
    BY DEF Event, Events, Relayed, Opening
  <2>2. <<Event("ready", run, 0)>> \in Seq(Events)
    BY <2>1
  <2>3. inbox' \in [Clients -> Seq(Events)]
    BY <1>3, <2>2, PublishTypes DEF AnnounceRun
  <2>4. QED  BY <1>3, <2>3 DEF AnnounceRun
<1>4. CASE PublishToken
  <2>1. said' \in 0 .. MaxTokens
    BY <1>4 DEF PublishToken
  <2>2. Event("token", run, said') \in Events
    BY <2>1 DEF Event, Events, Relayed
  <2>3. <<Event("token", run, said')>> \in Seq(Events)
    BY <2>2
  <2>4. inbox' \in [Clients -> Seq(Events)]
    BY <1>4, <2>3, PublishTypes DEF PublishToken
  <2>5. QED  BY <1>4, <2>1, <2>4 DEF PublishToken
<1>5. CASE Again
  BY <1>5 DEF Again
<1>6. ASSUME NEW status, FinalizeRun(status) PROVE TypeInv' /\ RunBegun'
  <2> DEFINE last == IF status = "completed" THEN "done" ELSE "error"
  <2>1. Event(last, run, 0) \in Events
    BY DEF Event, Events, Relayed, Terminal
  <2>2. <<Event(last, run, 0)>> \in Seq(Events)
    BY <2>1
  <2>3. inbox' \in [Clients -> Seq(Events)]
    BY <1>6, <2>2, PublishTypes DEF FinalizeRun
  <2>4. QED  BY <1>6, <2>3 DEF FinalizeRun
<1>7. CASE ReturnResult \/ FailWhileLoading \/ EscapeCancelled
  BY <1>7 DEF ReturnResult, FailWhileLoading, EscapeCancelled, CloseWith
<1>8. QED
  BY <1>1, <1>2, <1>3, <1>4, <1>5, <1>6, <1>7 DEF WorkflowStep

\* What was said stays said.
LEMMA WorkflowSaid == ASSUME TypeInv, RunBegun, WorkflowStep PROVE SaidGrows
<1> SUFFICES ASSUME NEW e \in Events, Said(e) PROVE Said(e)'
  BY DEF SaidGrows
<1>1. e.run \in Nat /\ e.n \in Nat
  BY DEF Events
<1>2. QED
  BY <1>1, Numbers
     DEF WorkflowStep, BeginRun, AnnounceContext, AnnounceRun, PublishToken, Again, FinalizeRun,
         ReturnResult, FailWhileLoading, EscapeCancelled, CloseWith, Said, TypeInv, RunBegun

\* Whom a message reaches: on the context's channel those who wait, on a run's
\* those whose reader relays it.
LEMMA Reached ==
  ASSUME TypeInv, NEW c \in Clients, Placed(c), Reads(c)
  PROVE  /\ topic[c] = Ctx => ~Running(c) /\ at[c] # "idle"
         /\ topic[c] \in Runs => Running(c) /\ runId[c] = topic[c]
BY Numbers DEF Placed, Reads, Running, Early, Between

LEMMA WorkflowClients ==
  ASSUME TypeInv, RunBegun, \A d \in Clients : ClientInv(d), WorkflowStep, NEW c \in Clients
  PROVE  ClientInv(c)'
<1>1. Kept(c)
  BY DEF WorkflowStep, BeginRun, AnnounceContext, AnnounceRun, PublishToken, Again, FinalizeRun,
         ReturnResult, FailWhileLoading, EscapeCancelled, CloseWith, Quiet, Kept
<1>2. SaidGrows /\ ClientInv(c)
  BY WorkflowSaid
<1>3. CASE inbox'[c] = inbox[c]
  BY <1>1, <1>2, <1>3, Framed DEF Untouched
<1>4. inbox \in [Clients -> Seq(Events)] /\ run \in 0 .. MaxRuns
  BY DEF TypeInv
<1>5. CASE AnnounceContext /\ inbox'[c] # inbox[c]
  <2> DEFINE ms == <<Event("start", run, 0), Event("ready", run, 0)>>
  <2>1. run \in Runs
    BY <1>5 DEF AnnounceContext, RunBegun
  <2>2. /\ Event("start", run, 0) \in Events /\ Event("ready", run, 0) \in Events
        /\ Event("start", run, 0).kind = "start" /\ Event("ready", run, 0).kind = "ready"
        /\ Event("start", run, 0).run = run /\ Event("ready", run, 0).run = run
    BY <1>4, Numbers DEF Event, Events, Relayed, Opening
  <2>3. /\ ms \in Seq(Events)
        /\ \A i \in DOMAIN ms : ms[i].kind \in Opening /\ ms[i].run \in Runs
    <3>1. ms \in Seq(Events) /\ DOMAIN ms = {1, 2}
      BY <2>2
    <3>2. QED  BY <2>1, <2>2, <3>1 DEF Opening
  <2>4. topic[c] = Ctx /\ Reads(c) /\ inbox'[c] = inbox[c] \o ms
    BY <1>5, <1>4 DEF AnnounceContext, Publish
  <2>5. ~Running(c) /\ at[c] # "idle"
    BY <1>2, <2>4, Reached DEF ClientInv
  <2>6. QED
    BY <1>1, <1>2, <2>3, <2>4, <2>5, DeliveredEarly
<1>6. CASE AnnounceRun /\ inbox'[c] # inbox[c]
  <2> PICK e \in Events : e = Event("ready", run, 0)
    BY <1>4, Numbers DEF Event, Events, Relayed, Opening
  <2>1. e \in Events /\ e.kind = "ready" /\ e.kind \in Relayed
    BY <1>4, Numbers DEF Event, Events, Relayed, Opening
  <2>2. stage = "announced" /\ run \in Runs
    BY <1>6 DEF AnnounceRun, RunBegun
  <2>3. topic[c] = run /\ Reads(c) /\ inbox'[c] = inbox[c] \o <<e>>
    BY <1>6, <1>4 DEF AnnounceRun, Publish
  <2>4. Running(c) /\ runId[c] = run
    BY <1>2, <2>2, <2>3, Reached DEF ClientInv
  <2>5. \A t \in Events : t.run = run => ~Said(t)
    BY <2>2, <1>4 DEF Said, Events
  <2>6. /\ \A i \in DOMAIN inbox[c] : inbox[c][i].kind # "token"
        /\ \A i \in DOMAIN shown[c] : shown[c][i].kind # "token"
    BY <1>2, <2>4, <2>5 DEF ClientInv, InOrder, TypeInv
  <2>7. QED
    BY <1>1, <1>2, <2>1, <2>3, <2>4, <2>6, DeliveredLate
<1>7. CASE PublishToken /\ inbox'[c] # inbox[c]
  <2>0. Event("token", run, said') \in Events
    BY <1>7, <1>4, ConstantsAssumption DEF PublishToken, TypeInv, Event, Events, Relayed
  <2> PICK e \in Events : e = Event("token", run, said')
    BY <2>0
  <2>1. stage = "talk" /\ run \in Runs /\ said' = said + 1 /\ said \in Nat /\ said' \in 0 .. MaxTokens
    BY <1>7, ConstantsAssumption DEF PublishToken, RunBegun, TypeInv
  <2>2. /\ e \in Events /\ e.kind = "token" /\ e.kind \in Relayed /\ e.kind \notin Opening
        /\ e.run = run /\ e.n = said + 1
    BY <1>4, <2>1 DEF Event, Events, Relayed, Opening
  <2>3. topic[c] = run /\ Reads(c) /\ inbox'[c] = inbox[c] \o <<e>>
    BY <1>7, <1>4 DEF PublishToken, Publish
  <2>4. Running(c) /\ runId[c] = run
    BY <1>2, <2>1, <2>3, Reached DEF ClientInv
  <2>5. Said(e)'
    BY <1>7, <2>1, <2>2 DEF PublishToken, Said
  <2>6. \A t \in Events : t.run = run /\ Said(t) => After(t, e)
    BY <2>1, <2>2, <1>4 DEF Said, After, Events
  <2>7. /\ \A i \in DOMAIN inbox[c] : inbox[c][i].kind = "token" => After(inbox[c][i], e)
        /\ \A i \in DOMAIN shown[c] : shown[c][i].kind = "token" => After(shown[c][i], e)
    BY <1>2, <2>4, <2>6 DEF ClientInv, InOrder, TypeInv
  <2>8. QED
    BY <1>1, <1>2, <2>2, <2>3, <2>4, <2>5, <2>7, DeliveredLate
<1>8. ASSUME NEW status, FinalizeRun(status), inbox'[c] # inbox[c] PROVE ClientInv(c)'
  <2>0. Event("done", run, 0) \in Events /\ Event("error", run, 0) \in Events
    BY <1>4, Numbers DEF Event, Events, Relayed, Terminal
  <2> PICK e \in Events : e = Event(IF status = "completed" THEN "done" ELSE "error", run, 0)
    <3>1. CASE status = "completed"
      BY <2>0, <3>1
    <3>2. CASE status # "completed"
      BY <2>0, <3>2
    <3>3. QED  BY <3>1, <3>2
  <2>1. /\ e \in Events /\ e.kind \in Terminal /\ e.kind \in Relayed
        /\ e.kind # "token" /\ e.kind \notin Opening
    BY <1>4, Numbers DEF Event, Events, Relayed, Opening, Terminal
  <2>2. stage = "talk" /\ run \in Runs
    BY <1>8 DEF FinalizeRun, RunBegun
  <2>3. topic[c] = run /\ Reads(c) /\ inbox'[c] = inbox[c] \o <<e>>
    BY <1>8, <1>4 DEF FinalizeRun, Publish
  <2>4. Running(c)
    BY <1>2, <2>2, <2>3, Reached DEF ClientInv
  <2>5. \A t : After(t, e)
    BY <2>1 DEF After
  <2>6. QED
    BY <1>1, <1>2, <2>1, <2>3, <2>4, <2>5, DeliveredLate
<1>9. QED
  BY <1>3, <1>5, <1>6, <1>7, <1>8
     DEF WorkflowStep, BeginRun, Again, ReturnResult, FailWhileLoading, EscapeCancelled, CloseWith

(***************************************************************************)
(* The clients' side                                                       *)
(***************************************************************************)
ClientStep(c) ==
  \/ StartStep(c) \/ StreamStep(c) \/ EndSession(c)
  \/ Leave(c) \/ CloseConnection(c)
  \/ \E reason \in Reasons : StopStream(c, reason)

\* Sending, taking and dropping keep the sequences' types.
LEMMA TellTypes ==
  ASSUME TypeInv, NEW c \in Clients, NEW e \in Events, Tell(c, e)
  PROVE  /\ shown' \in [Clients -> Seq(Events)] /\ shown'[c] = Append(shown[c], e)
         /\ \A d \in Clients : d # c => shown'[d] = shown[d]
<1>1. shown[c] \in Seq(Events) /\ Append(shown[c], e) \in Seq(Events)
  BY DEF TypeInv
<1>2. QED  BY <1>1 DEF TypeInv, Tell

LEMMA EmitTypes ==
  ASSUME TypeInv, NEW c \in Clients, NEW e \in Events, Emit(c, e)
  PROVE  /\ shown' \in [Clients -> Seq(Events)] /\ cancelSet' \in [Clients -> BOOLEAN]
         /\ shown'[c] = IF Broken(c) THEN shown[c] ELSE Append(shown[c], e)
         /\ cancelSet'[c] = (cancelSet[c] \/ (Broken(c) /\ via[c] = "entry"))
         /\ \A d \in Clients : d # c => shown'[d] = shown[d] /\ cancelSet'[d] = cancelSet[d]
<1>1. cancelSet' \in [Clients -> BOOLEAN]
  BY DEF Emit, TypeInv
<1>2. /\ cancelSet'[c] = (cancelSet[c] \/ (Broken(c) /\ via[c] = "entry"))
      /\ \A d \in Clients : d # c => cancelSet'[d] = cancelSet[d]
  BY DEF Emit, TypeInv
<1>3. CASE Broken(c)
  BY <1>1, <1>2, <1>3 DEF Emit, TypeInv
<1>4. CASE ~Broken(c)
  BY <1>1, <1>2, <1>4, TellTypes DEF Emit
<1>5. QED  BY <1>3, <1>4

LEMMA TakeTypes ==
  ASSUME TypeInv, NEW c \in Clients
  PROVE  /\ inbox[c] \in Seq(Events)
         /\ inbox[c] # <<>> => /\ Head(inbox[c]) \in Events /\ Head(inbox[c]) = inbox[c][1]
                               /\ 1 \in DOMAIN inbox[c]
         /\ Drop(c) => /\ inbox' \in [Clients -> Seq(Events)] /\ inbox'[c] = <<>>
                       /\ \A d \in Clients : d # c => inbox'[d] = inbox[d]
         /\ inbox[c] # <<>> /\ Pop(c) =>
              /\ inbox' \in [Clients -> Seq(Events)] /\ inbox'[c] = Tail(inbox[c])
              /\ \A d \in Clients : d # c => inbox'[d] = inbox[d]
<1>1. inbox[c] \in Seq(Events) /\ inbox \in [Clients -> Seq(Events)]
  BY DEF TypeInv
<1>2. inbox[c] # <<>> => /\ Head(inbox[c]) \in Events /\ Head(inbox[c]) = inbox[c][1]
                         /\ 1 \in DOMAIN inbox[c] /\ Tail(inbox[c]) \in Seq(Events)
  BY <1>1
<1>3. <<>> \in Seq(Events)
  OBVIOUS
<1>4. QED  BY <1>1, <1>2, <1>3 DEF Drop, Pop

LEMMA ClientTypes ==
  ASSUME TypeInv, NEW c \in Clients, ClientStep(c)
  PROVE  TypeInv' /\ \A d \in Clients : d # c => Untouched(d)
<1> USE DEF TypeInv, Untouched, Kept
<1> USE DEF Places, Early, Between, Readers
<1>1. CASE Subscribe(c)
  <2>1. Transports[c] \subseteq Transport
    BY ConstantsAssumption
  <2>2. via' \in [Clients -> Transport \cup {"none"}] /\ \A d \in Clients : d # c => via'[d] = via[d]
    BY <1>1, <2>1 DEF Subscribe
  <2>3. topic' \in [Clients -> 0 .. MaxRuns + 1]
    BY <1>1, Numbers DEF Subscribe
  <2>4. QED  BY <1>1, <2>2, <2>3 DEF Subscribe, Goto, workflowVars
<1>2. CASE StartWorkflow(c) \/ FindRunning(c)
  BY <1>2 DEF StartWorkflow, FindRunning, Goto, workflowVars, Stages
<1>3. CASE FailToStart(c) \/ Attach(c)
  <2>1. Event("error", 0, 0) \in Events
    BY Numbers DEF Event, Events, Relayed, Terminal
  <2>2. CASE UNCHANGED shown
    BY <1>3, <2>2 DEF FailToStart, Attach, Goto, workflowVars
  <2>3. CASE Tell(c, Event("error", 0, 0))
    <3>1. /\ at' \in [Clients -> Places] /\ \A d \in Clients : d # c => at'[d] = at[d]
          /\ UNCHANGED <<stage, run, said, via, why, runId, topic, inbox, reader, cancelSet, gone>>
      BY <1>3 DEF FailToStart, Attach, Goto, workflowVars
    <3>2. /\ shown' \in [Clients -> Seq(Events)]
          /\ \A d \in Clients : d # c => shown'[d] = shown[d]
      BY <2>1, <2>3, TellTypes
    <3>3. QED  BY <3>1, <3>2
  <2>4. QED  BY <1>3, <2>2, <2>3 DEF FailToStart, Attach
<1>4. CASE TakeReady(c)
  <2>1. Head(inbox[c]) \in Events /\ Head(inbox[c]).run \in 0 .. MaxRuns
    BY <1>4, TakeTypes DEF TakeReady, Events
  <2>2. Emit(c, Head(inbox[c])) /\ inbox[c] # <<>> /\ Pop(c)
    BY <1>4 DEF TakeReady
  <2>3. /\ inbox' \in [Clients -> Seq(Events)]
        /\ \A d \in Clients : d # c => inbox'[d] = inbox[d]
    BY <2>2, TakeTypes
  <2>4. /\ at' \in [Clients -> Places] /\ runId' \in [Clients -> 0 .. MaxRuns]
        /\ \A d \in Clients : d # c => at'[d] = at[d] /\ runId'[d] = runId[d]
        /\ UNCHANGED <<stage, run, said, via, why, topic, reader, gone>>
    BY <1>4, <2>1 DEF TakeReady, Goto, workflowVars
  <2>5. QED  BY <2>1, <2>2, <2>3, <2>4, EmitTypes
<1>5. CASE SkipEarly(c)
  <2>1. Event("error", 0, 0) \in Events
    BY Numbers DEF Event, Events, Relayed, Terminal
  <2>2. CASE UNCHANGED <<at, cancelSet, shown>>
    BY <1>5, <2>2, TakeTypes DEF SkipEarly, workflowVars
  <2>3. CASE Goto(c, "waiting", "ending") /\ Emit(c, Event("error", 0, 0))
    BY <1>5, <2>1, <2>3, TakeTypes, EmitTypes DEF SkipEarly, Goto, workflowVars
  <2>4. QED  BY <1>5, <2>2, <2>3 DEF SkipEarly
<1>6. CASE LeaveContext(c) \/ JoinRun(c)
  <2>1. NoTopic \in 0 .. MaxRuns + 1 /\ runId[c] \in 0 .. MaxRuns + 1
    BY Numbers, ConstantsAssumption
  <2>2. CASE LeaveContext(c)
    BY <2>1, <2>2 DEF LeaveContext, Goto, workflowVars
  <2>3. CASE JoinRun(c)
    BY <2>1, <2>3 DEF JoinRun, Goto, workflowVars
  <2>4. QED  BY <1>6, <2>2, <2>3
<1>7. CASE Relay(c)
  <2>1. Head(inbox[c]) \in Events /\ inbox[c] # <<>> /\ Emit(c, Head(inbox[c]))
    BY <1>7, TakeTypes DEF Relay
  <2>2. /\ inbox' \in [Clients -> Seq(Events)]
        /\ \A d \in Clients : d # c => inbox'[d] = inbox[d]
    BY <1>7, <2>1, TakeTypes DEF Relay
  <2>3. reader' \in [Clients -> Readers] /\ \A d \in Clients : d # c => reader'[d] = reader[d]
    BY <1>7 DEF Relay
  <2>4. UNCHANGED <<stage, run, said, via, at, why, runId, topic, gone>>
    BY <1>7 DEF Relay, workflowVars
  <2>5. /\ shown' \in [Clients -> Seq(Events)] /\ cancelSet' \in [Clients -> BOOLEAN]
        /\ \A d \in Clients : d # c => shown'[d] = shown[d] /\ cancelSet'[d] = cancelSet[d]
    BY <2>1, EmitTypes
  <2>6. QED  BY <2>2, <2>3, <2>4, <2>5
<1>8. CASE Sent(c)
  BY <1>8, TakeTypes DEF Sent, workflowVars
<1>9. CASE FinishByReader(c)
  BY <1>9, TakeTypes, Numbers DEF FinishByReader, CloseStream, Goto, workflowVars
<1>10. CASE FinishByResult(c)
  <2>1. PICK e \in Events :
          e = Event(IF results[handle[c]] = "completed" THEN "done" ELSE "error", runId[c], 0)
    <3>1. Event("done", runId[c], 0) \in Events /\ Event("error", runId[c], 0) \in Events
      BY Numbers DEF Event, Events, Relayed, Terminal
    <3>2. CASE results[handle[c]] = "completed"
      BY <3>1, <3>2
    <3>3. CASE results[handle[c]] # "completed"
      BY <3>1, <3>3
    <3>4. QED  BY <3>2, <3>3
  <2>2. QED
    BY <1>10, <2>1, TakeTypes, EmitTypes, Numbers
       DEF FinishByResult, CloseStream, Goto, workflowVars
<1>11. CASE EndSession(c)
  <2>1. Event("terminated", 0, 0) \in Events /\ Event("canceled", 0, 0) \in Events
    BY Numbers DEF Event, Events, LastWords
  <2>2. /\ shown' \in [Clients -> Seq(Events)] /\ gone' \in [Clients -> BOOLEAN]
        /\ \A d \in Clients : d # c => shown'[d] = shown[d] /\ gone'[d] = gone[d]
    BY <1>11, <2>1, TellTypes DEF EndSession
  <2>3. /\ topic' \in [Clients -> 0 .. MaxRuns + 1] /\ cancelSet' \in [Clients -> BOOLEAN]
        /\ \A d \in Clients : d # c => topic'[d] = topic[d] /\ cancelSet'[d] = cancelSet[d]
    BY <1>11, Numbers DEF EndSession
  <2>4. QED  BY <1>11, <2>2, <2>3 DEF EndSession
<1>12. CASE Leave(c) \/ CloseConnection(c)
  BY <1>12 DEF Leave, CloseConnection, workflowVars, Reasons
<1>13. ASSUME NEW reason \in Reasons, StopStream(c, reason)
       PROVE  TypeInv' /\ \A d \in Clients : d # c => Untouched(d)
  BY <1>13, TakeTypes DEF StopStream
<1>14. QED
  BY <1>1, <1>2, <1>3, <1>4, <1>5, <1>6, <1>7, <1>8, <1>9, <1>10, <1>11, <1>12, <1>13
     DEF ClientStep, StartStep, StreamStep

LEMMA ClientSaid ==
  ASSUME TypeInv, RunBegun, NEW c \in Clients, ClientStep(c)
  PROVE  SaidGrows /\ RunBegun'
<1>1. /\ run' = run /\ said' = said
      /\ stage' = stage \/ (stage \in {"none", "closed"} /\ stage' = "load")
  BY DEF ClientStep, StartStep, StreamStep, Subscribe, StartWorkflow, FindRunning, FailToStart,
         Attach, TakeReady, SkipEarly, LeaveContext, JoinRun, Relay, Sent, FinishByReader,
         FinishByResult, CloseStream, EndSession, Leave, CloseConnection, StopStream, workflowVars
<1>2. QED  BY <1>1 DEF SaidGrows, Said, RunBegun

(***************************************************************************)
(* A client's own step                                                     *)
(***************************************************************************)
\* One more event, taken from the head of what the reader has to read.
LEMMA RelayedInOrder ==
  ASSUME TypeInv, NEW c \in Clients, InOrder(c), Running(c), SaidGrows, inbox[c] # <<>>,
         shown'[c] = Append(shown[c], Head(inbox[c])), runId'[c] = runId[c],
         inbox'[c] \in {Tail(inbox[c]), <<>>}
  PROVE  InOrder(c)'
<1> DEFINE q == inbox[c]  s == shown[c]  e == Head(inbox[c])
<1>1. /\ q \in Seq(Events) /\ s \in Seq(Events) /\ e \in Events
      /\ e = q[1] /\ 1 \in DOMAIN q /\ Len(s) \in Nat /\ DOMAIN s = 1 .. Len(s)
      /\ \A i \in DOMAIN q : q[i] \in Events
      /\ \A i \in DOMAIN s : s[i] \in Events
  BY TakeTypes DEF TypeInv
<1>2. \A j \in DOMAIN inbox'[c] :
         j + 1 \in DOMAIN q /\ inbox'[c][j] = q[j+1] /\ j \in Nat \ {0}
  <2>1. CASE inbox'[c] = <<>>
    BY <2>1
  <2>2. CASE inbox'[c] = Tail(q)
    BY <1>1, <2>2
  <2>3. QED  BY <2>1, <2>2
<1>3. /\ DOMAIN shown'[c] = 1 .. Len(s) + 1 /\ shown'[c][Len(s) + 1] = e
      /\ \A i \in DOMAIN s : shown'[c][i] = s[i]
  BY <1>1
<1>4. ASSUME NEW j \in DOMAIN inbox'[c]
      PROVE  /\ inbox'[c][j].kind \in Relayed
             /\ inbox'[c][j].kind = "token" => inbox'[c][j].run = runId[c] /\ Said(inbox[c][j])'
  BY <1>1, <1>2 DEF InOrder, SaidGrows, Said
<1>5. ASSUME NEW i \in DOMAIN inbox'[c], NEW j \in DOMAIN inbox'[c], i < j,
             inbox'[c][i].kind = "token"
      PROVE  After(inbox'[c][i], inbox'[c][j])
  <2>1. i + 1 < j + 1
    BY <1>2, <1>5
  <2>2. After(q[i+1], q[j+1])
    BY <1>2, <1>5, <2>1 DEF InOrder
  <2>3. QED  BY <1>2, <2>2
<1>6. ASSUME NEW i \in DOMAIN shown'[c], shown'[c][i].kind = "token"
      PROVE  /\ shown'[c][i].run = runId[c] /\ Said(shown[c][i])'
             /\ \A j \in DOMAIN inbox'[c] : After(shown'[c][i], inbox'[c][j])
  <2>1. CASE i \in DOMAIN s
    <3>1. shown'[c][i].run = runId[c] /\ Said(shown[c][i])'
      BY <1>1, <1>3, <1>6, <2>1 DEF InOrder, SaidGrows, Said
    <3>2. \A j \in DOMAIN inbox'[c] : After(s[i], q[j+1])
      BY <1>2, <1>3, <1>6, <2>1 DEF InOrder
    <3>3. QED  BY <1>2, <1>3, <2>1, <3>1, <3>2
  <2>2. CASE i = Len(s) + 1
    <3>1. shown'[c][i] = e /\ e.kind = "token"
      BY <1>3, <1>6, <2>2
    <3>2. shown'[c][i].run = runId[c] /\ Said(shown[c][i])'
      BY <1>1, <3>1 DEF InOrder, SaidGrows, Said
    <3>3. \A j \in DOMAIN inbox'[c] : 1 < j + 1 /\ After(q[1], q[j+1])
      BY <1>1, <1>2, <3>1 DEF InOrder
    <3>4. QED  BY <1>1, <1>2, <3>1, <3>2, <3>3
  <2>3. QED  BY <1>1, <1>3, <2>1, <2>2
<1>7. QED  BY <1>4, <1>5, <1>6 DEF InOrder

\* An event more at the end of what was sent.
LEMMA OneMore ==
  ASSUME NEW s \in Seq(Events), NEW e \in Events
  PROVE  /\ ~Promise!Ended(s) => Promise!OnTime(s) /\ Promise!OnTime(Append(s, e))
         /\ ~Promise!Ended(s) /\ e.kind \notin LastWords => ~Promise!Ended(Append(s, e))
<1>1. /\ DOMAIN s = 1 .. Len(s) /\ Len(s) \in Nat
      /\ DOMAIN Append(s, e) = 1 .. Len(s) + 1 /\ Len(Append(s, e)) = Len(s) + 1
      /\ Append(s, e)[Len(s) + 1] = e
      /\ \A i \in 1 .. Len(s) : Append(s, e)[i] = s[i]
  OBVIOUS
<1>2. QED
  BY <1>1 DEF Promise!Ended, Promise!OnTime, Promise!LastWords, LastWords, Terminal

LEMMA OwnStep ==
  ASSUME TypeInv, RunBegun, NEW c \in Clients, ClientInv(c), ClientStep(c)
  PROVE  ClientInv(c)'
<1>1. SaidGrows /\ TypeInv'
  BY ClientSaid, ClientTypes
<1>2. /\ inbox[c] \in Seq(Events) /\ shown[c] \in Seq(Events)
      /\ \A i \in DOMAIN inbox[c] : inbox[c][i] \in Events
      /\ \A i \in DOMAIN shown[c] : shown[c][i] \in Events
  BY DEF TypeInv
<1> USE DEF ClientInv, Running, Socket, Broken, Early, Between
<1>3. CASE Subscribe(c)
  BY <1>3, ClientTypes, Numbers, <1>1, <1>2
     DEF Subscribe, Goto, Placed, Introduced, EarlyQueue, InOrder, Timely, TypeInv
<1>4. CASE StartWorkflow(c) \/ FindRunning(c)
  BY <1>4 DEF StartWorkflow, FindRunning, Goto, workflowVars, TypeInv, Placed, Introduced,
              EarlyQueue, InOrder, Timely
<1>5. CASE FailToStart(c) \/ Attach(c)
  BY <1>5 DEF FailToStart, Attach, Goto, workflowVars, TypeInv, Placed, Introduced, EarlyQueue,
              InOrder, Timely
<1>6. CASE TakeReady(c)
  <2> DEFINE e == Head(inbox[c])
  <2>1. /\ at[c] = "waiting" /\ shown[c] = <<>> /\ reader[c] = "none" /\ topic[c] = Ctx
        /\ inbox[c] # <<>> /\ e \in Events /\ e.kind = "ready" /\ e.run \in Runs
    BY <1>6, TakeTypes DEF TakeReady, Goto, Placed, EarlyQueue
  <2>2. /\ at'[c] = (IF Raises(c) THEN "ending" ELSE "leaving") /\ runId'[c] = e.run
        /\ reader'[c] = "none" /\ topic'[c] = Ctx /\ via'[c] = via[c] /\ gone'[c] = gone[c]
        /\ inbox'[c] = Tail(inbox[c])
        /\ shown'[c] = IF Broken(c) THEN <<>> ELSE Append(<<>>, e)
    <3>1. /\ at'[c] = (IF Raises(c) THEN "ending" ELSE "leaving") /\ runId'[c] = e.run
          /\ UNCHANGED <<reader, topic, via, gone>>
      BY <1>6, <2>1 DEF TakeReady, Goto, TypeInv
    <3>2. inbox'[c] = Tail(inbox[c])
      BY <1>6 DEF TakeReady, Pop, TypeInv
    <3>3. Emit(c, e)
      BY <1>6 DEF TakeReady
    <3>4. shown'[c] = IF Broken(c) THEN shown[c] ELSE Append(shown[c], e)
      BY <2>1, <3>3, EmitTypes
    <3>5. QED  BY <2>1, <3>1, <3>2, <3>4
  <2>3. Append(<<>>, e) = <<e>>
    BY <2>1
  <2>4. EarlyQueue(c)'
    BY <1>2, <2>1, <2>2 DEF EarlyQueue
  <2>5. Placed(c)' /\ InOrder(c)' /\ Timely(c)'
    BY <2>1, <2>2 DEF Placed, InOrder, Timely
  <2>6. Introduced(c)'
    BY <2>1, <2>2, <2>3 DEF Introduced, Raises
  <2>7. QED  BY <2>4, <2>5, <2>6
<1>7. CASE SkipEarly(c)
  <2>1. /\ at[c] = "waiting" /\ at'[c] \in {"waiting", "ending"} /\ shown[c] = <<>>
        /\ at'[c] = "waiting" => shown'[c] = shown[c]
        /\ reader'[c] = "none" /\ topic'[c] = Ctx
        /\ inbox[c] # <<>> /\ inbox'[c] = Tail(inbox[c])
    BY <1>7, TakeTypes DEF SkipEarly, Goto, Placed, TypeInv
  <2>2. EarlyQueue(c)'
    BY <1>2, <2>1 DEF EarlyQueue
  <2>3. QED  BY <2>1, <2>2 DEF Placed, Introduced, InOrder, Timely
<1>8. CASE LeaveContext(c)
  BY <1>8 DEF LeaveContext, Goto, TypeInv, Placed, Introduced, EarlyQueue, InOrder, Timely
<1>9. CASE JoinRun(c)
  <2>1. /\ at[c] = "switching" /\ at'[c] = "streaming" /\ topic'[c] = runId[c]
        /\ reader'[c] = "listening" /\ runId'[c] = runId[c] /\ inbox'[c] = inbox[c]
        /\ via'[c] = via[c] /\ gone'[c] = gone[c] /\ shown'[c] = shown[c]
    BY <1>9 DEF JoinRun, Goto, TypeInv
  <2>2. /\ \A i \in DOMAIN shown[c] : shown[c][i].kind = "ready"
        /\ \A i \in DOMAIN inbox[c] : inbox[c][i].kind \in Opening
    BY <2>1 DEF Introduced, EarlyQueue
  <2>3. ~Promise!Ended(shown[c]) /\ Promise!OnTime(shown[c])
    BY <2>2 DEF Promise!Ended, Promise!OnTime, Promise!LastWords
  <2>4. InOrder(c)'
    BY <2>1, <2>2 DEF InOrder, Opening, Relayed
  <2>5. QED  BY <2>1, <2>3, <2>4 DEF Placed, Introduced, EarlyQueue, Timely
<1>10. CASE Relay(c)
  <2> DEFINE e == Head(inbox[c])
  <2>1. /\ reader[c] = "listening" /\ inbox[c] # <<>> /\ e \in Events /\ e.kind \in Relayed
        /\ Running(c)
    BY <1>10, TakeTypes DEF Relay, InOrder
  <2>2. /\ at'[c] = at[c] /\ via'[c] = via[c] /\ why'[c] = why[c] /\ runId'[c] = runId[c]
        /\ topic'[c] = topic[c] /\ gone'[c] = gone[c]
        /\ cancelSet[c] => cancelSet'[c]
        /\ shown'[c] = IF Broken(c) THEN shown[c] ELSE Append(shown[c], e)
        /\ inbox'[c] \in {Tail(inbox[c]), <<>>}
    BY <1>10, <2>1, TakeTypes, EmitTypes DEF Relay
  <2>3. /\ reader'[c] \in {"stopped", "listening", "sending", "sendingLast"}
        /\ Broken(c) => reader'[c] = "stopped"
        /\ reader'[c] = "listening" => via[c] = "sse"
        /\ e.kind \in Terminal => reader'[c] \in {"stopped", "sendingLast"}
    BY <1>10 DEF Relay, TypeInv
  <2>4. at[c] \in {"streaming", "stopping", "over"}
    BY <2>1 DEF Placed, TypeInv, Places
  <2>5. Placed(c)' /\ EarlyQueue(c)'
    BY <2>1, <2>2, <2>3, <2>4 DEF Placed, EarlyQueue
  <2>6. Introduced(c)'
    BY <1>2, <2>1, <2>2, <2>3, <2>4 DEF Introduced
  <2>7. InOrder(c)'
    <3>1. CASE Broken(c)
      BY <2>3, <3>1 DEF InOrder
    <3>2. CASE ~Broken(c)
      BY <1>1, <2>1, <2>2, <3>2, RelayedInOrder
    <3>3. QED  BY <3>1, <3>2
  <2>8. Timely(c)'
    <3>1. CASE Broken(c)
      BY <2>2, <2>3, <3>1 DEF Timely
    <3>2. CASE ~Broken(c) /\ at[c] \in {"streaming", "stopping"}
      <4>1. ~Promise!Ended(shown[c]) /\ shown'[c] = Append(shown[c], e)
        BY <2>1, <2>2, <3>2 DEF Timely
      <4>2. Promise!OnTime(shown'[c])
        BY <1>2, <2>1, <4>1, OneMore
      <4>3. e.kind \notin Terminal => ~Promise!Ended(shown'[c])
        BY <1>2, <2>1, <4>1, OneMore DEF Relayed, LastWords, Opening
      <4>4. QED  BY <2>2, <2>3, <3>2, <4>2, <4>3 DEF Timely
    <3>3. CASE ~Broken(c) /\ at[c] = "over"
      <4>1. Socket(c) /\ ~gone[c]
        BY <2>1, <3>3 DEF Placed
      <4>2. reader'[c] # "listening"
        BY <2>3, <4>1
      <4>3. QED  BY <2>1, <2>2, <3>3, <4>1, <4>2 DEF Timely
    <3>4. QED  BY <2>4, <3>1, <3>2, <3>3
  <2>9. QED  BY <2>5, <2>6, <2>7, <2>8
<1>11. CASE Sent(c)
  <2>1. /\ reader[c] \in {"sending", "sendingLast"}
        /\ at'[c] = at[c] /\ via'[c] = via[c] /\ why'[c] = why[c] /\ runId'[c] = runId[c]
        /\ topic'[c] = topic[c] /\ gone'[c] = gone[c] /\ cancelSet'[c] = cancelSet[c]
        /\ shown'[c] = shown[c]
        /\ \/ reader'[c] = "stopped"
           \/ reader[c] = "sending" /\ ~cancelSet[c] /\ reader'[c] = "listening" /\ inbox'[c] = inbox[c]
    BY <1>11 DEF Sent, TypeInv
  <2>2. at[c] \in {"streaming", "stopping", "over"}
    BY <2>1 DEF Placed, TypeInv, Places
  <2>3. InOrder(c)'
    BY <1>1, <1>2, <2>1 DEF InOrder, SaidGrows, Said
  <2>4. QED  BY <2>1, <2>2, <2>3 DEF Placed, Introduced, EarlyQueue, Timely
<1>12. CASE FinishByReader(c) \/ FinishByResult(c)
  <2>1. at'[c] = "ending" /\ reader'[c] = "stopped"
    BY <1>12 DEF FinishByReader, FinishByResult, CloseStream, Goto, TypeInv
  <2>2. QED  BY <2>1 DEF Placed, Introduced, EarlyQueue, InOrder, Timely
<1>13. CASE EndSession(c)
  <2>1. /\ at[c] \in {"stopping", "ending"} /\ at'[c] = "over" /\ via'[c] = via[c]
        /\ reader'[c] = reader[c] /\ runId'[c] = runId[c] /\ inbox'[c] = inbox[c]
        /\ Running(c) => topic'[c] = topic[c] /\ cancelSet'[c] = cancelSet[c]
    BY <1>13 DEF EndSession, TypeInv
  <2>2. CASE ~Running(c)
    BY <2>1, <2>2 DEF Placed, Introduced, EarlyQueue, InOrder, Timely
  <2>3. CASE Running(c)
    <3>1. at[c] = "stopping" /\ Socket(c)
      BY <2>1, <2>3 DEF Placed
    <3>2. CASE gone[c]
      <4>1. shown'[c] = shown[c] /\ gone'[c] = gone[c]
        BY <1>13, <3>2 DEF EndSession
      <4>2. InOrder(c)'
        BY <1>1, <1>2, <2>1, <4>1 DEF InOrder, SaidGrows, Said
      <4>3. QED  BY <2>1, <2>3, <3>1, <3>2, <4>1, <4>2 DEF Placed, Introduced, EarlyQueue, Timely
    <3>3. CASE why[c] = "admin" /\ ~gone[c]
      <4>1. gone'[c] /\ \E e \in Events : shown'[c] = Append(shown[c], e) /\ e.kind = "terminated"
        <5>1. Event("terminated", 0, 0) \in Events /\ Event("terminated", 0, 0).kind = "terminated"
          BY Numbers DEF Event, Events, LastWords
        <5>2. gone'[c] /\ Tell(c, Event("terminated", 0, 0))
          BY <1>13, <3>1, <3>3 DEF EndSession, TypeInv
        <5>3. QED  BY <5>1, <5>2, TellTypes
      <4>2. InOrder(c)'
        BY <1>1, <1>2, <2>1, <4>1 DEF InOrder, SaidGrows, Said
      <4>3. QED  BY <2>1, <2>3, <3>1, <4>1, <4>2 DEF Placed, Introduced, EarlyQueue, Timely
    <3>4. CASE why[c] = "cancel" /\ ~gone[c]
      <4>1. /\ gone'[c] = gone[c]
            /\ \/ shown'[c] = shown[c]
               \/ \E e \in Events : shown'[c] = Append(shown[c], e) /\ e.kind = "canceled"
        <5>1. Event("canceled", 0, 0) \in Events /\ Event("canceled", 0, 0).kind = "canceled"
          BY Numbers DEF Event, Events, LastWords
        <5>2. /\ gone'[c] = gone[c]
              /\ shown'[c] = shown[c] \/ Tell(c, Event("canceled", 0, 0))
          BY <1>13, <3>1, <3>4 DEF EndSession
        <5>3. QED  BY <5>1, <5>2, TellTypes
      <4>2. InOrder(c)' /\ Introduced(c)'
        <5>1. CASE shown'[c] = shown[c]
          <6>1. InOrder(c)'
            BY <1>1, <1>2, <2>1, <5>1 DEF InOrder, SaidGrows, Said
          <6>2. Introduced(c)'
            BY <2>1, <2>3, <3>1, <4>1, <5>1 DEF Introduced
          <6>3. QED  BY <6>1, <6>2
        <5>2. CASE shown'[c] # shown[c]
          <6>1. PICK e \in Events : shown'[c] = Append(shown[c], e) /\ e.kind = "canceled"
            BY <4>1, <5>2
          <6>2. InOrder(c)'
            BY <1>1, <1>2, <2>1, <6>1 DEF InOrder, SaidGrows, Said
          <6>3. shown[c] # <<>> => shown'[c][1] = shown[c][1] /\ shown'[c] # <<>>
            BY <1>2, <6>1
          <6>4. Introduced(c)'
            BY <2>1, <2>3, <3>1, <4>1, <6>3 DEF Introduced
          <6>5. QED  BY <6>2, <6>4
        <5>3. QED  BY <5>1, <5>2
      <4>3. cancelSet'[c]
        BY <2>1, <2>3, <3>1, <3>4 DEF Placed
      <4>4. reader[c] = "listening" => Promise!OnTime(shown'[c])
        BY <1>2, <3>1, <4>1, OneMore DEF Timely
      <4>5. QED
        BY <2>1, <2>3, <3>1, <4>2, <4>3, <4>4 DEF Placed, EarlyQueue, Timely
    <3>5. QED  BY <3>1, <3>2, <3>3, <3>4 DEF Placed, Reasons
  <2>4. QED  BY <2>2, <2>3
<1>14. CASE Leave(c) \/ CloseConnection(c)
  <2>1. /\ at'[c] = at[c] /\ via'[c] = via[c] /\ runId'[c] = runId[c] /\ topic'[c] = topic[c]
        /\ reader'[c] = reader[c] /\ cancelSet'[c] = cancelSet[c] /\ inbox'[c] = inbox[c]
        /\ shown'[c] = shown[c] /\ gone'[c] = TRUE /\ at[c] # "stopping"
        /\ UNCHANGED <<run, stage, said>>
    BY <1>14 DEF Leave, CloseConnection, Streaming, TypeInv, workflowVars
  <2>2. InOrder(c)'
    BY <2>1 DEF InOrder, Said
  <2>3. QED  BY <2>1, <2>2 DEF Placed, Introduced, EarlyQueue, Timely
<1>15. ASSUME NEW reason \in Reasons, StopStream(c, reason) PROVE ClientInv(c)'
  <2>1. /\ Streaming(c) /\ Socket(c) /\ at'[c] = "stopping" /\ why'[c] = reason
        /\ reason = "leave" <=> gone[c]
        /\ reason = "cancel" => cancelSet'[c]
        /\ via'[c] = via[c] /\ runId'[c] = runId[c] /\ topic'[c] = topic[c]
        /\ reader'[c] = reader[c] /\ gone'[c] = gone[c] /\ shown'[c] = shown[c]
        /\ Running(c) => inbox'[c] = inbox[c]
        /\ UNCHANGED <<run, stage, said>>
    BY <1>15 DEF StopStream, TypeInv, Reasons
  <2>2. InOrder(c)'
    BY <2>1 DEF InOrder, Said
  <2>3. Promise!OnTime(shown[c]) /\ (reader[c] \in {"listening", "sending"} => ~Promise!Ended(shown[c]))
    <3>1. CASE at[c] = "streaming"
      BY <3>1 DEF Timely
    <3>2. CASE at[c] # "streaming"
      BY <2>1, <3>2
         DEF Streaming, Placed, Introduced, Promise!OnTime, Promise!Ended, Promise!LastWords
    <3>3. QED  BY <3>1, <3>2
  <2>4. QED  BY <2>1, <2>2, <2>3 DEF Placed, Introduced, EarlyQueue, Timely
<1>16. QED
  BY <1>3, <1>4, <1>5, <1>6, <1>7, <1>8, <1>9, <1>10, <1>11, <1>12, <1>13, <1>14, <1>15
     DEF ClientStep, StartStep, StreamStep

\* Every step keeps the invariant.
LEMMA Inductive == ASSUME IInv, [Next]_vars PROVE IInv'
<1>1. TypeInv /\ RunBegun /\ \A c \in Clients : ClientInv(c)
  BY DEF IInv
<1>2. CASE WorkflowStep
  <2>1. TypeInv' /\ RunBegun'
    BY <1>1, <1>2, WorkflowTypes
  <2>2. ASSUME NEW c \in Clients PROVE ClientInv(c)'
    BY <1>1, <1>2, WorkflowClients
  <2>3. QED  BY <2>1, <2>2 DEF IInv
<1>3. ASSUME NEW c \in Clients, ClientStep(c) PROVE IInv'
  <2>1. TypeInv' /\ \A d \in Clients : d # c => Untouched(d)
    BY <1>1, <1>3, ClientTypes
  <2>2. SaidGrows /\ RunBegun'
    BY <1>1, <1>3, ClientSaid
  <2>3. ASSUME NEW d \in Clients PROVE ClientInv(d)'
    <3>1. CASE d = c
      BY <1>1, <1>3, <3>1, OwnStep
    <3>2. CASE d # c
      <4>1. ClientInv(d) /\ Untouched(d)
        BY <1>1, <2>1, <3>2
      <4>2. QED  BY <1>1, <2>2, <4>1, Framed
    <3>3. QED  BY <3>1, <3>2
  <2>4. QED  BY <2>1, <2>2, <2>3 DEF IInv
<1>4. CASE UNCHANGED vars
  <2>1. TypeInv' /\ RunBegun' /\ SaidGrows
    BY <1>1, <1>4 DEF vars, workflowVars, clientVars, TypeInv, RunBegun, SaidGrows, Said
  <2>2. ASSUME NEW c \in Clients PROVE ClientInv(c)'
    <3>1. ClientInv(c) /\ Untouched(c)
      BY <1>1, <1>4 DEF vars, workflowVars, clientVars, Untouched, Kept
    <3>2. QED  BY <1>1, <2>1, <3>1, Framed
  <2>3. QED  BY <2>1, <2>2 DEF IInv
<1>5. QED  BY <1>2, <1>3, <1>4 DEF Next, ClientStep, Reasons

(***************************************************************************)
(* The refinement                                                          *)
(***************************************************************************)
\* A last word may follow whatever came in time.
LEMMA LastFollows ==
  ASSUME NEW s, NEW e \in Events, e.kind \in LastWords, Promise!OnTime(s)
  PROVE  Promise!Follows(s, e)
BY DEF Promise!Follows, Promise!LastWords, Promise!Opening, LastWords, Terminal

\* An event that may follow, told to one client, is a step of EventStream.
LEMMA Told ==
  ASSUME TypeInv, NEW c \in Clients, NEW e \in Events, Tell(c, e),
         Promise!Follows(shown[c], e)
  PROVE  Promise!Next
<1>1. shown'[c] = Append(shown[c], e) /\ shown[c] \in Seq(Events)
  BY TellTypes DEF TypeInv
<1>2. /\ Append(shown[c], e)[Len(Append(shown[c], e))] = e
      /\ Append(shown[c], e) # shown[c]
  BY <1>1
<1>3. shown'[c][Len(shown'[c])] = e /\ shown'[c] # shown[c]
  BY <1>1, <1>2
<1>4. QED  BY <1>3 DEF Promise!Next, Promise!Show, Tell

\* A reader sends what may follow, as long as the connection holds.
LEMMA RelayFollows ==
  ASSUME TypeInv, NEW c \in Clients, ClientInv(c), Relay(c), ~Broken(c)
  PROVE  Promise!Follows(shown[c], Head(inbox[c]))
<1> DEFINE s == shown[c]  e == Head(inbox[c])
<1>1. /\ reader[c] = "listening" /\ Running(c) /\ e \in Events /\ e = inbox[c][1]
      /\ 1 \in DOMAIN inbox[c]
  BY TakeTypes DEF Relay, Running
<1>2. at[c] \in {"streaming", "stopping", "over"}
  BY <1>1 DEF ClientInv, Placed, TypeInv, Places, Early, Between, Running
<1>3. Promise!OnTime(s)
  BY <1>1, <1>2 DEF ClientInv, Placed, Timely, Broken, Socket
<1>4. s # <<>> /\ s[1].kind = "ready" /\ s[1].run = runId[c]
  BY <1>1 DEF ClientInv, Introduced
<1>5. /\ \A i \in DOMAIN s : s[i].kind = "token" => After(s[i], e)
      /\ e.kind = "token" => e.run = runId[c]
  BY <1>1 DEF ClientInv, InOrder
<1>6. QED
  BY <1>3, <1>4, <1>5 DEF Promise!Follows, Promise!Opening, After, Opening

LEMMA ShownSteps == ASSUME IInv, [Next]_vars PROVE [Promise!Next]_shown
<1>1. TypeInv /\ \A c \in Clients : ClientInv(c)
  BY DEF IInv
<1>2. CASE WorkflowStep \/ UNCHANGED vars
  BY <1>2 DEF vars, clientVars, WorkflowStep, BeginRun, AnnounceContext, AnnounceRun,
              PublishToken, Again, FinalizeRun, ReturnResult, FailWhileLoading,
              EscapeCancelled, CloseWith, Quiet
<1>3. ASSUME NEW c \in Clients, ClientStep(c) PROVE UNCHANGED shown \/ Promise!Next
  <2>1. Event("error", 0, 0) \in Events /\ Event("error", 0, 0).kind = "error"
    BY Numbers DEF Event, Events, Relayed, LastWords, Terminal
  <2>2. Placed(c) /\ Timely(c)
    BY <1>1 DEF ClientInv
  <2>3. Promise!OnTime(<<>>)
    BY DEF Promise!OnTime
  <2>4. CASE Tell(c, Event("error", 0, 0)) /\ at[c] \in {"starting", "attaching", "waiting"}
    <3>1. Promise!OnTime(shown[c])
      BY <2>2, <2>3, <2>4 DEF Placed, Early
    <3>2. Promise!Follows(shown[c], Event("error", 0, 0))
      BY <2>1, <3>1, LastFollows DEF LastWords, Terminal
    <3>3. QED  BY <1>1, <2>1, <2>4, <3>2, Told
  <2>5. CASE TakeReady(c)
    <3> DEFINE e == Head(inbox[c])
    <3>1. e \in Events /\ e.kind = "ready" /\ shown[c] = <<>> /\ Emit(c, e)
      BY <1>1, <2>2, <2>5, TakeTypes DEF TakeReady, Goto, Placed, Early
    <3>2. Promise!Follows(shown[c], e)
      BY <2>3, <3>1 DEF Promise!Follows
    <3>3. QED  BY <1>1, <3>1, <3>2, Told DEF Emit
  <2>6. CASE Relay(c)
    <3> DEFINE e == Head(inbox[c])
    <3>1. e \in Events /\ Emit(c, e)
      BY <1>1, <2>6, TakeTypes DEF Relay
    <3>2. CASE Broken(c)
      BY <3>1, <3>2 DEF Emit
    <3>3. CASE ~Broken(c)
      <4>1. Promise!Follows(shown[c], e)
        BY <1>1, <2>6, <3>3, RelayFollows
      <4>2. QED  BY <1>1, <3>1, <3>3, <4>1, Told DEF Emit
    <3>4. QED  BY <3>2, <3>3
  <2>7. CASE FinishByResult(c)
    <3>1. PICK e \in Events : e.kind \in LastWords /\ Emit(c, e)
      <4>1. ASSUME NEW k \in Terminal PROVE Event(k, runId[c], 0) \in Events
        BY <1>1, Numbers DEF TypeInv, Event, Events, LastWords
      <4>2. \E k \in Terminal : Emit(c, Event(k, runId[c], 0))
        BY <2>7 DEF FinishByResult, Terminal
      <4>3. QED  BY <4>1, <4>2 DEF Event, LastWords
    <3>2. Promise!OnTime(shown[c])
      BY <2>2, <2>7 DEF FinishByResult, CloseStream, Goto, Timely
    <3>3. Promise!Follows(shown[c], e)
      BY <3>1, <3>2, LastFollows
    <3>4. QED  BY <1>1, <3>1, <3>3, Told DEF Emit
  <2>8. CASE EndSession(c)
    <3>1. CASE UNCHANGED shown
      BY <3>1
    <3>2. CASE ~UNCHANGED shown
      <4>1. at[c] = "stopping" /\ \E k \in {"terminated", "canceled"} : Tell(c, Event(k, 0, 0))
        BY <2>8, <3>2 DEF EndSession
      <4>2. PICK e \in Events : e.kind \in LastWords /\ Tell(c, e)
        BY <4>1, Numbers DEF Event, Events, LastWords
      <4>3. Promise!Follows(shown[c], e)
        BY <2>2, <4>1, <4>2, LastFollows DEF Timely
      <4>4. QED  BY <1>1, <4>2, <4>3, Told
    <3>3. QED  BY <3>1, <3>2
  <2>9. CASE FailToStart(c) \/ Attach(c) \/ SkipEarly(c)
    BY <2>4, <2>9 DEF FailToStart, Attach, SkipEarly, Goto, Emit
  <2>10. QED
    BY <1>3, <2>5, <2>6, <2>7, <2>8, <2>9
       DEF ClientStep, StartStep, StreamStep, Subscribe, StartWorkflow, FindRunning, LeaveContext,
           JoinRun, Sent, FinishByReader, Leave, CloseConnection, StopStream, workflowVars
<1>4. QED  BY <1>2, <1>3 DEF Next, ClientStep, Reasons

\* The invariant, for any clients, runs, tokens and troubles: a reader that has
\* outlived its stream holds what it may still send.
THEOREM Invariant == Spec => []IInv
<1>1. Init => IInv
  BY InitInv
<1>2. IInv /\ [Next]_vars => IInv'
  BY Inductive
<1>3. QED  BY <1>1, <1>2, PTL DEF Spec

\* What stream_run_events, its reader and the handlers around them send keeps
\* to EventStream: the ready of one run first, the run's tokens in order, and
\* no more than one event after done, error, canceled or terminated.
THEOREM ImplementsEventStream == Spec => SeesAnEventStream
<1>1. Init => Promise!Init
  BY DEF Init, Promise!Init
<1>2. IInv /\ [Next]_vars => [Promise!Next]_shown
  BY ShownSteps
<1>3. QED  BY <1>1, <1>2, Invariant, PTL DEF Spec, SeesAnEventStream, Promise!Spec

(***************************************************************************)
(* How it ends                                                             *)
(***************************************************************************)
RunStates == {"running", "completed", "failed"}
Results == {"open", "completed", "failed"}

\* The last result is open as long as the workflow is, and a run row is written
\* once: a run that is under way, or not begun, has no outcome yet.
Outcomes ==
  /\ recorded \in [Runs -> RunStates] /\ results \in Seq(Results)
  /\ handle \in [Clients -> Nat]
  /\ stage = "none" <=> results = <<>>
  /\ results # <<>> => (results[Len(results)] = "open" <=> stage # "closed")
  /\ \A r \in Runs : r > run => recorded[r] = "running"
  /\ stage \in {"begun", "announced", "talk"} => recorded[run] = "running"
  /\ stage = "final" => recorded[run] # "running"

\* Whoever streams, or was stopped, holds a workflow.
Holds(c) ==
  /\ handle[c] <= Len(results)
  /\ at[c] \notin {"idle", "starting", "over"} \/ why[c] # "none" \/ Running(c) => handle[c] > 0
  /\ at[c] \in {"idle", "starting"} => why[c] = "none"

\* The end a running reader will read is that of the client's own run.
RelaysEnd(c) ==
  Running(c) => \A i \in DOMAIN inbox[c] :
    inbox[c][i].kind = "done" => recorded[runId[c]] = "completed"

Completed(c) ==
  \/ runId[c] \in Runs /\ recorded[runId[c]] = "completed"
  \/ handle[c] > 0 /\ results[handle[c]] = "completed"

Truthful(c) == \A i \in DOMAIN shown[c] : shown[c][i].kind = "done" => Completed(c)

Canceled(c) ==
  at[c] = "over" /\ why[c] = "leave" /\ via[c] = "direct" /\ handle[c] = Len(results) =>
    cancelAsked \/ results[handle[c]] # "open"

OutcomeOf(c) == Holds(c) /\ RelaysEnd(c) /\ Truthful(c) /\ Canceled(c)

OInv == Outcomes /\ \A c \in Clients : OutcomeOf(c)

\* Outcomes once there stay.
Settling ==
  /\ Len(results) <= Len(results')
  /\ \A i \in DOMAIN results : results[i] # "open" => results'[i] = results[i]
  /\ \A r \in Runs : recorded[r] = "completed" => recorded'[r] = "completed"
  /\ Len(results') = Len(results) /\ cancelAsked => cancelAsked'

\* A client only whose queue changed.
LEMMA OutcomeFramed ==
  ASSUME TypeInv, Outcomes, Outcomes', NEW c \in Clients, Kept(c), handle'[c] = handle[c],
         Placed(c), Settling, OutcomeOf(c), RelaysEnd(c)'
  PROVE  OutcomeOf(c)'
<1> USE DEF Kept
<1>1. Len(results) \in Nat /\ Len(results') \in Nat /\ handle[c] \in Nat
      /\ DOMAIN results = 1 .. Len(results)
  BY DEF Outcomes
<1>2. Holds(c)'
  BY <1>1 DEF OutcomeOf, Holds, Running, Settling
<1>3. handle[c] > 0 => handle[c] \in DOMAIN results
  BY <1>1 DEF OutcomeOf, Holds
<1>4. handle[c] > 0 /\ results[handle[c]] # "open" => results'[handle[c]] = results[handle[c]]
  BY <1>3 DEF Settling
<1>5. Truthful(c)'
  <2>1. Completed(c) => Completed(c)'
    BY <1>4 DEF Settling, Completed
  <2>2. QED  BY <2>1 DEF OutcomeOf, Truthful
<1>6. Canceled(c)'
  <2>1. why[c] = "leave" => handle[c] > 0
    BY DEF OutcomeOf, Holds
  <2>2. QED
    BY <1>1, <1>4, <2>1 DEF OutcomeOf, Holds, Canceled, Settling
<1>7. QED  BY <1>2, <1>5, <1>6 DEF OutcomeOf

LEMMA WorkflowOutcomes ==
  ASSUME TypeInv, RunBegun, Outcomes, WorkflowStep
  PROVE  Outcomes' /\ Settling /\ handle' = handle
<1> USE DEF TypeInv, RunBegun, Outcomes, Settling, Stages
<1>1. Len(results) \in Nat /\ DOMAIN results = 1 .. Len(results)
  OBVIOUS
<1>2. CASE BeginRun
  <2>1. run + 1 \in Runs /\ run' = run + 1
    BY <1>2, ConstantsAssumption DEF BeginRun, Runs
  <2>2. QED  BY <1>2, <2>1 DEF BeginRun, Quiet, Runs
<1>3. CASE AnnounceContext \/ AnnounceRun \/ PublishToken \/ Again
  <2>1. /\ UNCHANGED <<run, recorded, results, cancelAsked, handle>>
        /\ stage \in {"begun", "announced", "talk"} /\ stage' \in {"announced", "talk", "load"}
    BY <1>3 DEF AnnounceContext, AnnounceRun, PublishToken, Again, Quiet
  <2>2. QED  BY <2>1
<1>4. ASSUME NEW status \in {"completed", "failed"}, FinalizeRun(status)
      PROVE  Outcomes' /\ Settling /\ handle' = handle
  <2>1. /\ stage = "talk" /\ stage' = "final" /\ UNCHANGED <<run, results, cancelAsked, handle>>
        /\ recorded' = [recorded EXCEPT ![run] = status] /\ run \in Runs
    BY <1>4 DEF FinalizeRun, Quiet
  <2>2. QED  BY <2>1 DEF RunStates, Runs
<1>5. ASSUME NEW outcome, CloseWith(outcome), outcome \in {"completed", "failed"},
             stage \notin {"none", "closed"}
      PROVE  Outcomes' /\ Settling /\ handle' = handle
  <2>1. /\ stage' = "closed" /\ results' = [results EXCEPT ![Len(results)] = outcome]
        /\ UNCHANGED <<run, cancelAsked, recorded, handle>>
    BY <1>5 DEF CloseWith, Quiet
  <2>2. results # <<>> /\ results[Len(results)] = "open" /\ Len(results) \in DOMAIN results
    BY <1>1, <1>5
  <2>3. /\ results' \in Seq(Results) /\ Len(results') = Len(results) /\ results' # <<>>
        /\ results'[Len(results')] = outcome
        /\ \A i \in DOMAIN results : results[i] # "open" => results'[i] = results[i]
    BY <1>1, <1>5, <2>1, <2>2 DEF Results
  <2>4. QED  BY <1>5, <2>1, <2>3
<1>6. CASE ReturnResult \/ FailWhileLoading \/ EscapeCancelled
  <2>1. CASE stage = "final" /\ CloseWith(recorded[run])
    <3>1. recorded[run] \in {"completed", "failed"}
      BY <2>1 DEF RunStates
    <3>2. QED  BY <1>5, <2>1, <3>1
  <2>2. CASE CloseWith("failed") /\ stage \notin {"none", "closed"}
    BY <1>5, <2>2
  <2>3. QED  BY <1>6, <2>1, <2>2 DEF ReturnResult, FailWhileLoading, EscapeCancelled
<1>7. QED  BY <1>2, <1>3, <1>4, <1>6 DEF WorkflowStep

\* Only finalize_run publishes an end, and that of the run it has recorded.
LEMMA WorkflowEnds ==
  ASSUME TypeInv, RunBegun, Outcomes, Settling, WorkflowStep,
         NEW c \in Clients, ClientInv(c), RelaysEnd(c)
  PROVE  RelaysEnd(c)'
<1>1. Kept(c)
  BY DEF WorkflowStep, BeginRun, AnnounceContext, AnnounceRun, PublishToken, Again, FinalizeRun,
         ReturnResult, FailWhileLoading, EscapeCancelled, CloseWith, Quiet, Kept
<1> SUFFICES ASSUME Running(c), NEW i \in DOMAIN inbox'[c], inbox'[c][i].kind = "done"
             PROVE  recorded'[runId[c]] = "completed"
  BY <1>1 DEF RelaysEnd, Kept, Running
<1>2. inbox[c] \in Seq(Events) /\ runId[c] \in Runs /\ topic[c] = runId[c] /\ topic[c] # Ctx
  BY Numbers DEF TypeInv, ClientInv, Placed
<1>3. CASE inbox'[c] = inbox[c]
  BY <1>2, <1>3 DEF RelaysEnd, Settling
<1>4. ASSUME NEW channel, NEW e \in Events, Publish(channel, <<e>>), inbox'[c] # inbox[c]
      PROVE  /\ channel = runId[c]
             /\ (i \in DOMAIN inbox[c] /\ inbox[c][i].kind = "done") \/ e.kind = "done"
  <2>1. channel = topic[c] /\ inbox'[c] = inbox[c] \o <<e>>
    BY <1>4 DEF Publish
  <2>2. inbox'[c][i] = e \/ (i \in DOMAIN inbox[c] /\ inbox'[c][i] = inbox[c][i])
    BY <1>2, <2>1
  <2>3. QED  BY <1>2, <2>1, <2>2
<1>5. CASE AnnounceContext /\ inbox'[c] # inbox[c]
  BY <1>2, <1>5 DEF AnnounceContext, Publish
<1>6. CASE (AnnounceRun \/ PublishToken) /\ inbox'[c] # inbox[c]
  <2>1. PICK e \in Events : e.kind # "done" /\ Publish(run, <<e>>)
    <3>1. CASE AnnounceRun
      <4>1. Event("ready", run, 0) \in Events /\ Event("ready", run, 0).kind = "ready"
        BY Numbers DEF TypeInv, Event, Events, Relayed, Opening
      <4>2. QED  BY <3>1, <4>1 DEF AnnounceRun
    <3>2. CASE PublishToken
      <4>1. said' \in 0 .. MaxTokens /\ Publish(run, <<Event("token", run, said')>>)
        BY <3>2, ConstantsAssumption DEF PublishToken, TypeInv
      <4>2. Event("token", run, said') \in Events /\ Event("token", run, said').kind = "token"
        BY <4>1 DEF TypeInv, Event, Events, Relayed
      <4>3. QED  BY <4>1, <4>2
    <3>3. QED  BY <1>6, <3>1, <3>2
  <2>2. i \in DOMAIN inbox[c] /\ inbox[c][i].kind = "done"
    BY <1>4, <1>6, <2>1
  <2>3. QED  BY <1>2, <2>2 DEF RelaysEnd, Settling
<1>7. ASSUME NEW status \in {"completed", "failed"}, FinalizeRun(status), inbox'[c] # inbox[c]
      PROVE  recorded'[runId[c]] = "completed"
  <2>0. Event("done", run, 0) \in Events /\ Event("error", run, 0) \in Events
    BY Numbers DEF TypeInv, Event, Events, Relayed, Terminal
  <2> PICK e \in Events : e = Event(IF status = "completed" THEN "done" ELSE "error", run, 0)
    <3>1. CASE status = "completed"
      BY <2>0, <3>1
    <3>2. CASE status # "completed"
      BY <2>0, <3>2
    <3>3. QED  BY <3>1, <3>2
  <2>1. /\ e.kind = "done" => status = "completed"
        /\ Publish(run, <<e>>) /\ run \in Runs
        /\ recorded' = [recorded EXCEPT ![run] = status]
    BY <1>7, Numbers DEF FinalizeRun, RunBegun, Event
  <2>2. run = runId[c] /\ ((i \in DOMAIN inbox[c] /\ inbox[c][i].kind = "done") \/ e.kind = "done")
    BY <1>4, <1>7, <2>1
  <2>3. CASE e.kind = "done"
    BY <2>1, <2>2, <2>3 DEF Outcomes
  <2>4. CASE i \in DOMAIN inbox[c] /\ inbox[c][i].kind = "done"
    BY <1>2, <2>4 DEF RelaysEnd, Settling
  <2>5. QED  BY <2>2, <2>3, <2>4
<1>8. CASE BeginRun \/ Again \/ ReturnResult \/ FailWhileLoading \/ EscapeCancelled
  BY <1>3, <1>8 DEF BeginRun, Again, ReturnResult, FailWhileLoading, EscapeCancelled, CloseWith
<1>9. QED  BY <1>3, <1>5, <1>6, <1>7, <1>8 DEF WorkflowStep

LEMMA ClientOutcomes ==
  ASSUME TypeInv, Outcomes, NEW c \in Clients, ClientStep(c)
  PROVE  Outcomes' /\ Settling /\ \A d \in Clients : d # c => handle'[d] = handle[d]
<1> USE DEF TypeInv, Outcomes, Settling, Stages
<1>1. Len(results) \in Nat /\ DOMAIN results = 1 .. Len(results)
  OBVIOUS
<1>2. CASE StartWorkflow(c)
  <2>1. /\ stage' = "load" /\ stage \in {"none", "closed"} /\ results' = Append(results, "open")
        /\ UNCHANGED <<run, recorded>>
    BY <1>2 DEF StartWorkflow
  <2>2. /\ results' \in Seq(Results) /\ Len(results') = Len(results) + 1 /\ results' # <<>>
        /\ results'[Len(results')] = "open"
        /\ \A i \in DOMAIN results : results'[i] = results[i]
    BY <1>1, <2>1 DEF Results
  <2>3. handle' \in [Clients -> Nat] /\ \A d \in Clients : d # c => handle'[d] = handle[d]
    BY <1>1, <1>2, <2>2 DEF StartWorkflow
  <2>4. Outcomes'
    <3>1. stage' # "none" /\ stage' # "closed" /\ stage' \notin {"begun", "announced", "talk", "final"}
      BY <2>1
    <3>2. (\A r \in Runs : r > run => recorded[r] = "running")'
      BY <2>1
    <3>3. QED  BY <2>1, <2>2, <2>3, <3>1, <3>2
  <2>5. Settling
    <3>1. \A n \in Nat : n <= n + 1 /\ n + 1 # n
      OBVIOUS
    <3>2. Len(results) <= Len(results') /\ Len(results') # Len(results)
      BY <1>1, <2>2, <3>1, Zenon
    <3>3. QED  BY <2>1, <2>2, <3>2
  <2>6. QED  BY <2>3, <2>4, <2>5
<1>3. CASE FindRunning(c)
  BY <1>1, <1>3 DEF FindRunning, workflowVars
<1>4. CASE EndSession(c)
  <2>1. UNCHANGED <<stage, run, recorded, results, handle>> /\ (cancelAsked => cancelAsked')
    BY <1>4 DEF EndSession
  <2>2. QED  BY <2>1
<1>5. CASE ~StartWorkflow(c) /\ ~FindRunning(c) /\ ~EndSession(c)
  <2>1. UNCHANGED <<stage, run, recorded, results, cancelAsked, handle>>
    BY <1>5
       DEF ClientStep, StartStep, StreamStep, Subscribe, FailToStart, Attach, TakeReady, SkipEarly,
           LeaveContext, JoinRun, Relay, Sent, FinishByReader, FinishByResult, CloseStream, Leave,
           CloseConnection, StopStream, workflowVars
  <2>2. QED  BY <2>1
<1>6. QED  BY <1>2, <1>3, <1>4, <1>5

\* What is sent next is true.
LEMMA TruthGrows ==
  ASSUME Outcomes, Settling, NEW c \in Clients, Holds(c), Truthful(c), shown[c] \in Seq(Events),
         runId'[c] = runId[c], handle'[c] = handle[c], NEW e \in Events,
         shown'[c] = shown[c] \/ shown'[c] = Append(shown[c], e),
         e.kind = "done" => Completed(c)
  PROVE  Truthful(c)'
<1>1. /\ Len(results) \in Nat /\ handle[c] \in Nat /\ DOMAIN results = 1 .. Len(results)
      /\ handle[c] > 0 => handle[c] \in DOMAIN results
  BY DEF Outcomes, Holds
<1>2. Completed(c) => Completed(c)'
  BY <1>1 DEF Settling, Completed
<1>3. ASSUME NEW i \in DOMAIN shown'[c]
      PROVE  (i \in DOMAIN shown[c] /\ shown'[c][i] = shown[c][i]) \/ shown'[c][i] = e
  OBVIOUS
<1>4. QED  BY <1>2, <1>3 DEF Truthful

\* A client's own step.
LEMMA OwnOutcome ==
  ASSUME TypeInv, TypeInv', Outcomes, Outcomes', Settling, NEW c \in Clients, ClientInv(c),
         OutcomeOf(c), ClientStep(c)
  PROVE  OutcomeOf(c)'
<1> USE DEF OutcomeOf, Running
<1>1. /\ Placed(c) /\ EarlyQueue(c)
      /\ inbox[c] \in Seq(Events) /\ shown[c] \in Seq(Events)
      /\ Len(results) \in Nat /\ handle[c] \in Nat /\ DOMAIN results = 1 .. Len(results)
  BY DEF TypeInv, Outcomes, ClientInv
<1> USE DEF Early, Between
<1>2. CASE Subscribe(c)
  <2>1. /\ at[c] = "idle" /\ at'[c] = "starting" /\ shown'[c] = shown[c] /\ shown[c] = <<>>
        /\ why'[c] = why[c] /\ reader'[c] = "none"
        /\ handle'[c] = handle[c] /\ results' = results
    BY <1>1, <1>2 DEF Subscribe, Goto, TypeInv, Placed, workflowVars
  <2>2. QED  BY <1>1, <2>1 DEF Holds, RelaysEnd, Truthful, Canceled
<1>3. CASE StartWorkflow(c) \/ FindRunning(c)
  <2>1. /\ at[c] = "starting" /\ at'[c] \in {"waiting", "attaching"} /\ shown'[c] = shown[c]
        /\ shown[c] = <<>> /\ reader'[c] = "none"
    BY <1>1, <1>3 DEF StartWorkflow, FindRunning, Goto, TypeInv, Placed
  <2>2. handle'[c] = Len(results') /\ results' # <<>>
    <3>1. CASE StartWorkflow(c)
      BY <3>1 DEF StartWorkflow, Outcomes
    <3>2. CASE FindRunning(c)
      BY <3>2 DEF FindRunning, Outcomes, workflowVars
    <3>3. QED  BY <1>3, <3>1, <3>2
  <2>3. Len(results') \in Nat \ {0}
    BY <2>2 DEF Outcomes
  <2>4. QED  BY <2>1, <2>2, <2>3 DEF Holds, RelaysEnd, Truthful, Canceled
\* From here on the workflows and the client's handle stay as they are.
<1>4. CASE FailToStart(c) \/ Attach(c) \/ SkipEarly(c)
  <2>1. /\ at[c] \in {"starting", "attaching", "waiting"} /\ at'[c] \in {"over", "waiting", "ending"}
        /\ at[c] = "starting" => at'[c] = "over" /\ why[c] = "none"
        /\ at[c] # "starting" /\ at'[c] = "over" => results[handle[c]] # "open"
        /\ reader'[c] = "none" /\ why'[c] = why[c] /\ runId'[c] = runId[c]
        /\ handle'[c] = handle[c] /\ results' = results
    BY <1>1, <1>4
       DEF FailToStart, Attach, SkipEarly, Goto, TypeInv, Placed, Holds, workflowVars
  <2>2. Holds(c)' /\ RelaysEnd(c)'
    BY <1>1, <2>1 DEF Holds, RelaysEnd
  <2>3. Event("error", 0, 0) \in Events /\ Event("error", 0, 0).kind = "error"
    BY Numbers DEF Event, Events, Relayed, Terminal
  <2>4. shown'[c] = shown[c] \/ shown'[c] = Append(shown[c], Event("error", 0, 0))
    BY <1>4, <2>3, TellTypes, EmitTypes DEF FailToStart, Attach, SkipEarly
  <2>5. Truthful(c)'
    BY <1>1, <2>1, <2>3, <2>4, TruthGrows
  <2>6. Canceled(c)'
    BY <2>1 DEF Canceled
  <2>7. QED  BY <2>2, <2>5, <2>6
<1>5. CASE TakeReady(c)
  <2> DEFINE e == Head(inbox[c])
  <2>1. /\ at[c] = "waiting" /\ at'[c] \in {"leaving", "ending"} /\ shown[c] = <<>>
        /\ e \in Events /\ e.kind = "ready" /\ Emit(c, e)
        /\ reader'[c] = "none" /\ why'[c] = why[c]
        /\ handle'[c] = handle[c] /\ results' = results
    BY <1>1, <1>5, TakeTypes DEF TakeReady, Goto, TypeInv, Placed, workflowVars
  <2>2. Holds(c)' /\ RelaysEnd(c)' /\ Canceled(c)'
    BY <1>1, <2>1 DEF Holds, RelaysEnd, Canceled
  <2>3. shown'[c] = <<>> \/ shown'[c] = <<e>>
    <3>1. Append(<<>>, e) = <<e>>
      OBVIOUS
    <3>2. shown'[c] = <<>> \/ shown'[c] = Append(<<>>, e)
      BY <2>1, EmitTypes
    <3>3. QED  BY <3>1, <3>2
  <2>4. \A i \in DOMAIN shown'[c] : shown'[c][i] = e
    BY <2>1, <2>3
  <2>5. QED  BY <2>1, <2>2, <2>4 DEF Truthful
<1>6. CASE LeaveContext(c) \/ JoinRun(c)
  <2>1. /\ at[c] \in {"leaving", "switching"} /\ at'[c] \in {"switching", "streaming"}
        /\ why'[c] = why[c] /\ runId'[c] = runId[c] /\ inbox'[c] = inbox[c]
        /\ shown'[c] = shown[c] /\ handle'[c] = handle[c]
        /\ results' = results /\ recorded' = recorded
    BY <1>6 DEF LeaveContext, JoinRun, Goto, TypeInv, workflowVars
  <2>2. \A i \in DOMAIN inbox[c] : inbox[c][i].kind # "done"
    BY <1>1, <2>1 DEF EarlyQueue, Opening
  <2>3. QED
    BY <1>1, <2>1, <2>2 DEF Holds, RelaysEnd, Truthful, Completed, Canceled
<1>7. CASE Relay(c)
  <2> DEFINE e == Head(inbox[c])
  <2>1. /\ Running(c) /\ inbox[c] # <<>> /\ e \in Events /\ e = inbox[c][1] /\ 1 \in DOMAIN inbox[c]
        /\ Emit(c, e) /\ (Drop(c) \/ Pop(c))
    BY <1>7, TakeTypes DEF Relay
  <2>2. /\ at'[c] = at[c] /\ why'[c] = why[c] /\ runId'[c] = runId[c] /\ handle'[c] = handle[c]
        /\ via'[c] = via[c]
        /\ results' = results /\ recorded' = recorded /\ cancelAsked' = cancelAsked
    BY <1>7 DEF Relay, workflowVars
  <2>3. e.kind = "done" => Completed(c)
    BY <1>1, <2>1 DEF RelaysEnd, Completed, Placed
  <2>4. shown'[c] = shown[c] \/ shown'[c] = Append(shown[c], e)
    BY <2>1, EmitTypes
  <2>5. Truthful(c)'
    BY <1>1, <2>1, <2>2, <2>3, <2>4, TruthGrows
  <2>6. \A i \in DOMAIN inbox'[c] : i + 1 \in DOMAIN inbox[c] /\ inbox'[c][i] = inbox[c][i+1]
    <3>1. inbox'[c] = <<>> \/ inbox'[c] = Tail(inbox[c])
      BY <2>1, TakeTypes
    <3>2. CASE inbox'[c] = <<>>
      BY <3>2
    <3>3. CASE inbox'[c] = Tail(inbox[c])
      BY <1>1, <2>1, <3>3
    <3>4. QED  BY <3>1, <3>2, <3>3
  <2>7. RelaysEnd(c)'
    BY <2>1, <2>2, <2>6 DEF RelaysEnd
  <2>8. Holds(c)' /\ Canceled(c)'
    BY <1>1, <2>1, <2>2 DEF Holds, Canceled
  <2>9. QED  BY <2>5, <2>7, <2>8
<1>8. CASE Sent(c) \/ Leave(c) \/ CloseConnection(c)
  <2>1. /\ at'[c] = at[c] /\ runId'[c] = runId[c] /\ handle'[c] = handle[c] /\ via'[c] = via[c]
        /\ why'[c] = why[c] \/ at[c] \in {"waiting", "leaving", "switching", "streaming"}
        /\ (shown'[c] = shown[c] /\ inbox'[c] = inbox[c]) \/ ~Running(c)'
        /\ Running(c)' => Running(c)
        /\ results' = results /\ recorded' = recorded /\ cancelAsked' = cancelAsked
    BY <1>8, TakeTypes DEF Sent, Leave, CloseConnection, Streaming, TypeInv, workflowVars
  <2>2. shown'[c] = shown[c]
    BY <1>8 DEF Sent, Leave, CloseConnection
  <2>3. QED
    BY <1>1, <2>1, <2>2 DEF Holds, RelaysEnd, Truthful, Completed, Canceled
<1>9. CASE FinishByReader(c) \/ FinishByResult(c)
  <2>1. /\ at[c] = "streaming" /\ at'[c] = "ending" /\ reader'[c] = "stopped"
        /\ why'[c] = why[c] /\ runId'[c] = runId[c] /\ handle'[c] = handle[c]
        /\ results' = results
    BY <1>9 DEF FinishByReader, FinishByResult, CloseStream, Goto, TypeInv, workflowVars
  <2>2. Holds(c)' /\ RelaysEnd(c)' /\ Canceled(c)'
    BY <1>1, <2>1 DEF Holds, RelaysEnd, Canceled
  <2>3. CASE FinishByReader(c)
    <3>1. shown'[c] = shown[c] /\ recorded' = recorded
      BY <2>3 DEF FinishByReader, CloseStream, workflowVars
    <3>2. QED  BY <2>1, <2>2, <3>1 DEF Truthful, Completed
  <2>4. CASE FinishByResult(c)
    <3>1. Event("done", runId[c], 0) \in Events /\ Event("error", runId[c], 0) \in Events
      BY Numbers DEF TypeInv, Event, Events, Relayed, Terminal
    <3>2. PICK e \in Events : Emit(c, e) /\ (e.kind = "done" => results[handle[c]] = "completed")
      BY <2>4, <3>1 DEF FinishByResult, Event
    <3>3. handle[c] > 0
      BY <2>1 DEF Holds
    <3>4. Truthful(c)'
      BY <1>1, <2>1, <3>2, <3>3, EmitTypes, TruthGrows DEF Completed
    <3>5. QED  BY <2>2, <3>4
  <2>5. QED  BY <1>9, <2>3, <2>4
<1>10. CASE EndSession(c)
  <2>1. /\ at[c] \in {"stopping", "ending"} /\ at'[c] = "over"
        /\ why'[c] = why[c] /\ runId'[c] = runId[c] /\ handle'[c] = handle[c] /\ via'[c] = via[c]
        /\ reader'[c] = reader[c] /\ inbox'[c] = inbox[c]
        /\ results' = results /\ recorded' = recorded /\ stage' = stage
    BY <1>10 DEF EndSession, TypeInv
  <2>2. Holds(c)' /\ RelaysEnd(c)'
    BY <1>1, <2>1 DEF Holds, RelaysEnd
  <2>3. Truthful(c)'
    <3>1. /\ Event("terminated", 0, 0) \in Events /\ Event("canceled", 0, 0) \in Events
          /\ Event("terminated", 0, 0).kind = "terminated"
          /\ Event("canceled", 0, 0).kind = "canceled"
      BY Numbers DEF Event, Events, LastWords
    <3>2. \/ shown'[c] = shown[c]
          \/ \E e \in Events : e.kind # "done" /\ Tell(c, e)
      BY <1>10, <3>1 DEF EndSession
    <3>3. CASE shown'[c] = shown[c]
      BY <2>1, <3>3 DEF Truthful, Completed
    <3>4. CASE shown'[c] # shown[c]
      <4>1. PICK e \in Events : e.kind # "done" /\ shown'[c] = Append(shown[c], e)
        BY <3>2, <3>4, TellTypes
      <4>2. QED  BY <1>1, <2>1, <4>1, TruthGrows
    <3>5. QED  BY <3>3, <3>4
  <2>4. Canceled(c)'
    <3> SUFFICES ASSUME why[c] = "leave", via[c] = "direct", handle[c] = Len(results),
                        results[handle[c]] = "open"
                 PROVE  cancelAsked'
      BY <2>1 DEF Canceled
    <3>1. results # <<>>
      BY <1>1 DEF Holds
    <3>2. stage \notin {"none", "closed"}
      BY <3>1 DEF Outcomes
    <3>3. WantsCancel(c)
      BY DEF WantsCancel
    <3>4. QED  BY <1>10, <3>2, <3>3 DEF EndSession
  <2>5. QED  BY <2>2, <2>3, <2>4
<1>11. ASSUME NEW reason \in Reasons, StopStream(c, reason) PROVE OutcomeOf(c)'
  <2>1. /\ at[c] \in {"waiting", "leaving", "switching", "streaming"} /\ at'[c] = "stopping"
        /\ runId'[c] = runId[c] /\ handle'[c] = handle[c] /\ reader'[c] = reader[c]
        /\ shown'[c] = shown[c] /\ (Running(c) => inbox'[c] = inbox[c])
        /\ results' = results /\ recorded' = recorded
    BY <1>11 DEF StopStream, Streaming, TypeInv
  <2>2. QED
    BY <1>1, <2>1 DEF Holds, RelaysEnd, Truthful, Completed, Canceled
<1>12. QED
  BY <1>2, <1>3, <1>4, <1>5, <1>6, <1>7, <1>8, <1>9, <1>10, <1>11
     DEF ClientStep, StartStep, StreamStep

LEMMA InitOutcomes == Init => OInv
BY DEF Init, OInv, Outcomes, OutcomeOf, Holds, RelaysEnd, Truthful, Canceled, Running, RunStates,
       Results

\* Every step keeps what is recorded and what was said about it in agreement.
LEMMA OutcomesKept == ASSUME IInv, OInv, [Next]_vars PROVE OInv'
<1>1. /\ TypeInv /\ RunBegun /\ Outcomes /\ IInv'
      /\ \A c \in Clients : ClientInv(c) /\ Placed(c) /\ OutcomeOf(c) /\ RelaysEnd(c)
  BY Inductive DEF IInv, OInv, ClientInv, OutcomeOf
<1>2. CASE WorkflowStep
  <2>1. Outcomes' /\ Settling /\ handle' = handle
    BY <1>1, <1>2, WorkflowOutcomes
  <2>2. ASSUME NEW c \in Clients PROVE OutcomeOf(c)'
    <3>1. Kept(c)
      BY <1>2
         DEF WorkflowStep, BeginRun, AnnounceContext, AnnounceRun, PublishToken, Again, FinalizeRun,
             ReturnResult, FailWhileLoading, EscapeCancelled, CloseWith, Quiet, Kept
    <3>2. RelaysEnd(c)'
      BY <1>1, <1>2, <2>1, WorkflowEnds
    <3>3. QED  BY <1>1, <2>1, <3>1, <3>2, OutcomeFramed
  <2>3. QED  BY <2>1, <2>2 DEF OInv
<1>3. ASSUME NEW c \in Clients, ClientStep(c) PROVE OInv'
  <2>1. Outcomes' /\ Settling /\ \A d \in Clients : d # c => handle'[d] = handle[d]
    BY <1>1, <1>3, ClientOutcomes
  <2>2. TypeInv' /\ \A d \in Clients : d # c => Untouched(d)
    BY <1>1, <1>3, ClientTypes
  <2>3. OutcomeOf(c)'
    BY <1>1, <1>3, <2>1, <2>2, OwnOutcome
  <2>4. ASSUME NEW d \in Clients, d # c PROVE OutcomeOf(d)'
    <3>1. Kept(d) /\ inbox'[d] = inbox[d] /\ handle'[d] = handle[d]
      BY <2>1, <2>2, <2>4 DEF Untouched
    <3>2. Running(d) => runId[d] \in Runs
      BY <1>1 DEF Placed
    <3>3. RelaysEnd(d)'
      BY <1>1, <2>1, <3>1, <3>2 DEF RelaysEnd, Running, Kept, Settling
    <3>4. QED  BY <1>1, <2>1, <3>1, <3>3, OutcomeFramed
  <2>5. QED  BY <2>1, <2>3, <2>4 DEF OInv
<1>4. CASE UNCHANGED vars
  BY <1>1, <1>4
     DEF vars, workflowVars, clientVars, OInv, Outcomes, OutcomeOf, Holds, RelaysEnd, Truthful,
         Completed, Canceled, Running
<1>5. QED  BY <1>2, <1>3, <1>4 DEF Next, ClientStep, Reasons

\* The invariant behind the two theorems that follow: what is recorded of the
\* runs and workflows, what queues and clients hold of it, and who still holds
\* a workflow that nobody cancelled.
THEOREM OutcomesAgree == Spec => []OInv
<1>1. Init => OInv
  BY InitOutcomes
<1>2. IInv /\ OInv /\ [Next]_vars => OInv'
  BY OutcomesKept
<1>3. QED  BY <1>1, <1>2, Invariant, PTL DEF Spec

\* Nobody is told done who has not the run or the workflow to show for it:
\* neither a reader that relays a terminal event late nor the result that stands
\* in for a lost one, however often the conversation's workflow is started anew.
THEOREM DonesAreTrue == Spec => []DoneIsTrue
<1>1. OInv => DoneIsTrue
  BY DEF OInv, OutcomeOf, Truthful, Completed, DoneIsTrue
<1>2. QED  BY <1>1, OutcomesAgree, PTL

\* A client of /ws/orchestrate that left has had its workflow cancelled or finds
\* it closed, in whatever order the disconnect, the stream's end and the
\* workflow's came.
THEOREM NoRunWasted == Spec => []NoWastedRun
<1>1. OInv => NoWastedRun
  BY DEF OInv, OutcomeOf, Canceled, NoWastedRun
<1>2. QED  BY <1>1, OutcomesAgree, PTL
=============================================================================
