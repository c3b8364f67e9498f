----------------------------- MODULE Deployment -----------------------------
(***************************************************************************)
(* Saving applications and loading orchestrators.                          *)
(*                                                                         *)
(* The administration routes (src/app/routers/admin_applications.py,       *)
(* admin_orchestrators.py) read an application, compile the drawn graph    *)
(* into rows (src/app/services/app_compiler.py), commit, and then delete   *)
(* the cached orchestrator configurations they touched.  Pods load an      *)
(* orchestrator by name through that cache (src/app/temporal/loaders.py,   *)
(* and the same code in src/app/services/task_runner.py).                  *)
(*                                                                         *)
(* A request is three steps: the read, the commit and the flush.  Requests *)
(* of several editors, and the loader, run between them.  The session of   *)
(* the ORM writes only what differs from what it read, so a commit is      *)
(* computed from the request's own reading and applied to the rows as they *)
(* are by then.  PostgreSQL's constraints make it fail as a whole.         *)
(***************************************************************************)
EXTENDS CanvasGraph

CONSTANTS
    Apps,            \* applications (their ids)
    Concurrent,      \* how many requests can be in flight at a time
    Drawings,        \* graphs an editor draws, all nodes new
    Lists,           \* bodies of the entry_points form: [slugs, agents]
    EnabledAgents,   \* agent nodes whose agent exists and is enabled
    Watched,         \* the orchestrator names pods load
    TemplateNames,   \* names of shared templates
    Templates,       \* what a template can hold (its agents)
    MaxRequests,     \* bound: requests in a behaviour
    None

ASSUME DeploymentAssumption ==
    /\ \A g \in Drawings : NewDrawing(g)
    /\ \A l \in Lists : IsFiniteSet(l.slugs) /\ IsFiniteSet(l.agents)
    /\ None \notin {"graph", "list", "deleted"}
    /\ MaxRequests \in Nat /\ Concurrent \in Nat

VARIABLES
    app,       \* the applications that exist
    rows,      \* app_orchestrators: id -> [app, node, name, agents, delegatable]
    entries,   \* entry_points: slug -> [app, row], row 0 when unset
    wirings,   \* middleware_wirings: set of [app, via, node, agent, position]
    template,  \* orchestrators: name -> what it holds, or None
    lastId,    \* ids below or equal to this one have been used
    req,       \* session -> the request it serves
    file,      \* an exported application, or NoGraph
    config,    \* Redis them:app:{app}:orch:{name} and them:orch:tmpl:{name}
    locator,   \* Redis them:orch:loc:{name} -> the scope that holds it
    load,      \* the pod's load_orchestrator_row in progress
    requests,  \* how many requests there were
    drawn,     \* history: app -> the graph or list its last request saved
    straddled, \* history: names a fill was under way for while they were flushed
    unflushed  \* history: watched names whose flush was lost

database == <<app, rows, entries, wirings, template, lastId>>
cache    == <<config, locator>>
vars == <<app, rows, entries, wirings, template, lastId, req, file, config,
          locator, load, requests, drawn, straddled, unflushed>>

Sessions == 1..Concurrent
Shared  == "tmpl"
NoGraph == [kind |-> <<>>, edges |-> <<>>, ref |-> <<>>, proposed |-> <<>>]
NoPlan  == [update |-> <<>>, add |-> <<>>, drop |-> {}, link |-> <<>>,
            remove |-> {}, wire |-> {}, names |-> {}]
Idle    == [pc |-> "idle", op |-> None, app |-> None, graph |-> NoGraph,
            rows |-> <<>>, entries |-> <<>>, plan |-> NoPlan,
            touched |-> {}, new |-> FALSE, alone |-> TRUE]
AtRest  == [pc |-> "idle", name |-> NoName, scope |-> None, found |-> None]
NotDrawn == [by |-> None, graph |-> NoGraph, slugs |-> {}, alone |-> FALSE]

RowsOf(a)    == {i \in DOMAIN rows : rows[i].app = a}
EntriesOf(a) == {x \in DOMAIN entries : entries[x].app = a}
ReadRows(a)    == [i \in RowsOf(a) |-> rows[i]]
ReadEntries(a) == [x \in EntriesOf(a) |-> entries[x]]
RowNames     == {rows[i].name : i \in DOMAIN rows}
LiveTemplates == {n \in TemplateNames : template[n] # None}

\* The locator names a scope, and that scope's key holds a configuration.
Hit(n) == n \in DOMAIN locator /\ <<locator[n], n>> \in DOMAIN config

\* A stale configuration of n can be served, or come to be.
Exposed(n) == Hit(n) \/ load.name = n

Init ==
    /\ app = {} /\ rows = <<>> /\ entries = <<>> /\ wirings = {}
    /\ template = [n \in TemplateNames |-> None]
    /\ lastId = 0
    /\ req = [s \in Sessions |-> Idle]
    /\ file = NoGraph
    /\ config = <<>> /\ locator = <<>> /\ load = AtRest
    /\ requests = 0
    /\ drawn = [a \in Apps |-> NotDrawn]
    /\ straddled = {} /\ unflushed = {}

-----------------------------------------------------------------------------
(***************************************************************************)
(* Requests: the reading.                                                  *)
(***************************************************************************)

\* What the editor makes of a drawing when some of its orchestrators stand
\* for saved rows: it rebuilds those nodes as "orch_<id>" with the row's id
\* and name, each row once.
Rebuilt(g, standsFor) ==
    LET node(n) == IF n \in DOMAIN standsFor /\ standsFor[n] # 0
                   THEN <<"orch", standsFor[n]>> ELSE n
        orchs   == {node(n) : n \in NodesOf(g, "orch")}
        row(m)  == IF m[1] = "orch" THEN m[2] ELSE 0
    IN  [kind  |-> [m \in {node(n) : n \in DOMAIN g.kind} |->
                       g.kind[CHOOSE n \in DOMAIN g.kind : node(n) = m]],
         edges |-> [i \in DOMAIN g.edges |->
                       <<node(g.edges[i][1]), node(g.edges[i][2])>>],
         ref   |-> [m \in orchs |-> row(m)],
         proposed |-> [m \in orchs |->
                       IF row(m) = 0 THEN NoName ELSE rows[row(m)].name]]

\* Drawings made from nothing, and made from the saved graph: there, every
\* orchestrator that has a saved row with its label stands for that row.
DrawnFor(a) ==
    LET rowsFor(n) == {i \in RowsOf(a) : rows[i].name[1] = n[1]}
        saved(g) == {f \in [NodesOf(g, "orch") -> {0} \cup RowsOf(a)] :
                       \A n \in NodesOf(g, "orch") :
                          f[n] \in (IF rowsFor(n) = {} THEN {0} ELSE rowsFor(n))}
    IN  Drawings \cup UNION {{Rebuilt(g, f) : f \in saved(g)} : g \in Drawings}

-----------------------------------------------------------------------------
(***************************************************************************)
(* Requests: the plan.  Still in memory, a save works out what its session *)
(* will write:                                                             *)
(*   update : id -> row, for rows it read     link : slug -> row id        *)
(*   add    : id -> row, new ones             drop : ids it deletes        *)
(*   remove : slugs it deletes                wire : the new wirings       *)
(*   names  : the orchestrators whose cached configuration it will flush   *)
(***************************************************************************)

\* A node stands for the row with its node id, else for the row it refers to.
Matched(g, read, n) ==
    LET same == {i \in DOMAIN read : read[i].node = n}
    IN  IF same # {} THEN CHOOSE i \in same : TRUE
        ELSE IF g.ref[n] \in DOMAIN read THEN g.ref[n] ELSE 0

\* _generate_orch_name: the proposed name, the label when it is free, or the
\* label with a random suffix (the id stands for it).
NameFor(g, n, id) ==
    IF g.proposed[n] # NoName THEN g.proposed[n]
    ELSE IF <<n[1], 0>> \notin RowNames \cup LiveTemplates THEN <<n[1], 0>>
    ELSE <<n[1], id>>

\* Steps 2 of compile_graph: one record per orchestrator node.  A row keeps
\* its name (_apply_orch_data).
Placed(a, g, read) ==
    LET orchs == NodesOf(g, "orch")
        fresh == SetToSeq({n \in orchs : Matched(g, read, n) = 0})
        place(n, id, name) ==
            [id |-> id, old |-> Matched(g, read, n) # 0,
             row |-> [app |-> a, node |-> n, name |-> name,
                      agents |-> ResolveAgents(g, n),
                      delegatable |-> IsDelegatable(g, n)]]
    IN  {LET i == Matched(g, read, n) IN place(n, i, read[i].name)
           : n \in orchs \ ToSet(fresh)}
        \cup {place(fresh[k], lastId + k, NameFor(g, fresh[k], lastId + k))
           : k \in DOMAIN fresh}

ById(places) ==
    [i \in {x.id : x \in places} |-> (CHOOSE x \in places : x.id = i).row]

\* Step 3 of compile_graph: the rows it read whose node, after the renaming of
\* step 2, is not drawn.
DropByOldNode(g, read, placed) ==
    {i \in DOMAIN read : read[i].node \notin NodesOf(g, "orch")}
Dropped(g, read, placed) ==
    {i \in DOMAIN read :
        LET now == {x \in placed : x.id = i}
        IN  IF now = {} THEN read[i].node \notin NodesOf(g, "orch")
            ELSE \A x \in now : x.row.node \notin NodesOf(g, "orch")}

\* touched_names: kept, new and deleted orchestrators.
TouchDrawnOnly(read, placed) == {x.row.name : x \in placed}
Touched(read, placed) ==
    {read[i].name : i \in DOMAIN read} \cup {x.row.name : x \in placed}

\* compile_graph
GraphPlan(a, g, read, ways) ==
    LET placed == Placed(a, g, read)
        kept   == {x \in placed : x.old}
        slugs  == {n[1] : n \in NodesOf(g, "entry")}
        rowOf(n) == (CHOOSE x \in placed : x.row.node = n).id
    IN  [update |-> ById(kept),
         add    |-> ById(placed \ kept),
         drop   |-> Dropped(g, read, placed),
         link   |-> [x \in slugs |-> rowOf(EntryTarget(g, <<x, 0>>))],
         remove |-> DOMAIN ways \ slugs,
         wire   |-> {[app |-> a, via |-> w.via, node |-> w.node, agent |-> w.agent,
                      position |-> w.position] : w \in WiringsOf(g)},
         names  |-> Touched(read, placed)]

\* _create_app_orchestrator and _update_app_orchestrator.
ListCreated(a, list, node, id) ==
    [app |-> a, node |-> node, agents |-> list.agents, delegatable |-> FALSE,
     name |-> IF <<node[1], 0>> \notin RowNames \cup LiveTemplates
              THEN <<node[1], 0>> ELSE <<node[1], id>>]
ListUpdated(row, list) == [row EXCEPT !.agents = list.agents]

\* _apply_entry_point_diff.  New entry points share the row they ask for, or
\* one created for the canvas node they share; an old one that has no
\* orchestrator gets its own.
ListPlan(a, list, read, ways) ==
    LET old    == list.slugs \cap DOMAIN ways
        new    == list.slugs \ DOMAIN ways
        bare   == SetToSeq({x \in old : ways[x].row = 0})
        made   == IF new # {} /\ list.row = 0 THEN 1 ELSE 0
        target(x) == IF x \in new THEN (IF made = 1 THEN lastId + 1 ELSE list.row)
                     ELSE IF ways[x].row # 0 THEN ways[x].row
                     ELSE lastId + made + CHOOSE k \in DOMAIN bare : bare[k] = x
        targets == {target(x) : x \in list.slugs}
        node(i) == IF i = lastId + 1 /\ made = 1 THEN <<"list", 0>> ELSE <<"auto", i>>
    IN  [update |-> [i \in targets \cap DOMAIN read |-> ListUpdated(read[i], list)],
         add    |-> [i \in targets \ DOMAIN read |-> ListCreated(a, list, node(i), i)],
         drop   |-> {ways[x].row : x \in DOMAIN ways \ old}
                       \ ({ways[x].row : x \in old} \cup {0}),
         link   |-> [x \in list.slugs |-> target(x)],
         remove |-> DOMAIN ways \ old,
         wire   |-> {},
         names  |-> {read[i].name : i \in DOMAIN read}]

-----------------------------------------------------------------------------
(***************************************************************************)
(* Requests: the reading.  A handler of an existing application starts     *)
(* with _get_or_404, and a save goes on with _load_all_orch_names.         *)
(***************************************************************************)
Unused(a) == drawn[a].by = None /\ \A s \in Sessions : req[s].app # a

\* A request takes the first free session, a new application a new id.
Free(s) == req[s] = Idle /\ \A t \in 1..(s-1) : req[t] # Idle
NewApp  == IF \E a \in Apps : Unused(a) THEN {CHOOSE a \in Apps : Unused(a)} ELSE {}

Begin(s, op, a, g, plan) ==
    /\ Free(s)
    /\ requests < MaxRequests
    /\ requests' = requests + 1
    /\ lastId' = lastId + Cardinality(DOMAIN plan.add)
    /\ req' = [req EXCEPT ![s] =
                 [Idle EXCEPT !.pc = "read", !.op = op, !.app = a, !.graph = g,
                              !.plan = plan, !.new = a \notin app,
                              !.rows = ReadRows(a), !.entries = ReadEntries(a)]]
    /\ UNCHANGED <<app, rows, entries, wirings, template, file, cache, load,
                   drawn, straddled, unflushed>>

\* create_application and import_application, from a graph.
CreateApplication(s) ==
    /\ Free(s)
    /\ \E a \in NewApp, g \in Drawings \cup {file} :
        /\ ValidGraph(g)
        /\ Begin(s, "graph", a, g, GraphPlan(a, g, <<>>, <<>>))

\* update_application and restore_application, from a graph.
UpdateApplication(s) ==
    /\ Free(s)
    /\ \E a \in app : \E g \in DrawnFor(a) \cup {file} :
        /\ ValidGraph(g)
        /\ Begin(s, "graph", a, g, GraphPlan(a, g, ReadRows(a), ReadEntries(a)))

\* create_application and update_application, from a list of entry points;
\* "row" is the orchestrator a new entry point asks to share.
ListApplication(s) ==
    /\ Free(s)
    /\ \E a \in app \cup NewApp, l \in Lists : \E i \in RowsOf(a) \cup {0} :
        Begin(s, "list", a, NoGraph,
              ListPlan(a, [slugs |-> l.slugs, agents |-> l.agents, row |-> i],
                       ReadRows(a), ReadEntries(a)))

\* delete_application; bulk_delete_applications does the same to several.
DeleteApplication(s) ==
    \E a \in app :
        Begin(s, "delete", a, NoGraph,
              [NoPlan EXCEPT !.names = {rows[i].name : i \in RowsOf(a)}])

-----------------------------------------------------------------------------
(***************************************************************************)
(* Requests: the commit.                                                   *)
(***************************************************************************)

\* The session writes a row it read only in the columns that changed; the
\* list of agents counts as changed unless it was and stays empty.
Changed(q, i) ==
    q.plan.update[i] # q.rows[i] \/ q.plan.update[i].agents # {}

Written(q, i) ==
    LET was == q.rows[i]
        now == q.plan.update[i]
    IN  [rows[i] EXCEPT
           !.node   = IF now.node = was.node THEN @ ELSE now.node,
           !.agents = IF now.agents = {} /\ was.agents = {} THEN @ ELSE now.agents,
           !.delegatable = IF now.delegatable = was.delegatable THEN @ ELSE now.delegatable]

\* Likewise an entry point, which the session also writes when a deletion has
\* just taken its orchestrator out of the row.
Relinked(q, x) ==
    x \in DOMAIN q.entries => \/ q.entries[x].row # q.plan.link[x]
                              \/ x \in DOMAIN entries /\ entries[x].row \in q.plan.drop

RowsAfter(q) ==
    Over(q.plan.add, [i \in DOMAIN rows \ q.plan.drop |->
                        IF i \in DOMAIN q.plan.update /\ Changed(q, i)
                        THEN Written(q, i) ELSE rows[i]])

\* Entry points the save does not list: those that have an orchestrator it
\* deletes lose it.
KeepDangling(q, x) == entries[x]
Untied(q, x) ==
    IF entries[x].row \in q.plan.drop THEN [entries[x] EXCEPT !.row = 0] ELSE entries[x]

\* A deleted orchestrator is first taken out of the entry points that have
\* it; one inserted for it in the same transaction goes with it (ON DELETE
\* CASCADE).
EntriesAfter(q) ==
    LET link   == q.plan.link
        doomed == {x \in DOMAIN link \ DOMAIN q.entries : link[x] \in q.plan.drop}
        kept   == (DOMAIN entries \ q.plan.remove) \ DOMAIN link
        others == [x \in kept |-> Untied(q, x)]
        listed == {x \in DOMAIN link : Relinked(q, x)} \ doomed
        same   == {x \in DOMAIN link : ~ Relinked(q, x)} \cap DOMAIN entries
    IN  Over([x \in listed |-> [app |-> q.app, row |-> link[x]]],
             Over([x \in same |-> entries[x]], others))

\* What makes the commit fail: the checks of compile_graph against other
\* applications and the agents, rows that vanished (StaleDataError), the
\* unique indexes and the foreign keys.  When the application is gone and the
\* save has nothing to write, it commits nothing and answers 404.
Taken(q)  == \E x \in DOMAIN q.plan.link \cap DOMAIN entries :
                entries[x].app # q.app \/ x \notin DOMAIN q.entries
Vanished(q) ==
    \/ \E i \in DOMAIN q.plan.update : Changed(q, i) /\ i \notin DOMAIN rows
    \/ \E x \in DOMAIN q.plan.link : /\ Relinked(q, x)
                                     /\ x \in DOMAIN q.entries \ DOMAIN entries
    \/ \E x \in DOMAIN q.plan.link :
          Relinked(q, x) /\ q.plan.link[x] \notin DOMAIN rows \cup DOMAIN q.plan.add
    \/ q.app \notin app /\ ~ q.new
Collides(q) ==
    LET after == RowsAfter(q)
        keys  == {<<after[i].app, after[i].node>> : i \in DOMAIN after}
        added == {q.plan.add[i].name : i \in DOMAIN q.plan.add}
    IN  \/ added \cap RowNames # {}
        \/ Cardinality(added) < Cardinality(DOMAIN q.plan.add)
        \/ Cardinality(keys) < Cardinality(DOMAIN after)
        \/ WiringsCollide(q.plan.wire)

Refused(q) ==
    \/ q.op = "graph" /\ ~ NodesOf(q.graph, "agent") \subseteq EnabledAgents
    \/ Taken(q) \/ Vanished(q) \/ Collides(q)

\* Other requests on the application read it before this commit.
NoLongerAlone(s) ==
    [t \in Sessions |-> IF t # s /\ req[t].app = req[s].app
                        THEN [req[t] EXCEPT !.alone = FALSE] ELSE req[t]]

Save(s) ==
    LET q == req[s] IN
    /\ q.pc = "read"
    /\ q.op \in {"graph", "list"}
    /\ ~ Refused(q)
    /\ rows' = RowsAfter(q)
    /\ entries' = EntriesAfter(q)
    /\ wirings' = IF q.op = "list" THEN wirings
                  ELSE {w \in wirings : w.app # q.app} \cup q.plan.wire
    /\ app' = IF q.new THEN app \cup {q.app} ELSE app
    /\ drawn' = [drawn EXCEPT ![q.app] =
                   [by |-> q.op, graph |-> q.graph, slugs |-> DOMAIN q.plan.link,
                    alone |-> q.alone]]
    /\ req' = [NoLongerAlone(s) EXCEPT ![s] =
                 [Idle EXCEPT !.pc = "saved", !.app = q.app, !.touched = q.plan.names]]
    /\ UNCHANGED <<template, lastId, file, cache, load, requests, straddled, unflushed>>

\* An HTTPException, a StaleDataError or an IntegrityError: rolled back.
Refuse(s) ==
    /\ req[s].pc = "read"
    /\ req[s].op \in {"graph", "list"}
    /\ Refused(req[s])
    /\ req' = [req EXCEPT ![s] = Idle]
    /\ UNCHANGED <<database, file, cache, load, requests, drawn, straddled, unflushed>>

\* The commit of delete_application: the ORM and the foreign keys take every
\* row of the application; the names to flush are those that were read.
Delete(s) ==
    LET q == req[s] IN
    /\ q.pc = "read" /\ q.op = "delete"
    /\ app' = app \ {q.app}
    /\ rows' = [i \in DOMAIN rows \ RowsOf(q.app) |-> rows[i]]
    /\ entries' = [x \in DOMAIN entries \ EntriesOf(q.app) |-> entries[x]]
    /\ wirings' = {w \in wirings : w.app # q.app}
    /\ drawn' = [drawn EXCEPT ![q.app] = [NotDrawn EXCEPT !.by = "deleted"]]
    /\ req' = [NoLongerAlone(s) EXCEPT ![s] =
                 [Idle EXCEPT !.pc = "saved", !.app = q.app, !.touched = q.plan.names]]
    /\ unflushed' = unflushed \cup
         {n \in Watched \cap {rows[i].name : i \in RowsOf(q.app) \ DOMAIN q.rows} :
             Exposed(n)}
    /\ UNCHANGED <<template, lastId, file, cache, load, requests, straddled>>

\* The routes of the shared templates, which write one row each.
EditTemplate(s, n, v) ==
    /\ Free(s) /\ requests < MaxRequests
    /\ template' = [template EXCEPT ![n] = v]
    /\ requests' = requests + 1
    /\ req' = [req EXCEPT ![s] = [Idle EXCEPT !.pc = "saved", !.app = Shared,
                                              !.touched = {n}]]
    /\ UNCHANGED <<app, rows, entries, wirings, lastId, file, cache, load,
                   drawn, straddled, unflushed>>

CreateTemplate(s) ==
    \E n \in TemplateNames \ LiveTemplates, v \in Templates : EditTemplate(s, n, v)
UpdateTemplate(s) ==
    \E n \in LiveTemplates, v \in Templates : EditTemplate(s, n, v)
DeleteTemplate(s) ==
    \E n \in LiveTemplates : EditTemplate(s, n, None)

-----------------------------------------------------------------------------
(***************************************************************************)
(* Requests: the flush (_flush_orch_caches, _invalidate).                  *)
(***************************************************************************)
Without(f, S) == [x \in DOMAIN f \ S |-> f[x]]

Flush(s) ==
    LET q == req[s] IN
    /\ q.pc = "saved"
    /\ config' = Without(config, {<<q.app, n>> : n \in q.touched})
    /\ locator' = Without(locator, q.touched)
    /\ req' = [req EXCEPT ![s] = Idle]
    /\ straddled' = (straddled \ q.touched) \cup (q.touched \cap {load.name})
    /\ unflushed' = unflushed \ q.touched
    /\ UNCHANGED <<database, file, load, requests, drawn>>

\* Redis fails (a warning is logged), or the pod dies after its commit; bound:
\* not again before the cache has recovered, and not when no pod could notice.
LoseFlush(s) ==
    LET missed == {n \in Watched \cap req[s].touched : Exposed(n)} IN
    /\ req[s].pc = "saved"
    /\ unflushed = {} /\ missed # {}
    /\ unflushed' = missed
    /\ req' = [req EXCEPT ![s] = Idle]
    /\ UNCHANGED <<database, file, cache, load, requests, drawn, straddled>>

-----------------------------------------------------------------------------
(***************************************************************************)
(* export_application: rows back into a graph.  The agents of a row become *)
(* edges of its own; no edge leads to an orchestrator except from an entry *)
(* point, and middleware nodes have none.                                  *)
(***************************************************************************)
ExportGraph(a) ==
    LET orchs  == {rows[i].node : i \in RowsOf(a)}
        rowAt(n) == CHOOSE i \in RowsOf(a) : rows[i].node = n
        agents == UNION {rows[i].agents : i \in RowsOf(a)}
        slugs  == {<<x, 0>> : x \in EntriesOf(a)}
        mws    == {w.node : w \in {w \in wirings : w.app = a}}
        calls  == {e \in orchs \X agents : e[2] \in rows[rowAt(e[1])].agents}
        served == {e \in slugs \X orchs : entries[e[1][1]].row = rowAt(e[2])}
        all(S, k) == [n \in S |-> k]
    IN  [kind |-> Over(all(orchs, "orch"), Over(all(agents, "agent"),
                       Over(all(slugs, "entry"), all(mws, "mw")))),
         edges |-> SetToSeq(calls) \o SetToSeq(served),
         ref |-> [n \in orchs |-> rowAt(n)],
         proposed |-> [n \in orchs |-> rows[rowAt(n)].name]]

ExportApplication ==
    \E a \in app :
        /\ file' = ExportGraph(a)
        /\ requests < MaxRequests
        /\ requests' = requests + 1
        /\ UNCHANGED <<database, req, cache, load, drawn, straddled, unflushed>>

-----------------------------------------------------------------------------
(***************************************************************************)
(* load_orchestrator_row.                                                  *)
(***************************************************************************)
Config(r, agents, delegatable) ==
    [row |-> r, agents |-> agents, delegatable |-> delegatable]

\* The two queries: an application's orchestrator, else a shared template.
Resolve(n) ==
    LET own == {i \in DOMAIN rows : rows[i].name = n}
    IN  IF own # {}
        THEN LET i == CHOOSE i \in own : TRUE
             IN  [scope |-> rows[i].app,
                  found |-> Config(i, rows[i].agents, rows[i].delegatable)]
        ELSE IF n \in LiveTemplates
        THEN [scope |-> Shared, found |-> Config(0, template[n], FALSE)]
        ELSE [scope |-> None, found |-> None]

Served(n) == config[<<locator[n], n>>]

LoadMiss ==
    \E n \in Watched :
        /\ load = AtRest
        /\ ~ Hit(n)
        /\ Resolve(n).scope # None
        /\ load' = [pc |-> "config", name |-> n, scope |-> Resolve(n).scope,
                    found |-> Resolve(n).found]
        /\ UNCHANGED <<database, req, file, cache, requests, drawn, straddled, unflushed>>

FillConfig ==
    /\ load.pc = "config"
    /\ config' = Over([k \in {<<load.scope, load.name>>} |-> load.found], config)
    /\ load' = [load EXCEPT !.pc = "locator"]
    /\ UNCHANGED <<database, req, file, locator, requests, drawn, straddled, unflushed>>

FillLocator ==
    /\ load.pc = "locator"
    /\ locator' = Over([n \in {load.name} |-> load.scope], locator)
    /\ load' = AtRest
    /\ UNCHANGED <<database, req, file, config, requests, drawn, straddled, unflushed>>

\* Redis fails between the two, which the loader ignores.
FillFails ==
    /\ load.pc = "locator"
    /\ load' = AtRest
    /\ UNCHANGED <<database, req, file, cache, requests, drawn, straddled, unflushed>>

ExpireUnlessServed(n) ==
    /\ ~ Hit(n)
    /\ \E k \in DOMAIN config : k[2] = n /\ config' = Without(config, {k})
    /\ UNCHANGED <<database, req, file, locator, load, requests, drawn,
                   straddled, unflushed>>

\* The TTL of a name's keys is over; they were set one right after the other.
Expire(n) ==
    /\ \E k \in DOMAIN config :
        /\ k[2] = n
        /\ config' = Without(config, {k})
        /\ locator' = IF n \in DOMAIN locator /\ locator[n] = k[1]
                      THEN Without(locator, {n}) ELSE locator
    /\ UNCHANGED <<database, req, file, load, requests, drawn>>
    /\ straddled' = {m \in straddled : m # n \/ Exposed(n)'}
    /\ unflushed' = {m \in unflushed : m # n \/ Exposed(n)'}

-----------------------------------------------------------------------------
Next ==
    \/ \E s \in Sessions :
         \/ CreateApplication(s) \/ UpdateApplication(s) \/ ListApplication(s)
         \/ DeleteApplication(s)
         \/ Save(s) \/ Refuse(s) \/ Delete(s)
         \/ CreateTemplate(s) \/ UpdateTemplate(s) \/ DeleteTemplate(s)
         \/ Flush(s) \/ LoseFlush(s)
    \/ ExportApplication
    \/ LoadMiss \/ FillConfig \/ FillLocator \/ FillFails
    \/ \E n \in Watched : Expire(n)

\* A request and a load that started go on; a key's TTL runs out.
Fairness ==
    /\ \A s \in Sessions : WF_vars(Save(s) \/ Refuse(s) \/ Delete(s) \/ Flush(s))
    /\ WF_vars(FillConfig \/ FillLocator)
    /\ \A n \in Watched : WF_vars(Expire(n))

Spec == Init /\ [][Next]_vars /\ Fairness

-----------------------------------------------------------------------------
(***************************************************************************)
(* Properties.                                                             *)
(***************************************************************************)

\* Every variable has its type, and the rows hang together whatever requests
\* ran at the same time: an entry point's orchestrator exists and belongs to
\* the entry point's application, which exists; names are unique over all
\* applications, node ids within one (compile_graph, the schema's keys).
Referential ==
    /\ app \subseteq Apps
    /\ DOMAIN rows \subseteq 1..lastId
    /\ \A x \in DOMAIN entries :
          /\ entries[x].app \in app
          /\ entries[x].row # 0 => entries[x].row \in RowsOf(entries[x].app)
    /\ \A i \in DOMAIN rows :
          /\ rows[i].app \in app
          /\ \A j \in DOMAIN rows \ {i} :
                /\ rows[i].name # rows[j].name
                /\ rows[i].app = rows[j].app => rows[i].node # rows[j].node
    /\ \A w \in wirings : w.app \in app
    /\ load.pc \in {"idle", "config", "locator"}
    /\ \A s \in Sessions : req[s].pc \in {"idle", "read", "saved"}

\* An agent is within reach of an orchestrator when every set of nodes that
\* holds the orchestrator and is closed under edges to middleware and
\* orchestrators has an edge to it.
WithinReach(g, orch, agent) ==
    LET inner == NodesOf(g, "mw") \cup NodesOf(g, "orch") IN
    \A S \in SUBSET inner :
        (orch \in S /\ \A n \in S : Targets(g, n) \cap inner \subseteq S)
            => \E n \in S : agent \in Targets(g, n)

\* What is stored is what was drawn last, unless two saves of the application
\* overlapped: the entry points of the drawing lead to the orchestrators
\* drawn for them, no other row is left, each orchestrator has the agents
\* within its reach and is a delegate iff another one points to it, and the
\* middleware of an agent has the positions 0, 1, 2, ... in the order of its
\* chain (compile_graph's six steps against the rows of earlier saves).
SavedAsDrawn ==
    \A a \in app :
        LET d == drawn[a]
            g == d.graph
            row(n) == CHOOSE i \in RowsOf(a) : rows[i].node = n
            mine == {w \in wirings : w.app = a}
        IN  d.by = "graph" /\ d.alone =>
              /\ {<<x, 0>> : x \in EntriesOf(a)} = NodesOf(g, "entry")
              /\ {rows[i].node : i \in RowsOf(a)} = NodesOf(g, "orch")
              /\ \A x \in EntriesOf(a) : entries[x].row = row(EntryTarget(g, <<x, 0>>))
              /\ \A n \in NodesOf(g, "orch") :
                    /\ rows[row(n)].agents =
                         {t \in NodesOf(g, "agent") : WithinReach(g, n, t)}
                    /\ rows[row(n)].delegatable <=> \E m \in NodesOf(g, "orch") :
                                                      n \in Targets(g, m)
              /\ \A t \in NodesOf(g, "agent") :
                    LET chain == {w \in mine : w.agent = t} IN
                    /\ {w.position : w \in chain} = 0..(Cardinality(chain) - 1)
                    /\ \A v, w \in chain : w.position = v.position + 1
                                            => <<v.node, w.node>> \in ToSet(g.edges)

\* A save takes an orchestrator away only when its drawing has neither the
\* row's node nor a node that stands for the row, unless another row has that
\* node's id: the canvas editor gives saved rows new node ids, and running
\* sessions know a row by the name it would lose (the match by node id, then by
\* appOrchestratorId in compile_graph).
DrawnRowsSurvive ==
    [][\A s \in Sessions :
         (req[s].pc = "read" /\ req[s].op = "graph" /\ req'[s].pc = "saved") =>
            \A i \in DOMAIN rows \ DOMAIN rows' :
                /\ rows[i].app = req[s].app
                /\ rows[i].node \notin NodesOf(req[s].graph, "orch")
                      \/ req[s].rows[i].node # rows[i].node
                /\ \A n \in NodesOf(req[s].graph, "orch") :
                      req[s].graph.ref[n] = i =>
                         \E j \in DOMAIN req[s].rows \ {i} : req[s].rows[j].node = n]_vars

\* What the cache serves under a name is what the database holds under it,
\* except while a flush of the name is on its way, or when that flush was
\* lost or met a fill of the name half way (_flush_orch_caches after the
\* commit, against load_orchestrator_row).
CurrentlyServed(n) == Hit(n) => /\ Served(n) = Resolve(n).found
                               /\ locator[n] = Resolve(n).scope
CacheHonest ==
    \A n \in Watched :
        \/ CurrentlyServed(n)
        \/ n \in straddled \cup unflushed
        \/ \E s \in Sessions : req[s].pc = "saved" /\ n \in req[s].touched

\* However flushes were lost and fills met them, once the saves are over the
\* cache comes to serve what the database holds: both keys have a TTL.
CacheConverges == <>[](\A n \in Watched : CurrentlyServed(n))

\* import_application: "This proves the graph round-trip: export -> delete ->
\* import -> app works identically."
RoundTrip ==
    \A a \in app :
        LET g == ExportGraph(a) IN
        drawn[a].by = "graph" /\ drawn[a].alone =>
          /\ ValidGraph(g)
          /\ \A i \in RowsOf(a) : /\ ResolveAgents(g, rows[i].node) = rows[i].agents
                                  /\ IsDelegatable(g, rows[i].node) = rows[i].delegatable

\* _apply_entry_point_diff: "slug only in current -> delete EP
\* (AppOrchestrator deleted if no other EP references it)".
ListedEntriesExist ==
    \A a \in app : drawn[a].by = "list" /\ drawn[a].alone
                      => drawn[a].slugs = EntriesOf(a)
=============================================================================
