---------------------------- MODULE CanvasGraph ----------------------------
(***************************************************************************)
(* The graph an operator draws on the canvas, and the pure part of its     *)
(* compilation (src/app/services/app_compiler.py): structural validation,  *)
(* the agents an orchestrator may call, which orchestrators are delegates, *)
(* and the middleware chains.                                              *)
(*                                                                         *)
(* A node is a pair <<label, row>>: row is 0 for a node as it was drawn    *)
(* and the id of the orchestrator row for a node the canvas editor rebuilt *)
(* from a saved application ("orch_<id>").  A graph is a record            *)
(*   kind     : node -> "entry" | "orch" | "agent" | "mw"                  *)
(*   edges    : sequence of <<source, target>>, in drawing order           *)
(*   ref      : orchestrator node -> the row it says it stands for, or 0   *)
(*   proposed : orchestrator node -> the name it asks for, or NoName       *)
(* The slug of an entry point is its label.                                *)
(***************************************************************************)
EXTENDS Naturals, Sequences, FiniteSets, SequencesExt

NoName == <<"", 0>>

\* What f maps, and what g maps besides.
Over(f, g) == [x \in DOMAIN f \cup DOMAIN g |-> IF x \in DOMAIN f THEN f[x] ELSE g[x]]

NodesOf(g, k) == {n \in DOMAIN g.kind : g.kind[n] = k}
Targets(g, n) == {e[2] : e \in {f \in ToSet(g.edges) : f[1] = n}}

\* The target in wanted of the first such edge that leaves n; n has one.
FirstTarget(g, n, wanted) ==
    LET such == {i \in DOMAIN g.edges : g.edges[i][1] = n /\ g.edges[i][2] \in wanted}
    IN  g.edges[CHOOSE i \in such : \A j \in such : i <= j][2]

EntryTarget(g, n) == FirstTarget(g, n, NodesOf(g, "orch"))

\* A drawing made from nothing: no node stands for a saved row.
NewDrawing(g) ==
    /\ IsFiniteSet(DOMAIN g.kind)
    /\ g.edges \in Seq((DOMAIN g.kind) \X (DOMAIN g.kind))
    /\ \A n \in DOMAIN g.kind : n = <<n[1], 0>>
    /\ \A n \in DOMAIN g.ref : g.ref[n] = 0

\* validate_graph; formats and duplicate slugs are outside the data kept here.
ValidGraph(g) ==
    /\ \A e \in ToSet(g.edges) : {e[1], e[2]} \subseteq DOMAIN g.kind
    /\ NodesOf(g, "entry") # {}
    /\ \A n \in NodesOf(g, "entry") : Targets(g, n) \cap NodesOf(g, "orch") # {}
    /\ \A n \in NodesOf(g, "orch") : \E e \in ToSet(g.edges) : e[2] = n

(***************************************************************************)
(* _resolve_agents_for_orch: a walk from the orchestrator that goes on     *)
(* through middleware and through further orchestrators.                   *)
(***************************************************************************)
ResolveDirect(g, orch) ==
    (UNION {Targets(g, n) : n \in {orch} \cup (Targets(g, orch) \cap NodesOf(g, "mw"))})
        \cap NodesOf(g, "agent")
ResolveAgents(g, orch) ==
    LET onward == NodesOf(g, "mw") \cup NodesOf(g, "orch")
        visited[k \in 0..Cardinality(onward)] ==
            IF k = 0 THEN {orch}
            ELSE visited[k-1] \cup
                 UNION {Targets(g, n) \cap onward : n \in visited[k-1]}
    IN  (UNION {Targets(g, n) : n \in visited[Cardinality(onward)]})
            \cap NodesOf(g, "agent")

\* An orchestrator another orchestrator has an edge to.
IsDelegatable(g, orch) ==
    \E e \in ToSet(g.edges) : e[2] = orch /\ g.kind[e[1]] = "orch"

(***************************************************************************)
(* _resolve_mw_chains: every edge from an orchestrator to a middleware     *)
(* starts a chain, which follows the first outgoing edge of each node      *)
(* until an agent ends it; a chain that ends elsewhere wires nothing.  One *)
(* wiring per node of the chain; "via" is the edge the chain starts with,  *)
(* so that two chains through one node give two wirings.                   *)
(***************************************************************************)
ChainFrom(g, mw) ==
    LET next(n) == IF Targets(g, n) = {} THEN n
                   ELSE FirstTarget(g, n, DOMAIN g.kind)
        grown[k \in 0..Cardinality(NodesOf(g, "mw"))] ==
            IF k = 0 THEN <<mw, next(mw)>>
            ELSE LET end == Last(grown[k-1])
                 IN  IF g.kind[end] = "mw" /\ next(end) # end
                     THEN Append(grown[k-1], next(end)) ELSE grown[k-1]
    IN  grown[Cardinality(NodesOf(g, "mw"))]

WiringsOf(g) ==
    UNION {LET chain == ChainFrom(g, g.edges[i][2])
               end   == Last(chain)
           IN  IF g.kind[end] # "agent" THEN {}
               ELSE {[via |-> i, node |-> chain[k], agent |-> end,
                      position |-> k - 1] : k \in 1..(Len(chain) - 1)}
           : i \in {j \in 1..Len(g.edges) : /\ g.kind[g.edges[j][1]] = "orch"
                                            /\ g.kind[g.edges[j][2]] = "mw"}}

\* The two unique indexes of middleware_wirings, within one application.
WiringsCollide(ws) ==
    \E v, w \in ws : /\ v # w
                     /\ \/ v.node = w.node
                        \/ v.agent = w.agent /\ v.position = w.position
=============================================================================
