---------------------------- MODULE MCDeployment ----------------------------
(* Two editors and one loading pod; drawings with a sub-orchestrator and     *)
(* with a chain of middleware.  Two chains to one agent (Crossed) are a      *)
(* drawing no commit accepts; the assumption checks that, and the run leaves *)
(* it out to stay small.                                                     *)
EXTENDS Deployment, TLC

N(label) == <<label, 0>>
Graph(entry, orch, mw, agent, edges) ==
    LET nodes(S) == {N(x) : x \in S} IN
    [kind |-> [n \in nodes(entry) |-> "entry"] @@ [n \in nodes(orch) |-> "orch"]
                @@ [n \in nodes(mw) |-> "mw"] @@ [n \in nodes(agent) |-> "agent"],
     edges |-> [i \in DOMAIN edges |-> <<N(edges[i][1]), N(edges[i][2])>>],
     ref |-> [n \in nodes(orch) |-> 0],
     proposed |-> [n \in nodes(orch) |-> NoName]]

Plain  == Graph({"x"}, {"o1"}, {}, {"g1"}, << <<"x", "o1">>, <<"o1", "g1">> >>)
Nested == Graph({"x", "z"}, {"o1", "o2"}, {}, {"g1", "g2"},
                << <<"x", "o1">>, <<"z", "o1">>, <<"o1", "g1">>, <<"o1", "o2">>,
                   <<"o2", "g2">> >>)
Chained == Graph({"x", "y"}, {"o1", "o2"}, {"m1", "m2"}, {"g1"},
                 << <<"x", "o1">>, <<"o1", "g1">>, <<"y", "o2">>, <<"o2", "m1">>,
                    <<"m1", "m2">>, <<"m2", "g1">> >>)
Crossed == Graph({"x"}, {"o1"}, {"m1", "m2"}, {"g1"},
                 << <<"x", "o1">>, <<"o1", "m1">>, <<"o1", "m2">>,
                    <<"m1", "g1">>, <<"m2", "g1">> >>)

ASSUME ColumnsAssumption ==
    /\ WiringsCollide(WiringsOf(Crossed))
    /\ Cardinality(WiringsOf(Chained)) = 2 /\ ~ WiringsCollide(WiringsOf(Chained))

MCDrawings == {Plain, Nested, Chained}
MCLists    == {[slugs |-> {"y", "z"}, agents |-> {N("g2")}]}
MCEnabledAgents == {N("g1"), N("g2")}
MCWatched   == {N("o1")}
MCTemplates == {{N("g2")}}
=============================================================================
