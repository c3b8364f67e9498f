---------------------------- MODULE MCRemoteCall ----------------------------
(* Calls of one agent, which is guarded, cached, both or neither. *)
EXTENDS RemoteCall, TLC

CONSTANTS c1, agent

ByActivity ==
  [route : {"activity"}, agent : {agent}, text : {"personal"},
   message : {TRUE}, pieces : {2}, streams : {FALSE}, typed : BOOLEAN]
Forbidden ==
  [route : {"activity"}, agent : {agent}, text : {"forbidden"},
   message : BOOLEAN, pieces : {0}, streams : {FALSE}, typed : {FALSE}]
ByRunner == [route : {"runner"}, agent : {agent}, text : {"plain"},
   message : {TRUE}, pieces : {2}, streams : {TRUE}, typed : {FALSE}]

MCRequests == ByActivity \cup Forbidden \cup ByRunner
MCChains == {<<>>, <<"redact", "cache">>, <<"cache", "block">>}
=============================================================================
