--------------------------- MODULE MCBridgeStream ---------------------------
(* Small instances of BridgeStream: one client on the direct socket, one on a *)
(* socket or an SSE stream of an entry point, in one conversation.            *)
EXTENDS BridgeStream, TLC

CONSTANTS c1, c2

MCTransports == (c1 :> {"direct"}) @@ (c2 :> {"entry", "sse"})
=============================================================================
