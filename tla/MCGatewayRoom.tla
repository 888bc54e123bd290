---------------------------- MODULE MCGatewayRoom ----------------------------
(* GatewayRoom with a track that comes back and another one beside it.      *)
EXTENDS GatewayRoom

CONSTANTS mic1, mic2

MCIds == {mic1, mic2}
MCTrackOf == <<mic1, mic1, mic2>>
=============================================================================
