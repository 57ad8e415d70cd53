--------------------------- MODULE MCMiningSafety ---------------------------
(* MiningSafety with two peers, the number whose agreement is asked for. *)
EXTENDS MiningSafety, TLC

CONSTANTS p1, p2

MCPeer == {p1, p2}
=============================================================================
