---------------------------- MODULE MCPeerManager ----------------------------
(* PeerManager with two addresses, two dials and one inbound connection at a time. *)
EXTENDS PeerManager

CONSTANTS x, y, o1, o2, i1

=============================================================================
