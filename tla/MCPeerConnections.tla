------------------------- MODULE MCPeerConnections -------------------------
(* Small instances of PeerConnections.                                     *)
EXTENDS PeerConnections
Costing == [change |-> 1, break |-> 2, cut |-> 1, late |-> 1]
Even == [Costing EXCEPT !.break = 1]
=============================================================================
