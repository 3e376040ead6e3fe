------------------------- MODULE MC_BrokerDiscovery -------------------------
(* Two launches, one of which can replace the other, and one or two users. *)
EXTENDS BrokerDiscovery

CONSTANTS p1, p2, u1, u2
=============================================================================
