--------------------------- MODULE MCRingDiscovery ---------------------------
(* The topologies on which RingDiscovery is checked.                         *)
EXTENDS RingDiscovery

\* 0 - 1 - 2, without the frames to the gateway: they change nothing for others.
ChainRange(a, b) == b # 0 /\ (a = b + 1 \/ b = a + 1)
ByDistance == [n \in Node |-> n]
=============================================================================
