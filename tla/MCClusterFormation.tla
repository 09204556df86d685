-------------------------- MODULE MCClusterFormation --------------------------
(* The topologies on which ClusterFormation is checked.                      *)
EXTENDS ClusterFormation

\* Radio ranges: a node hears itself in none of them.
ChainRange(a, b) == a = b + 1 \/ b = a + 1
\* The gateway hears 1, 2 and 3, a leaf beside it; 4 hears 1 and 2, which hear
\* each other.
DiamondRange(a, b) == {a, b} \in {{0, 1}, {0, 2}, {0, 3}, {1, 2}, {1, 4}, {2, 4}}

\* Rings by hop count.
ChainRings == [n \in Node |-> {n}]
DiamondRings == [n \in Node |-> IF n = 0 THEN {0} ELSE IF n = 4 THEN {2} ELSE {1}]

\* Of two candidates that hear each other the lower address gives way: the
\* scores make it the better one, so that a node may ask one that does not answer.
LowerFirst == [n \in Node |-> 100 - n]
=============================================================================
