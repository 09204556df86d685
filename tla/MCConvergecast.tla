---------------------------- MODULE MCConvergecast ----------------------------
(* The trees on which Convergecast is checked.                               *)
EXTENDS Convergecast

\* 0 - 1 - 2 - 3, each node in reach of its neighbours.
ChainRange(a, b) == a = b + 1 \/ b = a + 1
ChainRing == [n \in Node |-> n]
ChainParent == [n \in Node |-> IF n = 0 THEN UNKNOWN_ADDR ELSE n - 1]
FirstSlot == [n \in Node |-> 1]

\* 1 and 2 follow the gateway and do not hear each other; 3 follows 1 and 4
\* follows 2, and 3 hears both.
TwinRange(a, b) ==
    {a, b} \in {{0, 1}, {0, 2}, {1, 3}, {2, 4}, {2, 3}}
TwinRing == [n \in Node |-> IF n = 0 THEN 0 ELSE IF n <= 2 THEN 1 ELSE 2]
TwinParent == [n \in Node |-> IF n = 0 THEN UNKNOWN_ADDR ELSE IF n <= 2 THEN 0 ELSE n - 2]
TwinSlot == [n \in Node |-> IF n = 2 THEN 2 ELSE 1]
=============================================================================
