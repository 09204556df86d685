----------------------------- MODULE RingDiscovery -----------------------------
(***************************************************************************)
(* Neighbour discovery (run_neighbor_discovery of lib/net/src/multihop.cpp *)
(* with add_neighbor and update_ring_from_neighbors of multihop_state.cpp): *)
(* in every superframe each node tells its neighbours its ring once and    *)
(* keeps its own ring one above the lowest it hears.                       *)
(*                                                                         *)
(* The loop of a node waits for a frame until its announcement or its      *)
(* phase is due and then, as a deadline is only reached once it is past    *)
(* and the simulated driver returns at once for a timeout of 0, goes round *)
(* any number of times without one.  Every iteration ends by updating the  *)
(* ring.  Nodes run one superframe at most ahead of each other; a frame    *)
(* reaches any subset of the nodes in range.                               *)
(***************************************************************************)
EXTENDS Integers, Sequences

CONSTANTS
    Node,
    Gateway,                    \* GATEWAY_ADDR
    InRange(_, _),              \* whether a frame of the first reaches the second
    Hops,                       \* hops to the gateway, for reference
    UNKNOWN_RING,               \* 255 in the program
    RING_HYSTERESIS_THRESHOLD,
    COUNTS,                     \* entries of a RingList
    TxCap,                      \* bound: heartbeats that fit in the transmit buffer
    RxCap,                      \* bound: frames the radio driver holds
    DryBound                    \* bound: superframes counted in dry

GATEWAY_RING == 0
Ring == 0 .. UNKNOWN_RING

ASSUME GatewayAssumption == Gateway \in Node
ASSUME RingAssumption ==
    /\ UNKNOWN_RING \in Nat \ {0}
    /\ RING_HYSTERESIS_THRESHOLD \in Nat \ {0} /\ COUNTS \in Nat \ {0}
ASSUME BoundAssumption == DryBound \in Nat
ASSUME HopsAssumption ==
    /\ Hops \in [Node -> Ring] /\ Hops[Gateway] = GATEWAY_RING
    /\ \A n, m \in Node : InRange(n, m) => Hops[m] <= Hops[n] + 1

VARIABLES
    pc,        \* "idle" outside discovery, "loop" in recv, "reading" a frame
    parity,    \* of the superframe the node is in
    ring,      \* STATE.ring
    rounds,    \* STATE.rounds_without_lower
    list,      \* STATE.neighbors: its first ring and the entries that count any
    info,      \* has_ring_info
    announced, \* whether the node has announced itself
    tx,        \* the rings of the heartbeats in the transmit buffer
    inbox,     \* the frames the driver holds
    rx,        \* what is left of the frame being read
    nearest,   \* the lowest ring heard in this superframe
    dry        \* superframes begun since a lower ring, to DryBound
radio == <<tx, inbox, rx>>
vars == <<pc, parity, ring, rounds, list, info, announced, radio, nearest, dry>>

-----------------------------------------------------------------------------
(* The list of neighbouring rings.                                         *)

NoNeighbors == [start |-> 0, counted |-> {}]

\* Mutant: counts are not moved up when a lower ring comes first.
add_neighbor_KeepsStart(l, r) ==
    IF r = UNKNOWN_RING THEN l
    ELSE IF 0 \notin l.counted THEN [start |-> r, counted |-> l.counted \cup {0}]
    ELSE IF r >= l.start + COUNTS \/ r < l.start THEN l
    ELSE [l EXCEPT !.counted = @ \cup {r - l.start}]

\* A ring below the first moves the others up, out of the list if need be; one
\* too far above it is ignored.
add_neighbor(l, r) ==
    IF r = UNKNOWN_RING THEN l
    ELSE IF 0 \notin l.counted THEN [start |-> r, counted |-> l.counted \cup {0}]
    ELSE IF r >= l.start + COUNTS THEN l
    ELSE IF r < l.start
    THEN [start |-> r,
          counted |-> {0} \cup {i \in 0 .. COUNTS - 1 : i - (l.start - r) \in l.counted}]
    ELSE [l EXCEPT !.counted = @ \cup {r - l.start}]

lowest(l) ==
    IF l.counted = {} THEN UNKNOWN_RING
    ELSE l.start + CHOOSE i \in l.counted : \A j \in l.counted : i <= j

\* The ring above a neighbour's.
Above(low) == IF low = UNKNOWN_RING THEN UNKNOWN_RING ELSE low + 1

\* Mutant: joins the ring of its lowest neighbour.
updated_Beside(g, k, low) ==
    IF low < g THEN <<low, 0>>
    ELSE IF k + 1 >= RING_HYSTERESIS_THRESHOLD THEN <<Above(low), 0>>
    ELSE <<g, k + 1>>

\* Mutant: the ring drifts only after one more round than the threshold.
updated_Late(g, k, low) ==
    IF low < g THEN <<low + 1, 0>>
    ELSE IF k + 1 > RING_HYSTERESIS_THRESHOLD THEN <<Above(low), 0>>
    ELSE <<g, k + 1>>

\* update_ring_from_neighbors, for a node other than the gateway in ring g after
\* k rounds without a lower neighbour: its ring and its rounds.
updated(g, k, low) ==
    IF low < g THEN <<low + 1, 0>>
    ELSE IF k + 1 >= RING_HYSTERESIS_THRESHOLD THEN <<Above(low), 0>>
    ELSE <<g, k + 1>>

-----------------------------------------------------------------------------
Init ==
    /\ pc = [n \in Node |-> "idle"]
    /\ parity = [n \in Node |-> 0]
    /\ ring = [n \in Node |-> IF n = Gateway THEN GATEWAY_RING ELSE UNKNOWN_RING]
    /\ rounds = [n \in Node |-> 0]
    /\ list = [n \in Node |-> NoNeighbors]
    /\ info = [n \in Node |-> FALSE]
    /\ announced = [n \in Node |-> FALSE]
    /\ tx = [n \in Node |-> <<>>]
    /\ inbox = [n \in Node |-> <<>>]
    /\ rx = [n \in Node |-> <<>>]
    /\ nearest = [n \in Node |-> UNKNOWN_RING]
    /\ dry = [n \in Node |-> 0]

\* Discovery begins.  The phases since the last one may have sent what was
\* left in the transmit buffer and read what the driver held.
Begin(n) ==
    /\ pc[n] = "idle"
    /\ \A m \in Node : parity[m] = parity[n] => pc[m] = "idle"
    /\ pc' = [pc EXCEPT ![n] = "loop"]
    /\ parity' = [parity EXCEPT ![n] = 1 - @]
    /\ list' = [list EXCEPT ![n] = NoNeighbors]
    /\ info' = [info EXCEPT ![n] = ring[n] # UNKNOWN_RING]
    /\ \E q \in {tx[n], <<>>} : tx' = [tx EXCEPT ![n] = q]
    /\ \E q \in {inbox[n], <<>>} : inbox' = [inbox EXCEPT ![n] = q]
    /\ dry' = [dry EXCEPT ![n] = IF @ < DryBound THEN @ + 1 ELSE @]
    /\ UNCHANGED <<ring, rounds, announced, rx, nearest>>

\* link::recv returns the driver's next frame.
Recv(n) ==
    /\ pc[n] = "loop" /\ inbox[n] # <<>>
    /\ pc' = [pc EXCEPT ![n] = "reading"]
    /\ rx' = [rx EXCEPT ![n] = Head(inbox[n])]
    /\ inbox' = [inbox EXCEPT ![n] = Tail(@)]
    /\ UNCHANGED <<parity, ring, rounds, list, info, announced, tx, nearest, dry>>

\* link::getmsg returns a heartbeat.
Hear(n) ==
    /\ pc[n] = "reading" /\ rx[n] # <<>>
    /\ rx' = [rx EXCEPT ![n] = Tail(@)]
    /\ list' = [list EXCEPT ![n] = add_neighbor(@, Head(rx[n]))]
    /\ info' = [info EXCEPT ![n] = TRUE]
    /\ nearest' = [nearest EXCEPT ![n] = IF Head(rx[n]) < @ THEN Head(rx[n]) ELSE @]
    /\ UNCHANGED <<pc, parity, ring, rounds, announced, tx, inbox, dry>>

\* The ring at the end of an iteration.
UpdateRing(n) ==
    LET u == updated(ring[n], rounds[n], lowest(list[n]))
    IN  IF n = Gateway
        THEN ring' = [ring EXCEPT ![n] = GATEWAY_RING] /\ UNCHANGED rounds
        ELSE ring' = [ring EXCEPT ![n] = u[1]] /\ rounds' = [rounds EXCEPT ![n] = u[2]]

\* send_heartbeat and, unless the buffer is full, flush, which may fail.
Announce(n) ==
    LET q == Append(tx[n], ring'[n])
    IN  IF Len(tx[n]) >= TxCap THEN UNCHANGED <<tx, inbox>>
        ELSE \/ /\ tx' = [tx EXCEPT ![n] = <<>>]
                /\ \E reached \in SUBSET {m \in Node : InRange(n, m)} :
                     inbox' = [m \in Node |-> IF m \in reached /\ Len(inbox[m]) < RxCap
                                              THEN Append(inbox[m], q) ELSE inbox[m]]
             \/ tx' = [tx EXCEPT ![n] = q] /\ UNCHANGED inbox

\* An iteration ends, after a frame or without one: the ring is updated and,
\* if the node has ring information and its time has come, announced.
Iterate(n) ==
    /\ pc[n] # "idle" /\ rx[n] = <<>>
    /\ pc' = [pc EXCEPT ![n] = "loop"]
    /\ UpdateRing(n)
    /\ dry' = [dry EXCEPT ![n] = IF lowest(list[n]) < ring[n] THEN 0 ELSE @]
    /\ \/ /\ info[n] /\ ~announced[n]
          /\ Announce(n)
          /\ announced' = [announced EXCEPT ![n] = TRUE]
       \/ UNCHANGED <<announced, tx, inbox>>
    /\ UNCHANGED <<parity, list, info, rx, nearest>>

\* The phase's deadline is reached; the loop's locals go out of scope.
End(n) ==
    /\ pc[n] = "loop"
    /\ pc' = [pc EXCEPT ![n] = "idle"]
    /\ info' = [info EXCEPT ![n] = FALSE]
    /\ announced' = [announced EXCEPT ![n] = FALSE]
    /\ nearest' = [nearest EXCEPT ![n] = UNKNOWN_RING]
    /\ UNCHANGED <<parity, ring, rounds, list, radio, dry>>

Step(n) == Begin(n) \/ Recv(n) \/ Hear(n) \/ Iterate(n) \/ End(n)

Next == \E n \in Node : Step(n)

Spec == Init /\ [][Next]_vars

-----------------------------------------------------------------------------
(* Properties.                                                             *)

\* Discovery's state stays in its ranges: a ring that counts up stops at the
\* unknown one, and never wraps to the gateway's (multihop_state.cpp:119-139).
TypeOK ==
    /\ pc \in [Node -> {"idle", "loop", "reading"}]
    /\ parity \in [Node -> {0, 1}]
    /\ ring \in [Node -> Ring]
    /\ rounds \in [Node -> 0 .. RING_HYSTERESIS_THRESHOLD - 1]
    /\ list \in [Node -> [start : Ring, counted : SUBSET (0 .. COUNTS - 1)]]
    /\ info \in [Node -> BOOLEAN]
    /\ announced \in [Node -> BOOLEAN]
    /\ tx \in [Node -> Seq(Ring)]
    /\ inbox \in [Node -> Seq(Seq(Ring))]
    /\ rx \in [Node -> Seq(Ring)]
    /\ nearest \in [Node -> Ring]
    /\ dry \in [Node -> 0 .. DryBound]

\* No node believes itself closer to the gateway than it is, whatever is lost,
\* late or sent a superframe after it was true: rings may count up, but a
\* clusterhead of a lower ring is never farther away in truth than a node's
\* ring says (add_neighbor, update_ring_from_neighbors).
RingNotBelowHops == \A n \in Node : ring[n] >= Hops[n]

\* Between frames a node is at most one ring above every neighbour it has heard
\* in the superframe, although its list only has room for COUNTS rings and its
\* ring may have been held or have drifted meanwhile (multihop_state.cpp:46-83,
\* 115-130).
OneAboveNearest ==
    \A n \in Node : pc[n] # "reading" => ring[n] <= Above(nearest[n])

\* multihop_state.h:97-98, "Only increases ring after RING_HYSTERESIS_THRESHOLD
\* consecutive rounds without a lower-ring neighbor", a round being a
\* superframe's discovery, of which the one under way is the last.
IncreasesOnlyAfterDryRounds ==
    [][\A n \in Node : ring'[n] > ring[n] => dry[n] >= RING_HYSTERESIS_THRESHOLD]_vars
=============================================================================
