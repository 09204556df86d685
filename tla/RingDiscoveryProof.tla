-------------------------- MODULE RingDiscoveryProof --------------------------
(***************************************************************************)
(* Proofs about RingDiscovery: for every network, and whatever is lost,    *)
(* late or repeated, types hold, no node's ring is below its distance from *)
(* the gateway, and none is more than one above the nearest ring it heard. *)
(***************************************************************************)
EXTENDS RingDiscovery, TLAPS

(* The invariant follows the rings on their way: a node has and sends only *)
(* rings that are not below its distance; what it hears, and what its list *)
(* starts at, may be one below.                                            *)

FarEnough(n) == {r \in Ring : r >= Hops[n]}
Hearable(n) == {r \in Ring : r + 1 >= Hops[n]}

ListOK(n, l) ==
    /\ l \in [start : Ring, counted : SUBSET (0 .. COUNTS - 1)]
    /\ l.counted # {} =>
         0 \in l.counted /\ l.start < UNKNOWN_RING /\ l.start \in Hearable(n)

DistanceInv ==
    \A n \in Node :
        /\ ring[n] \in FarEnough(n)
        /\ tx[n] \in Seq(FarEnough(n))
        /\ inbox[n] \in Seq(Seq(Hearable(n)))
        /\ rx[n] \in Seq(Hearable(n))
        /\ ListOK(n, list[n])

IInv == TypeOK /\ DistanceInv

-----------------------------------------------------------------------------
\* The constants, and the distances of neighbours.
LEMMA Constants ==
    /\ Gateway \in Node /\ UNKNOWN_RING \in Nat \ {0}
    /\ RING_HYSTERESIS_THRESHOLD \in Nat \ {0} /\ COUNTS \in Nat \ {0}
    /\ DryBound \in Nat
    /\ Hops[Gateway] = 0
    /\ \A n \in Node : Hops[n] \in Nat /\ Hops[n] <= UNKNOWN_RING
<1>1. \A n \in Node : Hops[n] \in 0 .. UNKNOWN_RING
  BY HopsAssumption DEF Ring
<1>. QED
  BY <1>1, GatewayAssumption, RingAssumption, BoundAssumption, HopsAssumption DEF GATEWAY_RING

\* A frame a node sends holds only rings its neighbours may hear.
LEMMA SentIsHearable ==
    ASSUME NEW n \in Node, NEW m \in Node, InRange(n, m)
    PROVE  FarEnough(n) \subseteq Hearable(m)
<1>1. Hops[m] <= Hops[n] + 1
  BY HopsAssumption
<1>. QED
  BY <1>1, Constants DEF FarEnough, Hearable, Ring

LEMMA SeqMonotone ==
    ASSUME NEW S, NEW T, S \subseteq T, NEW q \in Seq(S)
    PROVE  q \in Seq(T)
  OBVIOUS

LEMMA EmptySeq == ASSUME NEW S PROVE <<>> \in Seq(S)
  OBVIOUS

LEMMA HeadTail ==
    ASSUME NEW S, NEW q \in Seq(S), q # <<>>
    PROVE  Head(q) \in S /\ Tail(q) \in Seq(S)
  OBVIOUS

\* A list starts at its lowest ring (multihop_state.cpp:105-112).
LEMMA LowestIsStart ==
    ASSUME NEW n \in Node, NEW l, ListOK(n, l)
    PROVE  lowest(l) = IF l.counted = {} THEN UNKNOWN_RING ELSE l.start
<1>1. CASE l.counted = {}
  BY <1>1 DEF lowest
<1>2. CASE l.counted # {}
  <2>. DEFINE P(i) == \A j \in l.counted : i <= j
              c == CHOOSE i \in l.counted : P(i)
  <2>1. 0 \in l.counted /\ l.counted \subseteq Nat /\ l.start \in Nat
    BY <1>2, Constants DEF ListOK, Ring
  <2>2. P(0)
    BY <2>1
  <2>3. c \in l.counted /\ P(c)
    BY <2>1, <2>2
  <2>4. c = 0
    BY <2>1, <2>3
  <2>. HIDE DEF c
  <2>5. lowest(l) = l.start + c
    BY <1>2 DEF lowest, c
  <2>. QED
    BY <1>2, <2>1, <2>4, <2>5
<1>. QED
  BY <1>1, <1>2

\* add_neighbor keeps that order (multihop_state.cpp:46-83).
LEMMA AddKeepsList ==
    ASSUME NEW n \in Node, NEW l, ListOK(n, l), NEW r \in Hearable(n)
    PROVE  ListOK(n, add_neighbor(l, r))
<1>. DEFINE Entries == 0 .. COUNTS - 1
<1>1. r \in Nat /\ r <= UNKNOWN_RING /\ UNKNOWN_RING \in Nat /\ COUNTS \in Nat \ {0}
  BY Constants DEF Hearable, Ring
<1>2. l.start \in Nat /\ l.counted \in SUBSET Entries
      /\ l = [start |-> l.start, counted |-> l.counted]
  BY DEF ListOK, Ring
<1>3. CASE r = UNKNOWN_RING
  BY <1>3 DEF add_neighbor
<1>4. CASE r # UNKNOWN_RING /\ 0 \notin l.counted
  <2>1. add_neighbor(l, r) = [start |-> r, counted |-> {0}]
    <3>1. l.counted = {}
      BY <1>4 DEF ListOK
    <3>. QED
      BY <1>4, <3>1 DEF add_neighbor
  <2>. QED
    BY <1>1, <1>4, <2>1 DEF ListOK, Ring
<1>5. CASE r # UNKNOWN_RING /\ 0 \in l.counted /\ r >= l.start + COUNTS
  BY <1>5 DEF add_neighbor
<1>6. CASE /\ r # UNKNOWN_RING /\ 0 \in l.counted /\ ~(r >= l.start + COUNTS)
           /\ r < l.start
  <2>. DEFINE new == {0} \cup {i \in Entries : i - (l.start - r) \in l.counted}
  <2>1. add_neighbor(l, r) = [start |-> r, counted |-> new]
    BY <1>6 DEF add_neighbor
  <2>2. new \in SUBSET Entries /\ 0 \in new
    BY <1>1
  <2>. QED
    BY <1>1, <1>6, <2>1, <2>2 DEF ListOK, Ring
<1>7. CASE /\ r # UNKNOWN_RING /\ 0 \in l.counted /\ ~(r >= l.start + COUNTS)
           /\ ~(r < l.start)
  <2>. DEFINE new == l.counted \cup {r - l.start}
  <2>1. add_neighbor(l, r) = [start |-> l.start, counted |-> new]
    BY <1>2, <1>7 DEF add_neighbor
  <2>2. r - l.start \in Entries
    BY <1>1, <1>2, <1>7
  <2>3. new \in SUBSET Entries /\ 0 \in new
    BY <1>2, <1>7, <2>2
  <2>. QED
    BY <1>2, <1>7, <2>1, <2>3 DEF ListOK
<1>. QED
  BY <1>3, <1>4, <1>5, <1>6, <1>7

\* update_ring_from_neighbors keeps a ring at or above the distance, and the
\* count of rounds below the threshold (multihop_state.cpp:113-139).
LEMMA UpdatedType ==
    ASSUME NEW n \in Node, NEW l, ListOK(n, l), NEW g \in FarEnough(n),
           NEW k \in 0 .. RING_HYSTERESIS_THRESHOLD - 1
    PROVE  /\ updated(g, k, lowest(l))[1] \in FarEnough(n)
           /\ updated(g, k, lowest(l))[2] \in 0 .. RING_HYSTERESIS_THRESHOLD - 1
<1>. DEFINE low == lowest(l)
<1>1. /\ g \in Nat /\ g <= UNKNOWN_RING /\ g >= Hops[n]
      /\ UNKNOWN_RING \in Nat /\ Hops[n] \in Nat /\ Hops[n] <= UNKNOWN_RING
      /\ RING_HYSTERESIS_THRESHOLD \in Nat \ {0}
  BY Constants DEF FarEnough, Ring
<1>2. low = UNKNOWN_RING \/ (low \in Nat /\ low < UNKNOWN_RING /\ low + 1 >= Hops[n])
  BY LowestIsStart, <1>1 DEF ListOK, Hearable, Ring
<1>. HIDE DEF low
<1>3. low < g => low + 1 \in FarEnough(n)
  BY <1>1, <1>2 DEF FarEnough, Ring
<1>4. Above(low) \in FarEnough(n)
  BY <1>1, <1>2 DEF Above, FarEnough, Ring
<1>5. /\ updated(g, k, low)[1] \in FarEnough(n)
      /\ updated(g, k, low)[2] \in 0 .. RING_HYSTERESIS_THRESHOLD - 1
  BY <1>1, <1>2, <1>3, <1>4 DEF updated
<1>. QED
  BY <1>5 DEF low

-----------------------------------------------------------------------------
LEMMA NoneHeard == ASSUME NEW n \in Node PROVE ListOK(n, NoNeighbors)
  BY Constants DEF ListOK, NoNeighbors, Ring

LEMMA InitInv == Init => IInv
<1>. SUFFICES ASSUME Init PROVE IInv
  OBVIOUS
<1>1. 0 \in Ring /\ UNKNOWN_RING \in Ring
  BY Constants DEF Ring
<1>2. 0 \in 0 .. RING_HYSTERESIS_THRESHOLD - 1 /\ 0 \in 0 .. DryBound
  BY Constants
<1>3. NoNeighbors \in [start : Ring, counted : SUBSET (0 .. COUNTS - 1)]
  BY <1>1 DEF NoNeighbors
<1>4. ring \in [Node -> Ring] /\ nearest \in [Node -> Ring]
  BY <1>1 DEF Init, GATEWAY_RING
<1>5. TypeOK
  BY <1>2, <1>3, <1>4 DEF Init, TypeOK
<1>6. ASSUME NEW n \in Node PROVE ring[n] \in FarEnough(n)
  BY <1>1, Constants DEF Init, FarEnough, GATEWAY_RING
<1>7. DistanceInv
  <2>. SUFFICES ASSUME NEW n \in Node
                PROVE  /\ ring[n] \in FarEnough(n) /\ tx[n] \in Seq(FarEnough(n))
                       /\ inbox[n] \in Seq(Seq(Hearable(n)))
                       /\ rx[n] \in Seq(Hearable(n)) /\ ListOK(n, list[n])
    BY DEF DistanceInv
  <2>1. tx[n] = <<>> /\ inbox[n] = <<>> /\ rx[n] = <<>> /\ list[n] = NoNeighbors
    BY DEF Init
  <2>. QED
    BY <1>6, <2>1, EmptySeq, NoneHeard
<1>. QED
  BY <1>5, <1>7 DEF IInv

LEMMA BeginInv == ASSUME IInv, NEW n \in Node, Begin(n) PROVE IInv'
<1>1. PICK q \in {tx[n], <<>>} : tx' = [tx EXCEPT ![n] = q]
  BY DEF Begin
<1>2. PICK b \in {inbox[n], <<>>} : inbox' = [inbox EXCEPT ![n] = b]
  BY DEF Begin
<1>3. list' = [list EXCEPT ![n] = NoNeighbors]
  BY DEF Begin
<1>4. TypeOK'
  <2>1. parity' \in [Node -> {0, 1}]
    <3>1. parity[n] \in {0, 1}
      BY DEF IInv, TypeOK
    <3>2. 1 - parity[n] \in {0, 1}
      BY <3>1
    <3>. QED
      BY <3>2 DEF IInv, TypeOK, Begin
  <2>2. NoNeighbors \in [start : Ring, counted : SUBSET (0 .. COUNTS - 1)]
    BY NoneHeard DEF ListOK
  <2>3. tx' \in [Node -> Seq(Ring)] /\ inbox' \in [Node -> Seq(Seq(Ring))]
    <3>1. q \in Seq(Ring) /\ b \in Seq(Seq(Ring))
      <4>1. tx[n] \in Seq(Ring) /\ inbox[n] \in Seq(Seq(Ring))
        BY DEF IInv, TypeOK
      <4>. QED
        BY <4>1, EmptySeq
    <3>. QED
      BY <1>1, <1>2, <3>1 DEF IInv, TypeOK
  <2>4. dry' \in [Node -> 0 .. DryBound]
    <3>1. dry[n] \in 0 .. DryBound
      BY DEF IInv, TypeOK
    <3>2. (IF dry[n] < DryBound THEN dry[n] + 1 ELSE dry[n])
            \in 0 .. DryBound
      BY <3>1, Constants
    <3>3. dry' = [dry EXCEPT ![n] = IF dry[n] < DryBound
                                    THEN dry[n] + 1 ELSE dry[n]]
      BY DEF Begin
    <3>. QED
      BY <3>2, <3>3 DEF IInv, TypeOK
  <2>5. /\ pc' = [pc EXCEPT ![n] = "loop"]
        /\ info' = [info EXCEPT ![n] = ring[n] # UNKNOWN_RING]
        /\ UNCHANGED <<ring, rounds, announced, rx, nearest>>
    BY DEF Begin
  <2>. QED
    BY <1>3, <2>1, <2>2, <2>3, <2>4, <2>5 DEF IInv, TypeOK
<1>5. DistanceInv'
  <2>1. ASSUME NEW m \in Node
        PROVE  /\ ring'[m] = ring[m] /\ rx'[m] = rx[m]
               /\ tx'[m] \in {tx[m], <<>>} /\ inbox'[m] \in {inbox[m], <<>>}
               /\ list'[m] \in {list[m], NoNeighbors}
    <3>1. UNCHANGED <<ring, rx>>
      BY DEF Begin
    <3>. QED
      BY <1>1, <1>2, <1>3, <3>1 DEF IInv, TypeOK
  <2>2. ASSUME NEW m \in Node
        PROVE  /\ ring'[m] \in FarEnough(m)
               /\ tx'[m] \in Seq(FarEnough(m))
               /\ inbox'[m] \in Seq(Seq(Hearable(m)))
               /\ rx'[m] \in Seq(Hearable(m))
               /\ ListOK(m, list'[m])
    <3>1. /\ ring[m] \in FarEnough(m) /\ tx[m] \in Seq(FarEnough(m))
          /\ inbox[m] \in Seq(Seq(Hearable(m))) /\ rx[m] \in Seq(Hearable(m))
          /\ ListOK(m, list[m])
      BY DEF IInv, DistanceInv
    <3>2. /\ <<>> \in Seq(FarEnough(m)) /\ <<>> \in Seq(Seq(Hearable(m)))
          /\ ListOK(m, NoNeighbors)
      BY EmptySeq, NoneHeard
    <3>. QED
      BY <2>1, <3>1, <3>2
  <2>. QED
    BY <2>2 DEF DistanceInv
<1>. QED
  BY <1>4, <1>5 DEF IInv

LEMMA RecvInv == ASSUME IInv, NEW n \in Node, Recv(n) PROVE IInv'
<1>. USE DEF IInv, Recv
<1>1. inbox[n] # <<>>
  OBVIOUS
<1>2. TypeOK'
  <2>1. Head(inbox[n]) \in Seq(Ring) /\ Tail(inbox[n]) \in Seq(Seq(Ring))
    BY <1>1, HeadTail DEF TypeOK
  <2>. QED
    BY <2>1 DEF TypeOK
<1>3. DistanceInv'
  <2>1. Head(inbox[n]) \in Seq(Hearable(n)) /\ Tail(inbox[n]) \in Seq(Seq(Hearable(n)))
    BY <1>1, HeadTail DEF DistanceInv
  <2>. QED
    BY <2>1 DEF DistanceInv, TypeOK
<1>. QED
  BY <1>2, <1>3

LEMMA HearInv == ASSUME IInv, NEW n \in Node, Hear(n) PROVE IInv'
<1>. USE DEF IInv, Hear
<1>1. Head(rx[n]) \in Hearable(n) /\ Tail(rx[n]) \in Seq(Hearable(n))
  BY HeadTail DEF DistanceInv
<1>2. ListOK(n, add_neighbor(list[n], Head(rx[n])))
  BY <1>1, AddKeepsList DEF DistanceInv
<1>3. TypeOK'
  <2>1. Head(rx[n]) \in Ring /\ Tail(rx[n]) \in Seq(Ring)
    BY HeadTail DEF TypeOK
  <2>2. list' \in [Node -> [start : Ring, counted : SUBSET (0 .. COUNTS - 1)]]
    BY <1>2 DEF TypeOK, ListOK
  <2>. QED
    BY <2>1, <2>2 DEF TypeOK
<1>4. DistanceInv'
  BY <1>1, <1>2 DEF DistanceInv, TypeOK
<1>. QED
  BY <1>3, <1>4

LEMMA UpdateInv ==
    ASSUME IInv, NEW n \in Node, UpdateRing(n)
    PROVE  /\ ring' \in [Node -> Ring]
           /\ rounds' \in [Node -> 0 .. RING_HYSTERESIS_THRESHOLD - 1]
           /\ \A m \in Node : ring'[m] \in FarEnough(m)
<1>. USE DEF IInv
<1>1. CASE n = Gateway
  <2>1. ring' = [ring EXCEPT ![n] = 0] /\ rounds' = rounds
    BY <1>1 DEF UpdateRing, GATEWAY_RING
  <2>2. 0 \in FarEnough(n) /\ 0 \in Ring
    BY <1>1, Constants DEF FarEnough, Ring
  <2>. QED
    BY <2>1, <2>2 DEF TypeOK, DistanceInv
<1>2. CASE n # Gateway
  <2>. DEFINE u == updated(ring[n], rounds[n], lowest(list[n]))
  <2>1. ring' = [ring EXCEPT ![n] = u[1]] /\ rounds' = [rounds EXCEPT ![n] = u[2]]
    BY <1>2 DEF UpdateRing
  <2>2. u[1] \in FarEnough(n) /\ u[2] \in 0 .. RING_HYSTERESIS_THRESHOLD - 1
    BY UpdatedType DEF TypeOK, DistanceInv
  <2>. HIDE DEF u
  <2>. QED
    BY <2>1, <2>2 DEF TypeOK, DistanceInv, FarEnough
<1>. QED
  BY <1>1, <1>2

LEMMA AnnounceInv ==
    ASSUME IInv, NEW n \in Node, ring'[n] \in FarEnough(n), Announce(n)
    PROVE  /\ tx' \in [Node -> Seq(Ring)] /\ inbox' \in [Node -> Seq(Seq(Ring))]
           /\ \A m \in Node : /\ tx'[m] \in Seq(FarEnough(m))
                               /\ inbox'[m] \in Seq(Seq(Hearable(m)))
<1>. USE DEF IInv
<1>. DEFINE q == Append(tx[n], ring'[n])
<1>1. q \in Seq(FarEnough(n))
  BY DEF DistanceInv
<1>2. q \in Seq(Ring)
  BY <1>1, SeqMonotone DEF FarEnough
<1>. HIDE DEF q
<1>3. CASE UNCHANGED <<tx, inbox>>
  BY <1>3 DEF TypeOK, DistanceInv
<1>4. CASE tx' = [tx EXCEPT ![n] = q] /\ UNCHANGED inbox
  BY <1>1, <1>2, <1>4 DEF TypeOK, DistanceInv
<1>5. ASSUME NEW reached \in SUBSET {m \in Node : InRange(n, m)},
             tx' = [tx EXCEPT ![n] = <<>>],
             inbox' = [m \in Node |-> IF m \in reached /\ Len(inbox[m]) < RxCap
                                      THEN Append(inbox[m], q) ELSE inbox[m]]
      PROVE  /\ tx' \in [Node -> Seq(Ring)] /\ inbox' \in [Node -> Seq(Seq(Ring))]
             /\ \A m \in Node : /\ tx'[m] \in Seq(FarEnough(m))
                                 /\ inbox'[m] \in Seq(Seq(Hearable(m)))
  <2>1. inbox' \in [Node -> Seq(Seq(Ring))]
    BY <1>2, <1>5 DEF TypeOK
  <2>2. ASSUME NEW m \in Node PROVE inbox'[m] \in Seq(Seq(Hearable(m)))
    <3>1. inbox[m] \in Seq(Seq(Hearable(m)))
      BY DEF DistanceInv
    <3>2. ASSUME m \in reached PROVE q \in Seq(Hearable(m))
      BY <1>1, <3>2, SentIsHearable, SeqMonotone
    <3>. QED
      BY <1>5, <3>1, <3>2
  <2>. QED
    BY <1>5, <2>1, <2>2 DEF TypeOK, DistanceInv
<1>. QED
  BY <1>3, <1>4, <1>5 DEF Announce, q

LEMMA IterateInv == ASSUME IInv, NEW n \in Node, Iterate(n) PROVE IInv'
<1>1. UpdateRing(n)
  BY DEF Iterate
<1>2. /\ ring' \in [Node -> Ring]
      /\ rounds' \in [Node -> 0 .. RING_HYSTERESIS_THRESHOLD - 1]
      /\ \A m \in Node : ring'[m] \in FarEnough(m)
  BY <1>1, UpdateInv
<1>3. /\ tx' \in [Node -> Seq(Ring)] /\ inbox' \in [Node -> Seq(Seq(Ring))]
      /\ \A m \in Node : /\ tx'[m] \in Seq(FarEnough(m))
                          /\ inbox'[m] \in Seq(Seq(Hearable(m)))
  <2>1. CASE Announce(n)
    BY <1>2, <2>1, AnnounceInv
  <2>2. CASE UNCHANGED <<tx, inbox>>
    BY <2>2 DEF IInv, TypeOK, DistanceInv
  <2>. QED
    BY <2>1, <2>2 DEF Iterate
<1>4. /\ pc' = [pc EXCEPT ![n] = "loop"]
      /\ announced' \in [Node -> BOOLEAN]
      /\ dry' \in [Node -> 0 .. DryBound]
      /\ UNCHANGED <<parity, list, info, rx, nearest>>
  <2>1. /\ pc' = [pc EXCEPT ![n] = "loop"]
        /\ dry' = [dry EXCEPT ![n] = IF lowest(list[n]) < ring[n] THEN 0 ELSE dry[n]]
        /\ announced' = [announced EXCEPT ![n] = TRUE] \/ UNCHANGED announced
        /\ UNCHANGED <<parity, list, info, rx, nearest>>
    BY DEF Iterate
  <2>2. 0 \in 0 .. DryBound
    BY Constants
  <2>. QED
    BY <2>1, <2>2 DEF IInv, TypeOK
<1>5. TypeOK'
  BY <1>2, <1>3, <1>4 DEF IInv, TypeOK
<1>6. DistanceInv'
  BY <1>2, <1>3, <1>4 DEF IInv, DistanceInv
<1>. QED
  BY <1>5, <1>6 DEF IInv

LEMMA EndInv == ASSUME IInv, NEW n \in Node, End(n) PROVE IInv'
<1>1. TypeOK'
  <2>1. UNKNOWN_RING \in Ring
    BY Constants DEF Ring
  <2>. QED
    BY <2>1 DEF IInv, End, TypeOK, radio
<1>2. DistanceInv'
  BY DEF IInv, End, DistanceInv, radio
<1>. QED
  BY <1>1, <1>2 DEF IInv

LEMMA NextInv == IInv /\ [Next]_vars => IInv'
<1>. SUFFICES ASSUME IInv, [Next]_vars PROVE IInv'
  OBVIOUS
<1>1. ASSUME NEW n \in Node, Step(n) PROVE IInv'
  BY <1>1, BeginInv, RecvInv, HearInv, IterateInv, EndInv DEF Step
<1>2. CASE UNCHANGED vars
  BY <1>2 DEF vars, radio, IInv, TypeOK, DistanceInv
<1>. QED
  BY <1>1, <1>2 DEF Next

\* The types of the whole state, for every network (multihop_state.h:18-51):
\* rings stay in their byte although they count up.
THEOREM RingsTypeOK == Spec => []TypeOK
<1>1. IInv => TypeOK
  BY DEF IInv
<1>. QED
  BY InitInv, NextInv, <1>1, PTL DEF Spec

\* No node's ring is ever below its distance from the gateway
\* (update_ring_from_neighbors, multihop_state.cpp:101-139).
THEOREM RingsNotBelowHops == Spec => []RingNotBelowHops
<1>1. IInv => RingNotBelowHops
  BY DEF IInv, DistanceInv, FarEnough, RingNotBelowHops
<1>. QED
  BY InitInv, NextInv, <1>1, PTL DEF Spec

-----------------------------------------------------------------------------
(* The ring between frames.  Although a list has room for COUNTS rings      *)
(* only, nothing lower than its start is ever dropped from it; so what an   *)
(* iteration makes of it is at most one above the nearest ring heard.       *)

NearInv ==
    \A n \in Node :
        /\ pc[n] = "idle" => nearest[n] = UNKNOWN_RING
        /\ pc[n] # "idle" => lowest(list[n]) <= nearest[n]
        /\ pc[n] # "reading" => ring[n] <= Above(nearest[n])

\* A list never loses sight of the lowest ring it was told (multihop_state.cpp:46-83).
LEMMA AddKeepsLowest ==
    ASSUME NEW n \in Node, NEW l, ListOK(n, l), NEW r \in Hearable(n)
    PROVE  lowest(add_neighbor(l, r)) <= r /\ lowest(add_neighbor(l, r)) <= lowest(l)
<1>. DEFINE new == add_neighbor(l, r)
<1>1. /\ r \in Nat /\ r <= UNKNOWN_RING /\ UNKNOWN_RING \in Nat /\ COUNTS \in Nat \ {0}
      /\ l.start \in Nat /\ l.start <= UNKNOWN_RING
      /\ l.counted # {} => 0 \in l.counted
  BY Constants DEF Hearable, Ring, ListOK
<1>2. lowest(l) = IF l.counted = {} THEN UNKNOWN_RING ELSE l.start
  BY LowestIsStart
<1>3. lowest(new) = IF new.counted = {} THEN UNKNOWN_RING ELSE new.start
  BY AddKeepsList, LowestIsStart
<1>4. CASE new = l /\ (r = UNKNOWN_RING \/ (0 \in l.counted /\ l.start <= r))
  BY <1>1, <1>2, <1>3, <1>4
<1>5. CASE new.start = r /\ new.counted # {} /\ (l.counted = {} \/ r < l.start)
  BY <1>1, <1>2, <1>3, <1>5
<1>6. CASE new.start = l.start /\ new.counted # {} /\ 0 \in l.counted /\ l.start <= r
  BY <1>1, <1>2, <1>3, <1>6
<1>7. \/ new = l /\ (r = UNKNOWN_RING \/ (0 \in l.counted /\ l.start <= r))
      \/ new.start = r /\ new.counted # {} /\ (l.counted = {} \/ r < l.start)
      \/ new.start = l.start /\ new.counted # {} /\ 0 \in l.counted /\ l.start <= r
  <2>1. CASE r = UNKNOWN_RING
    BY <2>1 DEF add_neighbor
  <2>2. CASE r # UNKNOWN_RING /\ 0 \notin l.counted
    BY <1>1, <2>2 DEF add_neighbor
  <2>3. CASE r # UNKNOWN_RING /\ 0 \in l.counted /\ r >= l.start + COUNTS
    BY <1>1, <2>3 DEF add_neighbor
  <2>4. CASE r # UNKNOWN_RING /\ 0 \in l.counted /\ ~(r >= l.start + COUNTS) /\ r < l.start
    BY <2>4 DEF add_neighbor
  <2>5. CASE r # UNKNOWN_RING /\ 0 \in l.counted /\ ~(r >= l.start + COUNTS) /\ ~(r < l.start)
    <3>1. new = [l EXCEPT !.counted = l.counted \cup {r - l.start}]
      BY <2>5 DEF add_neighbor
    <3>2. new.start = l.start /\ new.counted = l.counted \cup {r - l.start}
      BY <3>1 DEF ListOK
    <3>. QED
      BY <1>1, <2>5, <3>2
  <2>. QED
    BY <2>1, <2>2, <2>3, <2>4, <2>5
<1>. QED
  BY <1>4, <1>5, <1>6, <1>7

\* What update_ring_from_neighbors makes of a list whose lowest ring is no higher
\* than near.
LEMMA UpdatedNear ==
    ASSUME NEW g \in Ring, NEW k \in Nat, NEW low \in Ring, NEW near \in Ring, low <= near
    PROVE  updated(g, k, low)[1] <= Above(near)
<1>1. g \in Nat /\ low \in Nat /\ near \in Nat /\ UNKNOWN_RING \in Nat
      /\ g <= UNKNOWN_RING /\ low <= UNKNOWN_RING /\ near <= UNKNOWN_RING
  BY Constants DEF Ring
<1>2. low < g => low + 1 <= Above(near)
  BY <1>1 DEF Above
<1>3. Above(low) <= Above(near)
  BY <1>1 DEF Above
<1>4. ~(low < g) => g <= Above(near)
  BY <1>1 DEF Above
<1>. QED
  BY <1>2, <1>3, <1>4 DEF updated

LEMMA InitNear == Init => NearInv
<1>. SUFFICES ASSUME Init, NEW n \in Node
              PROVE  /\ pc[n] = "idle" /\ nearest[n] = UNKNOWN_RING
                     /\ ring[n] <= Above(nearest[n])
  BY DEF NearInv
<1>1. pc[n] = "idle" /\ nearest[n] = UNKNOWN_RING /\ ring[n] \in {0, UNKNOWN_RING}
  BY DEF Init, GATEWAY_RING
<1>. QED
  BY <1>1, Constants DEF Above

LEMMA StepNear ==
    ASSUME IInv, IInv', NearInv, NEW n \in Node, Step(n)
    PROVE  NearInv'
<1>1. /\ \A m \in Node : ring[m] \in Ring /\ nearest[m] \in Ring /\ ListOK(m, list[m])
      /\ \A m \in Node : rounds[m] \in Nat
  <2>1. \A m \in Node : rounds[m] \in 0 .. RING_HYSTERESIS_THRESHOLD - 1
    BY DEF IInv, TypeOK
  <2>2. \A m \in Node : rounds[m] \in Nat
    BY <2>1, Constants
  <2>. QED
    BY <2>2 DEF IInv, TypeOK, DistanceInv
<1>2. \A m \in Node : lowest(list[m]) \in Ring
  <2>1. UNKNOWN_RING \in Ring
    BY Constants DEF Ring
  <2>. QED
    BY <1>1, <2>1, LowestIsStart DEF ListOK
<1>3. CASE Begin(n)
  <2>1. /\ pc[n] = "idle" /\ pc' = [pc EXCEPT ![n] = "loop"]
        /\ list' = [list EXCEPT ![n] = NoNeighbors]
        /\ ring' = ring /\ nearest' = nearest
    BY <1>3 DEF Begin
  <2>2. lowest(NoNeighbors) = UNKNOWN_RING
    BY DEF lowest, NoNeighbors
  <2>3. pc'[n] = "loop" /\ list'[n] = NoNeighbors
        /\ \A m \in Node \ {n} : pc'[m] = pc[m] /\ list'[m] = list[m]
    BY <2>1 DEF IInv, TypeOK
  <2>4. nearest[n] = UNKNOWN_RING /\ ring[n] <= Above(nearest[n])
    BY <2>1 DEF NearInv
  <2>5. UNKNOWN_RING <= UNKNOWN_RING
    BY Constants
  <2>. QED
    BY <2>1, <2>2, <2>3, <2>4, <2>5 DEF NearInv
<1>4. CASE Recv(n)
  <2>1. /\ pc[n] = "loop" /\ pc' = [pc EXCEPT ![n] = "reading"]
        /\ list' = list /\ ring' = ring /\ nearest' = nearest
    BY <1>4 DEF Recv
  <2>. QED
    BY <2>1 DEF NearInv, IInv, TypeOK
<1>5. CASE Hear(n)
  <2>1. /\ pc[n] = "reading" /\ pc' = pc /\ ring' = ring
        /\ list' = [list EXCEPT ![n] = add_neighbor(list[n], Head(rx[n]))]
        /\ nearest' = [nearest EXCEPT ![n] =
                         IF Head(rx[n]) < nearest[n] THEN Head(rx[n]) ELSE nearest[n]]
    BY <1>5 DEF Hear
  <2>2. Head(rx[n]) \in Hearable(n)
    BY <1>5, HeadTail DEF Hear, IInv, DistanceInv
  <2>3. /\ lowest(add_neighbor(list[n], Head(rx[n]))) <= Head(rx[n])
        /\ lowest(add_neighbor(list[n], Head(rx[n]))) <= lowest(list[n])
    BY <1>1, <2>2, AddKeepsLowest
  <2>4. lowest(list[n]) <= nearest[n]
    BY <2>1 DEF NearInv
  <2>5. /\ list'[n] = add_neighbor(list[n], Head(rx[n]))
        /\ nearest'[n] = IF Head(rx[n]) < nearest[n] THEN Head(rx[n]) ELSE nearest[n]
        /\ \A m \in Node \ {n} : list'[m] = list[m] /\ nearest'[m] = nearest[m]
    BY <2>1 DEF IInv, TypeOK
  <2>6. lowest(list'[n]) \in Nat /\ lowest(list[n]) \in Nat /\ nearest[n] \in Nat
        /\ Head(rx[n]) \in Nat
    <3>1. lowest(list'[n]) \in Ring
      <4>1. ListOK(n, list'[n]) /\ UNKNOWN_RING \in Ring
        BY Constants DEF IInv, DistanceInv, Ring
      <4>. QED
        BY <4>1, LowestIsStart DEF ListOK
    <3>. QED
      BY <1>1, <1>2, <2>2, <3>1, Constants DEF Ring, Hearable
  <2>7. lowest(list'[n]) <= nearest'[n]
    BY <2>3, <2>4, <2>5, <2>6
  <2>. QED
    BY <2>1, <2>5, <2>7 DEF NearInv
<1>6. CASE Iterate(n)
  <2>1. /\ pc[n] # "idle" /\ pc' = [pc EXCEPT ![n] = "loop"] /\ UpdateRing(n)
        /\ list' = list /\ nearest' = nearest
    BY <1>6 DEF Iterate
  <2>2. ring'[n] <= Above(nearest[n])
    <3>1. CASE n = Gateway
      <4>1. ring'[n] = 0
        BY <2>1, <3>1 DEF UpdateRing, GATEWAY_RING, IInv, TypeOK
      <4>2. Above(nearest[n]) \in Nat
        BY <1>1, Constants DEF Above, Ring
      <4>. QED
        BY <4>1, <4>2
    <3>2. CASE n # Gateway
      <4>1. ring'[n] = updated(ring[n], rounds[n], lowest(list[n]))[1]
        BY <2>1, <3>2 DEF UpdateRing, IInv, TypeOK
      <4>2. lowest(list[n]) <= nearest[n]
        BY <2>1 DEF NearInv
      <4>. QED
        BY <1>1, <1>2, <4>1, <4>2, UpdatedNear
    <3>. QED
      BY <3>1, <3>2
  <2>3. pc'[n] = "loop" /\ \A m \in Node \ {n} : pc'[m] = pc[m] /\ ring'[m] = ring[m]
    <3>1. DOMAIN pc = Node /\ DOMAIN ring = Node
      BY DEF IInv, TypeOK
    <3>. QED
      BY <2>1, <3>1 DEF UpdateRing
  <2>4. list'[n] = list[n] /\ nearest'[n] = nearest[n] /\ lowest(list[n]) <= nearest[n]
    BY <2>1 DEF NearInv
  <2>5. \A m \in Node \ {n} : list'[m] = list[m] /\ nearest'[m] = nearest[m]
    BY <2>1
  <2>. QED
    BY <2>2, <2>3, <2>4, <2>5 DEF NearInv
<1>7. CASE End(n)
  <2>1. /\ pc' = [pc EXCEPT ![n] = "idle"] /\ list' = list /\ ring' = ring
        /\ nearest' = [nearest EXCEPT ![n] = UNKNOWN_RING]
    BY <1>7 DEF End
  <2>2. /\ pc'[n] = "idle" /\ nearest'[n] = UNKNOWN_RING
        /\ \A m \in Node \ {n} : pc'[m] = pc[m] /\ nearest'[m] = nearest[m]
    BY <2>1 DEF IInv, TypeOK
  <2>3. ring[n] <= Above(UNKNOWN_RING)
    BY <1>1, Constants DEF Above, Ring
  <2>. QED
    BY <2>1, <2>2, <2>3 DEF NearInv
<1>. QED
  BY <1>3, <1>4, <1>5, <1>6, <1>7 DEF Step

\* Between frames a node is at most one ring above every neighbour it has heard
\* in the superframe, for any size of its list and any threshold
\* (multihop_state.cpp:46-83, 115-130).
THEOREM RingsOneAboveNearest == Spec => []OneAboveNearest
<1>1. ASSUME IInv, IInv', NearInv, [Next]_vars  PROVE NearInv'
  <2>1. CASE Next
    BY <1>1, <2>1, StepNear DEF Next
  <2>2. CASE UNCHANGED vars
    BY <1>1, <2>2 DEF vars, NearInv
  <2>. QED
    BY <1>1, <2>1, <2>2
<1>2. NearInv => OneAboveNearest
  BY DEF NearInv, OneAboveNearest
<1>. QED
  BY <1>1, <1>2, InitInv, NextInv, InitNear, PTL DEF Spec
=============================================================================
