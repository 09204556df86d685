------------------------- MODULE ClusterFormationProof -------------------------
(***************************************************************************)
(* Proofs about ClusterFormation, for every set of nodes, radio range,     *)
(* score, number of rounds and layout of the superframe, whatever is lost, *)
(* repeated or delayed: every table is a lease, both ends of an assignment *)
(* agree, and following leads to a node that acts as a clusterhead and is  *)
(* closer to the gateway; and where nothing is lost and phases are kept,   *)
(* who is left without a slot was left out for want of slots, or waited in *)
(* vain for a clusterhead that does not answer.                            *)
(***************************************************************************)
EXTENDS ClusterFormation, SequenceTheorems, TLAPS

Roles == {"Gateway", "Clusterhead", "Follower"}

\* A window has a slot at least: (S - 1) \div R >= 1 since S > R.
LEMMA WindowType == vtdma_window_size \in Nat /\ vtdma_window_size >= 1
<1> DEFINE S == SUPERFRAME_SLOT_COUNT - ADV_SLOTS
<1>1. S \in Nat /\ REUSE_DISTANCE \in Nat \ {0} /\ S >= REUSE_DISTANCE
  BY SlotAssumption DEF ADV_SLOTS
<1> HIDE DEF S
<1>2. S \div REUSE_DISTANCE \in Nat /\ S \div REUSE_DISTANCE >= 1
  BY <1>1, Z3
<1> QED
  BY <1>2 DEF S, vtdma_window_size

LEMMA DataType == DATA \in Nat /\ DATA % 2 = 0 /\ DATA > 0
  BY RoundAssumption DEF DATA, UNKNOWN_RING

\* The slot a table of followers has for f is a slot of the window.
LEMMA SlotOfType ==
    ASSUME NEW table \in Seq(Node), Len(table) < vtdma_window_size, NEW f
    PROVE  SlotOf(table, f) \in 0 .. vtdma_window_size - 1
<1>1. CASE \E i \in DOMAIN table : table[i] = f
  <2>1. SlotOf(table, f) \in DOMAIN table
    BY <1>1 DEF SlotOf
  <2> QED
    BY <2>1, WindowType
<1>2. CASE ~ \E i \in DOMAIN table : table[i] = f
  BY <1>2, WindowType DEF SlotOf
<1> QED
  BY <1>1, <1>2

LEMMA GrantedType ==
    ASSUME NEW table \in Seq(Node), Len(table) < vtdma_window_size, NEW f \in Node
    PROVE  Granted(table, f) \in Seq(Node) /\ Len(Granted(table, f)) < vtdma_window_size
  BY WindowType DEF Granted

LEMMA QueuedType ==
    ASSUME NEW q \in Seq(Message), NEW m \in Message
    PROVE  Queued(q, m) \in Seq(Message)
  BY DEF Queued

\* Whatever becomes of a flush, the buffers hold messages.
LEMMA FlushType ==
    ASSUME TypeOK, NEW n \in Node, NEW q \in Seq(Message), Flushed(n, q) \/ NotFlushed(n, q)
    PROVE  tx' \in [Node -> Seq(Message)] /\ inbox' \in [Node -> Seq(Seq(Message))]
<1>0. ASSUME Delivered(n, q)
      PROVE  inbox' \in [Node -> Seq(Seq(Message))]
  BY <1>0 DEF Delivered, TypeOK
<1>1. CASE Flushed(n, q)
  BY <1>0, <1>1 DEF Flushed, TypeOK
<1>2. CASE NotFlushed(n, q)
  BY <1>2 DEF NotFlushed, TypeOK
<1> QED
  BY <1>1, <1>2

LEMMA CandidateType ==
    /\ NoCandidate \in Candidate
    /\ NoCands \in Candidate \X Candidate
    /\ \A target \in Candidate, try \in BOOLEAN : Joiner(target, try) \in Joiners
    /\ NoJoin \in Joiners
  BY DEF NoCandidate, NoCands, Candidate, Joiner, NoJoin, Joiners, UNKNOWN_ADDR, UNKNOWN_RING

LEMMA EligibleType ==
    ASSUME NEW n \in Node, NEW c \in Candidate
    PROVE  Eligible(n, c) \in Candidate
  BY CandidateType DEF Eligible

LEMMA UpdateType ==
    ASSUME NEW best \in Candidate \X Candidate, NEW c \in Candidate
    PROVE  update(best, c) \in Candidate \X Candidate
  BY DEF update

LEMMA BaseRoleType == \A n : BaseRole(n) \in Roles
  BY DEF BaseRole, Roles

\* The first steps of an announcement phase keep the types of what they change.
LEMMA BeginType ==
    ASSUME TypeOK, NEW n \in Node, NEW r, NEW g, NEW w \in Roles, NEW ch \in BOOLEAN,
           BeginAnnouncement(n, r, g, w, ch)
    PROVE  /\ bid' \in [Node -> {"none", "pending", "made"}]
           /\ role' \in [Node -> Roles]
           /\ slots' \in [Node -> Seq(Node)]
           /\ \A m \in Node : Len(slots'[m]) < vtdma_window_size
<1>1. PICK volunteer \in BOOLEAN, promoted \in BOOLEAN :
        /\ bid' = [bid EXCEPT ![n] = IF promoted THEN "pending"
                                    ELSE IF volunteer THEN "made" ELSE "none"]
        /\ role' = [role EXCEPT ![n] =
                      IF promoted /\ w # "Gateway" THEN "Clusterhead" ELSE w]
        /\ slots' = [slots EXCEPT ![n] = IF promoted THEN <<>> ELSE @]
  BY Zenon DEF BeginAnnouncement, announce_clusterhead
<1>2. bid' \in [Node -> {"none", "pending", "made"}]
  BY <1>1 DEF TypeOK
<1>4. role' \in [Node -> Roles]
  BY <1>1 DEF TypeOK, Roles
<1>5. slots' \in [Node -> Seq(Node)] /\ \A m \in Node : Len(slots'[m]) < vtdma_window_size
  <2> DEFINE table == IF promoted THEN <<>> ELSE slots[n]
  <2>1. table \in Seq(Node) /\ Len(table) < vtdma_window_size
    BY WindowType DEF TypeOK
  <2>2. slots' = [slots EXCEPT ![n] = table]
    BY <1>1
  <2> HIDE DEF table
  <2> QED
    BY <2>1, <2>2 DEF TypeOK
<1> QED
  BY <1>2, <1>4, <1>5

-----------------------------------------------------------------------------
(* Type correctness.                                                       *)

LEMMA InitType == Init => TypeOK
  BY WindowType, DataType, CandidateType, NodeAssumption
  DEF Init, TypeOK, BaseRole, GATEWAY_ADDR, UNKNOWN_ADDR, GATEWAY_RING, UNKNOWN_RING

\* What is read from a node's buffers is a message.
LEMMA HeadType ==
    ASSUME TypeOK, NEW n \in Node, rx[n] # <<>>
    PROVE  Head(rx[n]) \in Message /\ Tail(rx[n]) \in Seq(Message)
  BY DEF TypeOK

LEMMA MessageType ==
    ASSUME NEW m \in Message
    PROVE  /\ m.src \in Node
           /\ m.type = "OpenCluster" => m.ring \in 0 .. UNKNOWN_RING
           /\ m.type = "Follow" => m.clusterhead \in Node
           /\ m.type = "Accept" => /\ m.relative_slot \in 0 .. vtdma_window_size - 1
                                   /\ m.accepted \in BOOLEAN
  BY DEF Message

\* Each action preserves the types.
LEMMA AdvertiseType == ASSUME TypeOK, NEW n \in Node, Advertise(n) PROVE TypeOK'
<1>1. PICK g \in Rings[n] : /\ ring' = [ring EXCEPT ![n] = g]
                            /\ BeginAnnouncement(n, 0, g, BaseRole(n), FALSE)
  BY DEF Advertise
<1>2. /\ bid' \in [Node -> {"none", "pending", "made"}]
      /\ role' \in [Node -> Roles]
      /\ slots' \in [Node -> Seq(Node)]
      /\ \A m \in Node : Len(slots'[m]) < vtdma_window_size
  BY <1>1, BeginType, BaseRoleType
<1>3. ring' \in [Node -> 0 .. UNKNOWN_RING]
  BY <1>1, RingAssumption DEF TypeOK
<1>4. tx' \in [Node -> Seq(Message)] /\ inbox' \in [Node -> Seq(Seq(Message))]
  <2>1. PICK q \in {tx[n], <<>>} : tx' = [tx EXCEPT ![n] = q]
    BY DEF Advertise
  <2>2. tx[n] \in Seq(Message) /\ <<>> \in Seq(Message) /\ <<>> \in Seq(Seq(Message))
    BY DEF TypeOK
  <2>3. tx' \in [Node -> Seq(Message)]
    BY <2>1, <2>2 DEF TypeOK
  <2>4. inbox' \in [Node -> Seq(Seq(Message))]
    BY <2>2 DEF Advertise, TypeOK
  <2> QED
    BY <2>3, <2>4
<1>5. /\ phase' \in [Node -> 0 .. DATA]
      /\ parity' \in [Node -> {0, 1}]
      /\ parent' \in [Node -> Node \cup {UNKNOWN_ADDR}]
      /\ rel' \in [Node -> 0 .. vtdma_window_size - 1]
      /\ isCH' \in [Node -> BOOLEAN]
  <2>1. /\ phase' = [phase EXCEPT ![n] = 0]
        /\ parity' = [parity EXCEPT ![n] = 1 - parity[n]]
        /\ parent' = [parent EXCEPT ![n] = UNKNOWN_ADDR]
        /\ rel' = [rel EXCEPT ![n] = 0]
        /\ isCH' = [isCH EXCEPT ![n] = FALSE]
    BY DEF Advertise
  <2>2. 0 \in 0 .. DATA /\ 0 \in 0 .. vtdma_window_size - 1
    BY WindowType, DataType
  <2>3. phase' \in [Node -> 0 .. DATA] /\ rel' \in [Node -> 0 .. vtdma_window_size - 1]
    BY <2>1, <2>2 DEF TypeOK
  <2>4. 1 - parity[n] \in {0, 1}
    <3>1. parity[n] \in {0, 1}
      BY DEF TypeOK
    <3> QED
      BY <3>1
  <2>5. parity' \in [Node -> {0, 1}]
    BY <2>1, <2>4 DEF TypeOK
  <2> QED
    BY <2>1, <2>3, <2>5 DEF TypeOK
<1> QED
  BY <1>2, <1>3, <1>4, <1>5 DEF Advertise, TypeOK, Roles

LEMMA RecvType == ASSUME TypeOK, NEW n \in Node, Recv(n) PROVE TypeOK'
<1>1. Head(inbox[n]) \in Seq(Message) /\ Tail(inbox[n]) \in Seq(Seq(Message))
  BY DEF Recv, TypeOK
<1>2. rx' \in [Node -> Seq(Message)] /\ inbox' \in [Node -> Seq(Seq(Message))]
  BY <1>1 DEF Recv, TypeOK
<1> QED
  BY <1>2 DEF Recv, TypeOK, state, locals

LEMMA AnnounceType == ASSUME TypeOK, NEW n \in Node, Announce(n) PROVE TypeOK'
<1> DEFINE q == Append(tx[n], OpenCluster(n))
<1>1. q \in Seq(Message)
  BY DEF TypeOK, OpenCluster, Message
<1>2. /\ Flushed(n, q) \/ NotFlushed(n, q)
      /\ bid' \in [Node -> {"none", "pending", "made"}]
  BY DEF Announce, TypeOK
<1>3. tx' \in [Node -> Seq(Message)] /\ inbox' \in [Node -> Seq(Seq(Message))]
  <2> HIDE DEF q
  <2> QED  BY <1>1, <1>2, FlushType
<1> QED
  BY <1>2, <1>3 DEF Announce, TypeOK, state

LEMMA HearAnnouncementType == ASSUME TypeOK, NEW n \in Node, HearAnnouncement(n) PROVE TypeOK'
<1> DEFINE m == Head(rx[n])
<1>1. m \in Message /\ Tail(rx[n]) \in Seq(Message)
  BY HeadType DEF HearAnnouncement
<1>2. rx' \in [Node -> Seq(Message)]
  BY <1>1 DEF HearAnnouncement, TypeOK
<1>3. cands' \in [Node -> Candidate \X Candidate]
      /\ bid' \in [Node -> {"none", "pending", "made"}]
  <2>1. CASE m.type = "OpenCluster"
    <3> DEFINE c == [addr |-> m.src, ring |-> m.ring]
    <3>1. c \in Candidate
      BY <1>1, <2>1, MessageType DEF Candidate
    <3>2. cands[n] \in Candidate \X Candidate
      BY DEF TypeOK
    <3>3. update(cands[n], c) \in Candidate \X Candidate
      <4> HIDE DEF c
      <4> QED  BY <3>1, <3>2, UpdateType
    <3>4. cands' = [cands EXCEPT ![n] = update(cands[n], c)]
      BY <2>1 DEF HearAnnouncement
    <3>5. bid' = [bid EXCEPT ![n] = IF m.ring = ring[n] /\ (bid[n] = "pending" \/ n < m.src)
                                   THEN "none" ELSE bid[n]]
      BY <2>1 DEF HearAnnouncement
    <3> QED
      BY <3>3, <3>4, <3>5 DEF TypeOK
  <2>2. CASE m.type # "OpenCluster"
    BY <2>2 DEF HearAnnouncement, TypeOK
  <2> QED
    BY <2>1, <2>2
<1> QED
  BY <1>2, <1>3 DEF HearAnnouncement, TypeOK, state

LEMMA EndAnnouncementType == ASSUME TypeOK, NEW n \in Node, EndAnnouncement(n) PROVE TypeOK'
<1>1. phase' \in [Node -> 0 .. DATA]
  BY DataType DEF EndAnnouncement, Announcing, TypeOK
<1>2. Joiner(Eligible(n, cands[n][1]), acts_as_follower(n)) \in Joiners
  <2>1. cands[n][1] \in Candidate
    BY DEF TypeOK
  <2>2. acts_as_follower(n) \in BOOLEAN
    BY DEF acts_as_follower
  <2> QED
    BY <2>1, <2>2, EligibleType, CandidateType
<1>3. join' \in [Node -> Joiners]
  BY <1>2 DEF EndAnnouncement, TypeOK
<1>4. isCH' \in [Node -> BOOLEAN] /\ bid' \in [Node -> {"none", "pending", "made"}]
  BY DEF EndAnnouncement, TypeOK
<1> QED
  BY <1>1, <1>3, <1>4 DEF EndAnnouncement, TypeOK, state, radio

LEMMA SendFollowType == ASSUME TypeOK, NEW n \in Node, SendFollow(n) PROVE TypeOK'
<1>1. join' \in [Node -> Joiners]
  <2>1. join' = [join EXCEPT ![n] = [join[n] EXCEPT !.try = FALSE]]
    BY DEF SendFollow
  <2>2. join[n] \in Joiners
    BY DEF TypeOK
  <2>3. [join[n] EXCEPT !.try = FALSE] \in Joiners
    BY <2>2 DEF Joiners
  <2> QED
    BY <2>1, <2>3 DEF TypeOK
<1>2. tx' \in [Node -> Seq(Message)] /\ inbox' \in [Node -> Seq(Seq(Message))]
  <2>1. CASE join[n].target = NoCandidate
    BY <2>1 DEF SendFollow, TypeOK
  <2>2. CASE join[n].target # NoCandidate
    <3> DEFINE m == Follow(n, join[n].target.addr)
               q == Queued(tx[n], m)
    <3>1. m \in Message
      <4>1. join[n].target \in Candidate
        BY DEF TypeOK, Joiners
      <4> QED
        BY <2>2, <4>1 DEF Message, Follow, Candidate
    <3>2. q \in Seq(Message)
      <4> HIDE DEF m
      <4> QED  BY <3>1, QueuedType DEF TypeOK
    <3>3. Flushed(n, q) \/ NotFlushed(n, q)
      BY <2>2 DEF SendFollow
    <3> HIDE DEF q
    <3> QED
      BY <3>2, <3>3, FlushType
  <2> QED
    BY <2>1, <2>2
<1> QED
  BY <1>1, <1>2 DEF SendFollow, TypeOK, state

\* A frame answered with the message ans: what HearFollow does to the buffers.
LEMMA AnswerType ==
    ASSUME TypeOK, NEW n \in Node, NEW ans \in Message,
           Flushed(n, Queued(tx[n], ans)) \/ NotFlushed(n, Queued(tx[n], ans))
    PROVE  tx' \in [Node -> Seq(Message)] /\ inbox' \in [Node -> Seq(Seq(Message))]
<1> DEFINE q == Queued(tx[n], ans)
<1>1. q \in Seq(Message)
  BY QueuedType DEF TypeOK
<1> HIDE DEF q
<1> QED
  BY <1>1, FlushType DEF q

LEMMA HearFollowType == ASSUME TypeOK, NEW n \in Node, HearFollow(n) PROVE TypeOK'
<1> DEFINE m == Head(rx[n])
           table == Granted(slots[n], m.src)
           ans == Accept(n, m.src, SlotOf(table, m.src))
<1>1. m \in Message /\ Tail(rx[n]) \in Seq(Message)
  BY HeadType DEF HearFollow
<1>2. m.src \in Node
  BY <1>1, MessageType
<1>3. table \in Seq(Node) /\ Len(table) < vtdma_window_size
  BY <1>2, GrantedType DEF TypeOK
<1>4. slots' = [slots EXCEPT ![n] = table] /\ rx' = [rx EXCEPT ![n] = Tail(rx[n])]
  BY DEF HearFollow
<1>5. Flushed(n, Queued(tx[n], ans)) \/ NotFlushed(n, Queued(tx[n], ans))
  BY DEF HearFollow
<1>6. ans \in Message
  <2>1. SlotOf(table, m.src) \in 0 .. vtdma_window_size - 1
    BY <1>2, <1>3, SlotOfType
  <2> HIDE DEF table, m
  <2> QED
    BY <1>2, <2>1 DEF Accept, Message
<1>7. slots' \in [Node -> Seq(Node)] /\ \A k \in Node : Len(slots'[k]) < vtdma_window_size
  <2> HIDE DEF table
  <2> QED
    BY <1>3, <1>4 DEF TypeOK
<1>8. rx' \in [Node -> Seq(Message)]
  BY <1>1, <1>4 DEF TypeOK
<1>9. tx' \in [Node -> Seq(Message)] /\ inbox' \in [Node -> Seq(Seq(Message))]
  <2> HIDE DEF ans
  <2> QED
    BY <1>5, <1>6, AnswerType
<1> QED
  BY <1>7, <1>8, <1>9 DEF HearFollow, TypeOK, locals

LEMMA JoinType == ASSUME TypeOK, NEW n \in Node, Join(n) PROVE TypeOK'
<1> DEFINE m == Head(rx[n])
<1>1. m \in Message /\ Tail(rx[n]) \in Seq(Message)
  BY HeadType DEF Join, AnswerAwaited
<1>2. m.relative_slot \in 0 .. vtdma_window_size - 1 /\ m.src \in Node
      /\ join[n].target.addr \in Node
  BY <1>1, MessageType DEF Join, AnswerAwaited
<1>3. join' \in [Node -> Joiners]
  <2>1. join' = [join EXCEPT ![n] = [join[n] EXCEPT !.joined = TRUE]]
    BY DEF Join
  <2>2. join[n] \in Joiners
    BY DEF TypeOK
  <2>3. [join[n] EXCEPT !.joined = TRUE] \in Joiners
    BY <2>2 DEF Joiners
  <2> QED
    BY <2>1, <2>3 DEF TypeOK
<1>4. parent' \in [Node -> Node \cup {UNKNOWN_ADDR}]
      /\ rel' \in [Node -> 0 .. vtdma_window_size - 1]
  <2>1. /\ parent' = [parent EXCEPT ![n] = join[n].target.addr]
        /\ rel' = [rel EXCEPT ![n] = m.relative_slot]
    BY DEF Join
  <2> QED
    BY <1>2, <2>1 DEF TypeOK
<1>5. PICK prepare \in BOOLEAN :
        /\ role' = [role EXCEPT ![n] = IF prepare THEN "Clusterhead" ELSE role[n]]
        /\ slots' = [slots EXCEPT ![n] = IF prepare THEN <<>> ELSE slots[n]]
  BY Zenon DEF Join, acts_as_clusterhead, announce_clusterhead
<1>6. role' \in [Node -> Roles]
  BY <1>5 DEF TypeOK, Roles
<1>7. slots' \in [Node -> Seq(Node)] /\ \A k \in Node : Len(slots'[k]) < vtdma_window_size
  <2> DEFINE table == IF prepare THEN <<>> ELSE slots[n]
  <2>1. table \in Seq(Node) /\ Len(table) < vtdma_window_size
    BY WindowType DEF TypeOK
  <2>2. slots' = [slots EXCEPT ![n] = table]
    BY <1>5
  <2> HIDE DEF table
  <2> QED
    BY <2>1, <2>2 DEF TypeOK
<1>8. rx' \in [Node -> Seq(Message)]
  BY <1>1 DEF Join, TypeOK
<1> QED
  BY <1>3, <1>4, <1>6, <1>7, <1>8 DEF Join, TypeOK, Roles

LEMMA RefusedType == ASSUME TypeOK, NEW n \in Node, Refused(n) PROVE TypeOK'
<1>1. join' \in [Node -> Joiners]
  <2> DEFINE next == Eligible(n, cands[n][2])
             turned == [target |-> next, try |-> join[n].try \/ next # NoCandidate,
                        triedSecond |-> TRUE, joined |-> FALSE]
  <2>1. join' = join \/ join' = [join EXCEPT ![n] = turned]
    BY DEF Refused
  <2>2. next \in Candidate
    <3>1. cands[n][2] \in Candidate
      BY DEF TypeOK
    <3> QED
      BY <3>1, EligibleType
  <2>3. join[n].try \in BOOLEAN
    BY DEF TypeOK, Joiners
  <2>4. turned \in Joiners
    <3> HIDE DEF next
    <3> QED
      BY <2>2, <2>3 DEF Joiners
  <2> HIDE DEF turned
  <2> QED
    BY <2>1, <2>4 DEF TypeOK
<1>2. rx' \in [Node -> Seq(Message)]
  BY DEF Refused, TypeOK
<1> QED
  BY <1>1, <1>2 DEF Refused, TypeOK, state

LEMMA IgnoreType == ASSUME TypeOK, NEW n \in Node, IgnoreInJoining(n) PROVE TypeOK'
<1>1. Tail(rx[n]) \in Seq(Message)
  BY HeadType DEF IgnoreInJoining
<1>2. rx' \in [Node -> Seq(Message)]
  BY <1>1 DEF IgnoreInJoining, TypeOK
<1> QED
  BY <1>2 DEF IgnoreInJoining, TypeOK, state, locals

LEMMA EndJoiningType == ASSUME TypeOK, NEW n \in Node, EndJoining(n) PROVE TypeOK'
<1>1. phase' \in [Node -> 0 .. DATA]
  BY DataType DEF EndJoining, Joining, TypeOK
<1>2. cands' \in [Node -> Candidate \X Candidate] /\ join' \in [Node -> Joiners]
  BY CandidateType DEF EndJoining, TypeOK
<1>3. /\ bid' \in [Node -> {"none", "pending", "made"}]
      /\ role' \in [Node -> Roles]
      /\ slots' \in [Node -> Seq(Node)]
      /\ \A k \in Node : Len(slots'[k]) < vtdma_window_size
  <2>1. CASE phase[n] + 1 = DATA
    BY <2>1 DEF EndJoining, TypeOK, Roles
  <2>2. CASE phase[n] + 1 # DATA
    <3>1. BeginAnnouncement(n, (phase[n] + 1) \div 2, ring[n], role[n], isCH[n])
      BY <2>2 DEF EndJoining
    <3>2. role[n] \in Roles /\ isCH[n] \in BOOLEAN
      BY DEF TypeOK, Roles
    <3> QED
      BY <3>1, <3>2, BeginType
  <2> QED
    BY <2>1, <2>2
<1> QED
  BY <1>1, <1>2, <1>3 DEF EndJoining, TypeOK, Roles, radio

LEMMA StepType == ASSUME TypeOK, NEW n \in Node, Step(n) PROVE TypeOK'
  BY AdvertiseType, RecvType, AnnounceType, HearAnnouncementType, EndAnnouncementType,
     SendFollowType, HearFollowType, JoinType, RefusedType, IgnoreType, EndJoiningType
  DEF Step

LEMMA StutterType == ASSUME TypeOK, UNCHANGED vars PROVE TypeOK'
  BY DEF TypeOK, vars, state, locals, radio

\* The types hold in every reachable state: in particular a follower's relative
\* slot and the table that names it stay within the downstream window, however
\* many Follows a clusterhead hears (accept, multihop.cpp:391-404).
THEOREM FormationTypeOK == Spec => []TypeOK
<1>1. Init => TypeOK
  BY InitType
<1>2. TypeOK /\ [Next]_vars => TypeOK'
  BY StepType, StutterType DEF Next
<1> QED
  BY <1>1, <1>2, PTL DEF Spec

-----------------------------------------------------------------------------
(* Roles and tables.  A node that has announced itself, or did in an       *)
(* earlier round, acts as a clusterhead; one that acts as a clusterhead    *)
(* but never announced itself has granted nothing yet.  This is what makes *)
(* it harmless that a promotion clears the table.                          *)

RoleInv ==
    \A n \in Node :
        /\ role[n] = "Gateway" <=> n = GATEWAY_ADDR
        /\ bid[n] # "none" \/ isCH[n] => acts_as_clusterhead(n)
        /\ acts_as_clusterhead(n) /\ ~isCH[n] => slots[n] = <<>>

LEMMA InitRole == Init => RoleInv
  BY DEF Init, RoleInv, acts_as_clusterhead, BaseRole

\* The shape of BeginAnnouncement: who is promoted starts with an empty table.
LEMMA BeginShape ==
    ASSUME TypeOK, NEW n \in Node, NEW r, NEW g, NEW w \in Roles, NEW ch \in BOOLEAN,
           BeginAnnouncement(n, r, g, w, ch)
    PROVE  \E volunteer, promoted \in BOOLEAN :
             /\ promoted <=> volunteer /\ ~ch
             /\ w = "Gateway" /\ g = r => volunteer
             /\ bid'[n] # "none" => volunteer
             /\ role'[n] = IF promoted /\ w # "Gateway" THEN "Clusterhead" ELSE w
             /\ slots'[n] = IF promoted THEN <<>> ELSE slots[n]
             /\ \A k \in Node \ {n} :
                  bid'[k] = bid[k] /\ role'[k] = role[k] /\ slots'[k] = slots[k]
<1>1. PICK volunteer \in IF g # r THEN {FALSE}
                         ELSE IF w = "Gateway" THEN {TRUE} ELSE announce_clusterhead(n, g) :
        /\ bid' = [bid EXCEPT ![n] = IF volunteer /\ ~ch THEN "pending"
                                    ELSE IF volunteer THEN "made" ELSE "none"]
        /\ role' = [role EXCEPT ![n] =
                      IF (volunteer /\ ~ch) /\ w # "Gateway" THEN "Clusterhead" ELSE w]
        /\ slots' = [slots EXCEPT ![n] = IF volunteer /\ ~ch THEN <<>> ELSE @]
  BY Zenon DEF BeginAnnouncement
<1>2. volunteer \in BOOLEAN /\ (w = "Gateway" /\ g = r => volunteer)
  BY <1>1, Zenon DEF announce_clusterhead
<1>3. PICK promoted \in BOOLEAN : promoted <=> volunteer /\ ~ch
  BY <1>2
<1>4. /\ bid'[n] # "none" => volunteer
      /\ role'[n] = IF promoted /\ w # "Gateway" THEN "Clusterhead" ELSE w
      /\ slots'[n] = IF promoted THEN <<>> ELSE slots[n]
  BY <1>1, <1>2, <1>3 DEF TypeOK
<1>5. \A k \in Node \ {n} :
        bid'[k] = bid[k] /\ role'[k] = role[k] /\ slots'[k] = slots[k]
  BY <1>1 DEF TypeOK
<1> QED
  BY <1>2, <1>3, <1>4, <1>5

LEMMA BaseRoleGateway == \A n : BaseRole(n) = "Gateway" <=> n = GATEWAY_ADDR
  BY DEF BaseRole

LEMMA AdvertiseRole ==
    ASSUME TypeOK, RoleInv, NEW n \in Node, Advertise(n)
    PROVE  RoleInv' /\ (acts_as_clusterhead(n)' => slots'[n] = <<>>)
<1>1. PICK g \in Rings[n] : BeginAnnouncement(n, 0, g, BaseRole(n), FALSE)
  BY DEF Advertise
<1>2. PICK volunteer \in BOOLEAN, promoted \in BOOLEAN :
        /\ promoted <=> volunteer /\ ~FALSE
        /\ BaseRole(n) = "Gateway" /\ g = 0 => volunteer
        /\ bid'[n] # "none" => volunteer
        /\ role'[n] = IF promoted /\ BaseRole(n) # "Gateway" THEN "Clusterhead" ELSE BaseRole(n)
        /\ slots'[n] = IF promoted THEN <<>> ELSE slots[n]
        /\ \A k \in Node \ {n} :
             bid'[k] = bid[k] /\ role'[k] = role[k] /\ slots'[k] = slots[k]
  BY <1>1, BaseRoleType, BeginShape
<1>3. isCH'[n] = FALSE /\ \A k \in Node \ {n} : isCH'[k] = isCH[k]
  BY DEF Advertise, TypeOK
<1>4. n = GATEWAY_ADDR => g = 0
  BY <1>1, RingAssumption DEF GATEWAY_RING
<1>5. /\ role'[n] = "Gateway" <=> n = GATEWAY_ADDR
      /\ bid'[n] # "none" => role'[n] \in {"Gateway", "Clusterhead"}
      /\ role'[n] \in {"Gateway", "Clusterhead"} => slots'[n] = <<>>
  BY <1>2, <1>4, BaseRoleGateway DEF BaseRole
<1> QED
  BY <1>2, <1>3, <1>5 DEF RoleInv, acts_as_clusterhead

LEMMA EndJoiningRole ==
    ASSUME TypeOK, RoleInv, NEW n \in Node, EndJoining(n)
    PROVE  /\ RoleInv'
           /\ \A k \in Node : \/ role'[k] = role[k] /\ slots'[k] = slots[k]
                              \/ /\ acts_as_clusterhead(k) => slots[k] = <<>>
                                 /\ slots'[k] = <<>>
<1>1. CASE phase[n] + 1 = DATA
  BY <1>1 DEF EndJoining, RoleInv, acts_as_clusterhead
<1>2. CASE phase[n] + 1 # DATA
  <2>1. BeginAnnouncement(n, (phase[n] + 1) \div 2, ring[n], role[n], isCH[n]) /\ isCH' = isCH
    BY <1>2 DEF EndJoining
  <2>2. role[n] \in Roles /\ isCH[n] \in BOOLEAN
    BY DEF TypeOK, Roles
  <2>3. PICK volunteer \in BOOLEAN, promoted \in BOOLEAN :
          /\ promoted <=> volunteer /\ ~isCH[n]
          /\ bid'[n] # "none" => volunteer
          /\ role'[n] = IF promoted /\ role[n] # "Gateway" THEN "Clusterhead" ELSE role[n]
          /\ slots'[n] = IF promoted THEN <<>> ELSE slots[n]
          /\ \A k \in Node \ {n} :
               bid'[k] = bid[k] /\ role'[k] = role[k] /\ slots'[k] = slots[k]
    BY <2>1, <2>2, BeginShape
  <2> QED
    BY <2>1, <2>2, <2>3 DEF RoleInv, acts_as_clusterhead
<1> QED
  BY <1>1, <1>2

LEMMA JoinRole ==
    ASSUME TypeOK, RoleInv, NEW n \in Node, Join(n)
    PROVE  /\ RoleInv'
           /\ \A k \in Node : \/ role'[k] = role[k] /\ slots'[k] = slots[k]
                              \/ /\ acts_as_clusterhead(k) => slots[k] = <<>>
                                 /\ slots'[k] = <<>>
<1>1. PICK promoted \in announce_clusterhead(n, ring[n]) :
        /\ role' = [role EXCEPT ![n] = IF promoted /\ ~acts_as_clusterhead(n)
                                       THEN "Clusterhead" ELSE @]
        /\ slots' = [slots EXCEPT ![n] = IF promoted /\ ~acts_as_clusterhead(n)
                                         THEN <<>> ELSE @]
  BY Zenon DEF Join
<1>2. PICK prepare \in BOOLEAN :
        /\ prepare => ~acts_as_clusterhead(n)
        /\ role' = [role EXCEPT ![n] = IF prepare THEN "Clusterhead" ELSE @]
        /\ slots' = [slots EXCEPT ![n] = IF prepare THEN <<>> ELSE @]
  <2>1. CASE promoted /\ ~acts_as_clusterhead(n)
    BY <1>1, <2>1
  <2>2. CASE ~(promoted /\ ~acts_as_clusterhead(n))
    BY <1>1, <2>2
  <2> QED
    BY <2>1, <2>2
<1>3. /\ role'[n] = IF prepare THEN "Clusterhead" ELSE role[n]
      /\ slots'[n] = IF prepare THEN <<>> ELSE slots[n]
      /\ \A k \in Node \ {n} : role'[k] = role[k] /\ slots'[k] = slots[k]
  BY <1>2 DEF TypeOK
<1>4. n # GATEWAY_ADDR /\ bid' = bid /\ isCH' = isCH
  BY DEF Join, AnswerAwaited
<1> QED
  BY <1>2, <1>3, <1>4 DEF RoleInv, acts_as_clusterhead

LEMMA HearFollowRole ==
    ASSUME TypeOK, RoleInv, NEW n \in Node, HearFollow(n)
    PROVE  /\ RoleInv'
           /\ acts_as_clusterhead(n) /\ role' = role
           /\ \E f \in Node : slots' = [slots EXCEPT ![n] = Granted(slots[n], f)]
<1>1. /\ isCH[n] /\ role' = role /\ bid' = bid /\ isCH' = isCH
      /\ slots' = [slots EXCEPT ![n] = Granted(slots[n], Head(rx[n]).src)]
  BY DEF HearFollow, locals
<1>2. Head(rx[n]).src \in Node
  BY HeadType, MessageType DEF HearFollow
<1>3. \A k \in Node \ {n} : slots'[k] = slots[k]
  BY <1>1 DEF TypeOK
<1> QED
  BY <1>1, <1>2, <1>3 DEF RoleInv, acts_as_clusterhead

\* The actions that touch neither roles nor tables.
LEMMA OtherRole ==
    ASSUME TypeOK, RoleInv, NEW n \in Node,
           \/ Recv(n) \/ Announce(n) \/ HearAnnouncement(n) \/ EndAnnouncement(n)
           \/ SendFollow(n) \/ Refused(n) \/ IgnoreInJoining(n) \/ UNCHANGED vars
    PROVE  RoleInv' /\ parity' = parity /\ role' = role /\ slots' = slots
<1>1. parity' = parity /\ role' = role /\ slots' = slots
  BY DEF Recv, Announce, HearAnnouncement, EndAnnouncement, SendFollow, Refused,
         IgnoreInJoining, vars, state
<1>2. /\ \A k \in Node : bid'[k] # "none" => bid[k] # "none"
      /\ \A k \in Node : isCH[k] => isCH'[k]
      /\ \A k \in Node : isCH'[k] => isCH[k] \/ bid[k] # "none"
  <2>1. CASE HearAnnouncement(n)
    BY <2>1 DEF HearAnnouncement, TypeOK
  <2>2. CASE EndAnnouncement(n)
    BY <2>2 DEF EndAnnouncement, TypeOK
  <2>3. CASE Announce(n)
    <3>1. bid' = [bid EXCEPT ![n] = "made"] \/ bid' = bid
      BY <2>3 DEF Announce
    <3>2. bid[n] = "pending" /\ isCH' = isCH
      BY <2>3 DEF Announce
    <3> QED
      BY <3>1, <3>2 DEF TypeOK
  <2>4. CASE Recv(n) \/ SendFollow(n) \/ Refused(n) \/ IgnoreInJoining(n) \/ UNCHANGED vars
    BY <2>4 DEF Recv, SendFollow, Refused, IgnoreInJoining, vars, locals
  <2> QED
    BY <2>1, <2>2, <2>3, <2>4
<1> QED
  BY <1>1, <1>2 DEF RoleInv, acts_as_clusterhead

LEMMA StepRole == ASSUME TypeOK, RoleInv, NEW n \in Node, Step(n) PROVE RoleInv'
  BY AdvertiseRole, EndJoiningRole, JoinRole, HearFollowRole, OtherRole DEF Step

\* A clusterhead that has announced itself, in this round or an earlier one,
\* acts as one for the rest of the superframe; a promotion finds an empty table
\* (multihop.cpp:547-585, 739-748).
THEOREM FormationRoles == Spec => []RoleInv
<1>1. Init => TypeOK /\ RoleInv
  BY InitType, InitRole
<1>2. TypeOK /\ RoleInv /\ [Next]_vars => TypeOK' /\ RoleInv'
  <2> SUFFICES ASSUME TypeOK, RoleInv, [Next]_vars
               PROVE  TypeOK' /\ RoleInv'
    OBVIOUS
  <2>1. CASE Next
    BY <2>1, StepType, StepRole DEF Next
  <2>2. CASE UNCHANGED vars
    BY <2>2, StutterType, NodeAssumption, OtherRole
  <2> QED
    BY <2>1, <2>2
<1> QED
  BY <1>1, <1>2, PTL DEF Spec

-----------------------------------------------------------------------------
(* Every node's table implements SlotLease.                                *)

\* Leases, slot by slot.
LEMMA LeasedAt ==
    ASSUME NEW n \in Node, NEW s \in 1 .. vtdma_window_size - 1
    PROVE  Leased(n)[s] = IF acts_as_clusterhead(n) /\ s \in DOMAIN slots[n]
                          THEN slots[n][s] ELSE UNKNOWN_ADDR
  BY DEF Leased

\* Nothing is leased by a node that does not act as a clusterhead or has an
\* empty table.
LEMMA NothingLeased ==
    ASSUME NEW n \in Node, acts_as_clusterhead(n) => slots[n] = <<>>
    PROVE  Leased(n) = Lease(n)!NoLease
  BY DEF Leased, Lease!NoLease

\* The same after a step: stated of the next state's tables.
LEMMA NothingLeasedNext ==
    ASSUME NEW n \in Node, acts_as_clusterhead(n)' => slots'[n] = <<>>
    PROVE  Leased(n)' = Lease(n)!NoLease
  BY DEF Leased, Lease!NoLease

LEMMA UntouchedLease ==
    ASSUME NEW n \in Node, role'[n] = role[n], slots'[n] = slots[n]
    PROVE  Leased(n)' = Leased(n)
  BY DEF Leased, acts_as_clusterhead

\* accept either leaves the leases alone or grants a free slot to a follower
\* that has none.
LEMMA GrantedGrants ==
    ASSUME TypeOK, NEW n \in Node, NEW f \in Node, acts_as_clusterhead(n),
           role' = role, parity' = parity,
           slots' = [slots EXCEPT ![n] = Granted(slots[n], f)]
    PROVE  \/ Lease(n)!LeaseNext
           \/ UNCHANGED <<parity[n], Leased(n)>>
<1>1. CASE Granted(slots[n], f) = slots[n]
  <2>1. slots'[n] = slots[n] /\ role'[n] = role[n] /\ parity'[n] = parity[n]
    BY <1>1 DEF TypeOK
  <2> QED
    BY <2>1, UntouchedLease
<1>2. CASE Granted(slots[n], f) # slots[n]
  <2> DEFINE s == Len(slots[n]) + 1
  <2>1. /\ ~ \E i \in DOMAIN slots[n] : slots[n][i] = f
        /\ s < vtdma_window_size
        /\ Granted(slots[n], f) = Append(slots[n], f)
    <3>1. /\ ~ \E i \in DOMAIN slots[n] : slots[n][i] = f
          /\ ~ s >= vtdma_window_size
          /\ Granted(slots[n], f) = Append(slots[n], f)
      BY <1>2 DEF Granted
    <3>2. s \in Nat
      BY DEF TypeOK
    <3> HIDE DEF s
    <3> QED
      BY <3>1, <3>2, WindowType
  <2>2. slots[n] \in Seq(Node)
    BY DEF TypeOK
  <2>3. /\ slots'[n] = Append(slots[n], f)
        /\ acts_as_clusterhead(n)'
    BY <2>1 DEF TypeOK, acts_as_clusterhead
  <2>4. s \in 1 .. vtdma_window_size - 1 /\ f # UNKNOWN_ADDR
    BY <2>1, <2>2, WindowType, NodeAssumption
  <2>5. Leased(n)[s] = UNKNOWN_ADDR
    <3>1. s \notin DOMAIN slots[n]
      BY <2>2
    <3> QED
      BY <2>4, <3>1 DEF Leased
  <2>6. ~ Lease(n)!Holds(f)
    <3> SUFFICES ASSUME NEW t \in 1 .. vtdma_window_size - 1, Leased(n)[t] = f
                 PROVE  FALSE
      BY DEF Lease!Holds
    <3>1. t \in DOMAIN slots[n] /\ slots[n][t] = f
      BY <2>4, LeasedAt
    <3> QED
      BY <2>1, <3>1
  <2>7. Leased(n)' = [Leased(n) EXCEPT ![s] = f]
    <3>1. Leased(n)' = [t \in 1 .. vtdma_window_size - 1 |->
                          IF t \in DOMAIN slots'[n] THEN slots'[n][t] ELSE UNKNOWN_ADDR]
      BY <2>3 DEF Leased
    <3>2. Leased(n) = [t \in 1 .. vtdma_window_size - 1 |->
                         IF t \in DOMAIN slots[n] THEN slots[n][t] ELSE UNKNOWN_ADDR]
      BY DEF Leased
    <3>3. DOMAIN slots'[n] = DOMAIN slots[n] \cup {s}
      BY <2>2, <2>3
    <3>4. \A t \in DOMAIN slots[n] : slots'[n][t] = slots[n][t]
      BY <2>2, <2>3
    <3>5. slots'[n][s] = f /\ s \notin DOMAIN slots[n]
      BY <2>2, <2>3
    <3>6. \A t \in 1 .. vtdma_window_size - 1 :
            (IF t \in DOMAIN slots'[n] THEN slots'[n][t] ELSE UNKNOWN_ADDR)
              = IF t = s THEN f
                ELSE IF t \in DOMAIN slots[n] THEN slots[n][t] ELSE UNKNOWN_ADDR
      <4> HIDE DEF s
      <4> QED
        BY <3>3, <3>4, <3>5
    <3> HIDE DEF s
    <3> DEFINE new == [t \in 1 .. vtdma_window_size - 1 |->
                        IF t \in DOMAIN slots'[n] THEN slots'[n][t] ELSE UNKNOWN_ADDR]
               old == [t \in 1 .. vtdma_window_size - 1 |->
                        IF t \in DOMAIN slots[n] THEN slots[n][t] ELSE UNKNOWN_ADDR]
    <3>7. new = [old EXCEPT ![s] = f]
      BY <2>4, <3>6
    <3> QED
      BY <3>1, <3>2, <3>7
  <2>8. Lease(n)!Grant(f, s)
    <3>1. parity[n]' = parity[n]
      OBVIOUS
    <3> HIDE DEF s
    <3> QED
      BY <2>5, <2>6, <2>7, <3>1 DEF Lease!Grant
  <2> HIDE DEF s
  <2> QED
    BY <2>4, <2>8 DEF Lease!LeaseNext
<1> QED
  BY <1>1, <1>2

\* The refinement mapping takes every step to a step of the lease or to none.
LEMMA StepLeases ==
    ASSUME TypeOK, RoleInv, NEW n \in Node, Step(n), NEW k \in Node
    PROVE  Lease(k)!LeaseNext \/ UNCHANGED <<parity[k], Leased(k)>>
<1>1. CASE Advertise(n)
  <2>1. CASE k = n
    <3>1. Leased(n)' = Lease(n)!NoLease
      BY <1>1, AdvertiseRole, NothingLeasedNext
    <3>2. parity[n]' \in {0, 1} /\ parity[n]' # parity[n]
      <4>1. parity[n] \in {0, 1} /\ parity[n]' = 1 - parity[n]
        BY <1>1 DEF Advertise, TypeOK
      <4> QED
        BY <4>1
    <3> QED
      BY <2>1, <3>1, <3>2 DEF Lease!LeaseNext, Lease!Expire
  <2>2. CASE k # n
    <3>1. parity'[k] = parity[k]
      BY <1>1, <2>2 DEF Advertise, TypeOK
    <3>2. role'[k] = role[k] /\ slots'[k] = slots[k]
      <4>1. PICK g \in Rings[n] : BeginAnnouncement(n, 0, g, BaseRole(n), FALSE)
        BY <1>1 DEF Advertise
      <4> QED
        BY <2>2, <4>1, BaseRoleType, BeginShape
    <3> QED
      BY <3>1, <3>2, UntouchedLease
  <2> QED
    BY <2>1, <2>2
<1>2. CASE HearFollow(n)
  <2>1. parity' = parity
    BY <1>2 DEF HearFollow
  <2>2. PICK f \in Node : slots' = [slots EXCEPT ![n] = Granted(slots[n], f)]
    BY <1>2, HearFollowRole
  <2>3. acts_as_clusterhead(n) /\ role' = role
    BY <1>2, HearFollowRole
  <2>4. CASE k = n
    BY <2>1, <2>2, <2>3, <2>4, GrantedGrants
  <2>5. CASE k # n
    <3>1. slots'[k] = slots[k] /\ role'[k] = role[k] /\ parity'[k] = parity[k]
      BY <2>1, <2>2, <2>3, <2>5 DEF TypeOK
    <3> QED
      BY <3>1, UntouchedLease
  <2> QED
    BY <2>4, <2>5
<1>3. CASE Join(n) \/ EndJoining(n)
  <2>1. parity'[k] = parity[k]
    BY <1>3 DEF Join, EndJoining
  <2>2. CASE role'[k] = role[k] /\ slots'[k] = slots[k]
    BY <2>1, <2>2, UntouchedLease
  <2>3. CASE (acts_as_clusterhead(k) => slots[k] = <<>>) /\ slots'[k] = <<>>
    <3>1. Leased(k) = Lease(k)!NoLease
      BY <2>3, NothingLeased
    <3>2. Leased(k)' = Lease(k)!NoLease
      BY <2>3, NothingLeasedNext
    <3> QED
      BY <2>1, <3>1, <3>2
  <2> QED
    BY <1>3, <2>2, <2>3, JoinRole, EndJoiningRole
<1>4. CASE \/ Recv(n) \/ Announce(n) \/ HearAnnouncement(n) \/ EndAnnouncement(n)
           \/ SendFollow(n) \/ Refused(n) \/ IgnoreInJoining(n)
  <2>1. parity' = parity /\ role' = role /\ slots' = slots
    BY <1>4, OtherRole
  <2> QED
    BY <2>1, UntouchedLease
<1> QED
  BY <1>1, <1>2, <1>3, <1>4 DEF Step

\* Every node's table implements the slot lease, whatever is lost, repeated or
\* delayed: within a superframe a granted slot is never taken away, given to
\* another follower or granted a second time, although the table is cleared at
\* three places (accept, multihop.cpp:370-414; prepare_clusterhead 206-221).
THEOREM FormationLeasesSlots == Spec => LeasesSlots
<1> DEFINE A == \A n \in Node : Lease(n)!LeaseNext \/ UNCHANGED <<parity[n], Leased(n)>>
<1>1. Init => \A n \in Node : Lease(n)!LeaseInit
  <2> SUFFICES ASSUME Init, NEW n \in Node
               PROVE  Lease(n)!LeaseInit
    OBVIOUS
  <2>1. slots[n] = <<>> /\ parity[n] \in {0, 1}
    BY DEF Init
  <2> QED
    BY <2>1, NothingLeased DEF Lease!LeaseInit
<1>2. TypeOK /\ RoleInv /\ [Next]_vars => [A]_vars
  <2> SUFFICES ASSUME TypeOK, RoleInv, Next
               PROVE  A
    OBVIOUS
  <2> QED
    BY StepLeases DEF Next
<1> QED
  BY <1>1, <1>2, FormationTypeOK, FormationRoles, PTL DEF Spec, LeasesSlots

\* A step of the slot lease leaves a slot to one follower and a follower with
\* one slot.
LEMMA LeaseKeepsOneSlotEach ==
    ASSUME NEW n \in Node, Lease(n)!OneSlotEach,
           Lease(n)!LeaseNext \/ Leased(n)' = Leased(n)
    PROVE  Lease(n)!OneSlotEach'
<1>1. CASE Leased(n)' = Leased(n)
  BY <1>1 DEF Lease!OneSlotEach
<1>2. CASE Lease(n)!Expire
  BY <1>2 DEF Lease!Expire, Lease!NoLease, Lease!OneSlotEach
<1>3. ASSUME NEW f \in Node, NEW s \in 1 .. vtdma_window_size - 1, Lease(n)!Grant(f, s)
      PROVE  Lease(n)!OneSlotEach'
  <2> SUFFICES ASSUME NEW t \in 1 .. vtdma_window_size - 1,
                      NEW u \in 1 .. vtdma_window_size - 1,
                      Leased(n)'[t] = Leased(n)'[u], Leased(n)'[t] # UNKNOWN_ADDR
               PROVE  t = u
    BY DEF Lease!OneSlotEach
  <2>1. /\ Leased(n)'[t] = IF t = s THEN f ELSE Leased(n)[t]
        /\ Leased(n)'[u] = IF u = s THEN f ELSE Leased(n)[u]
    <3>1. Leased(n)' = [Leased(n) EXCEPT ![s] = f]
      BY <1>3 DEF Lease!Grant
    <3>2. DOMAIN Leased(n) = 1 .. vtdma_window_size - 1
      BY DEF Leased
    <3> HIDE DEF Leased
    <3> QED
      BY <3>1, <3>2
  <2>2. \A v \in 1 .. vtdma_window_size - 1 : Leased(n)[v] # f
    BY <1>3 DEF Lease!Grant, Lease!Holds
  <2>3. Leased(n)[t] = Leased(n)[u] /\ Leased(n)[t] # UNKNOWN_ADDR => t = u
    BY DEF Lease!OneSlotEach
  <2>4. CASE t = s
    BY <2>1, <2>2, <2>4
  <2>5. CASE u = s
    BY <2>1, <2>2, <2>5
  <2>6. CASE t # s /\ u # s
    BY <2>1, <2>3, <2>6
  <2> QED
    BY <2>4, <2>5, <2>6
<1> QED
  BY <1>1, <1>2, <1>3 DEF Lease!LeaseNext

\* Whatever implements the slot lease never gives two followers one slot nor a
\* follower two: accept (multihop.cpp:370-414), seen from outside.
THEOREM LeaseOneSlotEach ==
    ASSUME NEW n \in Node
    PROVE  Lease(n)!LeaseSpec => []Lease(n)!OneSlotEach
<1>1. Lease(n)!LeaseInit => Lease(n)!OneSlotEach
  BY DEF Lease!LeaseInit, Lease!NoLease, Lease!OneSlotEach
<1>2. /\ Lease(n)!OneSlotEach
      /\ [Lease(n)!LeaseNext]_<<parity[n], Leased(n)>>
      => Lease(n)!OneSlotEach'
  BY LeaseKeepsOneSlotEach
<1> QED
  BY <1>1, <1>2, PTL DEF Lease!LeaseSpec

\* What the lease guarantees carries over to the tables: no follower appears
\* twice in the table of an acting clusterhead, so none is told two slots.
THEOREM FormationOneSlotEach == Spec => [](\A n \in Node : Lease(n)!OneSlotEach)
<1> DEFINE One == \A n \in Node : Lease(n)!OneSlotEach
<1>1. Init => One
  <2> SUFFICES ASSUME Init, NEW n \in Node
               PROVE  Lease(n)!OneSlotEach
    OBVIOUS
  <2>1. slots[n] = <<>>
    BY DEF Init
  <2>2. Leased(n) = Lease(n)!NoLease
    BY <2>1, NothingLeased
  <2> QED
    BY <2>2 DEF Lease!OneSlotEach, Lease!NoLease
<1>2. TypeOK /\ RoleInv /\ One /\ [Next]_vars => One'
  <2> SUFFICES ASSUME TypeOK, RoleInv, One, [Next]_vars, NEW n \in Node
               PROVE  Lease(n)!OneSlotEach'
    OBVIOUS
  <2>1. Lease(n)!LeaseNext \/ Leased(n)' = Leased(n)
    <3>1. CASE Next
      BY <3>1, StepLeases DEF Next
    <3>2. CASE UNCHANGED vars
      BY <3>2, UntouchedLease DEF vars, state
    <3> QED
      BY <3>1, <3>2
  <2> QED
    BY <2>1, LeaseKeepsOneSlotEach
<1> QED
  BY <1>1, <1>2, FormationTypeOK, FormationRoles, PTL DEF Spec

-----------------------------------------------------------------------------
(* The two ends of an assignment agree.  The invariant follows the Accepts: *)
(* one that is out of date leaves its sender with the first frame the       *)
(* sender gets out in a superframe, so whoever receives it has not heard of *)
(* the sender before.                                                       *)

Live(n) == phase[n] # DATA

\* A message of c is in the sequence q.
Mentions(q, c) == \E i \in DOMAIN q : q[i].src = c

\* An Accept that no longer says what its sender, of which ch and tables are
\* is_clusterhead and slot_assignments, has recorded.
Stale(m, ch, tables) ==
    /\ m.type = "Accept" /\ m.accepted
    /\ ~ /\ ch[m.src]
         /\ m.relative_slot \in DOMAIN tables[m.src]
         /\ tables[m.src][m.relative_slot] = m.follower

HasStale(q, c, ch, tables) ==
    \E i \in DOMAIN q : q[i].src = c /\ Stale(q[i], ch, tables)

Targets(f, c) == c \in {cands[f][1].addr, cands[f][2].addr, join[f].target.addr}

HeardOf(f, c) ==
    \/ Mentions(rx[f], c)
    \/ \E i \in DOMAIN inbox[f] : Mentions(inbox[f][i], c)
    \/ Targets(f, c)
    \/ parent[f] = c

\* Two nodes in different superframes are not both in the advertising slot, and
\* not both past it.
SkewInv == \A n, m \in Node : parity[n] # parity[m] => (Live(n) <=> ~Live(m))

RestInv ==
    \A n \in Node :
        /\ ~Live(n) => rx[n] = <<>> /\ cands[n] = NoCands
        /\ ~Joining(n) => join[n] = NoJoin

OwnInv == \A n \in Node : \A i \in DOMAIN tx[n] : tx[n][i].src = n

\* Nobody has heard of a node that has sent nothing in the superframe yet: one
\* that has not begun it, or that still has a stale Accept to send.
SilentInv ==
    \A f, c \in Node :
        Live(f) /\ (parity[f] # parity[c] \/ HasStale(tx[c], c, isCH, slots)) => ~HeardOf(f, c)

\* A stale Accept is in the first frame heard from its sender, and read before
\* its sender is a target.
OrderInv ==
    \A f, c \in Node : Live(f) =>
        /\ \A i \in DOMAIN inbox[f] : HasStale(inbox[f][i], c, isCH, slots) =>
             /\ ~Mentions(rx[f], c) /\ ~Targets(f, c)
             /\ \A j \in 1 .. i - 1 : ~Mentions(inbox[f][j], c)
        /\ HasStale(rx[f], c, isCH, slots) /\ Joining(f) => ~Targets(f, c)

AgreeInv ==
    \A f, c \in Node :
        parent[f] = c /\ parity[f] = parity[c] =>
            /\ isCH[c]
            /\ rel[f] \in DOMAIN slots[c]
            /\ slots[c][rel[f]] = f

\* What the sequence operators do to what a sequence mentions.
LEMMA HeadTailAt ==
    ASSUME NEW S, NEW q \in Seq(S), q # <<>>
    PROVE  /\ Head(q) = q[1] /\ 1 \in DOMAIN q
           /\ \A i \in DOMAIN Tail(q) : i + 1 \in DOMAIN q /\ Tail(q)[i] = q[i + 1]
<1>1. /\ Len(q) \in Nat \ {0} /\ DOMAIN q = 1 .. Len(q) /\ Head(q) = q[1]
      /\ DOMAIN Tail(q) = 1 .. Len(q) - 1
      /\ \A i \in 1 .. Len(q) - 1 : Tail(q)[i] = q[i + 1]
  OBVIOUS
<1> QED
  BY <1>1

LEMMA TailMentions ==
    ASSUME NEW q \in Seq(Message), q # <<>>, NEW c, NEW ch, NEW tables
    PROVE  /\ Mentions(Tail(q), c) => Mentions(q, c)
           /\ HasStale(Tail(q), c, ch, tables) => HasStale(q, c, ch, tables)
           /\ Head(q).src = c => Mentions(q, c)
           /\ Head(q).src = c /\ Stale(Head(q), ch, tables) => HasStale(q, c, ch, tables)
<1>1. /\ Len(q) \in Nat \ {0} /\ DOMAIN q = 1 .. Len(q) /\ Head(q) = q[1]
      /\ DOMAIN Tail(q) = 1 .. Len(q) - 1
      /\ \A i \in 1 .. Len(q) - 1 : Tail(q)[i] = q[i + 1]
  OBVIOUS
<1>2. ASSUME NEW i \in DOMAIN Tail(q)
      PROVE  i + 1 \in DOMAIN q /\ q[i + 1] = Tail(q)[i]
  BY <1>1
<1>3. 1 \in DOMAIN q
  BY <1>1
<1>4. Mentions(Tail(q), c) => Mentions(q, c)
  BY <1>2 DEF Mentions
<1>5. HasStale(Tail(q), c, ch, tables) => HasStale(q, c, ch, tables)
  BY <1>2 DEF HasStale
<1> QED
  BY <1>1, <1>3, <1>4, <1>5 DEF Mentions, HasStale

LEMMA AppendMentions ==
    ASSUME NEW q \in Seq(Message), NEW m \in Message, NEW c, NEW ch, NEW tables
    PROVE  HasStale(Append(q, m), c, ch, tables) =>
             HasStale(q, c, ch, tables) \/ Stale(m, ch, tables)
<1>1. /\ DOMAIN q = 1 .. Len(q) /\ Len(q) \in Nat
      /\ DOMAIN Append(q, m) = 1 .. Len(q) + 1
      /\ Append(q, m)[Len(q) + 1] = m
      /\ \A i \in 1 .. Len(q) : Append(q, m)[i] = q[i]
  OBVIOUS
<1>2. ASSUME NEW i \in DOMAIN Append(q, m)
      PROVE  \/ i \in DOMAIN q /\ q[i] = Append(q, m)[i]
             \/ Append(q, m)[i] = m
  BY <1>1
<1> QED
  BY <1>2 DEF HasStale

LEMMA NothingMentioned ==
    ASSUME NEW c, NEW ch, NEW tables
    PROVE  ~Mentions(<<>>, c) /\ ~HasStale(<<>>, c, ch, tables)
  BY DEF Mentions, HasStale

LEMMA StaleMentions ==
    ASSUME NEW q, NEW c, NEW ch, NEW tables, HasStale(q, c, ch, tables)
    PROVE  Mentions(q, c)
  BY DEF Mentions, HasStale

\* Outside the advertising slot nodes are silent; within it all are in the same
\* superframe.
LEMMA LiveTogether ==
    ASSUME SkewInv, NEW n \in Node, NEW f \in Node, Live(n), Live(f)
    PROVE  parity[f] = parity[n]
  BY DEF SkewInv

-----------------------------------------------------------------------------
\* What a step within the advertising slot leaves of the tables: one that is in
\* use only grows.
TablesGrow ==
    \A c \in Node : isCH[c] =>
        /\ isCH'[c]
        /\ \A s \in DOMAIN slots[c] : s \in DOMAIN slots'[c] /\ slots'[c][s] = slots[c][s]

InSlot(n) ==
    \/ Recv(n) \/ Announce(n) \/ HearAnnouncement(n) \/ EndAnnouncement(n)
    \/ SendFollow(n) \/ HearFollow(n) \/ Join(n) \/ Refused(n)
    \/ IgnoreInJoining(n) \/ EndJoining(n)

LEMMA InSlotGrows ==
    ASSUME TypeOK, RoleInv, NEW n \in Node, InSlot(n)
    PROVE  TablesGrow
<1>1. \A c \in Node : isCH[c] => isCH'[c]
  <2>1. isCH' = isCH \/ EndAnnouncement(n)
    BY DEF InSlot, Recv, Announce, HearAnnouncement, SendFollow, HearFollow, Join, Refused,
           IgnoreInJoining, EndJoining
  <2>2. CASE EndAnnouncement(n)
    BY <2>2 DEF EndAnnouncement, TypeOK
  <2> QED
    BY <2>1, <2>2
<1>2. ASSUME NEW c \in Node, isCH[c], NEW s \in DOMAIN slots[c]
      PROVE  s \in DOMAIN slots'[c] /\ slots'[c][s] = slots[c][s]
  <2>1. acts_as_clusterhead(c)
    BY <1>2 DEF RoleInv
  <2>2. CASE Join(n) \/ EndJoining(n)
    <3>1. \/ slots'[c] = slots[c]
          \/ acts_as_clusterhead(c) => slots[c] = <<>>
      BY <2>2, JoinRole, EndJoiningRole
    <3>2. slots[c] # <<>>
      BY <1>2
    <3> QED
      BY <1>2, <2>1, <3>1, <3>2
  <2>3. CASE HearFollow(n)
    <3>1. PICK f \in Node : slots' = [slots EXCEPT ![n] = Granted(slots[n], f)]
      BY <2>3, HearFollowRole
    <3>2. slots[c] \in Seq(Node)
      BY DEF TypeOK
    <3>3. slots'[c] = slots[c] \/ slots'[c] = Append(slots[c], f)
      BY <3>1 DEF Granted, TypeOK
    <3> QED
      BY <1>2, <3>2, <3>3
  <2>4. CASE \/ Recv(n) \/ Announce(n) \/ HearAnnouncement(n) \/ EndAnnouncement(n)
             \/ SendFollow(n) \/ Refused(n) \/ IgnoreInJoining(n)
    <3>1. slots' = slots
      BY <2>4, OtherRole
    <3> QED
      BY <1>2, <3>1
  <2> QED
    BY <2>2, <2>3, <2>4 DEF InSlot
<1> QED
  BY <1>1, <1>2 DEF TablesGrow

\* A message that is not stale stays so.
LEMMA NoNewStale ==
    ASSUME TablesGrow, NEW q \in Seq(Message), NEW c, HasStale(q, c, isCH', slots')
    PROVE  HasStale(q, c, isCH, slots)
<1>1. PICK i \in DOMAIN q : q[i].src = c /\ Stale(q[i], isCH', slots')
  BY DEF HasStale
<1>2. q[i] \in Message
  BY <1>1
<1>3. q[i].src \in Node
  BY <1>2, MessageType
<1>4. Stale(q[i], isCH, slots)
  BY <1>1, <1>3 DEF Stale, TablesGrow
<1> QED
  BY <1>1, <1>4 DEF HasStale

-----------------------------------------------------------------------------
\* What a step does to the buffers: it queues nothing stale, and a frame it gets
\* out empties the transmit buffer.
Sends(n) ==
    /\ \A k \in Node \ {n} : tx'[k] = tx[k]
    /\ \A i \in DOMAIN tx'[n] : tx'[n][i].src = n
    /\ HasStale(tx'[n], n, isCH', slots') => HasStale(tx[n], n, isCH, slots)
    /\ \/ inbox' = inbox
       \/ /\ tx'[n] = <<>>
          /\ \E q \in Seq(Message) :
               /\ \A i \in DOMAIN q : q[i].src = n
               /\ HasStale(q, n, isCH', slots') => HasStale(tx[n], n, isCH, slots)
               /\ \A f \in Node : inbox'[f] = inbox[f] \/ inbox'[f] = Append(inbox[f], q)

LEMMA FlushSends ==
    ASSUME TypeOK, NEW n \in Node, NEW q \in Seq(Message),
           \A i \in DOMAIN q : q[i].src = n,
           HasStale(q, n, isCH', slots') => HasStale(tx[n], n, isCH, slots),
           Flushed(n, q) \/ NotFlushed(n, q)
    PROVE  Sends(n)
<1>1. CASE Flushed(n, q)
  <2>1. tx' = [tx EXCEPT ![n] = <<>>] /\ Delivered(n, q)
    BY <1>1 DEF Flushed
  <2>2. tx'[n] = <<>> /\ \A k \in Node \ {n} : tx'[k] = tx[k]
    BY <2>1 DEF TypeOK
  <2>3. \A f \in Node : inbox'[f] = inbox[f] \/ inbox'[f] = Append(inbox[f], q)
    BY <2>1 DEF Delivered
  <2> QED
    BY <2>2, <2>3, NothingMentioned DEF Sends
<1>2. CASE NotFlushed(n, q)
  <2>1. tx'[n] = q /\ (\A k \in Node \ {n} : tx'[k] = tx[k]) /\ inbox' = inbox
    BY <1>2 DEF NotFlushed, TypeOK
  <2> QED
    BY <2>1 DEF Sends
<1> QED
  BY <1>1, <1>2

\* The same of a buffer to which the node has added a message of its own.
LEMMA QueuedSends ==
    ASSUME TypeOK, OwnInv, TablesGrow, NEW n \in Node, NEW m \in Message,
           m.src = n, ~Stale(m, isCH', slots'),
           NEW q, q = Append(tx[n], m) \/ q = Queued(tx[n], m),
           Flushed(n, q) \/ NotFlushed(n, q)
    PROVE  Sends(n)
<1>1. tx[n] \in Seq(Message) /\ \A i \in DOMAIN tx[n] : tx[n][i].src = n
  BY DEF TypeOK, OwnInv
<1>2. q = tx[n] \/ q = Append(tx[n], m)
  BY DEF Queued
<1>3. q \in Seq(Message) /\ \A i \in DOMAIN q : q[i].src = n
  <2>1. CASE q = Append(tx[n], m)
    <3>1. /\ q \in Seq(Message)
          /\ \A i \in DOMAIN q : q[i] = m \/ (i \in DOMAIN tx[n] /\ q[i] = tx[n][i])
      BY <1>1, <2>1
    <3> QED
      BY <1>1, <3>1
  <2> QED
    BY <1>1, <1>2, <2>1
<1>4. HasStale(q, n, isCH', slots') => HasStale(tx[n], n, isCH, slots)
  <2>1. HasStale(q, n, isCH', slots') => HasStale(tx[n], n, isCH', slots')
    BY <1>1, <1>2, AppendMentions
  <2> QED
    BY <1>1, <2>1, NoNewStale
<1> QED
  BY <1>3, <1>4, FlushSends

\* The Accept a clusterhead answers with says what its table then says.
LEMMA AnswerIsFresh ==
    ASSUME TypeOK, NEW n \in Node, HearFollow(n),
           NEW table, table = Granted(slots[n], Head(rx[n]).src)
    PROVE  ~Stale(Accept(n, Head(rx[n]).src, SlotOf(table, Head(rx[n]).src)), isCH', slots')
<1> DEFINE f == Head(rx[n]).src
           s == SlotOf(table, f)
<1>1. isCH[n] /\ isCH' = isCH /\ slots' = [slots EXCEPT ![n] = table]
  BY DEF HearFollow
<1>2. slots'[n] = table
  BY <1>1 DEF TypeOK
<1>3. f \in Node /\ table \in Seq(Node)
  <2>1. f \in Node
    BY HeadType, MessageType DEF HearFollow
  <2> QED
    BY <2>1, GrantedType DEF TypeOK
<1>4. s # 0 => s \in DOMAIN table /\ table[s] = f
  BY DEF SlotOf
<1> HIDE DEF f, s
<1>5. ~Stale(Accept(n, f, s), isCH', slots')
  BY <1>1, <1>2, <1>4 DEF Stale, Accept
<1> QED
  BY <1>5 DEF f, s

LEMMA InSlotSends ==
    ASSUME TypeOK, RoleInv, OwnInv, NEW n \in Node, InSlot(n), ~Recv(n)
    PROVE  Sends(n)
<1>1. TablesGrow
  BY InSlotGrows
<1>2. CASE Announce(n)
  <2>1. OpenCluster(n) \in Message /\ OpenCluster(n).src = n
        /\ ~Stale(OpenCluster(n), isCH', slots')
    BY DEF OpenCluster, Message, Stale, TypeOK
  <2>2. Flushed(n, Append(tx[n], OpenCluster(n))) \/ NotFlushed(n, Append(tx[n], OpenCluster(n)))
    BY <1>2 DEF Announce
  <2> QED
    BY <1>1, <2>1, <2>2, QueuedSends
<1>3. CASE SendFollow(n)
  <2>1. CASE join[n].target = NoCandidate
    <3>1. tx' = tx /\ inbox' = inbox
      BY <1>3, <2>1 DEF SendFollow
    <3> QED
      BY <1>1, <3>1, NoNewStale DEF Sends, OwnInv, TypeOK
  <2>2. CASE join[n].target # NoCandidate
    <3> DEFINE m == Follow(n, join[n].target.addr)
    <3>1. m \in Message /\ m.src = n /\ ~Stale(m, isCH', slots')
      <4>1. join[n].target \in Candidate
        BY DEF TypeOK, Joiners
      <4> QED
        BY <2>2, <4>1 DEF Message, Follow, Candidate, Stale
    <3>2. Flushed(n, Queued(tx[n], m)) \/ NotFlushed(n, Queued(tx[n], m))
      BY <1>3, <2>2 DEF SendFollow
    <3> HIDE DEF m
    <3> QED
      BY <1>1, <3>1, <3>2, QueuedSends
  <2> QED
    BY <2>1, <2>2
<1>4. CASE HearFollow(n)
  <2> DEFINE table == Granted(slots[n], Head(rx[n]).src)
             ans == Accept(n, Head(rx[n]).src, SlotOf(table, Head(rx[n]).src))
  <2>1. Flushed(n, Queued(tx[n], ans)) \/ NotFlushed(n, Queued(tx[n], ans))
    BY <1>4 DEF HearFollow
  <2>2. ~Stale(ans, isCH', slots') /\ ans.src = n
    BY <1>4, AnswerIsFresh DEF Accept
  <2>3. ans \in Message
    <3>1. Head(rx[n]).src \in Node
      BY <1>4, HeadType, MessageType DEF HearFollow
    <3>2. SlotOf(table, Head(rx[n]).src) \in 0 .. vtdma_window_size - 1
      BY <3>1, GrantedType, SlotOfType DEF TypeOK
    <3> HIDE DEF table
    <3> QED
      BY <3>1, <3>2 DEF Accept, Message
  <2> HIDE DEF ans
  <2> QED
    BY <1>1, <2>1, <2>2, <2>3, QueuedSends
<1>5. CASE \/ HearAnnouncement(n) \/ EndAnnouncement(n) \/ Join(n) \/ Refused(n)
           \/ IgnoreInJoining(n) \/ EndJoining(n)
  <2>1. tx' = tx /\ inbox' = inbox
    BY <1>5 DEF HearAnnouncement, EndAnnouncement, Join, Refused, IgnoreInJoining, EndJoining,
               radio
  <2> QED
    BY <1>1, <2>1, NoNewStale DEF Sends, OwnInv, TypeOK
<1> QED
  BY <1>2, <1>3, <1>4, <1>5 DEF InSlot

-----------------------------------------------------------------------------
\* What a step does to what nodes have heard: nothing but n's own, and n picks
\* its targets from what it heard.
Reads(n) ==
    /\ Live(n) /\ parity' = parity
    /\ \A k \in Node \ {n} :
         /\ phase'[k] = phase[k] /\ rx'[k] = rx[k] /\ cands'[k] = cands[k]
         /\ join'[k] = join[k] /\ parent'[k] = parent[k] /\ rel'[k] = rel[k]
    /\ \A c \in Node :
         /\ Targets(n, c)' => Targets(n, c) \/ (Mentions(rx[n], c) /\ ~Joining(n)')
         /\ parent'[n] = c => parent[n] = c \/ Targets(n, c)
    /\ Joining(n)' => Joining(n) \/ rx'[n] = <<>>

LEMMA UpdateAddr ==
    ASSUME NEW best \in Candidate \X Candidate, NEW c \in Candidate, NEW k \in {1, 2}
    PROVE  update(best, c)[k] \in {c, best[1], best[2]}
  BY DEF update

LEMMA EligibleAddr ==
    ASSUME NEW n, NEW c
    PROVE  Eligible(n, c) \in {c, NoCandidate}
  BY DEF Eligible

\* No node is the one NoCandidate stands for.
LEMMA NobodyIsUnknown ==
    /\ \A c \in Node : c # UNKNOWN_ADDR
    /\ NoCandidate.addr = UNKNOWN_ADDR /\ NoJoin.target = NoCandidate
    /\ NoCands[1] = NoCandidate /\ NoCands[2] = NoCandidate
    /\ \A t, b : Joiner(t, b).target = t
  BY NodeAssumption DEF NoCandidate, NoJoin, Joiner, NoCands

LEMMA PhaseStep ==
    ASSUME TypeOK, NEW n \in Node
    PROVE  /\ Announcing(n) => Live(n) /\ ~Joining(n)
           /\ Joining(n) => Live(n) /\ ~Announcing(n)
  BY DataType DEF TypeOK, Announcing, Joining, Live

LEMMA HearAnnouncementReads ==
    ASSUME TypeOK, NEW n \in Node, HearAnnouncement(n)
    PROVE  Reads(n)
<1> DEFINE m == Head(rx[n])
<1>1. m \in Message /\ rx[n] \in Seq(Message) /\ rx[n] # <<>>
  BY HeadType DEF HearAnnouncement, TypeOK
<1>2. /\ phase' = phase /\ parity' = parity /\ join' = join /\ parent' = parent /\ rel' = rel
      /\ Announcing(n)
      /\ rx' = [rx EXCEPT ![n] = Tail(rx[n])]
      /\ \/ cands' = cands
         \/ /\ m.type = "OpenCluster"
            /\ cands' = [cands EXCEPT ![n] = update(cands[n], [addr |-> m.src, ring |-> m.ring])]
  BY DEF HearAnnouncement, state
<1>3. Live(n) /\ ~Joining(n)
  BY <1>2, PhaseStep
<1>4. ~Joining(n)'
  BY <1>2, <1>3 DEF Joining
<1>5. \A k \in Node \ {n} : rx'[k] = rx[k] /\ cands'[k] = cands[k]
  BY <1>2 DEF TypeOK
<1>6. ASSUME NEW c \in Node, Targets(n, c)'
      PROVE  Targets(n, c) \/ Mentions(rx[n], c)
  <2>1. CASE cands' = cands
    BY <1>2, <1>6, <2>1 DEF Targets
  <2>2. CASE /\ m.type = "OpenCluster"
             /\ cands' = [cands EXCEPT ![n] = update(cands[n], [addr |-> m.src, ring |-> m.ring])]
    <3> DEFINE new == [addr |-> m.src, ring |-> m.ring]
    <3>1. new \in Candidate /\ new.addr = m.src
      BY <1>1, <2>2, MessageType DEF Candidate
    <3>2. cands[n] \in Candidate \X Candidate /\ cands'[n] = update(cands[n], new)
      BY <2>2 DEF TypeOK
    <3>3. /\ cands'[n][1] \in {new, cands[n][1], cands[n][2]}
          /\ cands'[n][2] \in {new, cands[n][1], cands[n][2]}
      <4> HIDE DEF new
      <4> QED  BY <3>1, <3>2, UpdateAddr
    <3>4. c = m.src \/ Targets(n, c)
      <4> HIDE DEF new, m
      <4> QED  BY <1>2, <1>6, <3>1, <3>3 DEF Targets
    <3>5. c = m.src => Mentions(rx[n], c)
      BY <1>1, TailMentions
    <3> QED
      BY <3>4, <3>5
  <2> QED
    BY <1>2, <2>1, <2>2
<1> QED
  BY <1>2, <1>3, <1>4, <1>5, <1>6 DEF Reads

LEMMA EndAnnouncementReads ==
    ASSUME TypeOK, RestInv, NEW n \in Node, EndAnnouncement(n)
    PROVE  Reads(n)
<1>1. /\ parity' = parity /\ cands' = cands /\ parent' = parent /\ rel' = rel /\ rx' = rx
      /\ Announcing(n) /\ rx[n] = <<>>
      /\ phase' = [phase EXCEPT ![n] = phase[n] + 1]
      /\ join' = [join EXCEPT ![n] = Joiner(Eligible(n, cands[n][1]), acts_as_follower(n))]
  BY DEF EndAnnouncement, MayEndPhase, state, radio
<1>2. Live(n)
  BY <1>1, PhaseStep
<1>3. \A k \in Node \ {n} : phase'[k] = phase[k] /\ join'[k] = join[k]
  BY <1>1 DEF TypeOK
<1>4. join'[n].target \in {cands[n][1], NoCandidate}
  <2>1. join'[n] = Joiner(Eligible(n, cands[n][1]), acts_as_follower(n))
    BY <1>1 DEF TypeOK
  <2>2. join'[n].target = Eligible(n, cands[n][1])
    BY <2>1, NobodyIsUnknown
  <2> QED
    BY <2>2, EligibleAddr
<1>5. ASSUME NEW c \in Node, Targets(n, c)'
      PROVE  Targets(n, c)
  BY <1>1, <1>4, <1>5, NobodyIsUnknown DEF Targets
<1> QED
  BY <1>1, <1>2, <1>3, <1>5 DEF Reads

LEMMA JoinReads ==
    ASSUME TypeOK, NEW n \in Node, Join(n)
    PROVE  Reads(n)
<1>1. /\ phase' = phase /\ parity' = parity /\ cands' = cands
      /\ Joining(n)
      /\ rx' = [rx EXCEPT ![n] = Tail(rx[n])]
      /\ join' = [join EXCEPT ![n] = [join[n] EXCEPT !.joined = TRUE]]
      /\ parent' = [parent EXCEPT ![n] = join[n].target.addr]
      /\ rel' = [rel EXCEPT ![n] = Head(rx[n]).relative_slot]
  BY DEF Join, AnswerAwaited
<1>2. Live(n)
  BY <1>1, PhaseStep
<1>3. \A k \in Node \ {n} :
        rx'[k] = rx[k] /\ join'[k] = join[k] /\ parent'[k] = parent[k] /\ rel'[k] = rel[k]
  BY <1>1 DEF TypeOK
<1>4. join'[n].target = join[n].target /\ parent'[n] = join[n].target.addr
  BY <1>1 DEF TypeOK, Joiners
<1>5. \A c \in Node : Targets(n, c)' => Targets(n, c)
  BY <1>1, <1>4 DEF Targets
<1>6. \A c \in Node : parent'[n] = c => Targets(n, c)
  BY <1>4 DEF Targets
<1> QED
  BY <1>1, <1>2, <1>3, <1>5, <1>6 DEF Reads

LEMMA RefusedReads ==
    ASSUME TypeOK, NEW n \in Node, Refused(n)
    PROVE  Reads(n)
<1>1. /\ phase' = phase /\ parity' = parity /\ cands' = cands /\ parent' = parent /\ rel' = rel
      /\ Joining(n)
      /\ rx' = [rx EXCEPT ![n] = <<>>]
  BY DEF Refused, AnswerAwaited, state
<1>2. Live(n)
  BY <1>1, PhaseStep
<1>3. \A k \in Node \ {n} : rx'[k] = rx[k] /\ join'[k] = join[k]
  BY <1>1 DEF Refused, TypeOK
<1>4. join'[n].target \in {join[n].target, cands[n][2], NoCandidate}
  <2>1. CASE join[n].triedSecond
    BY <2>1 DEF Refused
  <2>2. CASE ~join[n].triedSecond
    <3>1. join'[n].target = Eligible(n, cands[n][2])
      BY <2>2 DEF Refused, TypeOK
    <3> QED
      BY <3>1, EligibleAddr
  <2> QED
    BY <2>1, <2>2
<1>5. \A c \in Node : Targets(n, c)' => Targets(n, c)
  BY <1>1, <1>4, NobodyIsUnknown DEF Targets
<1> QED
  BY <1>1, <1>2, <1>3, <1>5 DEF Reads

LEMMA SendFollowReads ==
    ASSUME TypeOK, NEW n \in Node, SendFollow(n)
    PROVE  Reads(n)
<1>1. /\ phase' = phase /\ parity' = parity /\ cands' = cands /\ parent' = parent /\ rel' = rel
      /\ rx' = rx /\ Joining(n)
      /\ join' = [join EXCEPT ![n] = [join[n] EXCEPT !.try = FALSE]]
  BY DEF SendFollow, state
<1>2. Live(n)
  BY <1>1, PhaseStep
<1>3. \A k \in Node \ {n} : join'[k] = join[k]
  BY <1>1 DEF TypeOK
<1>4. join'[n].target = join[n].target
  BY <1>1 DEF TypeOK, Joiners
<1>5. \A c \in Node : Targets(n, c)' => Targets(n, c)
  BY <1>1, <1>4 DEF Targets
<1> QED
  BY <1>1, <1>2, <1>3, <1>5 DEF Reads

LEMMA EndJoiningReads ==
    ASSUME TypeOK, NEW n \in Node, EndJoining(n)
    PROVE  Reads(n)
<1>1. /\ parity' = parity /\ parent' = parent /\ rel' = rel /\ rx' = rx
      /\ Joining(n) /\ rx[n] = <<>>
      /\ phase' = [phase EXCEPT ![n] = phase[n] + 1]
      /\ cands' = [cands EXCEPT ![n] = NoCands]
      /\ join' = [join EXCEPT ![n] = NoJoin]
  BY DEF EndJoining, MayEndPhase, radio
<1>2. Live(n)
  BY <1>1, PhaseStep
<1>3. \A k \in Node \ {n} :
        phase'[k] = phase[k] /\ cands'[k] = cands[k] /\ join'[k] = join[k]
  BY <1>1 DEF TypeOK
<1>4. cands'[n] = NoCands /\ join'[n] = NoJoin
  BY <1>1 DEF TypeOK
<1>5. \A c \in Node : ~Targets(n, c)'
  BY <1>4, NobodyIsUnknown DEF Targets
<1> QED
  BY <1>1, <1>2, <1>3, <1>5 DEF Reads

LEMMA InSlotReads ==
    ASSUME TypeOK, RestInv, NEW n \in Node, InSlot(n)
    PROVE  Reads(n)
<1>1. CASE \/ Recv(n) \/ Announce(n) \/ HearFollow(n) \/ IgnoreInJoining(n)
  <2>1. /\ phase' = phase /\ parity' = parity /\ cands' = cands /\ join' = join
        /\ parent' = parent /\ rel' = rel
    BY <1>1 DEF Recv, Announce, HearFollow, IgnoreInJoining, state, locals
  <2>2. \A k \in Node \ {n} : rx'[k] = rx[k]
    BY <1>1 DEF Recv, Announce, HearFollow, IgnoreInJoining, TypeOK
  <2>3. Live(n)
    <3>1. CASE Recv(n)
      BY <3>1 DEF Recv, Live
    <3>2. CASE \/ Announce(n) \/ HearFollow(n) \/ IgnoreInJoining(n)
      BY <3>2, PhaseStep DEF Announce, HearFollow, IgnoreInJoining
    <3> QED
      BY <1>1, <3>1, <3>2
  <2> QED
    BY <2>1, <2>2, <2>3 DEF Reads, Targets, Joining
<1> QED
  BY <1>1, HearAnnouncementReads, EndAnnouncementReads, JoinReads, RefusedReads,
     SendFollowReads, EndJoiningReads DEF InSlot

-----------------------------------------------------------------------------
\* The parts of the invariant, for the steps within the advertising slot.

\* link::getmsg takes messages from the front of the frame being read.
LEMMA InSlotRx ==
    ASSUME TypeOK, NEW n \in Node, InSlot(n), ~Recv(n), NEW c, NEW ch, NEW tables
    PROVE  /\ Mentions(rx'[n], c) => Mentions(rx[n], c)
           /\ HasStale(rx'[n], c, ch, tables) => HasStale(rx[n], c, ch, tables)
<1>1. \/ rx'[n] = rx[n] \/ rx'[n] = <<>>
      \/ rx[n] # <<>> /\ rx'[n] = Tail(rx[n])
  BY DEF InSlot, Announce, HearAnnouncement, EndAnnouncement, SendFollow, HearFollow, Join,
         AnswerAwaited, Refused, IgnoreInJoining, EndJoining, radio, TypeOK
<1>2. rx[n] \in Seq(Message)
  BY DEF TypeOK
<1> QED
  BY <1>1, <1>2, TailMentions, NothingMentioned

LEMMA ParityStep ==
    ASSUME NEW p \in Nat, NEW d \in Nat, p % 2 = 0, d % 2 = 0
    PROVE  (p + 1) % 2 = 1 /\ p + 1 # d
  OBVIOUS

LEMMA EndAnnouncementPhase ==
    ASSUME TypeOK, NEW n \in Node, EndAnnouncement(n)
    PROVE  phase[n] + 1 # DATA /\ Joining(n)' /\ Live(n)'
<1>1. phase[n] \in Nat /\ phase'[n] = phase[n] + 1 /\ phase[n] % 2 = 0
  BY DataType DEF EndAnnouncement, Announcing, TypeOK
<1> QED
  BY <1>1, DataType, ParityStep DEF Joining, Live

LEMMA InSlotSkew ==
    ASSUME TypeOK, SkewInv, NEW n \in Node, InSlot(n), Reads(n)
    PROVE  SkewInv'
<1>1. parity' = parity /\ Live(n) /\ \A k \in Node \ {n} : phase'[k] = phase[k]
  BY DEF Reads
<1>2. CASE Live(n)'
  BY <1>1, <1>2 DEF SkewInv, Live
<1>3. CASE ~Live(n)'
  <2>1. EndJoining(n) /\ phase[n] + 1 = DATA
    <3>1. \/ phase'[n] = phase[n]
          \/ EndAnnouncement(n) /\ phase'[n] = phase[n] + 1
          \/ EndJoining(n) /\ phase'[n] = phase[n] + 1
      BY DEF InSlot, Recv, Announce, HearAnnouncement, EndAnnouncement, SendFollow, HearFollow,
             Join, Refused, IgnoreInJoining, EndJoining, TypeOK
    <3>2. EndAnnouncement(n) => phase[n] + 1 # DATA
      BY EndAnnouncementPhase
    <3> QED
      BY <1>1, <1>3, <3>1, <3>2 DEF Live
  <2>2. ASSUME NEW m \in Node \ {n}
        PROVE  parity[m] = parity[n]
    <3>1. Lead(n, m) < MaxSkew
      BY <2>1 DEF EndJoining, MayEndPhase
    <3>2. MaxSkew \in Nat /\ MaxSkew <= DATA
      BY SkewAssumption DEF DATA
    <3>3. phase[n] \in Nat /\ phase[n] # DATA
      BY <1>1 DEF TypeOK, Live
    <3> QED
      BY <2>1, <3>1, <3>2, <3>3 DEF Lead
  <2> QED
    BY <1>1, <2>2 DEF SkewInv
<1> QED
  BY <1>2, <1>3

LEMMA InSlotRest ==
    ASSUME TypeOK, RestInv, NEW n \in Node, InSlot(n), Reads(n)
    PROVE  RestInv'
<1>1. /\ Live(n)
      /\ \A k \in Node \ {n} :
           phase'[k] = phase[k] /\ rx'[k] = rx[k] /\ cands'[k] = cands[k] /\ join'[k] = join[k]
  BY DEF Reads
<1>2. /\ ~Live(n)' => rx'[n] = <<>> /\ cands'[n] = NoCands
      /\ ~Joining(n)' => join'[n] = NoJoin
  <2>1. CASE EndAnnouncement(n)
    <3>1. Joining(n)' /\ Live(n)'
      BY <2>1, EndAnnouncementPhase
    <3> QED
      BY <3>1
  <2>2. CASE EndJoining(n)
    BY <2>2 DEF EndJoining, MayEndPhase, radio, TypeOK
  <2>3. CASE \/ Recv(n) \/ Announce(n) \/ HearAnnouncement(n) \/ HearFollow(n)
             \/ IgnoreInJoining(n)
    <3>1. phase' = phase /\ join' = join
      BY <2>3 DEF Recv, Announce, HearAnnouncement, HearFollow, IgnoreInJoining, locals
    <3> QED
      BY <1>1, <3>1 DEF Live, Joining, RestInv
  <2>4. CASE SendFollow(n) \/ Join(n) \/ Refused(n)
    <3>1. phase' = phase /\ Joining(n)
      BY <2>4 DEF SendFollow, Join, Refused, AnswerAwaited
    <3> QED
      BY <1>1, <3>1 DEF Live, Joining
  <2> QED
    BY <2>1, <2>2, <2>3, <2>4 DEF InSlot
<1> QED
  BY <1>1, <1>2 DEF RestInv, Live, Joining

LEMMA InSlotOwn ==
    ASSUME TypeOK, RoleInv, OwnInv, NEW n \in Node, InSlot(n)
    PROVE  OwnInv'
<1>1. CASE Recv(n)
  BY <1>1 DEF Recv, OwnInv
<1>2. CASE ~Recv(n)
  BY <1>2, InSlotSends DEF Sends, OwnInv
<1> QED
  BY <1>1, <1>2

\* What a node hears of in a step comes from the node that takes it, by a frame
\* that empties its transmit buffer.
LEMMA InSlotHeard ==
    ASSUME TypeOK, RoleInv, RestInv, OwnInv, NEW n \in Node, InSlot(n), Reads(n),
           NEW f \in Node, NEW c \in Node, HeardOf(f, c)'
    PROVE  HeardOf(f, c) \/ (c = n /\ tx'[n] = <<>>)
<1>0. inbox[f] \in Seq(Seq(Message)) /\ inbox'[f] \in Seq(Seq(Message))
  BY StepType DEF TypeOK, Step, InSlot
<1>1. CASE Recv(n)
  <2>1. /\ inbox[n] # <<>> /\ rx'[n] = Head(inbox[n]) /\ inbox'[n] = Tail(inbox[n])
        /\ \A k \in Node \ {n} : rx'[k] = rx[k] /\ inbox'[k] = inbox[k]
        /\ cands' = cands /\ join' = join /\ parent' = parent
    BY <1>1 DEF Recv, TypeOK, state, locals
  <2>2. CASE f = n
    <3>1. /\ rx'[f] = inbox[f][1] /\ 1 \in DOMAIN inbox[f]
          /\ \A i \in DOMAIN inbox'[f] :
               i + 1 \in DOMAIN inbox[f] /\ inbox'[f][i] = inbox[f][i + 1]
      <4>1. inbox[f] \in Seq(Seq(Message)) /\ inbox[f] # <<>>
        BY <1>0, <2>1, <2>2
      <4>2. /\ Head(inbox[f]) = inbox[f][1] /\ 1 \in DOMAIN inbox[f]
            /\ \A i \in DOMAIN Tail(inbox[f]) :
                 i + 1 \in DOMAIN inbox[f] /\ Tail(inbox[f])[i] = inbox[f][i + 1]
        BY <4>1, HeadTailAt, Zenon
      <4> QED
        BY <2>1, <2>2, <4>2, Zenon
    <3> QED
      BY <1>1, <2>1, <2>2, <3>1 DEF HeardOf, Targets
  <2>3. CASE f # n
    BY <2>1, <2>3 DEF HeardOf, Targets
  <2> QED
    BY <2>2, <2>3
<1>2. CASE ~Recv(n)
  <2>1. Sends(n)
    BY <1>2, InSlotSends
  <2>2. CASE Mentions(rx'[f], c)
    <3>1. Mentions(rx[f], c)
      BY <1>2, <2>2, InSlotRx DEF Reads
    <3> QED
      BY <3>1 DEF HeardOf
  <2>3. CASE \E i \in DOMAIN inbox'[f] : Mentions(inbox'[f][i], c)
    <3>1. CASE inbox'[f] = inbox[f]
      BY <2>3, <3>1 DEF HeardOf
    <3>2. CASE inbox'[f] # inbox[f]
      <4>1. PICK q \in Seq(Message) :
              (\A i \in DOMAIN q : q[i].src = n) /\ inbox'[f] = Append(inbox[f], q)
        BY <2>1, <3>2 DEF Sends
      <4>2. tx'[n] = <<>>
        BY <2>1, <3>2 DEF Sends
      <4>3. PICK i \in DOMAIN inbox'[f] : Mentions(inbox'[f][i], c)
        BY <2>3
      <4>4. inbox'[f][i] = q \/ (i \in DOMAIN inbox[f] /\ inbox'[f][i] = inbox[f][i])
        BY <1>0, <4>1
      <4> QED
        BY <4>1, <4>2, <4>3, <4>4 DEF HeardOf, Mentions
    <3> QED
      BY <3>1, <3>2
  <2>4. CASE Targets(f, c)' \/ parent'[f] = c
    <3>1. CASE f = n
      BY <2>4, <3>1 DEF Reads, HeardOf
    <3>2. CASE f # n
      BY <2>4, <3>2 DEF Reads, HeardOf, Targets
    <3> QED
      BY <3>1, <3>2
  <2> QED
    BY <2>2, <2>3, <2>4 DEF HeardOf
<1> QED
  BY <1>1, <1>2

LEMMA InSlotSilent ==
    ASSUME TypeOK, RoleInv, SkewInv, RestInv, OwnInv, SilentInv, NEW n \in Node,
           InSlot(n), Reads(n), TablesGrow
    PROVE  SilentInv'
<1> SUFFICES ASSUME NEW f \in Node, NEW c \in Node, Live(f)',
                    parity'[f] # parity'[c] \/ HasStale(tx'[c], c, isCH', slots'),
                    HeardOf(f, c)'
             PROVE  FALSE
  BY DEF SilentInv
<1>1. Live(f) /\ Live(n) /\ parity' = parity
  BY DEF Reads, Live
<1>2. HasStale(tx'[c], c, isCH', slots') => HasStale(tx[c], c, isCH, slots)
  <2>1. CASE c # n \/ Recv(n)
    <3>1. tx'[c] = tx[c]
      <4>1. CASE Recv(n)
        BY <4>1 DEF Recv
      <4>2. CASE ~Recv(n)
        BY <2>1, <4>2, InSlotSends DEF Sends
      <4> QED
        BY <4>1, <4>2
    <3>2. tx[c] \in Seq(Message)
      BY DEF TypeOK
    <3> QED
      BY <3>1, <3>2, NoNewStale
  <2>2. CASE c = n /\ ~Recv(n)
    BY <2>2, InSlotSends DEF Sends
  <2> QED
    BY <2>1, <2>2
<1>3. ~HeardOf(f, c)
  BY <1>1, <1>2 DEF SilentInv
<1>4. c = n /\ tx'[n] = <<>>
  BY <1>3, InSlotHeard
<1>5. parity[f] = parity[c]
  BY <1>1, <1>4, LiveTogether
<1> QED
  BY <1>1, <1>4, <1>5, NothingMentioned

\* Which frames a receiver holds after a step.
LEMMA RecvFrames ==
    ASSUME TypeOK, NEW n \in Node, Recv(n)
    PROVE  /\ 1 \in DOMAIN inbox[n] /\ rx'[n] = inbox[n][1]
           /\ \A i \in DOMAIN inbox'[n] :
                i + 1 \in DOMAIN inbox[n] /\ inbox'[n][i] = inbox[n][i + 1]
           /\ \A k \in Node \ {n} : inbox'[k] = inbox[k] /\ rx'[k] = rx[k]
           /\ cands' = cands /\ join' = join /\ parent' = parent /\ phase' = phase
<1>1. /\ inbox[n] # <<>> /\ rx'[n] = Head(inbox[n]) /\ inbox'[n] = Tail(inbox[n])
      /\ \A k \in Node \ {n} : inbox'[k] = inbox[k] /\ rx'[k] = rx[k]
      /\ cands' = cands /\ join' = join /\ parent' = parent /\ phase' = phase
  BY DEF Recv, TypeOK, state, locals
<1>2. inbox[n] \in Seq(Seq(Message))
  BY DEF TypeOK
<1>3. /\ Head(inbox[n]) = inbox[n][1] /\ 1 \in DOMAIN inbox[n]
      /\ \A i \in DOMAIN Tail(inbox[n]) :
           i + 1 \in DOMAIN inbox[n] /\ Tail(inbox[n])[i] = inbox[n][i + 1]
  BY <1>1, <1>2, HeadTailAt, Zenon
<1> QED
  BY <1>1, <1>3, Zenon

LEMMA SendFrames ==
    ASSUME TypeOK, RoleInv, OwnInv, NEW n \in Node, InSlot(n), ~Recv(n),
           NEW f \in Node, NEW i \in DOMAIN inbox'[f]
    PROVE  /\ \A j \in 1 .. i - 1 : j \in DOMAIN inbox[f] /\ inbox'[f][j] = inbox[f][j]
           /\ \/ i \in DOMAIN inbox[f] /\ inbox'[f][i] = inbox[f][i]
              \/ /\ tx'[n] = <<>>
                 /\ \A k \in DOMAIN inbox'[f][i] : inbox'[f][i][k].src = n
                 /\ HasStale(inbox'[f][i], n, isCH', slots') => HasStale(tx[n], n, isCH, slots)
<1>1. inbox[f] \in Seq(Seq(Message))
  BY DEF TypeOK
<1>2. Sends(n)
  BY InSlotSends
<1>3. CASE inbox'[f] = inbox[f]
  BY <1>1, <1>3
<1>4. CASE inbox'[f] # inbox[f]
  <2>1. PICK q \in Seq(Message) :
          /\ \A k \in DOMAIN q : q[k].src = n
          /\ HasStale(q, n, isCH', slots') => HasStale(tx[n], n, isCH, slots)
          /\ inbox'[f] = Append(inbox[f], q)
    BY <1>2, <1>4 DEF Sends
  <2>2. tx'[n] = <<>>
    BY <1>2, <1>4 DEF Sends
  <2>3. inbox'[f][i] = q \/ (i \in DOMAIN inbox[f] /\ inbox'[f][i] = inbox[f][i])
    BY <1>1, <2>1
  <2>4. \A j \in 1 .. i - 1 : j \in DOMAIN inbox[f] /\ inbox'[f][j] = inbox[f][j]
    BY <1>1, <2>1
  <2> QED
    BY <2>1, <2>2, <2>3, <2>4, Zenon
<1> QED
  BY <1>3, <1>4

LEMMA ReadsTargets ==
    ASSUME TypeOK, NEW n \in Node, Reads(n), NEW f \in Node, NEW c \in Node,
           ~Targets(f, c), f = n => Joining(n)' \/ ~Mentions(rx[n], c)
    PROVE  ~Targets(f, c)'
  BY DEF Reads, Targets

LEMMA StillLive ==
    ASSUME NEW n \in Node, Reads(n), NEW f \in Node, Live(f)'
    PROVE  Live(f)
  BY DEF Reads, Live

\* A frame is a sequence of messages.
LEMMA FrameTypes ==
    ASSUME TypeOK, NEW f \in Node
    PROVE  inbox[f] \in Seq(Seq(Message)) /\ \A g \in DOMAIN inbox[f] : inbox[f][g] \in Seq(Message)
<1>1. inbox[f] \in Seq(Seq(Message))
  BY DEF TypeOK
<1>2. \A q \in Seq(Seq(Message)) : \A g \in DOMAIN q : q[g] \in Seq(Message)
  OBVIOUS
<1> QED
  BY <1>1, <1>2

\* The frames held.
LEMMA InSlotFrameOrder ==
    ASSUME TypeOK, RoleInv, OwnInv, SilentInv, OrderInv, NEW n \in Node,
           InSlot(n), Reads(n), TablesGrow,
           NEW f \in Node, NEW c \in Node, Live(f)',
           NEW i \in DOMAIN inbox'[f], HasStale(inbox'[f][i], c, isCH', slots')
    PROVE  /\ ~Mentions(rx'[f], c) /\ ~Targets(f, c)'
           /\ \A j \in 1 .. i - 1 : ~Mentions(inbox'[f][j], c)
<1>1. Live(f)
  BY StillLive
<1>2. ASSUME NEW g \in DOMAIN inbox[f], HasStale(inbox[f][g], c, isCH', slots')
      PROVE  /\ ~Mentions(rx[f], c) /\ ~Targets(f, c)
             /\ \A j \in 1 .. g - 1 : ~Mentions(inbox[f][j], c)
  <2>1. inbox[f][g] \in Seq(Message)
    BY FrameTypes
  <2>2. HasStale(inbox[f][g], c, isCH, slots)
    BY <1>2, <2>1, NoNewStale
  <2> QED
    BY <1>1, <1>2, <2>2 DEF OrderInv
<1>3. CASE Recv(n) /\ f # n
  <2>1. inbox'[f] = inbox[f] /\ rx'[f] = rx[f] /\ (Targets(f, c)' <=> Targets(f, c))
    BY <1>3, RecvFrames DEF Targets
  <2> QED
    BY <1>2, <2>1
<1>4. CASE Recv(n) /\ f = n
  <2>1. /\ 1 \in DOMAIN inbox[f] /\ rx'[f] = inbox[f][1]
        /\ \A k \in DOMAIN inbox'[f] :
             k + 1 \in DOMAIN inbox[f] /\ inbox'[f][k] = inbox[f][k + 1]
        /\ Targets(f, c)' <=> Targets(f, c)
    BY <1>4, RecvFrames DEF Targets
  <2>2. i \in Nat \ {0} /\ DOMAIN inbox'[f] = 1 .. Len(inbox'[f]) /\ Len(inbox'[f]) \in Nat
    <3>1. inbox'[f] \in Seq(Seq(Message))
      BY StepType DEF Step, InSlot, TypeOK
    <3> QED
      BY <3>1
  <2>3. /\ ~Targets(f, c)
        /\ \A j \in 1 .. i : ~Mentions(inbox[f][j], c)
    BY <1>2, <2>1, <2>2
  <2>4. \A j \in 1 .. i - 1 : j \in DOMAIN inbox'[f] /\ j + 1 \in 1 .. i
    BY <2>2
  <2> QED
    BY <2>1, <2>2, <2>3, <2>4
<1>5. CASE ~Recv(n)
  <2>1. \A j \in 1 .. i - 1 : j \in DOMAIN inbox[f] /\ inbox'[f][j] = inbox[f][j]
    BY <1>5, SendFrames
  <2>2. Mentions(rx'[f], c) => Mentions(rx[f], c)
    BY <1>5, InSlotRx DEF Reads
  <2>3. CASE i \in DOMAIN inbox[f] /\ inbox'[f][i] = inbox[f][i]
    BY <1>2, <2>1, <2>2, <2>3, ReadsTargets
  <2>4. CASE /\ \A k \in DOMAIN inbox'[f][i] : inbox'[f][i][k].src = n
             /\ HasStale(inbox'[f][i], n, isCH', slots') => HasStale(tx[n], n, isCH, slots)
    <3>1. c = n
      BY <2>4, StaleMentions DEF Mentions
    <3>2. ~HeardOf(f, c)
      BY <1>1, <2>4, <3>1 DEF SilentInv
    <3> QED
      BY <2>1, <2>2, <3>2, ReadsTargets DEF HeardOf
  <2> QED
    BY <1>5, <2>3, <2>4, SendFrames
<1> QED
  BY <1>3, <1>4, <1>5

\* The frame being read.
LEMMA InSlotReadOrder ==
    ASSUME TypeOK, OrderInv, NEW n \in Node, InSlot(n), Reads(n), TablesGrow,
           NEW f \in Node, NEW c \in Node, Live(f)',
           HasStale(rx'[f], c, isCH', slots'), Joining(f)'
    PROVE  ~Targets(f, c)'
<1>1. Live(f)
  BY StillLive
<1>2. CASE Recv(n) /\ f = n
  <2>1. 1 \in DOMAIN inbox[f] /\ rx'[f] = inbox[f][1] /\ (Targets(f, c)' <=> Targets(f, c))
    BY <1>2, RecvFrames DEF Targets
  <2>2. inbox[f][1] \in Seq(Message)
    BY <2>1, FrameTypes
  <2>3. HasStale(inbox[f][1], c, isCH, slots)
    BY <2>1, <2>2, NoNewStale
  <2> QED
    BY <1>1, <2>1, <2>3 DEF OrderInv
<1>3. CASE f # n \/ ~Recv(n)
  <2>1. HasStale(rx[f], c, isCH', slots')
    BY <1>3, InSlotRx DEF Reads
  <2>2. rx[f] \in Seq(Message)
    BY DEF TypeOK
  <2>3. HasStale(rx[f], c, isCH, slots)
    BY <2>1, <2>2, NoNewStale
  <2>4. Joining(f)
    BY NothingMentioned DEF Reads, Joining
  <2>5. ~Targets(f, c)
    BY <1>1, <2>3, <2>4 DEF OrderInv
  <2> QED
    BY <2>5, ReadsTargets
<1> QED
  BY <1>2, <1>3

LEMMA InSlotOrder ==
    ASSUME TypeOK, RoleInv, OwnInv, SilentInv, OrderInv, NEW n \in Node,
           InSlot(n), Reads(n), TablesGrow
    PROVE  OrderInv'
  BY InSlotFrameOrder, InSlotReadOrder DEF OrderInv

\* Whoever joins in a step joins the target that recorded its slot.
LEMMA InSlotAgree ==
    ASSUME TypeOK, SkewInv, OrderInv, AgreeInv, NEW n \in Node, InSlot(n), Reads(n), TablesGrow
    PROVE  AgreeInv'
<1> SUFFICES ASSUME NEW f \in Node, NEW c \in Node, parent'[f] = c, parity'[f] = parity'[c]
             PROVE  /\ isCH'[c]
                    /\ rel'[f] \in DOMAIN slots'[c]
                    /\ slots'[c][rel'[f]] = f
  BY DEF AgreeInv
<1>1. /\ isCH[c]
      /\ rel'[f] \in DOMAIN slots[c]
      /\ slots[c][rel'[f]] = f
  <2>1. CASE parent'[f] = parent[f] /\ rel'[f] = rel[f]
    BY <2>1 DEF AgreeInv, Reads
  <2>2. CASE f = n /\ Join(n)
    <3> DEFINE m == Head(rx[n])
    <3>1. /\ rx[n] # <<>> /\ Joining(n) /\ m.type = "Accept" /\ m.accepted
          /\ m.src = join[n].target.addr /\ m.follower = n
          /\ parent'[n] = join[n].target.addr /\ rel'[n] = m.relative_slot
      BY <2>2 DEF Join, AnswerAwaited, TypeOK
    <3>2. m.src = c /\ Targets(n, c) /\ Live(n)
      BY <2>2, <3>1 DEF Targets, Reads
    <3>3. rx[n] \in Seq(Message)
      BY DEF TypeOK
    <3>4. ~Stale(m, isCH, slots)
      <4> HIDE DEF m
      <4> SUFFICES ASSUME Stale(m, isCH, slots)
                   PROVE  FALSE
        OBVIOUS
      <4>1. HasStale(rx[n], c, isCH, slots)
        BY <3>1, <3>2, <3>3, TailMentions DEF m
      <4> QED
        BY <3>1, <3>2, <4>1 DEF OrderInv
    <3> HIDE DEF m
    <3> QED
      BY <2>2, <3>1, <3>2, <3>4 DEF Stale
  <2>3. CASE f # n
    BY <2>1, <2>3 DEF Reads
  <2>4. CASE f = n /\ ~Join(n)
    <3>1. parent' = parent /\ rel' = rel
      BY <2>4 DEF InSlot, Recv, Announce, HearAnnouncement, EndAnnouncement, SendFollow,
                  HearFollow, Refused, IgnoreInJoining, EndJoining, state
    <3> QED
      BY <2>1, <3>1
  <2> QED
    BY <2>2, <2>3, <2>4
<1> QED
  BY <1>1 DEF TablesGrow

-----------------------------------------------------------------------------
\* The start of a superframe: the node forgets all it has heard, and the nodes
\* already in that superframe have not heard of it.
LEMMA AdvertiseShape ==
    ASSUME TypeOK, SkewInv, RestInv, NEW n \in Node, Advertise(n)
    PROVE  /\ ~Live(n) /\ Live(n)' /\ ~Joining(n)'
           /\ join'[n] = NoJoin /\ cands'[n] = NoCands /\ rx'[n] = <<>> /\ inbox'[n] = <<>>
           /\ parent'[n] = UNKNOWN_ADDR
           /\ tx'[n] = tx[n] \/ tx'[n] = <<>>
           /\ parity'[n] = 1 - parity[n]
           /\ \A m \in Node : parity[m] = parity[n] => ~Live(m)
           /\ \A k \in Node \ {n} :
                /\ phase'[k] = phase[k] /\ parity'[k] = parity[k] /\ isCH'[k] = isCH[k]
                /\ tx'[k] = tx[k] /\ inbox'[k] = inbox[k] /\ rx'[k] = rx[k]
                /\ cands'[k] = cands[k] /\ join'[k] = join[k]
                /\ parent'[k] = parent[k] /\ rel'[k] = rel[k] /\ slots'[k] = slots[k]
<1>1. /\ phase[n] = DATA /\ phase' = [phase EXCEPT ![n] = 0]
      /\ parity' = [parity EXCEPT ![n] = 1 - parity[n]]
      /\ parent' = [parent EXCEPT ![n] = UNKNOWN_ADDR]
      /\ rel' = [rel EXCEPT ![n] = 0]
      /\ isCH' = [isCH EXCEPT ![n] = FALSE]
      /\ inbox' = [inbox EXCEPT ![n] = <<>>]
      /\ cands' = cands /\ join' = join /\ rx' = rx
      /\ \A m \in Node : parity[m] = parity[n] => phase[m] = DATA
  BY DEF Advertise
<1>2. PICK q \in {tx[n], <<>>} : tx' = [tx EXCEPT ![n] = q]
  BY DEF Advertise
<1>3. PICK g \in Rings[n] : BeginAnnouncement(n, 0, g, BaseRole(n), FALSE)
  BY DEF Advertise
<1>4. \A k \in Node \ {n} : slots'[k] = slots[k]
  BY <1>3, BaseRoleType, BeginShape
<1>5. phase'[n] = 0 /\ ~Live(n) /\ ~Joining(n)
  BY <1>1, DataType DEF Live, Joining, TypeOK
<1>6. Live(n)' /\ ~Joining(n)'
  BY <1>5, DataType DEF Live, Joining
<1>7. rx[n] = <<>> /\ cands[n] = NoCands /\ join[n] = NoJoin
  BY <1>5 DEF RestInv
<1>8. /\ inbox'[n] = <<>> /\ parent'[n] = UNKNOWN_ADDR /\ parity'[n] = 1 - parity[n]
      /\ tx'[n] = tx[n] \/ tx'[n] = <<>>
  BY <1>1, <1>2 DEF TypeOK
<1>9. \A k \in Node \ {n} :
        /\ phase'[k] = phase[k] /\ parity'[k] = parity[k] /\ isCH'[k] = isCH[k]
        /\ tx'[k] = tx[k] /\ inbox'[k] = inbox[k]
        /\ parent'[k] = parent[k] /\ rel'[k] = rel[k]
  BY <1>1, <1>2 DEF TypeOK
<1> QED
  BY <1>1, <1>4, <1>5, <1>6, <1>7, <1>8, <1>9 DEF Live

\* What is stale of another node's is unaffected by n.
LEMMA StaleOfOthers ==
    ASSUME NEW q, NEW c \in Node, isCH'[c] = isCH[c], slots'[c] = slots[c],
           HasStale(q, c, isCH', slots')
    PROVE  HasStale(q, c, isCH, slots)
  BY DEF HasStale, Stale

LEMMA AdvertiseUnheard ==
    ASSUME TypeOK, SkewInv, RestInv, SilentInv, NEW n \in Node, Advertise(n),
           NEW f \in Node, Live(f)', NEW c \in Node
    PROVE  /\ f = n \/ c = n => ~HeardOf(f, c)'
           /\ f # n => Live(f) /\ (HeardOf(f, c)' <=> HeardOf(f, c))
<1>1. CASE f = n
  <2>1. /\ join'[n] = NoJoin /\ cands'[n] = NoCands /\ rx'[n] = <<>> /\ inbox'[n] = <<>>
        /\ parent'[n] = UNKNOWN_ADDR
    BY AdvertiseShape
  <2>2. ~Mentions(rx'[n], c) /\ ~ \E i \in DOMAIN inbox'[n] : Mentions(inbox'[n][i], c)
    <3>1. ~Mentions(<<>>, c)
      BY NothingMentioned
    <3> QED
      BY <2>1, <3>1
  <2>3. ~Targets(n, c)'
    BY <2>1, NobodyIsUnknown DEF Targets
  <2>4. ~HeardOf(n, c)'
    BY <2>1, <2>2, <2>3, NobodyIsUnknown DEF HeardOf
  <2> QED
    BY <1>1, <2>4
<1>2. CASE f # n
  <2>1. Live(f) /\ (HeardOf(f, c)' <=> HeardOf(f, c)) /\ parity[f] # parity[n]
    BY <1>2, AdvertiseShape DEF Live, HeardOf, Targets
  <2>2. c = n => ~HeardOf(f, c)
    BY <2>1 DEF SilentInv
  <2> QED
    BY <1>2, <2>1, <2>2
<1> QED
  BY <1>1, <1>2

LEMMA AdvertiseSilent ==
    ASSUME TypeOK, SkewInv, RestInv, SilentInv, NEW n \in Node, Advertise(n)
    PROVE  SilentInv'
<1> SUFFICES ASSUME NEW f \in Node, NEW c \in Node, Live(f)',
                    parity'[f] # parity'[c] \/ HasStale(tx'[c], c, isCH', slots'),
                    HeardOf(f, c)'
             PROVE  FALSE
  BY DEF SilentInv
<1>1. f # n /\ c # n /\ Live(f) /\ HeardOf(f, c)
  BY AdvertiseUnheard
<1>2. parity'[f] = parity[f] /\ parity'[c] = parity[c] /\ tx'[c] = tx[c]
      /\ isCH'[c] = isCH[c] /\ slots'[c] = slots[c]
  BY <1>1, AdvertiseShape
<1> QED
  BY <1>1, <1>2, StaleOfOthers DEF SilentInv

LEMMA AdvertiseOrder ==
    ASSUME TypeOK, SkewInv, RestInv, SilentInv, OrderInv, NEW n \in Node, Advertise(n)
    PROVE  OrderInv'
<1> SUFFICES ASSUME NEW f \in Node, NEW c \in Node, Live(f)'
             PROVE  /\ \A i \in DOMAIN inbox'[f] : HasStale(inbox'[f][i], c, isCH', slots') =>
                         /\ ~Mentions(rx'[f], c) /\ ~Targets(f, c)'
                         /\ \A j \in 1 .. i - 1 : ~Mentions(inbox'[f][j], c)
                    /\ HasStale(rx'[f], c, isCH', slots') /\ Joining(f)' => ~Targets(f, c)'
  BY DEF OrderInv
<1>1. CASE f = n \/ c = n
  <2>1. ~HeardOf(f, c)'
    BY <1>1, AdvertiseUnheard
  <2> QED
    BY <2>1, StaleMentions DEF HeardOf
<1>2. CASE f # n /\ c # n
  <2>1. /\ Live(f) /\ inbox'[f] = inbox[f] /\ rx'[f] = rx[f]
        /\ Targets(f, c)' <=> Targets(f, c)
        /\ Joining(f)' <=> Joining(f)
    BY <1>2, AdvertiseShape DEF Live, Joining, Targets
  <2>2. isCH'[c] = isCH[c] /\ slots'[c] = slots[c]
    BY <1>2, AdvertiseShape
  <2> QED
    BY <2>1, <2>2, StaleOfOthers DEF OrderInv
<1> QED
  BY <1>1, <1>2

\* Nobody in the superframe n begins follows n.
LEMMA AdvertiseParent ==
    ASSUME TypeOK, SkewInv, RestInv, SilentInv, NEW n \in Node, Advertise(n),
           NEW f \in Node, NEW c \in Node, parent'[f] = c, parity'[f] = parity'[c]
    PROVE  f # n /\ c # n /\ parent[f] = c
<1>1. f # n
  BY AdvertiseShape, NobodyIsUnknown
<1>2. parent[f] = c /\ parity'[f] = parity[f]
  BY <1>1, AdvertiseShape
<1>3. c # n
  <2> SUFFICES ASSUME c = n  PROVE FALSE
    OBVIOUS
  <2>1. parity[f] # parity[n]
    <3>1. parity[f] = 1 - parity[n] /\ parity[n] \in {0, 1}
      BY <1>2, AdvertiseShape DEF TypeOK
    <3> QED
      BY <3>1
  <2>2. Live(f)
    BY <2>1, AdvertiseShape DEF SkewInv
  <2> QED
    BY <1>2, <2>1, <2>2 DEF SilentInv, HeardOf
<1> QED
  BY <1>1, <1>2, <1>3

LEMMA AdvertiseAgree ==
    ASSUME TypeOK, SkewInv, RestInv, SilentInv, AgreeInv, NEW n \in Node, Advertise(n)
    PROVE  AgreeInv'
<1> SUFFICES ASSUME NEW f \in Node, NEW c \in Node, parent'[f] = c, parity'[f] = parity'[c]
             PROVE  /\ isCH'[c]
                    /\ rel'[f] \in DOMAIN slots'[c]
                    /\ slots'[c][rel'[f]] = f
  BY DEF AgreeInv
<1>1. f # n /\ c # n /\ parent[f] = c
  BY AdvertiseParent
<1>2. /\ parity'[f] = parity[f] /\ rel'[f] = rel[f]
      /\ parity'[c] = parity[c] /\ isCH'[c] = isCH[c] /\ slots'[c] = slots[c]
  BY <1>1, AdvertiseShape
<1>3. parity[f] = parity[c]
  BY <1>2
<1>4. /\ isCH[c]
      /\ rel[f] \in DOMAIN slots[c]
      /\ slots[c][rel[f]] = f
  BY <1>1, <1>3, Zenon DEF AgreeInv
<1> QED
  BY <1>2, <1>4, Zenon

LEMMA AdvertiseSkew ==
    ASSUME TypeOK, SkewInv, RestInv, NEW n \in Node, Advertise(n)
    PROVE  SkewInv'
<1> SUFFICES ASSUME NEW k \in Node, NEW m \in Node, parity'[k] # parity'[m]
             PROVE  Live(k)' <=> ~Live(m)'
  BY DEF SkewInv
<1>1. /\ Live(n)' /\ parity'[n] = 1 - parity[n]
      /\ \A j \in Node : parity[j] = parity[n] => ~Live(j)
      /\ \A j \in Node \ {n} : parity'[j] = parity[j] /\ (Live(j)' <=> Live(j))
  BY AdvertiseShape DEF Live
<1>2. \A j \in Node : parity[j] \in {0, 1}
  BY DEF TypeOK
<1>3. ASSUME NEW j \in Node \ {n}, parity'[j] # parity'[n]
      PROVE  ~Live(j)'
  <2>1. parity[j] # 1 - parity[n]
    BY <1>1, <1>3
  <2>2. parity[j] = parity[n]
    BY <1>2, <2>1
  <2> QED
    BY <1>1, <2>2
<1>4. CASE k # n /\ m # n
  BY <1>1, <1>4 DEF SkewInv
<1> QED
  BY <1>1, <1>3, <1>4

LEMMA AdvertiseRest ==
    ASSUME TypeOK, SkewInv, RestInv, OwnInv, NEW n \in Node, Advertise(n)
    PROVE  RestInv' /\ OwnInv'
<1>1. RestInv'
  BY AdvertiseShape DEF RestInv, Live, Joining
<1>2. OwnInv'
  BY AdvertiseShape DEF OwnInv
<1> QED
  BY <1>1, <1>2

-----------------------------------------------------------------------------
FormationInv ==
    /\ RoleInv /\ SkewInv /\ RestInv /\ OwnInv /\ SilentInv /\ OrderInv /\ AgreeInv

LEMMA InitFormation == Init => FormationInv
<1> SUFFICES ASSUME Init  PROVE FormationInv
  OBVIOUS
<1>1. RoleInv
  BY InitRole
<1>2. \A n \in Node : ~Live(n) /\ parity[n] = 0 /\ parent[n] = UNKNOWN_ADDR
  BY DEF Init, Live
<1>3. \A n \in Node : tx[n] = <<>> /\ rx[n] = <<>> /\ cands[n] = NoCands /\ join[n] = NoJoin
  BY DEF Init
<1> QED
  BY <1>1, <1>2, <1>3, NobodyIsUnknown
     DEF FormationInv, SkewInv, RestInv, OwnInv, SilentInv, OrderInv, AgreeInv

LEMMA StepFormation ==
    ASSUME TypeOK, FormationInv, NEW n \in Node, Step(n)
    PROVE  FormationInv'
<1>1. RoleInv /\ SkewInv /\ RestInv /\ OwnInv /\ SilentInv /\ OrderInv /\ AgreeInv
  BY DEF FormationInv
<1>2. RoleInv'
  BY <1>1, StepRole
<1>3. CASE Advertise(n)
  <2>1. SkewInv' /\ RestInv' /\ OwnInv'
    BY <1>1, <1>3, AdvertiseSkew, AdvertiseRest
  <2>2. SilentInv' /\ OrderInv' /\ AgreeInv'
    BY <1>1, <1>3, AdvertiseSilent, AdvertiseOrder, AdvertiseAgree
  <2> QED
    BY <1>2, <2>1, <2>2 DEF FormationInv
<1>4. CASE InSlot(n)
  <2>1. Reads(n) /\ TablesGrow
    BY <1>1, <1>4, InSlotReads, InSlotGrows
  <2>2. SkewInv' /\ RestInv' /\ OwnInv'
    BY <1>1, <1>4, <2>1, InSlotSkew, InSlotRest, InSlotOwn
  <2>3. SilentInv' /\ OrderInv' /\ AgreeInv'
    BY <1>1, <1>4, <2>1, InSlotSilent, InSlotOrder, InSlotAgree
  <2> QED
    BY <1>2, <2>2, <2>3 DEF FormationInv
<1> QED
  BY <1>3, <1>4 DEF Step, InSlot

LEMMA StutterFormation == ASSUME FormationInv, UNCHANGED vars PROVE FormationInv'
<1>1. /\ phase' = phase /\ parity' = parity /\ role' = role /\ slots' = slots
      /\ parent' = parent /\ rel' = rel /\ isCH' = isCH /\ cands' = cands /\ bid' = bid
      /\ join' = join /\ tx' = tx /\ inbox' = inbox /\ rx' = rx
  BY DEF vars, state, locals, radio
<1>2. RoleInv' <=> RoleInv
  BY <1>1 DEF RoleInv, acts_as_clusterhead
<1>3. /\ SkewInv' <=> SkewInv
      /\ RestInv' <=> RestInv
      /\ OwnInv' <=> OwnInv
  BY <1>1 DEF SkewInv, RestInv, OwnInv, Live, Joining
<1>4. \A f, c \in Node :
        /\ Live(f)' <=> Live(f)
        /\ HeardOf(f, c)' <=> HeardOf(f, c)
        /\ Targets(f, c)' <=> Targets(f, c)
        /\ Joining(f)' <=> Joining(f)
  BY <1>1 DEF Live, Joining, HeardOf, Targets
<1>5. /\ SilentInv' <=> SilentInv
      /\ OrderInv' <=> OrderInv
      /\ AgreeInv' <=> AgreeInv
  BY <1>1, <1>4 DEF SilentInv, OrderInv, AgreeInv
<1> QED
  BY <1>2, <1>3, <1>5 DEF FormationInv

LEMMA FormationInvariant == Spec => []FormationInv
<1>1. ASSUME TypeOK, FormationInv, [Next]_vars  PROVE FormationInv'
  BY <1>1, StepFormation, StutterFormation DEF Next
<1> QED
  BY <1>1, InitFormation, FormationTypeOK, PTL DEF Spec

\* A follower's slot is the one its clusterhead has recorded for it, for any
\* number of nodes and rounds, whatever was lost, repeated, delayed into a later
\* phase or sent again in a later superframe.
THEOREM FormationAssignmentAgrees == Spec => []AssignmentAgrees
<1>1. FormationInv => AssignmentAgrees
  BY DEF FormationInv, AgreeInv, AssignmentAgrees
<1> QED
  BY <1>1, FormationInvariant, PTL

\* Whoever a node follows acts as a clusterhead for the whole superframe.
THEOREM FormationFollowedActs == Spec => []FollowedActsAsClusterhead
<1>1. FormationInv => FollowedActsAsClusterhead
  BY DEF FormationInv, AgreeInv, RoleInv, FollowedActsAsClusterhead
<1> QED
  BY <1>1, FormationInvariant, PTL

-----------------------------------------------------------------------------
(* Following leads closer to the gateway.  A node compares its ring with    *)
(* the one a clusterhead announced, so what it heard must still be true.  It *)
(* is where an announcement cannot outlive its superframe in the transmit   *)
(* buffer, or tells of a ring that does not change.                         *)

Settled == \A n \in Node : \A g, h \in Rings[n] : g = h

\* The announcements of c in the sequence q tell of ring g.
Tells(q, c, g) == \A i \in DOMAIN q : q[i].type = "OpenCluster" /\ q[i].src = c => q[i].ring = g

KnownAs(cand, c, g) == cand.addr = c => cand.ring = g

BufferInv ==
    \A n \in Node :
        /\ Live(n) => ring[n] \in Rings[n]
        /\ Tells(tx[n], n, ring[n])
        /\ tx[n] # <<>> => FlushFails /\ ring[n] \in Rings[n]

KnownInv ==
    \A f, c \in Node : Live(f) =>
        /\ Tells(rx[f], c, ring[c])
        /\ \A i \in DOMAIN inbox[f] : Tells(inbox[f][i], c, ring[c])
        /\ KnownAs(cands[f][1], c, ring[c]) /\ KnownAs(cands[f][2], c, ring[c])
        /\ KnownAs(join[f].target, c, ring[c])

\* A node volunteers in the round of its ring.
VolunteerInv == \A n \in Node : bid[n] # "none" \/ isCH[n] => ring[n] < NUM_ADV_ROUNDS

TargetInv ==
    \A n \in Node : join[n].target # NoCandidate =>
        ring[n] = UNKNOWN_RING \/ join[n].target.ring < ring[n]

CloserInv == BufferInv /\ KnownInv /\ VolunteerInv /\ TargetInv /\ FollowsCloser

LEMMA TellsParts ==
    ASSUME NEW q \in Seq(Message), NEW c, NEW g, Tells(q, c, g)
    PROVE  /\ q # <<>> => Tells(Tail(q), c, g)
           /\ q # <<>> /\ Head(q).type = "OpenCluster" /\ Head(q).src = c => Head(q).ring = g
           /\ \A m \in Message : (m.type = "OpenCluster" /\ m.src = c => m.ring = g) =>
                Tells(Append(q, m), c, g)
<1>1. ASSUME NEW m \in Message, m.type = "OpenCluster" /\ m.src = c => m.ring = g
      PROVE  Tells(Append(q, m), c, g)
  <2>1. \A i \in DOMAIN Append(q, m) :
          Append(q, m)[i] = m \/ (i \in DOMAIN q /\ Append(q, m)[i] = q[i])
    OBVIOUS
  <2> QED
    BY <1>1, <2>1 DEF Tells
<1>2. q # <<>> =>
        /\ Tells(Tail(q), c, g)
        /\ Head(q).type = "OpenCluster" /\ Head(q).src = c => Head(q).ring = g
  <2> SUFFICES ASSUME q # <<>>
               PROVE  /\ Tells(Tail(q), c, g)
                      /\ Head(q).type = "OpenCluster" /\ Head(q).src = c => Head(q).ring = g
    OBVIOUS
  <2>1. /\ Head(q) = q[1] /\ 1 \in DOMAIN q
        /\ \A i \in DOMAIN Tail(q) : i + 1 \in DOMAIN q /\ Tail(q)[i] = q[i + 1]
    BY HeadTailAt, Zenon
  <2> QED
    BY <2>1 DEF Tells
<1> QED
  BY <1>1, <1>2

LEMMA TellsNothing == \A c, g : Tells(<<>>, c, g)
  BY DEF Tells

\* What a step does to the announcements on their way.
Reports(n) ==
    /\ \A k \in Node \ {n} : tx'[k] = tx[k]
    /\ Tells(tx'[n], n, ring[n])
    /\ tx'[n] # <<>> => FlushFails \/ tx'[n] = tx[n]
    /\ \A f \in Node :
         \/ inbox'[f] = inbox[f]
         \/ \E q \in Seq(Message) :
              inbox'[f] = Append(inbox[f], q) /\ \A c \in Node : Tells(q, c, ring[c])

LEMMA FlushReports ==
    ASSUME TypeOK, OwnInv, BufferInv, NEW n \in Node, NEW m \in Message, m.src = n,
           m.type = "OpenCluster" => m.ring = ring[n],
           NEW q, q = Append(tx[n], m) \/ q = Queued(tx[n], m),
           Flushed(n, q) \/ NotFlushed(n, q)
    PROVE  Reports(n)
<1>1. tx[n] \in Seq(Message) /\ (q = tx[n] \/ q = Append(tx[n], m)) /\ Tells(tx[n], n, ring[n])
  BY DEF TypeOK, Queued, BufferInv
<1>2. q \in Seq(Message) /\ Tells(q, n, ring[n])
  <2>1. CASE q = tx[n]
    BY <1>1, <2>1
  <2>2. CASE q = Append(tx[n], m)
    <3>1. Tells(Append(tx[n], m), n, ring[n])
      BY <1>1, TellsParts
    <3> QED
      BY <1>1, <2>2, <3>1
  <2> QED
    BY <1>1, <2>1, <2>2
<1>3. \A i \in DOMAIN q : q[i].src = n
  BY <1>1 DEF OwnInv
<1>4. \A c \in Node : Tells(q, c, ring[c])
  BY <1>2, <1>3 DEF Tells
<1>5. CASE Flushed(n, q)
  <2>1. tx' = [tx EXCEPT ![n] = <<>>] /\ Delivered(n, q)
    BY <1>5 DEF Flushed
  <2>2. tx'[n] = <<>> /\ \A k \in Node \ {n} : tx'[k] = tx[k]
    BY <2>1 DEF TypeOK
  <2>3. \A f \in Node : inbox'[f] = inbox[f] \/ inbox'[f] = Append(inbox[f], q)
    BY <2>1 DEF Delivered
  <2> QED
    BY <1>2, <1>4, <2>2, <2>3, TellsNothing DEF Reports
<1>6. CASE NotFlushed(n, q)
  <2>1. /\ tx'[n] = q /\ FlushFails /\ inbox' = inbox
        /\ \A k \in Node \ {n} : tx'[k] = tx[k]
    BY <1>6 DEF NotFlushed, TypeOK
  <2> QED
    BY <1>2, <2>1 DEF Reports
<1> QED
  BY <1>5, <1>6

LEMMA InSlotReports ==
    ASSUME TypeOK, OwnInv, BufferInv, NEW n \in Node, InSlot(n), ~Recv(n)
    PROVE  Reports(n)
<1>1. CASE Announce(n)
  <2>1. OpenCluster(n) \in Message /\ OpenCluster(n).src = n /\ OpenCluster(n).ring = ring[n]
    BY DEF OpenCluster, Message, TypeOK
  <2>2. Flushed(n, Append(tx[n], OpenCluster(n))) \/ NotFlushed(n, Append(tx[n], OpenCluster(n)))
    BY <1>1 DEF Announce
  <2> QED
    BY <2>1, <2>2, FlushReports
<1>2. CASE SendFollow(n) /\ join[n].target # NoCandidate
  <2> DEFINE m == Follow(n, join[n].target.addr)
  <2>1. m \in Message /\ m.src = n /\ m.type # "OpenCluster"
    <3>1. join[n].target \in Candidate
      BY DEF TypeOK, Joiners
    <3> QED
      BY <1>2, <3>1 DEF Message, Follow, Candidate
  <2>2. Flushed(n, Queued(tx[n], m)) \/ NotFlushed(n, Queued(tx[n], m))
    BY <1>2 DEF SendFollow
  <2> HIDE DEF m
  <2> QED
    BY <2>1, <2>2, FlushReports
<1>3. CASE HearFollow(n)
  <2> DEFINE table == Granted(slots[n], Head(rx[n]).src)
             ans == Accept(n, Head(rx[n]).src, SlotOf(table, Head(rx[n]).src))
  <2>1. Flushed(n, Queued(tx[n], ans)) \/ NotFlushed(n, Queued(tx[n], ans))
    BY <1>3 DEF HearFollow
  <2>2. ans.src = n /\ ans.type # "OpenCluster"
    BY DEF Accept
  <2>3. ans \in Message
    <3>1. Head(rx[n]).src \in Node
      BY <1>3, HeadType, MessageType DEF HearFollow
    <3>2. SlotOf(table, Head(rx[n]).src) \in 0 .. vtdma_window_size - 1
      BY <3>1, GrantedType, SlotOfType DEF TypeOK
    <3> HIDE DEF table
    <3> QED
      BY <3>1, <3>2 DEF Accept, Message
  <2> HIDE DEF ans
  <2> QED
    BY <2>1, <2>2, <2>3, FlushReports
<1>4. CASE tx' = tx /\ inbox' = inbox
  BY <1>4 DEF Reports, BufferInv
<1>5. CASE SendFollow(n) /\ join[n].target = NoCandidate
  BY <1>4, <1>5 DEF SendFollow
<1>6. CASE \/ HearAnnouncement(n) \/ EndAnnouncement(n) \/ Join(n) \/ Refused(n)
           \/ IgnoreInJoining(n) \/ EndJoining(n)
  BY <1>4, <1>6 DEF HearAnnouncement, EndAnnouncement, Join, Refused, IgnoreInJoining, EndJoining,
             radio
<1> QED
  BY <1>1, <1>2, <1>3, <1>5, <1>6 DEF InSlot

LEMMA InSlotRing == ASSUME NEW n \in Node, InSlot(n) PROVE ring' = ring
  BY DEF InSlot, Recv, Announce, HearAnnouncement, EndAnnouncement, SendFollow, HearFollow, Join,
         Refused, IgnoreInJoining, EndJoining, state

LEMMA InSlotBuffer ==
    ASSUME TypeOK, OwnInv, BufferInv, NEW n \in Node, InSlot(n), Reads(n)
    PROVE  BufferInv'
<1>1. ring' = ring /\ Live(n) /\ \A k \in Node \ {n} : (Live(k)' <=> Live(k))
  BY InSlotRing DEF Reads, Live
<1>2. CASE Recv(n)
  <2>1. tx' = tx
    BY <1>2 DEF Recv
  <2> QED
    BY <1>1, <2>1 DEF BufferInv
<1>3. CASE ~Recv(n)
  <2>1. Reports(n)
    BY <1>3, InSlotReports
  <2> QED
    BY <1>1, <2>1 DEF BufferInv, Reports
<1> QED
  BY <1>2, <1>3

\* The candidates of a node, and the target it picks from them.
LEMMA CandidatesKnown ==
    ASSUME TypeOK, RestInv, NEW n \in Node, InSlot(n), NEW c \in Node, NEW g,
           Tells(rx[n], c, g), KnownAs(cands[n][1], c, g), KnownAs(cands[n][2], c, g),
           KnownAs(join[n].target, c, g)
    PROVE  /\ KnownAs(cands'[n][1], c, g) /\ KnownAs(cands'[n][2], c, g)
           /\ KnownAs(join'[n].target, c, g)
<1>0. KnownAs(NoCandidate, c, g)
  BY NobodyIsUnknown DEF KnownAs
<1>1. CASE HearAnnouncement(n)
  <2> DEFINE m == Head(rx[n])
             new == [addr |-> m.src, ring |-> m.ring]
  <2>1. m \in Message /\ rx[n] \in Seq(Message) /\ rx[n] # <<>>
    BY <1>1, HeadType DEF HearAnnouncement, TypeOK
  <2>2. /\ join' = join
        /\ \/ cands' = cands
           \/ m.type = "OpenCluster" /\ cands' = [cands EXCEPT ![n] = update(cands[n], new)]
    BY <1>1 DEF HearAnnouncement
  <2>3. CASE cands' = cands
    BY <2>2, <2>3
  <2>4. CASE m.type = "OpenCluster" /\ cands' = [cands EXCEPT ![n] = update(cands[n], new)]
    <3>1. new \in Candidate
      BY <2>1, <2>4, MessageType DEF Candidate
    <3>2. KnownAs(new, c, g)
      BY <2>1, <2>4, TellsParts DEF KnownAs
    <3>3. cands[n] \in Candidate \X Candidate /\ cands'[n] = update(cands[n], new)
      BY <2>4 DEF TypeOK
    <3> HIDE DEF new
    <3>4. /\ cands'[n][1] \in {new, cands[n][1], cands[n][2]}
          /\ cands'[n][2] \in {new, cands[n][1], cands[n][2]}
      BY <3>1, <3>3, UpdateAddr
    <3> QED
      BY <2>2, <3>2, <3>4, Zenon
  <2> QED
    BY <2>2, <2>3, <2>4
<1>2. CASE EndAnnouncement(n)
  <2>1. cands' = cands
    BY <1>2 DEF EndAnnouncement
  <2>2. join'[n] = Joiner(Eligible(n, cands[n][1]), acts_as_follower(n))
    BY <1>2 DEF EndAnnouncement, TypeOK
  <2>3. join'[n].target \in {cands[n][1], NoCandidate}
    BY <2>2, EligibleAddr, NobodyIsUnknown
  <2> QED
    BY <1>0, <2>1, <2>3
<1>3. CASE SendFollow(n) \/ Join(n)
  <2>1. cands' = cands
    BY <1>3 DEF SendFollow, Join
  <2>2. \/ join'[n] = [join[n] EXCEPT !.try = FALSE]
        \/ join'[n] = [join[n] EXCEPT !.joined = TRUE]
    BY <1>3 DEF SendFollow, Join, TypeOK
  <2>3. join[n] \in Joiners
    BY DEF TypeOK
  <2>4. join'[n].target = join[n].target
    BY <2>2, <2>3 DEF Joiners
  <2> QED
    BY <2>1, <2>4
<1>4. CASE Refused(n)
  <2>1. cands' = cands
    BY <1>4 DEF Refused
  <2>2. join'[n].target \in {join[n].target, Eligible(n, cands[n][2])}
    BY <1>4 DEF Refused, TypeOK
  <2>3. join'[n].target \in {join[n].target, cands[n][2], NoCandidate}
    BY <2>2, EligibleAddr
  <2> QED
    BY <1>0, <2>1, <2>3
<1>5. CASE EndJoining(n)
  <2>1. cands'[n] = NoCands /\ join'[n] = NoJoin
    BY <1>5 DEF EndJoining, TypeOK
  <2> QED
    BY <1>0, <2>1, NobodyIsUnknown
<1>6. CASE Recv(n) \/ Announce(n) \/ HearFollow(n) \/ IgnoreInJoining(n)
  BY <1>6 DEF Recv, Announce, HearFollow, IgnoreInJoining, locals
<1> QED
  BY <1>1, <1>2, <1>3, <1>4, <1>5, <1>6 DEF InSlot

LEMMA InSlotKnown ==
    ASSUME TypeOK, RestInv, OwnInv, BufferInv, KnownInv, NEW n \in Node, InSlot(n), Reads(n)
    PROVE  KnownInv'
<1> SUFFICES ASSUME NEW f \in Node, NEW c \in Node, Live(f)'
             PROVE  /\ Tells(rx'[f], c, ring'[c])
                    /\ \A i \in DOMAIN inbox'[f] : Tells(inbox'[f][i], c, ring'[c])
                    /\ KnownAs(cands'[f][1], c, ring'[c]) /\ KnownAs(cands'[f][2], c, ring'[c])
                    /\ KnownAs(join'[f].target, c, ring'[c])
  BY DEF KnownInv
<1>1. ring' = ring /\ Live(f)
  BY InSlotRing, StillLive
<1>2. /\ Tells(rx[f], c, ring[c])
      /\ \A i \in DOMAIN inbox[f] : Tells(inbox[f][i], c, ring[c])
      /\ KnownAs(cands[f][1], c, ring[c]) /\ KnownAs(cands[f][2], c, ring[c])
      /\ KnownAs(join[f].target, c, ring[c])
  BY <1>1 DEF KnownInv
<1>3. /\ KnownAs(cands'[f][1], c, ring[c]) /\ KnownAs(cands'[f][2], c, ring[c])
      /\ KnownAs(join'[f].target, c, ring[c])
  <2>1. CASE f = n
    BY <1>2, <2>1, CandidatesKnown
  <2>2. CASE f # n
    BY <1>2, <2>2 DEF Reads
  <2> QED
    BY <2>1, <2>2
<1>4. Tells(rx'[f], c, ring[c])
  <2>1. CASE Recv(n) /\ f = n
    BY <1>2, <2>1, RecvFrames
  <2>2. CASE f # n
    BY <1>2, <2>2 DEF Reads
  <2>3. CASE ~Recv(n) /\ f = n
    <3>1. \/ rx'[n] = rx[n] \/ rx'[n] = <<>>
          \/ rx[n] # <<>> /\ rx'[n] = Tail(rx[n])
      BY <2>3 DEF InSlot, Announce, HearAnnouncement, EndAnnouncement, SendFollow, HearFollow, Join,
             AnswerAwaited, Refused, IgnoreInJoining, EndJoining, radio, TypeOK
    <3>2. rx[n] \in Seq(Message)
      BY DEF TypeOK
    <3> QED
      BY <1>2, <2>3, <3>1, <3>2, TellsParts, TellsNothing
  <2> QED
    BY <2>1, <2>2, <2>3
<1>5. ASSUME NEW i \in DOMAIN inbox'[f]
      PROVE  Tells(inbox'[f][i], c, ring[c])
  <2>0. inbox[f] \in Seq(Seq(Message))
    BY DEF TypeOK
  <2>1. CASE Recv(n) /\ f = n
    BY <1>2, <1>5, <2>1, RecvFrames
  <2>2. CASE Recv(n) /\ f # n
    BY <1>2, <1>5, <2>2, RecvFrames
  <2>3. CASE ~Recv(n) /\ inbox'[f] # inbox[f]
    <3>1. PICK q \in Seq(Message) :
            inbox'[f] = Append(inbox[f], q) /\ \A d \in Node : Tells(q, d, ring[d])
      BY <2>3, InSlotReports DEF Reports
    <3>2. inbox'[f][i] = q \/ (i \in DOMAIN inbox[f] /\ inbox'[f][i] = inbox[f][i])
      BY <1>5, <2>0, <3>1
    <3> QED
      BY <1>2, <3>1, <3>2
  <2>4. CASE inbox'[f] = inbox[f]
    BY <1>2, <1>5, <2>4
  <2> QED
    BY <2>1, <2>2, <2>3, <2>4
<1> QED
  BY <1>1, <1>3, <1>4, <1>5

\* Who volunteers does so in the round of its ring.
LEMMA BeginVolunteer ==
    ASSUME TypeOK, NEW n \in Node, NEW r, NEW g, NEW w, NEW ch,
           BeginAnnouncement(n, r, g, w, ch), bid'[n] # "none"
    PROVE  g = r
<1>1. PICK volunteer \in IF g # r THEN {FALSE}
                         ELSE IF w = "Gateway" THEN {TRUE} ELSE announce_clusterhead(n, g) :
        bid' = [bid EXCEPT ![n] = IF volunteer /\ ~ch THEN "pending"
                                 ELSE IF volunteer THEN "made" ELSE "none"]
  BY Zenon DEF BeginAnnouncement
<1>2. bid'[n] = IF volunteer /\ ~ch THEN "pending" ELSE IF volunteer THEN "made" ELSE "none"
  BY <1>1 DEF TypeOK
<1>3. volunteer
  BY <1>2
<1> QED
  BY <1>1, <1>3

LEMMA InSlotVolunteer ==
    ASSUME TypeOK, VolunteerInv, NEW n \in Node, InSlot(n)
    PROVE  VolunteerInv'
<1>1. ring' = ring
  BY InSlotRing
<1>2. CASE EndJoining(n)
  <2>1. isCH' = isCH
    BY <1>2 DEF EndJoining
  <2>2. CASE phase[n] + 1 = DATA
    BY <1>1, <1>2, <2>1, <2>2 DEF EndJoining, VolunteerInv
  <2>3. CASE phase[n] + 1 # DATA
    <3> DEFINE r == (phase[n] + 1) \div 2
    <3>1. BeginAnnouncement(n, r, ring[n], role[n], isCH[n])
      BY <1>2, <2>3 DEF EndJoining
    <3>2. r < NUM_ADV_ROUNDS
      <4>1. phase[n] \in Nat /\ phase[n] < DATA /\ phase[n] + 1 # DATA
        BY <1>2, <2>3, PhaseStep, DataType, SMTT(30) DEF EndJoining, Live, TypeOK
      <4>2. NUM_ADV_ROUNDS \in Nat /\ phase[n] + 1 < 2 * NUM_ADV_ROUNDS
        BY <4>1, RoundAssumption DEF DATA, UNKNOWN_RING
      <4> QED
        BY <4>1, <4>2
    <3>3. bid'[n] # "none" => ring[n] < NUM_ADV_ROUNDS
      <4> HIDE DEF r
      <4> QED
        BY <3>1, <3>2, BeginVolunteer
    <3>4. \A k \in Node \ {n} : bid'[k] = bid[k]
      <4>1. role[n] \in Roles /\ isCH[n] \in BOOLEAN
        BY DEF TypeOK, Roles
      <4> HIDE DEF r
      <4> QED
        BY <3>1, <4>1, BeginShape
    <3> QED
      BY <1>1, <2>1, <3>3, <3>4 DEF VolunteerInv
  <2> QED
    BY <2>2, <2>3
<1>3. CASE EndAnnouncement(n)
  BY <1>1, <1>3 DEF EndAnnouncement, VolunteerInv, TypeOK
<1>4. CASE Announce(n)
  <2>1. isCH' = isCH /\ bid[n] = "pending" /\ \A k \in Node \ {n} : bid'[k] = bid[k]
    BY <1>4 DEF Announce, TypeOK
  <2> QED
    BY <1>1, <2>1 DEF VolunteerInv
<1>5. CASE HearAnnouncement(n)
  <2>1. isCH' = isCH /\ \A k \in Node : bid'[k] \in {bid[k], "none"}
    BY <1>5 DEF HearAnnouncement, TypeOK
  <2> QED
    BY <1>1, <2>1 DEF VolunteerInv
<1>6. CASE \/ Recv(n) \/ SendFollow(n) \/ HearFollow(n) \/ Join(n) \/ Refused(n)
           \/ IgnoreInJoining(n)
  <2>1. isCH' = isCH /\ bid' = bid
    BY <1>6 DEF Recv, SendFollow, HearFollow, Join, Refused, IgnoreInJoining, locals
  <2> QED
    BY <1>1, <2>1 DEF VolunteerInv
<1> QED
  BY <1>2, <1>3, <1>4, <1>5, <1>6 DEF InSlot

LEMMA EligibleCloser ==
    ASSUME TypeOK, NEW n \in Node, NEW c \in Candidate, Eligible(n, c) # NoCandidate
    PROVE  ring[n] = UNKNOWN_RING \/ Eligible(n, c).ring < ring[n]
<1>1. ring[n] \in Nat
  <2>1. ring[n] \in 0 .. UNKNOWN_RING
    BY DEF TypeOK
  <2> QED
    BY <2>1 DEF UNKNOWN_RING
<1>2. c.ring \in Nat
  <2>1. c = NoCandidate \/ c.ring \in 0 .. UNKNOWN_RING
    BY DEF Candidate
  <2>2. NoCandidate.ring = UNKNOWN_RING
    BY DEF NoCandidate
  <2> QED
    BY <2>1, <2>2 DEF UNKNOWN_RING
<1> QED
  BY <1>1, <1>2 DEF Eligible

LEMMA InSlotTarget ==
    ASSUME TypeOK, TargetInv, NEW n \in Node, InSlot(n), Reads(n)
    PROVE  TargetInv'
<1>1. ring' = ring /\ \A k \in Node \ {n} : join'[k] = join[k]
  BY InSlotRing DEF Reads
<1>2. cands[n][1] \in Candidate /\ cands[n][2] \in Candidate
  BY DEF TypeOK
<1>3. /\ join'[n].target # NoCandidate
      => ring[n] = UNKNOWN_RING \/ join'[n].target.ring < ring[n]
  <2>1. CASE EndAnnouncement(n)
    <3>1. join'[n] = Joiner(Eligible(n, cands[n][1]), acts_as_follower(n))
      BY <2>1 DEF EndAnnouncement, TypeOK
    <3>2. join'[n].target = Eligible(n, cands[n][1])
      BY <3>1, NobodyIsUnknown
    <3> QED
      BY <1>2, <3>2, EligibleCloser
  <2>2. CASE Refused(n)
    <3>1. join'[n].target = join[n].target \/ join'[n].target = Eligible(n, cands[n][2])
      BY <2>2 DEF Refused, TypeOK
    <3> QED
      BY <1>2, <3>1, EligibleCloser DEF TargetInv
  <2>3. CASE EndJoining(n)
    <3>1. join'[n] = NoJoin
      BY <2>3 DEF EndJoining, TypeOK
    <3> QED
      BY <3>1, NobodyIsUnknown
  <2>4. CASE SendFollow(n) \/ Join(n)
    <3>1. join'[n].target = join[n].target
      BY <2>4 DEF SendFollow, Join, TypeOK, Joiners
    <3> QED
      BY <3>1 DEF TargetInv
  <2>5. CASE \/ Recv(n) \/ Announce(n) \/ HearAnnouncement(n) \/ HearFollow(n)
             \/ IgnoreInJoining(n)
    <3>1. join' = join
      BY <2>5 DEF Recv, Announce, HearAnnouncement, HearFollow, IgnoreInJoining, locals
    <3> QED
      BY <3>1 DEF TargetInv
  <2> QED
    BY <2>1, <2>2, <2>3, <2>4, <2>5 DEF InSlot
<1> QED
  BY <1>1, <1>3 DEF TargetInv

\* Whoever joins has heard of a clusterhead that volunteered, and in which ring.
LEMMA InSlotCloser ==
    ASSUME TypeOK, VolunteerInv, KnownInv, TargetInv, FollowsCloser, AgreeInv',
           NEW n \in Node, InSlot(n), Reads(n), VolunteerInv'
    PROVE  FollowsCloser'
<1> SUFFICES ASSUME NEW f \in Node, NEW c \in Node, parent'[f] = c, parity'[f] = parity'[c]
             PROVE  ring'[c] < ring'[f]
  BY DEF FollowsCloser
<1>1. ring' = ring /\ parity' = parity
  BY InSlotRing DEF Reads
<1>2. CASE parent'[f] = parent[f]
  BY <1>1, <1>2 DEF FollowsCloser
<1>3. CASE parent'[f] # parent[f]
  <2>1. f = n /\ Live(n)
    BY <1>3 DEF Reads
  <2>2. parent' # parent => Join(n)
    BY DEF InSlot, Recv, Announce, HearAnnouncement, EndAnnouncement, SendFollow, HearFollow,
           Refused, IgnoreInJoining, EndJoining, state
  <2>3. c = join[n].target.addr
    BY <1>3, <2>1, <2>2 DEF Join, TypeOK
  <2>4. join[n].target.ring = ring[c]
    BY <2>1, <2>3 DEF KnownInv, KnownAs
  <2>5. isCH'[c]
    BY DEF AgreeInv
  <2>6. ring[c] < NUM_ADV_ROUNDS
    BY <1>1, <2>5 DEF VolunteerInv
  <2>7. join[n].target # NoCandidate
    BY <2>3, NobodyIsUnknown
  <2>8. ring[n] = UNKNOWN_RING \/ ring[c] < ring[n]
    BY <2>4, <2>7 DEF TargetInv
  <2>9. ring[c] \in Nat
    BY DEF TypeOK
  <2> QED
    BY <1>1, <2>1, <2>6, <2>8, <2>9, RoundAssumption DEF UNKNOWN_RING
<1> QED
  BY <1>2, <1>3

LEMMA AdvertiseRing ==
    ASSUME TypeOK, NEW n \in Node, Advertise(n)
    PROVE  ring'[n] \in Rings[n] /\ \A k \in Node \ {n} : ring'[k] = ring[k]
<1>1. PICK g \in Rings[n] : ring' = [ring EXCEPT ![n] = g]
  BY Zenon DEF Advertise
<1> QED
  BY <1>1 DEF TypeOK

LEMMA AdvertiseBuffer ==
    ASSUME TypeOK, SkewInv, RestInv, OwnInv, BufferInv, Settled \/ ~FlushFails,
           NEW n \in Node, Advertise(n)
    PROVE  BufferInv'
<1>1. \A k \in Node \ {n} : ring'[k] = ring[k] /\ tx'[k] = tx[k] /\ (Live(k)' <=> Live(k))
  BY AdvertiseRing, AdvertiseShape DEF Live
<1>2. ring'[n] \in Rings[n] /\ (tx'[n] = tx[n] \/ tx'[n] = <<>>)
  BY AdvertiseRing, AdvertiseShape
<1>3. tx[n] # <<>> => FlushFails /\ ring'[n] = ring[n]
  BY <1>2 DEF BufferInv, Settled
<1>4. Tells(tx'[n], n, ring'[n]) /\ (tx'[n] # <<>> => FlushFails)
  <2>1. CASE tx'[n] = <<>>
    BY <2>1, TellsNothing
  <2>2. CASE tx'[n] = tx[n] /\ tx[n] # <<>>
    BY <1>3, <2>2 DEF BufferInv
  <2> QED
    BY <1>2, <2>1, <2>2
<1> QED
  BY <1>1, <1>2, <1>4 DEF BufferInv

LEMMA AdvertiseKnown ==
    ASSUME TypeOK, SkewInv, RestInv, SilentInv, KnownInv, NEW n \in Node, Advertise(n)
    PROVE  KnownInv'
<1> SUFFICES ASSUME NEW f \in Node, NEW c \in Node, Live(f)'
             PROVE  /\ Tells(rx'[f], c, ring'[c])
                    /\ \A i \in DOMAIN inbox'[f] : Tells(inbox'[f][i], c, ring'[c])
                    /\ KnownAs(cands'[f][1], c, ring'[c]) /\ KnownAs(cands'[f][2], c, ring'[c])
                    /\ KnownAs(join'[f].target, c, ring'[c])
  BY DEF KnownInv
<1>1. CASE f = n \/ c = n
  <2>1. ~HeardOf(f, c)'
    BY <1>1, AdvertiseUnheard
  <2> QED
    BY <2>1 DEF HeardOf, Mentions, Targets, Tells, KnownAs
<1>2. CASE f # n /\ c # n
  <2>1. /\ Live(f) /\ inbox'[f] = inbox[f] /\ rx'[f] = rx[f]
        /\ cands'[f] = cands[f] /\ join'[f] = join[f] /\ ring'[c] = ring[c]
    BY <1>2, AdvertiseShape, AdvertiseRing DEF Live
  <2> QED
    BY <2>1 DEF KnownInv
<1> QED
  BY <1>1, <1>2

LEMMA AdvertiseVolunteer ==
    ASSUME TypeOK, SkewInv, RestInv, VolunteerInv, NEW n \in Node, Advertise(n)
    PROVE  VolunteerInv'
<1>1. PICK g \in Rings[n] :
        ring' = [ring EXCEPT ![n] = g] /\ BeginAnnouncement(n, 0, g, BaseRole(n), FALSE)
  BY Zenon DEF Advertise
<1>2. ring'[n] = g /\ isCH'[n] = FALSE /\ \A k \in Node \ {n} : ring'[k] = ring[k]
  BY <1>1 DEF Advertise, TypeOK
<1>3. bid'[n] # "none" => g = 0
  BY <1>1, BeginVolunteer
<1>4. \A k \in Node \ {n} : bid'[k] = bid[k] /\ isCH'[k] = isCH[k]
  BY <1>1, BaseRoleType, BeginShape, AdvertiseShape
<1>5. 0 < NUM_ADV_ROUNDS
  BY RoundAssumption DEF UNKNOWN_RING
<1> QED
  BY <1>2, <1>3, <1>4, <1>5 DEF VolunteerInv

LEMMA AdvertiseTarget ==
    ASSUME TypeOK, SkewInv, RestInv, TargetInv, NEW n \in Node, Advertise(n)
    PROVE  TargetInv'
  BY AdvertiseShape, AdvertiseRing, NobodyIsUnknown DEF TargetInv

LEMMA AdvertiseCloser ==
    ASSUME TypeOK, SkewInv, RestInv, SilentInv, FollowsCloser, NEW n \in Node, Advertise(n)
    PROVE  FollowsCloser'
<1> SUFFICES ASSUME NEW f \in Node, NEW c \in Node, parent'[f] = c, parity'[f] = parity'[c]
             PROVE  ring'[c] < ring'[f]
  BY DEF FollowsCloser
<1>1. f # n /\ parent[f] = c /\ c # n
  BY AdvertiseParent
<1>2. parity[f] = parity[c] /\ ring'[f] = ring[f] /\ ring'[c] = ring[c]
  <2>1. parity'[f] = parity[f] /\ parity'[c] = parity[c]
    BY <1>1, AdvertiseShape
  <2> QED
    BY <1>1, <2>1, AdvertiseRing
<1> QED
  BY <1>1, <1>2 DEF FollowsCloser

LEMMA InitCloser == Init => CloserInv
<1> SUFFICES ASSUME Init  PROVE CloserInv
  OBVIOUS
<1>1. \A n \in Node : /\ ~Live(n) /\ parent[n] = UNKNOWN_ADDR /\ tx[n] = <<>> /\ join[n] = NoJoin
                      /\ bid[n] = "none" /\ isCH[n] = FALSE
  BY DEF Init, Live
<1> QED
  BY <1>1, NobodyIsUnknown, TellsNothing
     DEF CloserInv, BufferInv, KnownInv, VolunteerInv, TargetInv, FollowsCloser

LEMMA StepCloser ==
    ASSUME TypeOK, FormationInv, FormationInv', CloserInv, Settled \/ ~FlushFails,
           NEW n \in Node, Step(n)
    PROVE  CloserInv'
<1>1. /\ SkewInv /\ RestInv /\ OwnInv /\ SilentInv /\ AgreeInv'
      /\ BufferInv /\ KnownInv /\ VolunteerInv /\ TargetInv /\ FollowsCloser
  BY DEF FormationInv, CloserInv
<1>2. CASE Advertise(n)
  <2>1. BufferInv' /\ KnownInv'
    BY <1>1, <1>2, AdvertiseBuffer, AdvertiseKnown
  <2>2. VolunteerInv' /\ TargetInv' /\ FollowsCloser'
    BY <1>1, <1>2, AdvertiseVolunteer, AdvertiseTarget, AdvertiseCloser
  <2> QED
    BY <2>1, <2>2 DEF CloserInv
<1>3. CASE InSlot(n)
  <2>1. Reads(n)
    BY <1>1, <1>3, InSlotReads
  <2>2. BufferInv' /\ KnownInv' /\ VolunteerInv' /\ TargetInv'
    BY <1>1, <1>3, <2>1, InSlotBuffer, InSlotKnown, InSlotVolunteer, InSlotTarget
  <2>3. FollowsCloser'
    BY <1>1, <1>3, <2>1, <2>2, InSlotCloser
  <2> QED
    BY <2>2, <2>3 DEF CloserInv
<1> QED
  BY <1>2, <1>3 DEF Step, InSlot

LEMMA StutterCloser == ASSUME CloserInv, UNCHANGED vars PROVE CloserInv'
<1>1. /\ phase' = phase /\ parity' = parity /\ ring' = ring /\ parent' = parent /\ isCH' = isCH
      /\ cands' = cands /\ bid' = bid /\ join' = join /\ tx' = tx /\ inbox' = inbox /\ rx' = rx
  BY DEF vars, state, locals, radio
<1>2. /\ BufferInv' <=> BufferInv
      /\ KnownInv' <=> KnownInv
  BY <1>1 DEF BufferInv, KnownInv, Live
<1>3. /\ VolunteerInv' <=> VolunteerInv
      /\ TargetInv' <=> TargetInv
      /\ FollowsCloser' <=> FollowsCloser
  BY <1>1 DEF VolunteerInv, TargetInv, FollowsCloser
<1> QED
  BY <1>2, <1>3 DEF CloserInv

\* Following leads strictly closer to the gateway, provided that rings do not
\* change or that a flush does not fail: an announcement kept in the transmit
\* buffer since a superframe with another ring leads its reader astray.
THEOREM FormationFollowsCloser ==
    ASSUME Settled \/ ~FlushFails
    PROVE  Spec => []FollowsCloser
<1>1. ASSUME TypeOK, FormationInv, FormationInv', CloserInv, [Next]_vars  PROVE CloserInv'
  BY <1>1, StepCloser, StutterCloser DEF Next
<1>2. CloserInv => FollowsCloser
  BY DEF CloserInv
<1> QED
  BY <1>1, <1>2, InitCloser, FormationTypeOK, FormationInvariant, PTL DEF Spec

-----------------------------------------------------------------------------
(* Who is left without a slot, where nothing is lost.                       *)

\* Rounds in which nothing is lost, and phases begin together and outlast their
\* work.
Lossless == ~Lossy /\ ~FlushFails /\ Timely /\ MaxSkew = 1 /\ TxCap > 0

\* The messages n sends; the Accept in answer to a Follow is one of them.
Answer(n) ==
    LET m == Head(rx[n]) IN Accept(n, m.src, SlotOf(Granted(slots[n], m.src), m.src))

Emits(n, m) ==
    \/ Announce(n) /\ m = OpenCluster(n)
    \/ SendFollow(n) /\ join[n].target # NoCandidate /\ m = Follow(n, join[n].target.addr)
    \/ HearFollow(n) /\ m = Answer(n)

\* No frame comes while a driver's buffer is full.
Roomy ==
    \A n, k \in Node : \A m \in Message :
        Emits(n, m) /\ InRange(n, k) => Len(inbox[k]) < RxCap

Idle(n) == inbox[n] = <<>> /\ rx[n] = <<>>

\* What a node that is a phase ahead of another has done in its phase: nothing.
Fresh(n) == Idle(n) /\ bid[n] # "made" /\ (~Joining(n) => cands[n] = NoCands)

\* Nodes are at most a phase apart, and one that is behind has nothing to do.
LockInv ==
    \A n, m \in Node : Lead(n, m) <= 1 /\ (Lead(n, m) = 1 => Quiet(m) /\ Fresh(n))

QuietInv ==
    \A n \in Node : /\ ~Live(n) => Quiet(n)
                    /\ ~Live(n) \/ Joining(n) => bid[n] = "none"

\* Clusterheads announce themselves in the round of their ring.
StandInv ==
    \A c \in Node :
        /\ isCH[c] => phase[c] > 2 * ring[c]
        /\ bid[c] # "none" => phase[c] = 2 * ring[c]
        /\ Live(c) => ring[c] \in Rings[c]

\* Every frame is of one message.
Single == {<<m>> : m \in Message}
FrameInv ==
    \A n \in Node : tx[n] = <<>> /\ inbox[n] \in Seq(Single) /\ rx[n] \in Single \cup {<<>>}

\* The messages a node has still to read.
Waiting(n) == {m \in Message : \E i \in DOMAIN inbox[n] : inbox[n][i] = <<m>>}
Reading(n) == {m \in Message : rx[n] = <<m>>}
Msgs(n) == Waiting(n) \cup Reading(n)

Full(c) == Len(slots[c]) = vtdma_window_size - 1

MsgInv ==
    \A n \in Node : \A m \in Msgs(n) :
        /\ InRange(m.src, n)
        /\ m.type = "OpenCluster" => m.ring = ring[m.src] /\ phase[n] = 2 * ring[m.src]
        /\ m.type = "Accept" => isCH[m.src] /\ (~m.accepted => Full(m.src))

\* A node's candidates announced themselves in this round and are heard by it; the
\* second is not the better one.
Current(cand, n) ==
    \A a \in Node : cand.addr = a =>
        /\ InRange(a, n) /\ cand.ring = ring[a] /\ parity[a] = parity[n]
        /\ phase[n] = 2 * ring[a] \/ phase[n] = 2 * ring[a] + 1

CandInv ==
    \A n \in Node : /\ Current(cands[n][1], n) /\ Current(cands[n][2], n)
                    /\ ScoreOf(cands[n][2]) <= ScoreOf(cands[n][1])

\* An announcement n has still to read.
Calls(n, b) == \E m \in Msgs(n) : m.type = "OpenCluster" /\ m.src = b

\* A clusterhead that has not given way is heard by all in its range: it is one
\* of their two candidates, or neither of them is worse.
Stands(c) == bid[c] = "made" \/ isCH[c]

Ranked(best, c) ==
    \/ best[1].addr = c \/ best[2].addr = c
    \/ Score[c] <= ScoreOf(best[1]) /\ Score[c] <= ScoreOf(best[2])

HeardInv ==
    \A n, c \in Node :
        /\ Stands(c) /\ InRange(c, n) /\ parity[n] = parity[c]
        /\ phase[n] = 2 * ring[c] \/ phase[n] = 2 * ring[c] + 1
        => Calls(n, c) \/ Ranked(cands[n], c)

\* A request under way, and its answer.
Asks(n, c) == \E m \in Msgs(c) : m.type = "Follow" /\ m.src = n /\ m.clusterhead = c
Answers(n, c) == \E m \in Msgs(n) : m.type = "Accept" /\ m.src = c /\ m.follower = n
Seeks(n, c) ==
    /\ join[n].target.addr = c /\ ~join[n].joined
    /\ join[n].try \/ Asks(n, c) \/ Answers(n, c)

\* In the joining phase of a ring closer to the gateway a node asks its best
\* candidate; once that one has refused it, full, the second.  One that stands
\* and hears it leaves it no choice but to follow, to be refused or to wait for an
\* answer that is under way.
Exhausted(c) == c \in Node /\ isCH[c] /\ Full(c)

Outer(n) == Joining(n) /\ phase[n] < 2 * ring[n]

Aims(n) ==
    IF join[n].triedSecond
    THEN join[n].target = cands[n][2] /\ Exhausted(cands[n][1].addr)
    ELSE join[n].target = cands[n][1]

Heeded(n, c) ==
    parent[n] # UNKNOWN_ADDR \/ Seeks(n, c) \/ (join[n].triedSecond /\ Full(c))

JoinInv ==
    \A n \in Node : Outer(n) =>
        /\ Aims(n)
        /\ \A c \in Node :
              join[n].target.addr = c /\ Stands(c) /\ InRange(n, c) => Heeded(n, c)

PaceInv == LockInv /\ QuietInv /\ StandInv /\ FrameInv
FlowInv == MsgInv /\ CandInv /\ HeardInv /\ JoinInv

-----------------------------------------------------------------------------
(* Where the nodes are when one of them speaks, or ends its phase.          *)

LEMMA PhaseIs ==
    ASSUME TypeOK, NEW n \in Node
    PROVE  /\ phase[n] \in Nat /\ phase[n] <= DATA /\ parity[n] \in {0, 1} /\ ring[n] \in Nat
           /\ Live(n) <=> phase[n] < DATA
           /\ Joining(n) => Live(n) /\ ~Announcing(n)
           /\ Announcing(n) => Live(n) /\ ~Joining(n)
           /\ Live(n) => Joining(n) \/ Announcing(n)
<1>1. /\ phase[n] \in Nat /\ phase[n] <= DATA /\ parity[n] \in {0, 1} /\ ring[n] \in Nat
      /\ DATA \in Nat
  <2>1. DATA \in Nat /\ phase[n] \in 0 .. DATA /\ ring[n] \in 0 .. 255 /\ parity[n] \in {0, 1}
    BY DataType DEF TypeOK, UNKNOWN_RING
  <2> QED
    BY <2>1
<1>2. phase[n] % 2 \in {0, 1}
  BY <1>1
<1>3. DATA % 2 # 1
  BY DataType
<1> QED
  BY <1>1, <1>2, <1>3 DEF Live, Joining, Announcing

LEMMA LeadCases ==
    ASSUME TypeOK, SkewInv, LockInv, NEW n \in Node, NEW m \in Node
    PROVE  /\ Lead(n, m) \in Int
           /\ \/ Lead(n, m) = 1 /\ Lead(m, n) = -1
              \/ Lead(m, n) = 1 /\ Lead(n, m) = -1
              \/ /\ Lead(n, m) = 0 /\ Lead(m, n) = 0
                 /\ phase[n] = phase[m] /\ parity[n] = parity[m]
           /\ Lead(n, m) = 1 => \/ parity[n] = parity[m] /\ phase[n] = phase[m] + 1
                                \/ parity[n] # parity[m] /\ phase[n] = 0 /\ ~Live(m)
<1>1. /\ phase[n] \in Nat /\ phase[n] <= DATA /\ phase[m] \in Nat /\ phase[m] <= DATA
      /\ DATA \in Nat /\ DATA > 0
  BY PhaseIs, DataType
<1>2. Lead(n, m) <= 1 /\ Lead(m, n) <= 1
  BY DEF LockInv
<1>3. CASE parity[n] = parity[m]
  BY <1>1, <1>2, <1>3 DEF Lead
<1>4. CASE parity[n] # parity[m]
  <2>1. phase[n] = DATA <=> phase[m] # DATA
    BY <1>4 DEF SkewInv, Live
  <2> QED
    BY <1>1, <1>2, <1>4, <2>1 DEF Lead, Live
<1> QED
  BY <1>3, <1>4

\* All are in the phase of one that has something to read, or that speaks.
Together(n) == \A m \in Node : phase[m] = phase[n] /\ parity[m] = parity[n]

LEMMA ReadsTogether ==
    ASSUME TypeOK, SkewInv, LockInv, NEW n \in Node, ~Idle(n)
    PROVE  Together(n)
<1> SUFFICES ASSUME NEW m \in Node PROVE phase[m] = phase[n] /\ parity[m] = parity[n]
  BY DEF Together
<1>1. Lead(n, m) # 1
  BY DEF LockInv, Fresh
<1>2. Lead(m, n) # 1
  BY DEF LockInv, Quiet, Idle
<1> QED
  BY <1>1, <1>2, LeadCases

LEMMA SpeaksTogether ==
    ASSUME Lossless, TypeOK, SkewInv, LockInv, NEW n \in Node, ~Quiet(n), MaySpeak(n)
    PROVE  Together(n)
<1> SUFFICES ASSUME NEW m \in Node PROVE phase[m] = phase[n] /\ parity[m] = parity[n]
  BY DEF Together
<1>1. Lead(n, m) # 1
  BY LeadCases DEF MaySpeak, Lossless
<1>2. Lead(m, n) # 1
  BY DEF LockInv
<1> QED
  BY <1>1, <1>2, LeadCases

\* A phase ends with nothing left to read, anywhere.
LEMMA EndsQuietly ==
    ASSUME Lossless, TypeOK, SkewInv, LockInv, NEW n \in Node, Live(n), MayEndPhase(n)
    PROVE  /\ Quiet(n)
           /\ \A m \in Node :
                /\ Idle(m) /\ parity[m] = parity[n]
                /\ \/ phase[m] = phase[n] /\ Quiet(m)
                   \/ phase[m] = phase[n] + 1 /\ Fresh(m)
<1>1. ASSUME NEW m \in Node
      PROVE  /\ parity[m] = parity[n]
             /\ \/ phase[m] = phase[n] /\ Quiet(m)
                \/ phase[m] = phase[n] + 1 /\ Fresh(m)
  <2>1. Lead(n, m) # 1
    <3>1. CASE m = n
      BY <3>1, LeadCases
    <3>2. CASE m # n
      BY <3>2, LeadCases DEF MayEndPhase, Lossless
    <3> QED
      BY <3>1, <3>2
  <2>2. CASE Lead(m, n) = 1
    BY <2>2, LeadCases DEF LockInv
  <2>3. CASE Lead(m, n) # 1
    BY <2>1, <2>3, LeadCases DEF MayEndPhase, Lossless
  <2> QED
    BY <2>2, <2>3
<1>2. \A m \in Node : Quiet(m) \/ Fresh(m) => Idle(m)
  BY DEF Quiet, Fresh, Idle
<1>3. Quiet(n)
  <2>1. Lead(n, n) = 0
    BY LeadCases
  <2> QED
    BY <2>1 DEF MayEndPhase, Lossless
<1> QED
  BY <1>1, <1>2, <1>3

-----------------------------------------------------------------------------
(* What is left to read.                                                    *)

LEMMA FrameType ==
    ASSUME FrameInv, NEW n \in Node
    PROVE  /\ tx[n] = <<>> /\ inbox[n] \in Seq(Single)
           /\ rx[n] = <<>> \/ rx[n] \in Single
           /\ rx[n] # <<>> => /\ Head(rx[n]) \in Msgs(n) /\ Head(rx[n]) \in Message
                              /\ rx[n] = <<Head(rx[n])>> /\ Tail(rx[n]) = <<>>
           /\ Idle(n) => Msgs(n) = {}
<1>1. /\ tx[n] = <<>> /\ inbox[n] \in Seq(Single)
      /\ rx[n] = <<>> \/ rx[n] \in Single
  BY DEF FrameInv
<1>2. ASSUME rx[n] # <<>>
      PROVE  /\ Head(rx[n]) \in Msgs(n) /\ Head(rx[n]) \in Message
             /\ rx[n] = <<Head(rx[n])>> /\ Tail(rx[n]) = <<>>
  <2>1. PICK m \in Message : rx[n] = <<m>>
    BY <1>1, <1>2 DEF Single
  <2>2. Head(rx[n]) = m /\ Tail(rx[n]) = <<>>
    BY <2>1
  <2> QED
    BY <2>1, <2>2 DEF Msgs, Reading
<1>3. ASSUME Idle(n) PROVE Msgs(n) = {}
  <2>1. \A m : <<m>> # <<>>
    OBVIOUS
  <2>2. DOMAIN inbox[n] = {}
    BY <1>3 DEF Idle
  <2> QED
    BY <1>3, <2>1, <2>2 DEF Idle, Msgs, Waiting, Reading
<1> QED
  BY <1>1, <1>2, <1>3

\* A frame that is sent reaches all in range.
LEMMA Delivery ==
    ASSUME Lossless, Roomy, TypeOK, FrameInv, NEW n \in Node, NEW m \in Message, Emits(n, m),
           NEW q,
           q = Append(tx[n], m) \/ q = Queued(tx[n], m),
           Flushed(n, q) \/ NotFlushed(n, q)
    PROVE  /\ Flushed(n, q)
           /\ \A k \in Node :
                /\ tx'[k] = <<>> /\ inbox'[k] \in Seq(Single)
                /\ ~InRange(n, k) => inbox'[k] = inbox[k] /\ Waiting(k)' = Waiting(k)
                /\ InRange(n, k) => Waiting(k)' = Waiting(k) \cup {m}
<1>1. Flushed(n, q)
  BY DEF NotFlushed, Lossless
<1>2. q = <<m>> /\ <<m>> # <<>> /\ <<m>> \in Single
  <2>1. tx[n] = <<>> /\ Len(<<>>) = 0 /\ Append(<<>>, m) = <<m>> /\ <<m>> # <<>>
    BY FrameType
  <2> QED
    BY <2>1 DEF Queued, Lossless, Single
<1>3. \A k \in Node : tx'[k] = <<>>
  BY <1>1, FrameType DEF Flushed, TypeOK
<1>4. inbox' = [k \in Node |-> IF InRange(n, k) THEN Append(inbox[k], q) ELSE inbox[k]]
  <2>1. PICK heard \in SUBSET {k \in Node : InRange(n, k)} :
          /\ ~Lossy => heard = {k \in Node : InRange(n, k)}
          /\ inbox' = [k \in Node |->
               IF k \in heard /\ q # <<>> /\ Len(inbox[k]) < RxCap
               THEN Append(inbox[k], q) ELSE inbox[k]]
    BY <1>1, Zenon DEF Flushed, Delivered
  <2>2. heard = {k \in Node : InRange(n, k)}
    BY <2>1 DEF Lossless
  <2> QED
    BY <1>2, <2>1, <2>2 DEF Roomy
<1>5. ASSUME NEW k \in Node
      PROVE  /\ inbox'[k] \in Seq(Single)
             /\ ~InRange(n, k) => inbox'[k] = inbox[k] /\ Waiting(k)' = Waiting(k)
             /\ InRange(n, k) => Waiting(k)' = Waiting(k) \cup {m}
  <2>1. inbox[k] \in Seq(Single)
    BY FrameType
  <2>2. CASE ~InRange(n, k)
    <3>1. inbox'[k] = inbox[k]
      BY <1>4, <2>2
    <3> QED
      BY <2>1, <2>2, <3>1 DEF Waiting
  <2>3. CASE InRange(n, k)
    <3>1. inbox'[k] = Append(inbox[k], <<m>>)
      BY <1>2, <1>4, <2>3
    <3>2. /\ inbox'[k] \in Seq(Single) /\ Len(inbox[k]) \in Nat
          /\ DOMAIN inbox[k] = 1 .. Len(inbox[k])
          /\ DOMAIN inbox'[k] = 1 .. Len(inbox[k]) + 1
          /\ inbox'[k][Len(inbox[k]) + 1] = <<m>>
          /\ \A i \in DOMAIN inbox[k] : inbox'[k][i] = inbox[k][i]
      BY <1>2, <2>1, <3>1
    <3>3. ASSUME NEW x \in Message
          PROVE  (\E i \in DOMAIN inbox'[k] : inbox'[k][i] = <<x>>)
                   <=> (\E i \in DOMAIN inbox[k] : inbox[k][i] = <<x>>) \/ <<m>> = <<x>>
      <4>1. ASSUME NEW i \in DOMAIN inbox'[k], inbox'[k][i] = <<x>>
            PROVE  (\E j \in DOMAIN inbox[k] : inbox[k][j] = <<x>>) \/ <<m>> = <<x>>
        <5>1. i \in DOMAIN inbox[k] \/ i = Len(inbox[k]) + 1
          BY <3>2
        <5> QED
          BY <3>2, <4>1, <5>1
      <4>2. ASSUME NEW i \in DOMAIN inbox[k], inbox[k][i] = <<x>>
            PROVE  \E j \in DOMAIN inbox'[k] : inbox'[k][j] = <<x>>
        <5>1. i \in DOMAIN inbox'[k] /\ inbox'[k][i] = <<x>>
          BY <3>2, <4>2
        <5> QED
          BY <5>1
      <4>3. Len(inbox[k]) + 1 \in DOMAIN inbox'[k]
        BY <3>2
      <4> QED
        BY <3>2, <4>1, <4>2, <4>3, Zenon
    <3>4. \A x : <<m>> = <<x>> <=> m = x
      OBVIOUS
    <3> QED
      BY <2>3, <3>2, <3>3, <3>4 DEF Waiting
  <2> QED
    BY <2>2, <2>3
<1> QED
  BY <1>1, <1>3, <1>5

\* What a node reads it has read.
LEMMA Takes ==
    ASSUME TypeOK, FrameInv, NEW n \in Node, rx[n] # <<>>,
           rx' = [rx EXCEPT ![n] = Tail(@)] \/ rx' = [rx EXCEPT ![n] = <<>>]
    PROVE  /\ rx'[n] = <<>> /\ Reading(n)' = {} /\ Reading(n) = {Head(rx[n])}
           /\ \A k \in Node : k # n => rx'[k] = rx[k] /\ Reading(k)' = Reading(k)
<1>1. rx[n] = <<Head(rx[n])>> /\ Head(rx[n]) \in Message /\ Tail(rx[n]) = <<>>
  BY FrameType
<1>2. rx'[n] = <<>> /\ \A k \in Node : k # n => rx'[k] = rx[k]
  BY <1>1 DEF TypeOK
<1>3. \A m : <<m>> # <<>>
  OBVIOUS
<1>4. Reading(n) = {Head(rx[n])}
  <2> DEFINE h == Head(rx[n])
  <2>1. \A m : <<h>> = <<m>> <=> h = m
    OBVIOUS
  <2> QED
    BY <1>1, <2>1 DEF Reading
<1> QED
  BY <1>2, <1>3, <1>4 DEF Reading

\* A frame that is received stays to be read.
LEMMA Receives ==
    ASSUME TypeOK, FrameInv, NEW n \in Node, Recv(n)
    PROVE  /\ \A k \in Node : Msgs(k)' = Msgs(k)
           /\ \A k \in Node : inbox'[k] \in Seq(Single) /\ rx'[k] \in Single \cup {<<>>}
<1>1. /\ rx[n] = <<>> /\ inbox[n] # <<>>
      /\ rx' = [rx EXCEPT ![n] = Head(inbox[n])]
      /\ inbox' = [inbox EXCEPT ![n] = Tail(@)]
  BY DEF Recv
<1>2. \A k \in Node : k # n => inbox'[k] = inbox[k] /\ rx'[k] = rx[k]
  BY <1>1 DEF TypeOK
<1>3. rx'[n] = Head(inbox[n]) /\ inbox'[n] = Tail(inbox[n])
  BY <1>1 DEF TypeOK
<1>4. inbox[n] \in Seq(Single)
  BY FrameType
<1>5. inbox'[n] \in Seq(Single) /\ rx'[n] \in Single
  BY <1>1, <1>3, <1>4
<1>6. Msgs(n)' = Msgs(n)
  <2>1. /\ Len(inbox[n]) \in Nat \ {0} /\ DOMAIN inbox[n] = 1 .. Len(inbox[n])
        /\ rx'[n] = inbox[n][1]
        /\ DOMAIN inbox'[n] = 1 .. Len(inbox[n]) - 1
        /\ \A i \in DOMAIN inbox'[n] : inbox'[n][i] = inbox[n][i + 1]
    <3>1. ASSUME NEW q \in Seq(Single), q # <<>>
          PROVE  /\ Len(q) \in Nat \ {0} /\ DOMAIN q = 1 .. Len(q) /\ Head(q) = q[1]
                 /\ DOMAIN Tail(q) = 1 .. Len(q) - 1
                 /\ \A i \in DOMAIN Tail(q) : Tail(q)[i] = q[i + 1]
      <4> HIDE DEF Single
      <4> QED
        BY <3>1
    <3> QED
      BY <1>1, <1>3, <1>4, <3>1
  <2>2. \A x \in Message :
           (\E i \in DOMAIN inbox[n] : inbox[n][i] = <<x>>)
             <=> (\E i \in DOMAIN inbox'[n] : inbox'[n][i] = <<x>>) \/ rx'[n] = <<x>>
    <3> SUFFICES ASSUME NEW x \in Message
                 PROVE (\E i \in DOMAIN inbox[n] : inbox[n][i] = <<x>>)
             <=> (\E i \in DOMAIN inbox'[n] : inbox'[n][i] = <<x>>) \/ rx'[n] = <<x>>
      OBVIOUS
    <3>1. ASSUME NEW i \in DOMAIN inbox[n], inbox[n][i] = <<x>>
          PROVE  (\E j \in DOMAIN inbox'[n] : inbox'[n][j] = <<x>>) \/ rx'[n] = <<x>>
      <4>1. CASE i = 1
        BY <2>1, <3>1, <4>1
      <4>2. CASE i # 1
        <5>1. /\ i - 1 \in DOMAIN inbox'[n] /\ inbox'[n][i - 1] = inbox[n][(i - 1) + 1]
              /\ (i - 1) + 1 = i
          BY <2>1, <3>1, <4>2
        <5> QED
          BY <3>1, <5>1
      <4> QED
        BY <4>1, <4>2
    <3>2. ASSUME NEW j \in DOMAIN inbox'[n], inbox'[n][j] = <<x>>
          PROVE  \E i \in DOMAIN inbox[n] : inbox[n][i] = <<x>>
      <4>1. j + 1 \in DOMAIN inbox[n] /\ inbox[n][j + 1] = <<x>>
        BY <2>1, <3>2
      <4> QED
        BY <4>1
    <3> QED
      BY <2>1, <3>1, <3>2
  <2>3. \A x : rx[n] # <<x>>
    BY <1>1
  <2> QED
    BY <2>2, <2>3 DEF Msgs, Waiting, Reading
<1>7. \A k \in Node : k # n => Msgs(k)' = Msgs(k)
  BY <1>2 DEF Msgs, Waiting, Reading
<1> QED
  BY <1>2, <1>5, <1>6, <1>7, FrameType

-----------------------------------------------------------------------------
(* Steps within a phase: nobody changes phase, and but for one that has     *)
(* nobody to follow all are in the same.                                    *)

Inner(n) ==
    \/ Recv(n) \/ Announce(n) \/ HearAnnouncement(n) \/ SendFollow(n)
    \/ HearFollow(n) \/ Join(n) \/ Refused(n) \/ IgnoreInJoining(n)

Withdraws(n) == SendFollow(n) /\ join[n].target = NoCandidate

LEMMA InnerTogether ==
    ASSUME Lossless, TypeOK, SkewInv, LockInv, NEW n \in Node, Inner(n)
    PROVE  Together(n) \/ Withdraws(n)
<1>1. CASE \/ Recv(n) \/ HearAnnouncement(n) \/ HearFollow(n) \/ Join(n) \/ Refused(n)
           \/ IgnoreInJoining(n)
  <2>1. ~Idle(n)
    BY <1>1 DEF Recv, HearAnnouncement, HearFollow, Join, Refused, IgnoreInJoining,
                AnswerAwaited, Idle
  <2> QED
    BY <2>1, ReadsTogether
<1>2. CASE Announce(n)
  <2>1. ~Quiet(n) /\ MaySpeak(n)
    BY <1>2 DEF Announce, Quiet
  <2> QED
    BY <2>1, SpeaksTogether
<1>3. CASE SendFollow(n)
  <2>1. join[n].target # NoCandidate => ~Quiet(n) /\ MaySpeak(n)
    BY <1>3 DEF SendFollow, Quiet
  <2> QED
    BY <1>3, <2>1, SpeaksTogether DEF Withdraws
<1> QED
  BY <1>1, <1>2, <1>3 DEF Inner

LEMMA InnerShape ==
    ASSUME TypeOK, NEW n \in Node, Inner(n)
    PROVE  /\ phase' = phase /\ parity' = parity /\ ring' = ring /\ isCH' = isCH
           /\ \A k \in Node : \/ bid'[k] = bid[k] \/ bid'[k] = "none"
                              \/ Announce(n) /\ k = n /\ bid[k] = "pending" /\ bid'[k] = "made"
           /\ \A k \in Node : k # n => /\ bid'[k] = bid[k] /\ cands'[k] = cands[k]
                                       /\ join'[k] = join[k] /\ parent'[k] = parent[k]
                                       /\ rx'[k] = rx[k]
<1>1. /\ phase' = phase /\ parity' = parity /\ ring' = ring /\ isCH' = isCH
  BY DEF Inner, Recv, Announce, HearAnnouncement, SendFollow, HearFollow, Join, Refused,
         IgnoreInJoining, state
<1>2. \A k \in Node : k # n => /\ cands'[k] = cands[k] /\ join'[k] = join[k]
                               /\ parent'[k] = parent[k] /\ rx'[k] = rx[k]
  <2>1. CASE HearAnnouncement(n)
    BY <2>1 DEF HearAnnouncement, state, TypeOK
  <2>2. CASE SendFollow(n) \/ Refused(n)
    BY <2>2 DEF SendFollow, Refused, state, TypeOK
  <2>3. CASE Join(n)
    BY <2>3 DEF Join, TypeOK
  <2>4. CASE Recv(n) \/ Announce(n) \/ HearFollow(n) \/ IgnoreInJoining(n)
    BY <2>4 DEF Recv, Announce, HearFollow, IgnoreInJoining, state, locals, TypeOK
  <2> QED
    BY <2>1, <2>2, <2>3, <2>4 DEF Inner
<1>3. \A k \in Node : /\ k # n => bid'[k] = bid[k]
                      /\ \/ bid'[k] = bid[k] \/ bid'[k] = "none"
                         \/ Announce(n) /\ k = n /\ bid[k] = "pending" /\ bid'[k] = "made"
  <2>1. CASE HearAnnouncement(n)
    BY <2>1 DEF HearAnnouncement, TypeOK
  <2>2. CASE Announce(n)
    <3>1. bid' = [bid EXCEPT ![n] = "made"] \/ bid' = bid
      BY <2>2 DEF Announce
    <3>2. bid[n] = "pending"
      BY <2>2 DEF Announce
    <3> QED
      BY <2>2, <3>1, <3>2 DEF TypeOK
  <2>3. CASE \/ Recv(n) \/ SendFollow(n) \/ HearFollow(n) \/ Join(n) \/ Refused(n)
             \/ IgnoreInJoining(n)
    BY <2>3 DEF Recv, SendFollow, HearFollow, Join, Refused, IgnoreInJoining, locals
  <2> QED
    BY <2>1, <2>2, <2>3 DEF Inner
<1> QED
  BY <1>1, <1>2, <1>3

\* The messages the other actions queue.
LEMMA QueuedMessages ==
    ASSUME TypeOK, FrameInv, NEW n \in Node
    PROVE  /\ OpenCluster(n) \in Message
           /\ SendFollow(n) /\ join[n].target # NoCandidate =>
                Follow(n, join[n].target.addr) \in Message
           /\ HearFollow(n) =>
                LET m == Head(rx[n])
                IN  /\ m.src \in Node
                    /\ Accept(n, m.src, SlotOf(Granted(slots[n], m.src), m.src)) \in Message
<1>1. OpenCluster(n) \in Message
  BY DEF OpenCluster, Message, TypeOK
<1>2. ASSUME join[n].target # NoCandidate
      PROVE  Follow(n, join[n].target.addr) \in Message
  <2>1. join[n].target \in Candidate
    BY DEF TypeOK, Joiners
  <2>2. join[n].target.addr \in Node
    BY <1>2, <2>1 DEF Candidate
  <2> QED
    BY <2>2 DEF Follow, Message
<1>3. ASSUME HearFollow(n)
      PROVE  LET m == Head(rx[n])
             IN  /\ m.src \in Node
                 /\ Accept(n, m.src, SlotOf(Granted(slots[n], m.src), m.src)) \in Message
  <2> DEFINE f == Head(rx[n]).src
             s == SlotOf(Granted(slots[n], f), f)
  <2>1. f \in Node
    BY <1>3, HeadType, MessageType DEF HearFollow
  <2>2. s \in 0 .. vtdma_window_size - 1
    <3>1. slots[n] \in Seq(Node) /\ Len(slots[n]) < vtdma_window_size
      BY DEF TypeOK
    <3>2. Granted(slots[n], f) \in Seq(Node) /\ Len(Granted(slots[n], f)) < vtdma_window_size
      BY <2>1, <3>1, GrantedType
    <3> QED
      BY <3>2, SlotOfType
  <2> HIDE DEF f, s
  <2>3. Accept(n, f, s) \in Message
    BY <2>1, <2>2 DEF Accept, Message
  <2> QED
    BY <2>1, <2>3 DEF f, s
<1> QED
  BY <1>1, <1>2, <1>3

LEMMA InnerFrame ==
    ASSUME Lossless, Roomy, TypeOK, FrameInv, NEW n \in Node, Inner(n)
    PROVE  FrameInv'
<1>0. \A k \in Node : tx[k] = <<>> /\ inbox[k] \in Seq(Single) /\ rx[k] \in Single \cup {<<>>}
  BY DEF FrameInv
<1>s. Single' = Single
  BY DEF Single
<1>1. CASE Recv(n)
  <2>1. tx' = tx
    BY <1>1 DEF Recv
  <2> QED
    BY <1>0, <1>1, <1>s, <2>1, Receives DEF FrameInv
<1>2. CASE Announce(n)
  <2>1. rx' = rx
    BY <1>2 DEF Announce
  <2>2. \A k \in Node : tx'[k] = <<>> /\ inbox'[k] \in Seq(Single)
    <3>1. Emits(n, OpenCluster(n)) /\ OpenCluster(n) \in Message
      BY <1>2, QueuedMessages DEF Emits
    <3>2. \/ Flushed(n, Append(tx[n], OpenCluster(n)))
          \/ NotFlushed(n, Append(tx[n], OpenCluster(n)))
      BY <1>2 DEF Announce
    <3> QED
      BY <3>1, <3>2, Delivery
  <2> QED
    BY <1>0, <1>s, <2>1, <2>2 DEF FrameInv
<1>3. CASE SendFollow(n)
  <2>1. rx' = rx
    BY <1>3 DEF SendFollow
  <2>2. CASE join[n].target = NoCandidate
    <3>1. tx' = tx /\ inbox' = inbox
      BY <1>3, <2>2 DEF SendFollow
    <3> QED
      BY <1>0, <1>s, <2>1, <3>1 DEF FrameInv
  <2>3. CASE join[n].target # NoCandidate
    <3>1. \A k \in Node : tx'[k] = <<>> /\ inbox'[k] \in Seq(Single)
      <4> DEFINE f == Follow(n, join[n].target.addr)
      <4>1. Emits(n, f) /\ f \in Message
        BY <1>3, <2>3, QueuedMessages DEF Emits
      <4>2. Flushed(n, Queued(tx[n], f)) \/ NotFlushed(n, Queued(tx[n], f))
        BY <1>3, <2>3 DEF SendFollow
      <4> QED
        BY <4>1, <4>2, Delivery
    <3> QED
      BY <1>0, <1>s, <2>1, <3>1 DEF FrameInv
  <2> QED
    BY <2>2, <2>3
<1>4. ASSUME rx[n] # <<>>, rx' = [rx EXCEPT ![n] = Tail(@)] \/ rx' = [rx EXCEPT ![n] = <<>>]
      PROVE  \A k \in Node : rx'[k] \in Single \cup {<<>>}
  BY <1>0, <1>4, Takes
<1>5. CASE HearFollow(n)
  <2>1. rx[n] # <<>> /\ rx' = [rx EXCEPT ![n] = Tail(@)]
    BY <1>5 DEF HearFollow
  <2>2. \A k \in Node : tx'[k] = <<>> /\ inbox'[k] \in Seq(Single)
    <3>1. Emits(n, Answer(n)) /\ Answer(n) \in Message
      BY <1>5, QueuedMessages DEF Emits, Answer
    <3>2. Flushed(n, Queued(tx[n], Answer(n))) \/ NotFlushed(n, Queued(tx[n], Answer(n)))
      BY <1>5 DEF HearFollow, Answer
    <3> QED
      BY <3>1, <3>2, Delivery
  <2> QED
    BY <1>4, <1>s, <2>1, <2>2 DEF FrameInv
<1>6. CASE HearAnnouncement(n) \/ Join(n) \/ Refused(n) \/ IgnoreInJoining(n)
  <2>1. rx[n] # <<>> /\ (rx' = [rx EXCEPT ![n] = Tail(@)] \/ rx' = [rx EXCEPT ![n] = <<>>])
    BY <1>6 DEF HearAnnouncement, Join, Refused, IgnoreInJoining, AnswerAwaited
  <2>2. tx' = tx /\ inbox' = inbox
    BY <1>6 DEF HearAnnouncement, Join, Refused, IgnoreInJoining
  <2> QED
    BY <1>0, <1>4, <1>s, <2>1, <2>2 DEF FrameInv
<1> QED
  BY <1>1, <1>2, <1>3, <1>5, <1>6 DEF Inner

LEMMA InnerPace ==
    ASSUME Lossless, Roomy, TypeOK, SkewInv, PaceInv, NEW n \in Node, Inner(n)
    PROVE  PaceInv'
<1>0. LockInv /\ QuietInv /\ StandInv /\ FrameInv
  BY DEF PaceInv
<1>1. /\ phase' = phase /\ parity' = parity /\ ring' = ring /\ isCH' = isCH
  BY InnerShape
<1>2. \A k \in Node : (Live(k)' <=> Live(k)) /\ (Joining(k)' <=> Joining(k))
  BY <1>1 DEF Live, Joining
<1>3. \A a, b \in Node : Lead(a, b)' = Lead(a, b)
  BY <1>1 DEF Lead
<1>4. FrameInv'
  BY <1>0, InnerFrame
<1>5. Live(n)
  BY PhaseIs DEF Inner, Recv, Announce, HearAnnouncement, SendFollow, HearFollow, Join,
                 Refused, IgnoreInJoining, AnswerAwaited, Live
<1>6. StandInv'
  BY <1>0, <1>1, <1>2, InnerShape DEF StandInv
<1>7. CASE Together(n)
  <2>1. \A k \in Node : Live(k)
    BY <1>5, <1>7 DEF Together, Live
  <2>2. \A a, b \in Node : Lead(a, b) = 0
    <3>1. \A a, b \in Node : phase[a] = phase[b] /\ parity[a] = parity[b] /\ phase[a] \in Nat
      BY <1>7, PhaseIs DEF Together
    <3> QED
      BY <3>1 DEF Lead
  <2>3. LockInv'
    BY <1>3, <2>2 DEF LockInv
  <2>4. \A k \in Node : Joining(k) => bid'[k] = "none"
    <3>1. Announce(n) => ~Joining(n)
      BY PhaseIs DEF Announce
    <3> QED
      BY <1>0, <3>1, InnerShape DEF QuietInv
  <2> QED
    BY <1>2, <1>4, <1>6, <2>1, <2>3, <2>4 DEF PaceInv, QuietInv
<1>8. CASE Withdraws(n)
  <2>1. /\ bid' = bid /\ cands' = cands /\ tx' = tx /\ inbox' = inbox /\ rx' = rx
        /\ \A k \in Node : join'[k].target = join[k].target /\ (join'[k].try => join[k].try)
    BY <1>8 DEF Withdraws, SendFollow, TypeOK, Joiners
  <2>2. \A k \in Node : (Quiet(k) => Quiet(k)') /\ (Fresh(k) => Fresh(k)')
    BY <1>2, <2>1 DEF Quiet, Fresh, Idle
  <2> QED
    BY <1>0, <1>2, <1>3, <1>4, <1>6, <2>1, <2>2 DEF PaceInv, LockInv, QuietInv
<1> QED
  BY <1>0, <1>7, <1>8, InnerTogether

-----------------------------------------------------------------------------
(* Steps from one phase to the next, and into the next superframe.          *)

LEMMA EndLock ==
    ASSUME Lossless, TypeOK, SkewInv, LockInv, NEW n \in Node, Live(n), MayEndPhase(n),
           phase' = [phase EXCEPT ![n] = @ + 1], parity' = parity,
           inbox' = inbox, rx' = rx,
           \A k \in Node : k # n => /\ bid'[k] = bid[k] /\ cands'[k] = cands[k]
                                    /\ join'[k] = join[k],
           bid'[n] # "made", ~Joining(n)' => cands'[n] = NoCands
    PROVE  LockInv'
<1>1. /\ Quiet(n)
      /\ \A m \in Node :
           /\ Idle(m) /\ parity[m] = parity[n]
           /\ \/ phase[m] = phase[n] /\ Quiet(m)
              \/ phase[m] = phase[n] + 1 /\ Fresh(m)
  BY EndsQuietly
<1>2. /\ phase'[n] = phase[n] + 1 /\ phase[n] \in Nat
      /\ \A k \in Node : k # n => phase'[k] = phase[k] /\ phase[k] \in Nat
  BY PhaseIs DEF TypeOK
<1>3. \A a, b \in Node : Lead(a, b) = phase[a] - phase[b] /\ Lead(a, b)' = phase'[a] - phase'[b]
  BY <1>1 DEF Lead
<1>4. Fresh(n)'
  BY <1>1 DEF Fresh, Idle
<1>5. ASSUME NEW k \in Node, k # n
      PROVE  (Quiet(k) => Quiet(k)') /\ (Fresh(k) => Fresh(k)')
  <2>1. Joining(k)' <=> Joining(k)
    BY <1>2, <1>5 DEF Joining
  <2> QED
    BY <1>5, <2>1 DEF Quiet, Fresh, Idle
<1> SUFFICES ASSUME NEW a \in Node, NEW b \in Node
             PROVE  Lead(a, b)' <= 1 /\ (Lead(a, b)' = 1 => Quiet(b)' /\ Fresh(a)')
  BY DEF LockInv
<1>6. CASE a = n /\ b # n
  BY <1>1, <1>2, <1>3, <1>4, <1>5, <1>6
<1>7. CASE b = n
  BY <1>1, <1>2, <1>3, <1>7
<1>8. CASE a # n /\ b # n
  <2>1. Lead(a, b)' = Lead(a, b)
    BY <1>2, <1>3, <1>8
  <2> QED
    BY <1>5, <1>8, <2>1 DEF LockInv
<1> QED
  BY <1>6, <1>7, <1>8

LEMMA EndAnnouncementPace ==
    ASSUME Lossless, TypeOK, SkewInv, PaceInv, NEW n \in Node, EndAnnouncement(n)
    PROVE  PaceInv'
<1>0. LockInv /\ QuietInv /\ StandInv /\ FrameInv
  BY DEF PaceInv
<1>1. /\ Announcing(n) /\ MayEndPhase(n)
      /\ phase' = [phase EXCEPT ![n] = @ + 1] /\ parity' = parity /\ ring' = ring
      /\ isCH' = [isCH EXCEPT ![n] = @ \/ bid[n] # "none"]
      /\ bid' = [bid EXCEPT ![n] = "none"]
      /\ join' = [join EXCEPT ![n] = Joiner(Eligible(n, cands[n][1]), acts_as_follower(n))]
      /\ cands' = cands /\ tx' = tx /\ inbox' = inbox /\ rx' = rx
  BY DEF EndAnnouncement, state, radio
<1>2. Live(n) /\ ~Joining(n) /\ Live(n)' /\ Joining(n)'
  BY <1>1, PhaseIs, EndAnnouncementPhase
<1>3. /\ phase'[n] = phase[n] + 1 /\ phase[n] \in Nat /\ bid'[n] = "none"
      /\ isCH'[n] = (isCH[n] \/ bid[n] # "none")
  BY <1>1, PhaseIs DEF TypeOK
<1>4. \A k \in Node : k # n => /\ phase'[k] = phase[k] /\ bid'[k] = bid[k] /\ isCH'[k] = isCH[k]
                               /\ join'[k] = join[k] /\ cands'[k] = cands[k]
                               /\ (Live(k)' <=> Live(k)) /\ (Joining(k)' <=> Joining(k))
  BY <1>1 DEF TypeOK, Live, Joining
<1>5. LockInv'
  BY <1>0, <1>1, <1>2, <1>3, <1>4, EndLock
<1>6. QuietInv'
  <2>1. \A k \in Node : k # n => (Quiet(k) => Quiet(k)')
    BY <1>1, <1>4 DEF Quiet
  <2> QED
    BY <1>0, <1>2, <1>3, <1>4, <2>1 DEF QuietInv
<1>7. StandInv'
  <2>1. isCH'[n] => phase'[n] > 2 * ring[n]
    <3>1. ring[n] \in Nat /\ (isCH[n] => phase[n] > 2 * ring[n])
          /\ (bid[n] # "none" => phase[n] = 2 * ring[n])
      BY <1>0, PhaseIs DEF StandInv
    <3>2. isCH'[n] => isCH[n] \/ bid[n] # "none"
      BY <1>3, Zenon
    <3>3. phase'[n] = phase[n] + 1 /\ phase[n] \in Nat
      BY <1>3
    <3> QED
      BY <3>1, <3>2, <3>3
  <2> SUFFICES ASSUME NEW c \in Node
               PROVE  /\ isCH'[c] => phase'[c] > 2 * ring[c]
                      /\ bid'[c] # "none" => phase'[c] = 2 * ring[c]
                      /\ Live(c)' => ring[c] \in Rings[c]
    BY <1>1 DEF StandInv
  <2>2. CASE c = n
    BY <1>0, <1>2, <1>3, <2>1, <2>2 DEF StandInv
  <2>3. CASE c # n
    BY <1>0, <1>4, <2>3 DEF StandInv
  <2> QED
    BY <2>2, <2>3
<1>8. FrameInv'
  BY <1>0, <1>1 DEF FrameInv, Single
<1> QED
  BY <1>5, <1>6, <1>7, <1>8 DEF PaceInv

\* Who begins a round of its own ring has not been a clusterhead yet.
LEMMA BeginBid ==
    ASSUME TypeOK, NEW n \in Node, NEW r, NEW g, NEW w, NEW ch,
           BeginAnnouncement(n, r, g, w, ch)
    PROVE  /\ bid'[n] # "none" => g = r
           /\ bid'[n] = "made" => g = r /\ ch
           /\ slots'[n] # slots[n] => ~ch
           /\ \A k \in Node : k # n => bid'[k] = bid[k] /\ slots'[k] = slots[k]
<1>1. PICK volunteer \in IF g # r THEN {FALSE}
                         ELSE IF w = "Gateway" THEN {TRUE} ELSE announce_clusterhead(n, g) :
        /\ bid' = [bid EXCEPT ![n] = IF volunteer /\ ~ch THEN "pending"
                                    ELSE IF volunteer THEN "made" ELSE "none"]
        /\ slots' = [slots EXCEPT ![n] = IF volunteer /\ ~ch THEN <<>> ELSE @]
  BY Zenon DEF BeginAnnouncement
<1>2. bid'[n] = IF volunteer /\ ~ch THEN "pending" ELSE IF volunteer THEN "made" ELSE "none"
  BY <1>1 DEF TypeOK
<1>3. slots'[n] = IF volunteer /\ ~ch THEN <<>> ELSE slots[n]
  BY <1>1 DEF TypeOK
<1>4. volunteer => g = r
  BY <1>1
<1>5. \A k \in Node : k # n => bid'[k] = bid[k] /\ slots'[k] = slots[k]
  BY <1>1 DEF TypeOK
<1> QED
  BY <1>2, <1>3, <1>4, <1>5

LEMMA NextRound ==
    ASSUME NEW p \in Nat, NEW g, p % 2 = 1, g = (p + 1) \div 2
    PROVE  p + 1 = 2 * g
  BY Z3

LEMMA EndJoiningShape ==
    ASSUME Lossless, TypeOK, SkewInv, PaceInv, NEW n \in Node, EndJoining(n)
    PROVE  /\ phase' = [phase EXCEPT ![n] = @ + 1] /\ parity' = parity /\ ring' = ring
           /\ isCH' = isCH /\ parent' = parent /\ tx' = tx /\ inbox' = inbox /\ rx' = rx
           /\ cands'[n] = NoCands /\ join'[n] = NoJoin
           /\ bid'[n] # "made" /\ bid[n] = "none"
           /\ bid'[n] # "none" => phase[n] + 1 = 2 * ring[n] /\ Live(n)'
           /\ \A k \in Node : slots'[k] # slots[k] => ~isCH[k]
           /\ \A k \in Node : k # n => /\ bid'[k] = bid[k] /\ cands'[k] = cands[k]
                                       /\ join'[k] = join[k] /\ slots'[k] = slots[k]
<1>1. /\ phase' = [phase EXCEPT ![n] = @ + 1] /\ parity' = parity /\ ring' = ring
      /\ isCH' = isCH /\ parent' = parent /\ tx' = tx /\ inbox' = inbox /\ rx' = rx
      /\ cands' = [cands EXCEPT ![n] = NoCands] /\ join' = [join EXCEPT ![n] = NoJoin]
  BY DEF EndJoining, radio
<1>2. /\ cands'[n] = NoCands /\ join'[n] = NoJoin /\ phase'[n] = phase[n] + 1
      /\ \A k \in Node : k # n => cands'[k] = cands[k] /\ join'[k] = join[k]
  BY <1>1 DEF TypeOK
<1>3. bid[n] = "none" /\ phase[n] % 2 = 1 /\ phase[n] \in Nat /\ ring[n] \in Nat
  BY PhaseIs DEF EndJoining, PaceInv, QuietInv, Joining
<1>4. CASE phase[n] + 1 = DATA
  <2>1. bid' = bid /\ slots' = slots
    BY <1>4 DEF EndJoining
  <2> QED
    BY <1>1, <1>2, <1>3, <2>1
<1>5. CASE phase[n] + 1 # DATA
  <2> DEFINE r == (phase[n] + 1) \div 2
  <2>1. BeginAnnouncement(n, r, ring[n], role[n], isCH[n])
    BY <1>5 DEF EndJoining
  <2>2. ring[n] = r => phase[n] + 1 = 2 * ring[n]
    BY <1>3, NextRound
  <2> HIDE DEF r
  <2>3. /\ bid'[n] # "none" => ring[n] = r
        /\ bid'[n] = "made" => ring[n] = r /\ isCH[n]
        /\ slots'[n] # slots[n] => ~isCH[n]
        /\ \A k \in Node : k # n => bid'[k] = bid[k] /\ slots'[k] = slots[k]
    BY <2>1, BeginBid
  <2>4. bid'[n] # "made"
    <3>1. isCH[n] => phase[n] > 2 * ring[n]
      BY DEF PaceInv, StandInv
    <3> QED
      BY <1>3, <2>2, <2>3, <3>1
  <2>5. Live(n)'
    BY <1>2, <1>5 DEF Live
  <2>6. \A k \in Node : slots'[k] # slots[k] => ~isCH[k]
    BY <2>3
  <2> QED
    BY <1>1, <1>2, <1>3, <2>2, <2>3, <2>4, <2>5, <2>6
<1> QED
  BY <1>4, <1>5

LEMMA EndJoiningPace ==
    ASSUME Lossless, TypeOK, SkewInv, PaceInv, NEW n \in Node, EndJoining(n)
    PROVE  PaceInv'
<1>0. LockInv /\ QuietInv /\ StandInv /\ FrameInv
  BY DEF PaceInv
<1>1. /\ phase' = [phase EXCEPT ![n] = @ + 1] /\ parity' = parity /\ ring' = ring
      /\ isCH' = isCH /\ tx' = tx /\ inbox' = inbox /\ rx' = rx
      /\ cands'[n] = NoCands /\ join'[n] = NoJoin
      /\ bid'[n] # "made" /\ bid[n] = "none"
      /\ bid'[n] # "none" => phase[n] + 1 = 2 * ring[n] /\ Live(n)'
      /\ \A k \in Node : k # n => /\ bid'[k] = bid[k] /\ cands'[k] = cands[k]
                                  /\ join'[k] = join[k]
  BY EndJoiningShape
<1>2. Live(n) /\ MayEndPhase(n) /\ Joining(n)
  BY PhaseIs DEF EndJoining
<1>3. /\ phase'[n] = phase[n] + 1 /\ phase[n] \in Nat /\ ring[n] \in Nat
      /\ \A k \in Node : k # n => /\ phase'[k] = phase[k]
                                  /\ (Live(k)' <=> Live(k)) /\ (Joining(k)' <=> Joining(k))
  BY <1>1, PhaseIs DEF TypeOK, Live, Joining
<1>4. ~Joining(n)'
  <2>1. \A p \in Nat : p % 2 = 1 => (p + 1) % 2 # 1
    OBVIOUS
  <2> QED
    BY <1>2, <1>3, <2>1 DEF Joining
<1>5. LockInv'
  BY <1>0, <1>1, <1>2, EndLock
<1>6. QuietInv'
  <2>1. ~Live(n)' => Quiet(n)' /\ bid'[n] = "none"
    <3>1. inbox[n] = <<>> /\ rx[n] = <<>>
      BY <1>0, <1>2, EndsQuietly DEF Quiet
    <3>2. ~NoJoin.try
      BY DEF NoJoin, Joiner
    <3>3. bid'[n] = "none" \/ Live(n)'
      BY <1>1
    <3> QED
      BY <1>1, <3>1, <3>2 DEF Quiet
  <2>2. \A k \in Node : k # n => (Quiet(k) => Quiet(k)')
    BY <1>1 DEF Quiet
  <2> QED
    BY <1>0, <1>1, <1>3, <1>4, <2>1, <2>2 DEF QuietInv
<1>7. StandInv'
  BY <1>0, <1>1, <1>2, <1>3 DEF StandInv
<1>8. FrameInv'
  BY <1>0, <1>1 DEF FrameInv, Single
<1> QED
  BY <1>5, <1>6, <1>7, <1>8 DEF PaceInv

\* Before a node begins a superframe nobody has done anything in it.
LEMMA AdvertiseAlone ==
    ASSUME TypeOK, SkewInv, LockInv, QuietInv, NEW n \in Node, Advertise(n), NEW m \in Node
    PROVE  \/ ~Live(m) /\ parity[m] = parity[n] /\ Quiet(m)
           \/ Live(m) /\ parity[m] # parity[n] /\ phase[m] = 0 /\ Fresh(m)
<1>1. ~Live(n) /\ (parity[m] = parity[n] => ~Live(m))
  BY DEF Advertise, Live
<1>2. CASE parity[m] = parity[n]
  BY <1>1, <1>2 DEF QuietInv
<1>3. CASE parity[m] # parity[n]
  <2>1. Live(m)
    BY <1>1, <1>3 DEF SkewInv
  <2>2. Lead(n, m) = -1
    BY <1>1, <1>3 DEF Lead, Live
  <2>3. Lead(m, n) = 1
    BY <2>2, LeadCases
  <2>4. phase[m] = 0
    BY <1>3, <2>3, LeadCases
  <2> QED
    BY <1>3, <2>1, <2>3, <2>4 DEF LockInv
<1> QED
  BY <1>2, <1>3

LEMMA AdvertisePace ==
    ASSUME Lossless, TypeOK, SkewInv, RestInv, PaceInv, NEW n \in Node, Advertise(n)
    PROVE  PaceInv'
<1>0. LockInv /\ QuietInv /\ StandInv /\ FrameInv
  BY DEF PaceInv
<1>1. PICK g \in Rings[n] : /\ ring' = [ring EXCEPT ![n] = g]
                            /\ BeginAnnouncement(n, 0, g, BaseRole(n), FALSE)
  BY DEF Advertise
<1>2. /\ bid'[n] # "none" => g = 0
      /\ bid'[n] # "made"
      /\ \A k \in Node : k # n => bid'[k] = bid[k]
  BY <1>1, BeginBid
<1>3. /\ phase[n] = DATA /\ phase' = [phase EXCEPT ![n] = 0]
      /\ isCH' = [isCH EXCEPT ![n] = FALSE]
      /\ inbox' = [inbox EXCEPT ![n] = <<>>] /\ rx' = rx /\ cands' = cands /\ join' = join
  BY DEF Advertise
<1>4. /\ phase'[n] = 0 /\ isCH'[n] = FALSE /\ ring'[n] = g /\ inbox'[n] = <<>>
      /\ \A k \in Node : k # n => /\ phase'[k] = phase[k] /\ isCH'[k] = isCH[k]
                                  /\ ring'[k] = ring[k] /\ inbox'[k] = inbox[k]
                                  /\ (Live(k)' <=> Live(k)) /\ (Joining(k)' <=> Joining(k))
  BY <1>1, <1>3 DEF TypeOK, Live, Joining
<1>5. /\ rx'[n] = <<>> /\ cands'[n] = NoCands /\ join'[n] = NoJoin /\ parity'[n] = 1 - parity[n]
      /\ ~Live(n) /\ Live(n)' /\ ~Joining(n)' /\ (tx'[n] = tx[n] \/ tx'[n] = <<>>)
      /\ \A k \in Node : k # n => parity'[k] = parity[k] /\ tx'[k] = tx[k]
  BY AdvertiseShape
<1>6. ASSUME NEW k \in Node, k # n
      PROVE  (Quiet(k) => Quiet(k)') /\ (Fresh(k) => Fresh(k)')
  BY <1>2, <1>3, <1>4, <1>6 DEF Quiet, Fresh, Idle
<1>7. LockInv'
  <2> SUFFICES ASSUME NEW a \in Node, NEW b \in Node
               PROVE  Lead(a, b)' <= 1 /\ (Lead(a, b)' = 1 => Quiet(b)' /\ Fresh(a)')
    BY DEF LockInv
  <2>0. /\ DATA \in Nat /\ DATA > 0 /\ parity[n] \in {0, 1} /\ parity[a] \in {0, 1}
        /\ parity[b] \in {0, 1}
    BY DataType, PhaseIs
  <2>1. CASE a = n /\ b = n
    BY <1>4, <2>1 DEF Lead
  <2>2. CASE a = n /\ b # n
    <3>1. CASE ~Live(b) /\ parity[b] = parity[n] /\ Quiet(b)
      <4>1. Fresh(n)'
        BY <1>2, <1>4, <1>5 DEF Fresh, Idle
      <4>2. Lead(n, b)' = 1
        BY <1>4, <1>5, <2>0, <2>2, <3>1 DEF Lead
      <4> QED
        BY <1>6, <2>2, <3>1, <4>1, <4>2
    <3>2. CASE parity[b] # parity[n] /\ phase[b] = 0
      <4>1. Lead(n, b)' = 0
        BY <1>4, <1>5, <2>0, <2>2, <3>2 DEF Lead
      <4> QED
        BY <2>2, <4>1
    <3> QED
      BY <1>0, <3>1, <3>2, AdvertiseAlone
  <2>3. CASE a # n /\ b = n
    <3>1. CASE ~Live(a) /\ parity[a] = parity[n]
      <4>1. Lead(a, n)' = -1
        BY <1>4, <1>5, <2>0, <2>3, <3>1 DEF Lead, Live
      <4> QED
        BY <2>3, <4>1
    <3>2. CASE parity[a] # parity[n] /\ phase[a] = 0
      <4>1. Lead(a, n)' = 0
        BY <1>4, <1>5, <2>0, <2>3, <3>2 DEF Lead
      <4> QED
        BY <2>3, <4>1
    <3> QED
      BY <1>0, <3>1, <3>2, AdvertiseAlone
  <2>4. CASE a # n /\ b # n
    <3>1. Lead(a, b)' = Lead(a, b)
      BY <1>4, <1>5, <2>4 DEF Lead
    <3> QED
      BY <1>0, <1>6, <2>4, <3>1 DEF LockInv
  <2> QED
    BY <2>1, <2>2, <2>3, <2>4
<1>8. QuietInv'
  BY <1>0, <1>2, <1>4, <1>5, <1>6 DEF QuietInv
<1>9. StandInv'
  BY <1>0, <1>1, <1>2, <1>4, <1>5 DEF StandInv
<1>10. FrameInv'
  <2>1. Single' = Single /\ <<>> \in Seq(Single)
    BY DEF Single
  <2> QED
    BY <1>0, <1>3, <1>4, <1>5, <2>1 DEF FrameInv
<1> QED
  BY <1>7, <1>8, <1>9, <1>10 DEF PaceInv

-----------------------------------------------------------------------------
(* The messages under way, when nobody changes phase.                       *)

\* The actions that read a message.
Consumes(n) ==
    HearAnnouncement(n) \/ HearFollow(n) \/ Join(n) \/ Refused(n) \/ IgnoreInJoining(n)

LEMMA Sending ==
    ASSUME Lossless, Roomy, TypeOK, FrameInv, NEW n \in Node, Inner(n), NEW m \in Message,
           Emits(n, m)
    PROVE  \A k \in Node : /\ ~InRange(n, k) => Waiting(k)' = Waiting(k)
                           /\ InRange(n, k) => Waiting(k)' = Waiting(k) \cup {m}
<1>1. CASE Announce(n) /\ m = OpenCluster(n)
  <2>1. Flushed(n, Append(tx[n], m)) \/ NotFlushed(n, Append(tx[n], m))
    BY <1>1 DEF Announce
  <2> QED
    BY <2>1, Delivery
<1>2. CASE SendFollow(n) /\ join[n].target # NoCandidate /\ m = Follow(n, join[n].target.addr)
  BY <1>2, Delivery DEF SendFollow
<1>3. CASE HearFollow(n) /\ m = Answer(n)
  BY <1>3, Delivery DEF HearFollow, Answer
<1> QED
  BY <1>1, <1>2, <1>3 DEF Emits

LEMMA Silence ==
    ASSUME TypeOK, NEW n \in Node, Inner(n), ~Recv(n), \A m \in Message : ~Emits(n, m), FrameInv
    PROVE  inbox' = inbox
<1>1. ~Announce(n)
  BY QueuedMessages DEF Emits
<1>2. SendFollow(n) => join[n].target = NoCandidate
  BY QueuedMessages DEF Emits
<1>3. ~HearFollow(n)
  BY QueuedMessages DEF Emits, Answer
<1> QED
  BY <1>1, <1>2, <1>3
     DEF Inner, HearAnnouncement, SendFollow, Join, Refused, IgnoreInJoining

LEMMA Traffic ==
    ASSUME Lossless, Roomy, TypeOK, FrameInv, NEW n \in Node, Inner(n),
           NEW k \in Node, NEW m \in Message
    PROVE  /\ m \in Msgs(k)' => m \in Msgs(k) \/ (InRange(n, k) /\ Emits(n, m))
           /\ m \in Msgs(k) => \/ m \in Msgs(k)'
                               \/ k = n /\ rx[n] # <<>> /\ m = Head(rx[n]) /\ Consumes(n)
           /\ InRange(n, k) /\ Emits(n, m) => m \in Msgs(k)'
<1>1. CASE Recv(n)
  <2>1. Msgs(k)' = Msgs(k)
    BY <1>1, Receives
  <2>2. ~Emits(n, m)
    <3>1. rx[n] = <<>> /\ rx' # rx
      <4>1. /\ inbox[n] # <<>> /\ inbox[n] \in Seq(Single)
            /\ rx' = [rx EXCEPT ![n] = Head(inbox[n])]
        BY <1>1, FrameType DEF Recv
      <4>2. Head(inbox[n]) \in Single /\ ~(<<>> \in Single)
        BY <4>1 DEF Single
      <4>3. rx'[n] # <<>> /\ rx[n] = <<>>
        BY <1>1, <4>1, <4>2 DEF Recv, TypeOK
      <4> QED
        BY <4>3
    <3>2. ~Announce(n) /\ ~SendFollow(n) /\ ~HearFollow(n)
      BY <3>1 DEF Announce, SendFollow, HearFollow
    <3> QED
      BY <3>2 DEF Emits
  <2> QED
    BY <2>1, <2>2
<1>2. CASE ~Recv(n)
  <2>1. /\ m \in Waiting(k)' => m \in Waiting(k) \/ (InRange(n, k) /\ Emits(n, m))
        /\ m \in Waiting(k) => m \in Waiting(k)'
        /\ InRange(n, k) /\ Emits(n, m) => m \in Waiting(k)'
    <3>1. CASE \E x \in Message : Emits(n, x)
      <4>1. PICK x \in Message : Emits(n, x)
        BY <3>1
      <4>2. Emits(n, m) => m = x
        <5>1. ~(Announce(n) /\ SendFollow(n)) /\ ~(Announce(n) /\ HearFollow(n))
          BY PhaseIs DEF Announce, SendFollow, HearFollow
        <5>2. ~(SendFollow(n) /\ HearFollow(n))
          BY DEF SendFollow, HearFollow, MaySpeak
        <5> QED
          BY <4>1, <5>1, <5>2 DEF Emits
      <4> QED
        BY <4>1, <4>2, Sending
    <3>2. CASE \A x \in Message : ~Emits(n, x)
      <4>1. Waiting(k)' = Waiting(k)
        BY <1>2, <3>2, Silence DEF Waiting
      <4> QED
        BY <3>2, <4>1
    <3> QED
      BY <3>1, <3>2
  <2>2. /\ m \in Reading(k)' => m \in Reading(k)
        /\ m \in Reading(k) => \/ m \in Reading(k)'
                               \/ k = n /\ rx[n] # <<>> /\ m = Head(rx[n]) /\ Consumes(n)
    <3>1. CASE Announce(n) \/ SendFollow(n)
      <4>1. rx' = rx
        BY <3>1 DEF Announce, SendFollow
      <4> QED
        BY <4>1 DEF Reading
    <3>2. CASE Consumes(n)
      <4>1. rx[n] # <<>> /\ (rx' = [rx EXCEPT ![n] = Tail(@)] \/ rx' = [rx EXCEPT ![n] = <<>>])
        BY <3>2 DEF Consumes, HearAnnouncement, HearFollow, Join, Refused, IgnoreInJoining,
                    AnswerAwaited
      <4> QED
        BY <3>2, <4>1, Takes
    <3> QED
      BY <1>2, <3>1, <3>2 DEF Inner, Consumes
  <2> QED
    BY <2>1, <2>2 DEF Msgs
<1> QED
  BY <1>1, <1>2

\* What a node has read of its messages is a message.
LEMMA MsgsType ==
    \A k : Msgs(k) \subseteq Message /\ \A m \in Msgs(k) : m \in Message
  BY DEF Msgs, Waiting, Reading

\* A clusterhead that is full stays so.
LEMMA FullStays ==
    ASSUME TypeOK, TypeOK', RoleInv, NEW n \in Node, InSlot(n), NEW c \in Node, Stands(c), Full(c)
    PROVE  Full(c)'
<1>1. /\ slots[c] \in Seq(Node) /\ slots'[c] \in Seq(Node) /\ Len(slots'[c]) < vtdma_window_size
      /\ vtdma_window_size \in Nat
  <2>1. Len(slots'[c]) < vtdma_window_size
    BY DEF TypeOK, vtdma_window_size
  <2> QED
    BY <2>1, WindowType DEF TypeOK
<1>2. CASE isCH[c]
  <2>1. \A s \in DOMAIN slots[c] : s \in DOMAIN slots'[c]
    BY <1>2, InSlotGrows DEF TablesGrow
  <2>2. Len(slots[c]) <= Len(slots'[c])
    <3>1. /\ DOMAIN slots[c] = 1 .. Len(slots[c]) /\ Len(slots[c]) \in Nat
          /\ DOMAIN slots'[c] = 1 .. Len(slots'[c]) /\ Len(slots'[c]) \in Nat
      BY <1>1
    <3> QED
      BY <2>1, <3>1
  <2>3. Len(slots[c]) = vtdma_window_size - 1
    BY DEF Full
  <2>4. Len(slots'[c]) = vtdma_window_size - 1
    <3>1. Len(slots[c]) \in Nat /\ Len(slots'[c]) \in Nat
      BY <1>1
    <3> QED
      BY <1>1, <2>2, <2>3, <3>1
  <2> QED
    BY <2>4 DEF Full, vtdma_window_size
<1>3. CASE ~isCH[c]
  <2>1. slots[c] = <<>>
    BY <1>3 DEF Stands, RoleInv
  <2>2. vtdma_window_size = 1
    <3>1. Len(slots[c]) = 0
      BY <2>1
    <3> QED
      BY <1>1, <3>1 DEF Full
  <2>3. Len(slots'[c]) = 0
    <3>1. Len(slots'[c]) \in Nat
      BY <1>1
    <3> QED
      BY <1>1, <2>2, <3>1
  <2> QED
    BY <2>2, <2>3 DEF Full, vtdma_window_size
<1> QED
  BY <1>2, <1>3

LEMMA InnerInSlot == \A n \in Node : Inner(n) => InSlot(n)
  BY DEF Inner, InSlot

\* An Accept without a slot says that there is none left.
LEMMA RefusesFull ==
    ASSUME TypeOK, TypeOK', NEW n \in Node, HearFollow(n)
    PROVE  /\ Answer(n).type = "Accept" /\ Answer(n).src = n /\ isCH[n]
           /\ Answer(n).follower = Head(rx[n]).src
           /\ ~Answer(n).accepted => Full(n)'
<1> DEFINE f == Head(rx[n]).src
           table == Granted(slots[n], f)
           s == SlotOf(table, f)
<1>1. isCH[n] /\ slots' = [slots EXCEPT ![n] = table]
  BY DEF HearFollow
<1>2. slots'[n] = table
  BY <1>1 DEF TypeOK
<1>3. Answer(n).type = "Accept" /\ Answer(n).src = n /\ Answer(n).follower = f
      /\ Answer(n).accepted = (s # 0)
  BY DEF Answer, Accept
<1>4. slots[n] \in Seq(Node) /\ Len(slots[n]) < vtdma_window_size
  BY DEF TypeOK
<1>5. s = 0 => Len(table) = vtdma_window_size - 1
  <2>1. ASSUME NEW t \in Seq(Node), Len(t) < vtdma_window_size, NEW g,
               SlotOf(Granted(t, g), g) = 0
        PROVE  Len(Granted(t, g)) = vtdma_window_size - 1
    <3>1. CASE (\E i \in DOMAIN t : t[i] = g)
      <4>1. Granted(t, g) = t
        BY <3>1 DEF Granted
      <4>2. SlotOf(t, g) \in DOMAIN t
        BY <3>1 DEF SlotOf
      <4>3. ~(0 \in DOMAIN t)
        OBVIOUS
      <4> QED
        BY <2>1, <4>1, <4>2, <4>3
    <3>2. CASE Len(t) + 1 >= vtdma_window_size
      <4>1. Granted(t, g) = t
        BY <3>2 DEF Granted
      <4>2. Len(t) \in Nat
        OBVIOUS
      <4> QED
        BY <2>1, <3>2, <4>1, <4>2, WindowType
    <3>3. CASE ~(\E i \in DOMAIN t : t[i] = g) /\ ~(Len(t) + 1 >= vtdma_window_size)
      <4>1. Granted(t, g) = Append(t, g)
        BY <3>3 DEF Granted
      <4>2. /\ Len(t) + 1 \in DOMAIN Append(t, g) /\ Append(t, g)[Len(t) + 1] = g
            /\ ~(0 \in DOMAIN Append(t, g))
        <5>1. ASSUME NEW S, NEW u \in Seq(S), NEW e
              PROVE  /\ Len(u) + 1 \in DOMAIN Append(u, e) /\ Append(u, e)[Len(u) + 1] = e
                     /\ ~(0 \in DOMAIN Append(u, e))
          OBVIOUS
        <5> QED
          BY <5>1
      <4>3. SlotOf(Append(t, g), g) \in DOMAIN Append(t, g)
        BY <4>2 DEF SlotOf
      <4> QED
        BY <2>1, <4>1, <4>2, <4>3
    <3> QED
      BY <3>1, <3>2, <3>3
  <2> QED
    BY <1>4, <2>1
<1> HIDE DEF s, table, f
<1>6. ~Answer(n).accepted => Full(n)'
  BY <1>2, <1>3, <1>5 DEF Full, vtdma_window_size
<1> QED
  BY <1>1, <1>3, <1>6 DEF f

\* Of the old pair and the new candidate, the two best stay, in order.
LEMMA UpdateRanks ==
    ASSUME NEW best \in Candidate \X Candidate, NEW c \in Candidate,
           ScoreOf(best[2]) <= ScoreOf(best[1])
    PROVE  LET u == update(best, c)
           IN  /\ u[1] = c \/ u[1] = best[1]
               /\ u[2] = c \/ u[2] = best[1] \/ u[2] = best[2]
               /\ ScoreOf(u[2]) <= ScoreOf(u[1])
               /\ \A d \in Candidate :
                    /\ d = c \/ d = best[1] \/ d = best[2]
                       => \/ u[1] = d \/ u[2] = d
                          \/ ScoreOf(d) <= ScoreOf(u[1]) /\ ScoreOf(d) <= ScoreOf(u[2])
               /\ \A s \in Nat : s <= ScoreOf(best[1]) /\ s <= ScoreOf(best[2])
                                 => s <= ScoreOf(u[1]) /\ s <= ScoreOf(u[2])
<1>1. \A d \in Candidate : ScoreOf(d) \in Nat
  BY ScoreAssumption DEF ScoreOf, Candidate
<1>2. best[1] \in Candidate /\ best[2] \in Candidate
  OBVIOUS
<1>3. ScoreOf(c) \in Nat /\ ScoreOf(best[1]) \in Nat /\ ScoreOf(best[2]) \in Nat
  BY <1>1, <1>2
<1>4. CASE ScoreOf(c) > ScoreOf(best[1])
  <2>1. update(best, c)[1] = c /\ update(best, c)[2] = best[1]
    BY <1>4 DEF update
  <2> QED
    BY <1>3, <1>4, <2>1
<1>5. CASE ~(ScoreOf(c) > ScoreOf(best[1])) /\ ScoreOf(c) > ScoreOf(best[2])
  <2>1. update(best, c)[1] = best[1] /\ update(best, c)[2] = c
    BY <1>5 DEF update
  <2> QED
    BY <1>3, <1>5, <2>1
<1>6. CASE ~(ScoreOf(c) > ScoreOf(best[1])) /\ ~(ScoreOf(c) > ScoreOf(best[2]))
  <2>1. update(best, c) = best
    BY <1>6 DEF update
  <2> QED
    BY <1>3, <1>6, <2>1
<1> QED
  BY <1>4, <1>5, <1>6

\* A step within a phase.
Within(n) ==
    /\ Lossless /\ Roomy
    /\ TypeOK /\ TypeOK' /\ SkewInv /\ RoleInv /\ PaceInv /\ FlowInv /\ Inner(n)

\* In the announcement phase messages are heard, in the joining phase the other
\* actions read them.
LEMMA ReadsInPhase ==
    ASSUME NEW n \in Node, Within(n), Consumes(n)
    PROVE  /\ Together(n) /\ rx[n] # <<>> /\ Head(rx[n]) \in Msgs(n) /\ Head(rx[n]) \in Message
           /\ \A g \in Nat : phase[n] = 2 * g => HearAnnouncement(n)
           /\ \A g \in Nat : phase[n] = 2 * g + 1 => Joining(n) /\ ~HearAnnouncement(n)
<1>1. rx[n] # <<>>
  BY DEF Consumes, HearAnnouncement, HearFollow, Join, Refused, IgnoreInJoining, AnswerAwaited
<1>2. Head(rx[n]) \in Msgs(n) /\ Head(rx[n]) \in Message
  BY <1>1, FrameType DEF Within, PaceInv
<1>3. Together(n)
  BY <1>1, ReadsTogether DEF Within, PaceInv, Idle
<1>4. \A g \in Nat : (2 * g) % 2 # 1 /\ (2 * g + 1) % 2 = 1
  OBVIOUS
<1>5. ASSUME NEW g \in Nat, phase[n] = 2 * g PROVE HearAnnouncement(n)
  <2>1. ~Joining(n)
    BY <1>4, <1>5 DEF Joining
  <2> QED
    BY <2>1 DEF Consumes, HearFollow, Join, Refused, IgnoreInJoining, AnswerAwaited
<1>6. ASSUME NEW g \in Nat, phase[n] = 2 * g + 1 PROVE Joining(n) /\ ~HearAnnouncement(n)
  <2>1. Joining(n)
    BY <1>4, <1>6 DEF Joining
  <2> QED
    BY <2>1, PhaseIs DEF HearAnnouncement, Within
<1> QED
  BY <1>1, <1>2, <1>3, <1>5, <1>6

\* What becomes of the candidates.
LEMMA InnerCands ==
    ASSUME NEW n \in Node, Within(n), NEW k \in Node
    PROVE  LET m == Head(rx[n])
               c == [addr |-> m.src, ring |-> m.ring]
           IN  /\ \/ cands'[k] = cands[k]
                  \/ /\ k = n /\ HearAnnouncement(n) /\ m.type = "OpenCluster"
                     /\ cands'[n] = update(cands[n], c)
               /\ HearAnnouncement(n) /\ m.type = "OpenCluster" =>
                     /\ cands'[n] = update(cands[n], c)
                     /\ m.src \in Node /\ c \in Candidate /\ cands[n] \in Candidate \X Candidate
                     /\ ScoreOf(c) = Score[m.src]
                     /\ m.ring = ring[n] /\ n < m.src => bid'[n] = "none"
<1> DEFINE m == Head(rx[n])
           c == [addr |-> m.src, ring |-> m.ring]
<1>0. TypeOK
  BY DEF Within
<1>1. CASE HearAnnouncement(n) /\ m.type = "OpenCluster"
  <2>1. /\ cands' = [cands EXCEPT ![n] = update(@, c)]
        /\ bid' = [bid EXCEPT ![n] =
                     IF m.ring = ring[n] /\ (bid[n] = "pending" \/ n < m.src) THEN "none" ELSE @]
    BY <1>1 DEF HearAnnouncement
  <2>2. m \in Message
    BY <1>0, <1>1, HeadType DEF HearAnnouncement
  <2>3. m.src \in Node /\ m.ring \in 0 .. UNKNOWN_RING
    BY <1>1, <2>2 DEF Message
  <2>4. c \in Candidate /\ c # NoCandidate
    BY <2>3, NodeAssumption DEF Candidate, NoCandidate
  <2>5. cands[n] \in Candidate \X Candidate
    BY <1>0 DEF TypeOK
  <2>6. /\ cands'[n] = update(cands[n], c) /\ (k # n => cands'[k] = cands[k])
        /\ m.ring = ring[n] /\ n < m.src => bid'[n] = "none"
    <3> HIDE DEF c, m
    <3> QED
      BY <1>0, <2>1 DEF TypeOK
  <2>7. ScoreOf(c) = Score[m.src]
    BY <2>4 DEF ScoreOf
  <2> QED
    BY <1>1, <2>3, <2>4, <2>5, <2>6, <2>7
<1>2. CASE ~(HearAnnouncement(n) /\ m.type = "OpenCluster")
  <2>1. HearAnnouncement(n) => cands' = cands
    BY <1>2 DEF HearAnnouncement
  <2>2. cands' = cands
    BY <2>1 DEF Within, Inner, Recv, Announce, SendFollow, HearFollow, Join, Refused,
                IgnoreInJoining, locals
  <2> QED
    BY <1>2, <2>2
<1> QED
  BY <1>1, <1>2

\* What is said in the phases.
LEMMA Said ==
    ASSUME NEW n \in Node, Within(n), NEW m \in Message, Emits(n, m)
    PROVE  /\ m.src = n
           /\ m.type = "OpenCluster" => Announce(n) /\ m = OpenCluster(n)
           /\ m.type = "Accept" => HearFollow(n) /\ m = Answer(n)
<1>1. CASE Announce(n) /\ m = OpenCluster(n)
  BY <1>1 DEF OpenCluster
<1>2. CASE SendFollow(n) /\ m = Follow(n, join[n].target.addr)
  BY <1>2 DEF Follow
<1>3. CASE HearFollow(n) /\ m = Answer(n)
  BY <1>3 DEF Answer, Accept
<1> QED
  BY <1>1, <1>2, <1>3 DEF Emits

LEMMA Announced ==
    ASSUME NEW n \in Node, Within(n), Announce(n)
    PROVE  /\ Together(n) /\ phase[n] = 2 * ring[n]
           /\ Emits(n, OpenCluster(n)) /\ OpenCluster(n) \in Message
           /\ \A k \in Node : InRange(n, k) => Calls(k, n)'
<1>1. bid[n] = "pending" /\ Announcing(n)
  BY DEF Announce
<1>2. phase[n] = 2 * ring[n]
  BY <1>1 DEF Within, PaceInv, StandInv
<1>3. Together(n)
  BY <1>1, SpeaksTogether DEF Announce, Within, PaceInv, Quiet
<1>4. Emits(n, OpenCluster(n)) /\ OpenCluster(n) \in Message
  BY QueuedMessages DEF Emits, Within, PaceInv
<1>5. ASSUME NEW k \in Node, InRange(n, k) PROVE Calls(k, n)'
  <2> DEFINE o == OpenCluster(n)
  <2>1. o.type = "OpenCluster" /\ o.src = n
    BY DEF OpenCluster
  <2> HIDE DEF o
  <2>2. o \in Msgs(k)'
    BY <1>4, <1>5, Traffic DEF Within, PaceInv, o
  <2> QED
    BY <2>1, <2>2 DEF Calls
<1> QED
  BY <1>2, <1>3, <1>4, <1>5

LEMMA InnerMsg == ASSUME NEW n \in Node, Within(n) PROVE MsgInv'
<1>1. /\ phase' = phase /\ parity' = parity /\ ring' = ring /\ isCH' = isCH
  BY InnerShape DEF Within
<1>2. ASSUME NEW c \in Node, isCH[c], Full(c) PROVE Full(c)'
  BY <1>2, FullStays, InnerInSlot DEF Within, Stands
<1> SUFFICES ASSUME NEW k \in Node, NEW m \in Msgs(k)'
             PROVE  /\ InRange(m.src, k)
                    /\ m.type = "OpenCluster" => m.ring = ring[m.src] /\ phase[k] = 2 * ring[m.src]
                    /\ m.type = "Accept" => isCH[m.src] /\ (~m.accepted => Full(m.src)')
  BY <1>1 DEF MsgInv
<1>3. m \in Message
  BY DEF Msgs, Waiting, Reading
<1>4. m \in Msgs(k) \/ (InRange(n, k) /\ Emits(n, m))
  BY <1>3, Traffic DEF Within, PaceInv
<1>5. CASE m \in Msgs(k)
  <2>1. /\ InRange(m.src, k)
        /\ m.type = "OpenCluster" => m.ring = ring[m.src] /\ phase[k] = 2 * ring[m.src]
        /\ m.type = "Accept" => isCH[m.src] /\ (~m.accepted => Full(m.src))
    BY <1>5 DEF Within, FlowInv, MsgInv
  <2>2. m.src \in Node
    BY <1>3, MessageType
  <2> QED
    BY <1>2, <2>1, <2>2
<1>6. CASE InRange(n, k) /\ Emits(n, m)
  <2>1. /\ m.src = n
        /\ m.type = "OpenCluster" => Announce(n) /\ m = OpenCluster(n)
        /\ m.type = "Accept" => HearFollow(n) /\ m = Answer(n)
    BY <1>3, <1>6, Said
  <2>2. m.type = "OpenCluster" => m.ring = ring[n] /\ phase[k] = 2 * ring[n]
    BY <2>1, Announced DEF OpenCluster, Together
  <2>3. m.type = "Accept" => isCH[n] /\ (~m.accepted => Full(n)')
    BY <2>1, RefusesFull DEF Within
  <2> QED
    BY <1>6, <2>1, <2>2, <2>3
<1> QED
  BY <1>4, <1>5, <1>6

LEMMA InnerCand == ASSUME NEW n \in Node, Within(n) PROVE CandInv'
<1>1. /\ phase' = phase /\ parity' = parity /\ ring' = ring
  BY InnerShape DEF Within
<1>2. CandInv
  BY DEF Within, FlowInv
<1> SUFFICES ASSUME NEW k \in Node
             PROVE  /\ Current(cands'[k][1], k) /\ Current(cands'[k][2], k)
                    /\ ScoreOf(cands'[k][2]) <= ScoreOf(cands'[k][1])
  BY <1>1 DEF CandInv, Current, ScoreOf
<1>3. CASE cands'[k] = cands[k]
  BY <1>2, <1>3 DEF CandInv
<1>4. CASE cands'[k] # cands[k]
  <2> DEFINE m == Head(rx[n])
             c == [addr |-> m.src, ring |-> m.ring]
  <2>1. /\ k = n /\ HearAnnouncement(n) /\ m.type = "OpenCluster"
        /\ cands'[n] = update(cands[n], c)
        /\ c \in Candidate /\ cands[n] \in Candidate \X Candidate
    BY <1>4, InnerCands
  <2>2. Together(n) /\ m \in Msgs(n)
    BY <2>1, ReadsInPhase DEF Consumes
  <2>3. InRange(m.src, n) /\ m.ring = ring[m.src] /\ phase[n] = 2 * ring[m.src]
    BY <2>1, <2>2 DEF Within, FlowInv, MsgInv
  <2>4. Current(c, n)
    BY <2>2, <2>3 DEF Current, Together
  <2>5. /\ Current(cands[n][1], n) /\ Current(cands[n][2], n)
        /\ ScoreOf(cands[n][2]) <= ScoreOf(cands[n][1])
    BY <1>2 DEF CandInv
  <2> HIDE DEF c
  <2>6. LET u == update(cands[n], c)
        IN  /\ u[1] = c \/ u[1] = cands[n][1]
            /\ u[2] = c \/ u[2] = cands[n][1] \/ u[2] = cands[n][2]
            /\ ScoreOf(u[2]) <= ScoreOf(u[1])
    BY <2>1, <2>5, UpdateRanks
  <2> QED
    BY <2>1, <2>4, <2>5, <2>6
<1> QED
  BY <1>3, <1>4

\* An announcement is gone only when it was read.
LEMMA CallsStay ==
    ASSUME NEW n \in Node, Within(n), NEW k \in Node, NEW b, Calls(k, b), ~Calls(k, b)'
    PROVE  /\ k = n /\ Consumes(n) /\ Head(rx[n]).type = "OpenCluster" /\ Head(rx[n]).src = b
<1>1. PICK m \in Msgs(k) : m.type = "OpenCluster" /\ m.src = b
  BY DEF Calls
<1>2. m \in Message /\ m \notin Msgs(k)'
  BY <1>1, MsgsType DEF Calls
<1> QED
  BY <1>1, <1>2, Traffic DEF Within, PaceInv

\* Who stands after the step stood before it, or has just announced itself.
LEMMA InnerStands ==
    ASSUME NEW n \in Node, Within(n), NEW c \in Node, Stands(c)'
    PROVE  Stands(c) \/ (Announce(n) /\ c = n)
  BY InnerShape DEF Within, Stands

\* An announcement that was read is ranked.
LEMMA RankedWhenRead ==
    ASSUME NEW n \in Node, Within(n), NEW c \in Node, Calls(n, c), ~Calls(n, c)'
    PROVE  Ranked(cands'[n], c)
<1> DEFINE m == Head(rx[n])
           d == [addr |-> m.src, ring |-> m.ring]
<1>1. Consumes(n) /\ m.type = "OpenCluster" /\ m.src = c
  BY CallsStay
<1>2. m \in Msgs(n) /\ ring[c] \in Nat
  BY <1>1, ReadsInPhase, PhaseIs DEF Within
<1>3. phase[n] = 2 * ring[c]
  BY <1>1, <1>2 DEF Within, FlowInv, MsgInv
<1>4. HearAnnouncement(n)
  BY <1>1, <1>2, <1>3, ReadsInPhase
<1>5. /\ cands'[n] = update(cands[n], d) /\ d \in Candidate
      /\ cands[n] \in Candidate \X Candidate /\ ScoreOf(d) = Score[c] /\ d.addr = c
      /\ ScoreOf(cands[n][2]) <= ScoreOf(cands[n][1])
  BY <1>1, <1>4, InnerCands DEF Within, FlowInv, CandInv
<1> HIDE DEF d
<1>6. LET u == update(cands[n], d)
      IN  \/ u[1] = d \/ u[2] = d
          \/ ScoreOf(d) <= ScoreOf(u[1]) /\ ScoreOf(d) <= ScoreOf(u[2])
  BY <1>5, UpdateRanks
<1> QED
  BY <1>5, <1>6 DEF Ranked

\* Who is ranked stays so, or both candidates are no worse.
LEMMA RankedStays ==
    ASSUME NEW n \in Node, Within(n), NEW k \in Node, NEW c \in Node, Ranked(cands[k], c)
    PROVE  Ranked(cands'[k], c)
<1> DEFINE m == Head(rx[n])
           d == [addr |-> m.src, ring |-> m.ring]
<1>1. CASE cands'[k] = cands[k]
  BY <1>1
<1>2. CASE cands'[k] # cands[k]
  <2>1. /\ k = n /\ cands'[n] = update(cands[n], d) /\ d \in Candidate
        /\ cands[n] \in Candidate \X Candidate
        /\ ScoreOf(cands[n][2]) <= ScoreOf(cands[n][1])
    BY <1>2, InnerCands DEF Within, FlowInv, CandInv
  <2> HIDE DEF d
  <2>2. LET u == update(cands[n], d)
        IN  /\ \A e \in Candidate :
                 e = cands[n][1] \/ e = cands[n][2]
                 => \/ u[1] = e \/ u[2] = e
                    \/ ScoreOf(e) <= ScoreOf(u[1]) /\ ScoreOf(e) <= ScoreOf(u[2])
            /\ \A s \in Nat : s <= ScoreOf(cands[n][1]) /\ s <= ScoreOf(cands[n][2])
                              => s <= ScoreOf(u[1]) /\ s <= ScoreOf(u[2])
    BY <2>1, UpdateRanks
  <2>3. cands[n][1] \in Candidate /\ cands[n][2] \in Candidate
    BY <2>1
  <2>4. \A e \in Candidate : e.addr = c => ScoreOf(e) = Score[c]
    BY NobodyIsUnknown DEF ScoreOf
  <2>5. Score[c] \in Nat
    BY ScoreAssumption
  <2>6. ASSUME NEW e \in Candidate, e = cands[n][1] \/ e = cands[n][2], e.addr = c
        PROVE  Ranked(cands'[n], c)
    <3>1. ScoreOf(e) = Score[c]
      BY <2>4, <2>6
    <3>2. \/ cands'[n][1] = e \/ cands'[n][2] = e
          \/ ScoreOf(e) <= ScoreOf(cands'[n][1]) /\ ScoreOf(e) <= ScoreOf(cands'[n][2])
      BY <2>1, <2>2, <2>6
    <3> QED
      BY <2>6, <3>1, <3>2 DEF Ranked
  <2>7. ASSUME Score[c] <= ScoreOf(cands[n][1]), Score[c] <= ScoreOf(cands[n][2])
        PROVE  Ranked(cands'[n], c)
    BY <2>1, <2>2, <2>5, <2>7 DEF Ranked
  <2> QED
    BY <2>1, <2>3, <2>6, <2>7 DEF Ranked
<1> QED
  BY <1>1, <1>2

LEMMA InnerHeard == ASSUME NEW n \in Node, Within(n) PROVE HeardInv'
<1>1. /\ phase' = phase /\ parity' = parity /\ ring' = ring
  BY InnerShape DEF Within
<1> SUFFICES ASSUME NEW k \in Node, NEW c \in Node, Stands(c)', InRange(c, k),
                    phase[k] = 2 * ring[c] \/ phase[k] = 2 * ring[c] + 1, parity[k] = parity[c]
             PROVE  Calls(k, c)' \/ Ranked(cands'[k], c)
  BY <1>1 DEF HeardInv, Ranked, ScoreOf
<1>2. CASE Announce(n) /\ c = n
  BY <1>2, Announced
<1>3. CASE Stands(c)
  <2>1. Calls(k, c) \/ Ranked(cands[k], c)
    BY <1>3 DEF Within, FlowInv, HeardInv
  <2>2. CASE Calls(k, c) /\ ~Calls(k, c)'
    BY <2>2, CallsStay, RankedWhenRead
  <2> QED
    BY <2>1, <2>2, RankedStays
<1> QED
  BY <1>2, <1>3, InnerStands

\* Who follows somebody goes on doing so.
LEMMA ParentStays ==
    ASSUME NEW n \in Node, Within(n), NEW k \in Node, parent[k] # UNKNOWN_ADDR
    PROVE  parent'[k] # UNKNOWN_ADDR
<1>1. CASE parent'[k] = parent[k]
  BY <1>1
<1>2. CASE parent'[k] # parent[k]
  <2>1. Join(n)
    BY <1>2 DEF Within, Inner, Recv, Announce, HearAnnouncement, SendFollow, HearFollow,
                Refused, IgnoreInJoining, state
  <2>2. parent' = [parent EXCEPT ![n] = Head(rx[n]).src] /\ Head(rx[n]).src \in Node
    BY <2>1, ReadsInPhase, MessageType DEF Consumes, Join, AnswerAwaited
  <2>3. parent'[k] \in Node
    BY <1>2, <2>2 DEF Within, TypeOK
  <2> QED
    BY <2>3, NodeAssumption
<1> QED
  BY <1>1, <1>2

\* A follower's request is answered.
LEMMA AsksOn ==
    ASSUME NEW n \in Node, Within(n), NEW k \in Node, NEW c \in Node, Asks(k, c),
           Stands(c), InRange(c, k), phase[c] = 2 * ring[c] + 1
    PROVE  Asks(k, c)' \/ Answers(k, c)'
<1>1. PICK m \in Msgs(c) : m.type = "Follow" /\ m.src = k /\ m.clusterhead = c
  BY DEF Asks
<1>2. m \in Message
  BY DEF Msgs, Waiting, Reading
<1>3. CASE m \in Msgs(c)'
  BY <1>1, <1>3 DEF Asks
<1>4. CASE c = n /\ m = Head(rx[n]) /\ Consumes(n)
  <2>1. Joining(n) /\ ~HearAnnouncement(n) /\ rx[n] # <<>>
    <3>1. ring[n] \in Nat
      BY PhaseIs DEF Within
    <3> QED
      BY <1>4, <3>1, ReadsInPhase
  <2>2. isCH[n]
    BY <1>4, <2>1 DEF Stands, Within, PaceInv, QuietInv
  <2>3. HearFollow(n)
    BY <1>1, <1>4, <2>1, <2>2
       DEF Consumes, Join, Refused, IgnoreInJoining, AnswerAwaited
  <2> DEFINE a == Answer(n)
  <2>4. a.type = "Accept" /\ a.src = n /\ a.follower = k
    BY <1>1, <1>4, <2>3, RefusesFull DEF Within
  <2>5. a \in Message /\ Emits(n, a)
    BY <2>3, QueuedMessages DEF Emits, Answer, Within, PaceInv
  <2> HIDE DEF a
  <2>6. a \in Msgs(k)'
    BY <1>4, <2>5, Traffic DEF Within, PaceInv
  <2> QED
    BY <1>4, <2>4, <2>6 DEF Answers
<1> QED
  BY <1>2, <1>3, <1>4, Traffic DEF Within, PaceInv

\* Outside ring 0 there are no gateways.
LEMMA Outward ==
    ASSUME TypeOK, RoleInv, StandInv, NEW n \in Node, Live(n), phase[n] < 2 * ring[n]
    PROVE  n # GATEWAY_ADDR /\ acts_as_follower(n)
<1>1. ring[n] \in Rings[n] /\ ring[n] # 0
  BY PhaseIs DEF StandInv
<1>2. n # GATEWAY_ADDR
  BY <1>1, RingAssumption DEF GATEWAY_RING
<1>3. role[n] # "Gateway" /\ role[n] \in {"Gateway", "Clusterhead", "Follower"}
  BY <1>2 DEF RoleInv, TypeOK
<1> QED
  BY <1>2, <1>3 DEF acts_as_follower

\* Nobody whom such a node hears in the rounds before its own is too far out.
LEMMA Inward ==
    ASSUME TypeOK, CandInv, NEW n \in Node, phase[n] < 2 * ring[n], NEW i \in 1 .. 2
    PROVE  /\ Eligible(n, cands[n][i]) = cands[n][i] /\ cands[n][i] \in Candidate
           /\ \A a \in Node : cands[n][i].addr = a =>
                InRange(a, n) /\ ring[a] < ring[n] /\ parity[a] = parity[n] /\ ring[a] \in Nat
<1>1. cands[n][i] \in Candidate
  BY DEF TypeOK
<1>2. Current(cands[n][i], n)
  <2>1. i = 1 \/ i = 2
    OBVIOUS
  <2> QED
    BY <2>1 DEF CandInv
<1>3. ASSUME NEW a \in Node, cands[n][i].addr = a
      PROVE  /\ InRange(a, n) /\ ring[a] < ring[n] /\ parity[a] = parity[n] /\ ring[a] \in Nat
             /\ cands[n][i].ring = ring[a]
  <2>1. phase[n] \in Nat /\ ring[a] \in Nat /\ ring[n] \in Nat
    BY PhaseIs
  <2>2. /\ InRange(a, n) /\ cands[n][i].ring = ring[a] /\ parity[a] = parity[n]
        /\ phase[n] = 2 * ring[a] \/ phase[n] = 2 * ring[a] + 1
    BY <1>2, <1>3 DEF Current
  <2> QED
    BY <2>1, <2>2
<1>4. Eligible(n, cands[n][i]) = cands[n][i]
  <2>1. CASE cands[n][i] = NoCandidate
    BY <2>1 DEF Eligible
  <2>2. CASE cands[n][i] # NoCandidate
    <3>1. cands[n][i].addr \in Node
      BY <1>1, <2>2 DEF Candidate
    <3>2. /\ cands[n][i].ring < ring[n] /\ cands[n][i].ring \in Nat /\ ring[n] \in Nat
      BY <1>3, <3>1, PhaseIs
    <3>3. ~(cands[n][i].ring >= ring[n])
      BY <3>2
    <3> QED
      BY <3>3 DEF Eligible
  <2> QED
    BY <2>1, <2>2
<1> QED
  BY <1>1, <1>3, <1>4

\* An answer is read: whoever is not refused follows.
LEMMA AnswersOn ==
    ASSUME NEW n \in Node, Within(n), NEW k \in Node, NEW c \in Node, Answers(k, c),
           join[k].target.addr = c, ~join[k].joined, Outer(k), ~(n = k /\ Refused(n))
    PROVE  Answers(k, c)' \/ parent'[k] # UNKNOWN_ADDR
<1>1. PICK m \in Msgs(k) : m.type = "Accept" /\ m.src = c /\ m.follower = k
  BY DEF Answers
<1>2. m \in Message
  BY DEF Msgs, Waiting, Reading
<1>3. CASE m \in Msgs(k)'
  BY <1>1, <1>3 DEF Answers
<1>4. CASE k = n /\ m = Head(rx[n]) /\ Consumes(n)
  <2>1. Joining(n) /\ Live(n) /\ ~HearAnnouncement(n) /\ rx[n] # <<>>
    <3>1. Joining(n) /\ Live(n) /\ ~Announcing(n)
      BY <1>4, PhaseIs DEF Within, Outer
    <3> QED
      BY <1>4, <3>1, ReadsInPhase DEF HearAnnouncement
  <2>2. n # GATEWAY_ADDR
    BY <1>4, <2>1, Outward DEF Within, Outer, PaceInv
  <2>3. AnswerAwaited(n)
    BY <1>1, <1>4, <2>1, <2>2 DEF AnswerAwaited
  <2>4. Join(n)
    BY <1>1, <1>4, <2>1, <2>3 DEF Consumes, HearFollow, IgnoreInJoining
  <2>5. parent' = [parent EXCEPT ![n] = c]
    BY <1>4, <2>4 DEF Join
  <2>6. parent'[n] = c
    BY <2>5 DEF Within, TypeOK
  <2> QED
    BY <1>4, <2>6, NodeAssumption
<1> QED
  BY <1>2, <1>3, <1>4, Traffic DEF Within, PaceInv

\* A node that seeks a clusterhead gets an answer.
LEMMA SeeksOn ==
    ASSUME NEW n \in Node, Within(n), NEW k \in Node, NEW c \in Node, Seeks(k, c),
           Stands(c), InRange(c, k), InRange(k, c), phase[k] = 2 * ring[c] + 1,
           Outer(k), ~(n = k /\ Refused(n))
    PROVE  Seeks(k, c)' \/ parent'[k] # UNKNOWN_ADDR
<1>0. /\ join[k].target.addr = c /\ ~join[k].joined /\ ring[c] \in Nat
      /\ join[k] \in Joiners /\ join \in [Node -> Joiners]
  BY PhaseIs DEF Seeks, Within, TypeOK
<1>1. ~HearAnnouncement(n) \/ n # k
  BY PhaseIs DEF Outer, HearAnnouncement, Within
<1>2. join[k].target # NoCandidate
  BY <1>0, NodeAssumption DEF NoCandidate
<1>3. CASE n = k /\ SendFollow(n)
  <2> DEFINE f == Follow(n, c)
  <2>1. f \in Message /\ Emits(n, f) /\ f.type = "Follow" /\ f.src = n /\ f.clusterhead = c
    <3>1. Follow(n, join[n].target.addr) \in Message
      BY <1>2, <1>3, QueuedMessages DEF Within, PaceInv
    <3> QED
      BY <1>0, <1>2, <1>3, <3>1 DEF Emits, Follow
  <2> HIDE DEF f
  <2>2. f \in Msgs(c)'
    BY <1>0, <1>3, <2>1, Traffic DEF Within, PaceInv
  <2>3. join'[k].target = join[k].target /\ join'[k].joined = join[k].joined
    BY <1>0, <1>3 DEF SendFollow, Joiners
  <2> QED
    BY <1>0, <1>3, <2>1, <2>2, <2>3 DEF Seeks, Asks
<1>4. CASE n = k /\ Join(n)
  <2>1. parent' = [parent EXCEPT ![n] = c]
    BY <1>0, <1>4 DEF Join
  <2>2. parent'[n] = c
    BY <2>1 DEF Within, TypeOK
  <2> QED
    BY <1>4, <2>2, NodeAssumption
<1>5. CASE ~(n = k /\ (SendFollow(n) \/ Join(n)))
  <2>1. join'[k] = join[k]
    <3>1. CASE n # k
      BY <3>1, InnerShape DEF Within
    <3>2. CASE n = k
      BY <1>5, <3>2 DEF Within, Inner, Recv, Announce, HearAnnouncement, HearFollow,
                        IgnoreInJoining, locals
    <3> QED
      BY <3>1, <3>2
  <2>2. CASE join[k].try
    BY <1>0, <2>1, <2>2 DEF Seeks
  <2>3. CASE Asks(k, c)
    <3>1. phase[c] = phase[k]
      <4>1. Msgs(c) # {}
        BY <2>3 DEF Asks
      <4>2. Together(c)
        BY <4>1, FrameType, ReadsTogether DEF Within, PaceInv
      <4> QED
        BY <4>2 DEF Together
    <3>2. Asks(k, c)' \/ Answers(k, c)'
      BY <2>3, <3>1, AsksOn
    <3> QED
      BY <1>0, <2>1, <3>2 DEF Seeks
  <2>4. CASE Answers(k, c)
    BY <1>0, <2>1, <2>4, AnswersOn DEF Seeks
  <2> QED
    BY <2>2, <2>3, <2>4 DEF Seeks
<1> QED
  BY <1>3, <1>4, <1>5

\* Who has no slot left has none later on.
LEMMA ExhaustedStays ==
    ASSUME NEW n \in Node, Within(n), NEW c, Exhausted(c)
    PROVE  Exhausted(c)'
<1>1. c \in Node /\ isCH[c] /\ Full(c)
  BY DEF Exhausted
<1>2. Full(c)'
  BY <1>1, FullStays, InnerInSlot DEF Within, Stands
<1>3. isCH'[c]
  BY <1>1, InnerShape DEF Within
<1> QED
  BY <1>1, <1>2, <1>3 DEF Exhausted

\* A refusal comes of a table that is full.
LEMMA RefusedByFull ==
    ASSUME NEW n \in Node, Within(n), Refused(n)
    PROVE  Exhausted(join[n].target.addr)
<1> DEFINE m == Head(rx[n])
<1>1. m \in Msgs(n) /\ m \in Message /\ m.type = "Accept" /\ m.src = join[n].target.addr
      /\ ~m.accepted
  BY ReadsInPhase DEF Consumes, Refused, AnswerAwaited
<1>2. m.src \in Node
  BY <1>1, MessageType
<1> QED
  BY <1>1, <1>2 DEF Within, FlowInv, MsgInv, Exhausted

LEMMA InnerJoin == ASSUME NEW n \in Node, Within(n) PROVE JoinInv'
<1>1. /\ phase' = phase /\ parity' = parity /\ ring' = ring
  BY InnerShape DEF Within
<1> SUFFICES ASSUME NEW k \in Node, Outer(k)
             PROVE  /\ Aims(k)'
                    /\ \A c \in Node :
                          join'[k].target.addr = c /\ Stands(c)' /\ InRange(k, c)
                          => Heeded(k, c)'
  <2>1. \A k \in Node : Outer(k)' <=> Outer(k)
    BY <1>1 DEF Outer, Joining
  <2> QED
    BY <2>1 DEF JoinInv
<1>2. /\ Aims(k)
      /\ \A c \in Node : join[k].target.addr = c /\ Stands(c) /\ InRange(k, c) => Heeded(k, c)
  BY DEF Within, FlowInv, JoinInv
<1>3. cands'[k] = cands[k]
  <2>1. ~(k = n /\ HearAnnouncement(n))
    BY PhaseIs DEF Outer, HearAnnouncement, Within
  <2> QED
    BY <2>1, InnerCands
<1>4. join[k] \in Joiners
  BY DEF Within, TypeOK
<1>5. /\ Eligible(k, cands[k][2]) = cands[k][2]
      /\ \A i \in 1 .. 2 : \A a \in Node : cands[k][i].addr = a => InRange(a, k) /\ ring[a] \in Nat
  BY Inward DEF Within, FlowInv, Outer
<1>6. \A e : Exhausted(e) => Exhausted(e)'
  BY ExhaustedStays
<1>7. CASE n = k /\ Refused(n)
  <2>1. Exhausted(join[k].target.addr)
    BY <1>7, RefusedByFull
  <2>2. CASE join[k].triedSecond
    <3>1. join'[k] = join[k]
      BY <1>7, <2>2 DEF Refused
    <3>2. Aims(k)'
      BY <1>2, <1>3, <1>6, <2>2, <3>1 DEF Aims, Exhausted, Full, vtdma_window_size
    <3>3. ASSUME NEW c \in Node, join[k].target.addr = c PROVE Heeded(k, c)'
      <4>1. Exhausted(c)'
        BY <1>6, <2>1, <3>3
      <4> QED
        BY <2>2, <3>1, <4>1 DEF Heeded, Exhausted
    <3> QED
      BY <3>1, <3>2, <3>3
  <2>3. CASE ~join[k].triedSecond
    <3>1. join'[k] = [target |-> cands[k][2],
                      try |-> join[k].try \/ cands[k][2] # NoCandidate,
                      triedSecond |-> TRUE, joined |-> FALSE]
      BY <1>5, <1>7, <2>3 DEF Refused, Within, TypeOK
    <3>2. Exhausted(cands[k][1].addr)
      BY <1>2, <2>1, <2>3 DEF Aims
    <3>3. Aims(k)'
      <4> DEFINE e == cands[k][1].addr
      <4>1. cands'[k][1].addr = e /\ isCH'[e] /\ e \in Node
            /\ Len(slots'[e]) = vtdma_window_size - 1
        BY <1>3, <1>6, <3>2 DEF Exhausted, Full, vtdma_window_size
      <4>2. join'[k].triedSecond /\ join'[k].target = cands'[k][2]
        BY <1>3, <3>1
      <4> QED
        BY <4>1, <4>2 DEF Aims, Exhausted, Full, vtdma_window_size
    <3>4. ASSUME NEW c \in Node, cands[k][2].addr = c PROVE Heeded(k, c)'
      <4>1. cands[k][2] # NoCandidate
        BY <3>4, NobodyIsUnknown
      <4>2. join'[k].target.addr = c /\ join'[k].joined = FALSE
        BY <3>1, <3>4
      <4>3. join'[k].try = (join[k].try \/ cands[k][2] # NoCandidate)
        BY <3>1
      <4>4. join'[k].try
        BY <4>1, <4>3, Zenon
      <4> QED
        BY <4>2, <4>4 DEF Seeks, Heeded
    <3>5. join'[k].target = cands[k][2]
      BY <3>1
    <3> QED
      BY <3>3, <3>4, <3>5
  <2> QED
    BY <2>2, <2>3
<1>8. CASE ~(n = k /\ Refused(n))
  <2>1. join'[k].target = join[k].target /\ join'[k].triedSecond = join[k].triedSecond
    <3>1. CASE n # k
      BY <3>1, InnerShape DEF Within
    <3>2. CASE n = k /\ (SendFollow(n) \/ Join(n))
      <4>1. \/ join'[k] = [join[k] EXCEPT !.try = FALSE]
            \/ join'[k] = [join[k] EXCEPT !.joined = TRUE]
        BY <3>2 DEF SendFollow, Join, Within, TypeOK
      <4> QED
        BY <1>4, <4>1 DEF Joiners
    <3>3. CASE n = k /\ ~SendFollow(n) /\ ~Join(n)
      BY <1>8, <3>3 DEF Within, Inner, Recv, Announce, HearAnnouncement, HearFollow,
                        IgnoreInJoining, locals
    <3> QED
      BY <3>1, <3>2, <3>3
  <2>2. ASSUME NEW c \in Node, join[k].target.addr = c, Stands(c)', InRange(k, c)
        PROVE  Heeded(k, c)'
    <3>1. Stands(c)
      <4>1. CASE Announce(n) /\ c = n
        <5>1. phase[k] = phase[n] /\ Announcing(n)
          BY <4>1, Announced DEF Together, Announce
        <5> QED
          BY <5>1, PhaseIs DEF Within, Outer, Announcing, Joining
      <4> QED
        BY <2>2, <4>1, InnerStands
    <3>2. CASE parent[k] # UNKNOWN_ADDR
      BY <3>2, ParentStays DEF Heeded, UNKNOWN_ADDR
    <3>3. CASE Seeks(k, c)
      <4>1. InRange(c, k) /\ phase[k] = 2 * ring[c] + 1
        <5>1. PICK i \in 1 .. 2 : cands[k][i].addr = c
          BY <1>2, <2>2 DEF Aims
        <5>2. Current(cands[k][i], k)
          <6>1. i = 1 \/ i = 2
            OBVIOUS
          <6> QED
            BY <6>1 DEF Within, FlowInv, CandInv
        <5>3. InRange(c, k) /\ (phase[k] = 2 * ring[c] \/ phase[k] = 2 * ring[c] + 1)
          BY <5>1, <5>2 DEF Current
        <5>4. ring[c] \in Nat /\ phase[k] % 2 = 1
          BY PhaseIs DEF Within, Outer, Joining
        <5> QED
          BY <5>3, <5>4
      <4>2. Seeks(k, c)' \/ parent'[k] # UNKNOWN_ADDR
        BY <1>8, <2>2, <3>1, <3>3, <4>1, SeeksOn
      <4> QED
        BY <4>2 DEF Heeded, UNKNOWN_ADDR
    <3>4. CASE join[k].triedSecond /\ Full(c)
      <4>1. Full(c)'
        BY <3>1, <3>4, FullStays, InnerInSlot DEF Within
      <4> QED
        BY <2>1, <3>4, <4>1 DEF Heeded
    <3> QED
      BY <1>2, <2>2, <3>1, <3>2, <3>3, <3>4 DEF Heeded
  <2>3. Aims(k)'
    BY <1>2, <1>3, <1>6, <2>1 DEF Aims, Exhausted, Full, vtdma_window_size
  <2> QED
    BY <2>1, <2>2, <2>3
<1> QED
  BY <1>7, <1>8

LEMMA InnerFlow == ASSUME NEW n \in Node, Within(n) PROVE FlowInv'
  BY InnerMsg, InnerCand, InnerHeard, InnerJoin DEF FlowInv

-----------------------------------------------------------------------------
(* The end of a phase, and the next superframe, find nothing under way.     *)

Between ==
    /\ Lossless
    /\ TypeOK /\ SkewInv /\ RoleInv /\ RestInv /\ PaceInv /\ FlowInv

LEMMA NothingSaid ==
    ASSUME NEW k \in Node, Msgs(k) = {}
    PROVE  \A b : ~Calls(k, b) /\ ~Asks(b, k) /\ ~Answers(k, b)
  BY DEF Calls, Asks, Answers

LEMMA NothingLeft ==
    ASSUME NEW n \in Node, Between, Live(n), MayEndPhase(n), inbox' = inbox, rx' = rx
    PROVE  /\ Quiet(n)
           /\ \A k \in Node :
                /\ Msgs(k) = {} /\ Msgs(k)' = {} /\ parity[k] = parity[n]
                /\ phase[k] \in Nat /\ ring[k] \in Nat
                /\ \/ phase[k] = phase[n]
                   \/ phase[k] = phase[n] + 1 /\ Fresh(k)
<1>1. Quiet(n) /\ \A k \in Node : Idle(k)
  BY EndsQuietly DEF Between, PaceInv
<1>2. \A k \in Node : Msgs(k) = {}
  BY <1>1, FrameType DEF Between, PaceInv
<1>3. \A k \in Node : Msgs(k)' = Msgs(k)
  BY DEF Msgs, Waiting, Reading
<1>4. \A k \in Node : phase[k] \in Nat /\ ring[k] \in Nat
  BY PhaseIs DEF Between
<1>5. \A k \in Node : /\ parity[k] = parity[n]
                      /\ \/ phase[k] = phase[n]
                         \/ phase[k] = phase[n] + 1 /\ Fresh(k)
  BY EndsQuietly DEF Between, PaceInv
<1> QED
  BY <1>1, <1>2, <1>3, <1>4, <1>5

LEMMA EndAnnouncementFlow ==
    ASSUME NEW n \in Node, Between, EndAnnouncement(n)
    PROVE  FlowInv'
<1>1. /\ Announcing(n) /\ MayEndPhase(n)
      /\ phase' = [phase EXCEPT ![n] = @ + 1] /\ parity' = parity /\ ring' = ring
      /\ isCH' = [isCH EXCEPT ![n] = @ \/ bid[n] # "none"]
      /\ bid' = [bid EXCEPT ![n] = "none"]
      /\ join' = [join EXCEPT ![n] = Joiner(Eligible(n, cands[n][1]), acts_as_follower(n))]
      /\ cands' = cands /\ inbox' = inbox /\ rx' = rx /\ parent' = parent /\ slots' = slots
  BY DEF EndAnnouncement, state, radio
<1>2. TypeOK /\ RoleInv /\ StandInv /\ MsgInv /\ CandInv /\ HeardInv /\ JoinInv
  BY DEF Between, FlowInv, PaceInv
<1>3. Live(n)
  BY <1>1, <1>2, PhaseIs
<1>4. /\ Quiet(n)
      /\ \A k \in Node : /\ Msgs(k) = {} /\ Msgs(k)' = {} /\ parity[k] = parity[n]
                         /\ phase[k] \in Nat /\ ring[k] \in Nat
  BY <1>1, <1>3, NothingLeft
<1>5. \A k \in Node : \A b : ~Calls(k, b) /\ ~Calls(k, b)' /\ ~Asks(b, k) /\ ~Answers(k, b)
  BY <1>4, NothingSaid DEF Calls
<1>6. /\ phase'[n] = phase[n] + 1 /\ bid'[n] = "none"
      /\ isCH'[n] = (isCH[n] \/ bid[n] # "none")
      /\ join'[n] = Joiner(Eligible(n, cands[n][1]), acts_as_follower(n))
      /\ \A k \in Node : k # n => /\ phase'[k] = phase[k] /\ bid'[k] = bid[k]
                                  /\ isCH'[k] = isCH[k] /\ join'[k] = join[k]
  BY <1>1, <1>2 DEF TypeOK
<1>7. \A g \in Nat : phase[n] # 2 * g + 1 /\ phase'[n] # 2 * g
  <2>1. phase[n] \in Nat /\ phase[n] % 2 = 0
    BY <1>1, <1>4 DEF Announcing
  <2> QED
    BY <1>6, <2>1
<1>8. \A c \in Node : Stands(c)' => Stands(c)
  <2>1. Stands(n)' => Stands(n)
    <3>1. bid[n] \in {"none", "pending", "made"} /\ bid[n] # "pending"
      BY <1>2, <1>4 DEF TypeOK, Quiet
    <3>2. Stands(n)' => isCH'[n]
      BY <1>6 DEF Stands
    <3>3. isCH'[n] => isCH[n] \/ bid[n] # "none"
      BY <1>6, Zenon
    <3> QED
      BY <3>1, <3>2, <3>3 DEF Stands
  <2> QED
    BY <1>6, <2>1 DEF Stands
<1>9. MsgInv'
  BY <1>4 DEF MsgInv
<1>10. CandInv'
  <2>1. ASSUME NEW k \in Node, NEW cand, Current(cand, k)
        PROVE  \A a \in Node : cand.addr = a =>
                 /\ InRange(a, k) /\ cand.ring = ring[a] /\ parity[a] = parity[k]
                 /\ phase'[k] = 2 * ring[a] \/ phase'[k] = 2 * ring[a] + 1
    <3> SUFFICES ASSUME NEW a \in Node, cand.addr = a
                 PROVE  /\ InRange(a, k) /\ cand.ring = ring[a] /\ parity[a] = parity[k]
                        /\ phase'[k] = 2 * ring[a] \/ phase'[k] = 2 * ring[a] + 1
      OBVIOUS
    <3>1. /\ InRange(a, k) /\ cand.ring = ring[a] /\ parity[a] = parity[k]
          /\ phase[k] = 2 * ring[a] \/ phase[k] = 2 * ring[a] + 1
      BY <2>1 DEF Current
    <3>2. ring[a] \in Nat
      BY <1>4
    <3> QED
      BY <1>6, <1>7, <3>1, <3>2
  <2> QED
    BY <1>1, <1>2, <2>1 DEF CandInv, Current, ScoreOf
<1>11. HeardInv'
  <2> SUFFICES ASSUME NEW k \in Node, NEW c \in Node, Stands(c)', InRange(c, k),
                      phase'[k] = 2 * ring[c] \/ phase'[k] = 2 * ring[c] + 1,
                      parity[k] = parity[c]
               PROVE  Ranked(cands[k], c)
    BY <1>1 DEF HeardInv, Ranked, ScoreOf
  <2>1. phase[k] = 2 * ring[c] \/ phase[k] = 2 * ring[c] + 1
    <3>1. CASE k = n
      <4>1. ring[c] \in Nat /\ phase[n] \in Nat
        BY <1>4
      <4> QED
        BY <1>6, <1>7, <3>1, <4>1
    <3> QED
      BY <1>6, <3>1
  <2> QED
    BY <1>2, <1>5, <1>8, <2>1 DEF HeardInv
<1>12. JoinInv'
  <2> SUFFICES ASSUME NEW k \in Node, Outer(k)'
               PROVE  /\ Aims(k)'
                      /\ \A c \in Node :
                            join'[k].target.addr = c /\ Stands(c)' /\ InRange(k, c)
                            => Heeded(k, c)'
    BY DEF JoinInv
  <2>1. \A c : Exhausted(c) => Exhausted(c)'
    BY <1>1, <1>6 DEF Exhausted, Full, vtdma_window_size
  <2>2. CASE k # n
    <3>1. Outer(k)
      BY <1>1, <1>6, <2>2 DEF Outer, Joining
    <3>2. \A c \in Node : Heeded(k, c) => Heeded(k, c)'
      BY <1>1, <1>5, <1>6, <2>2 DEF Heeded, Seeks, Full, vtdma_window_size, UNKNOWN_ADDR
    <3>3. Aims(k)'
      BY <1>1, <1>2, <1>6, <2>1, <2>2, <3>1
         DEF JoinInv, Aims, Exhausted, Full, vtdma_window_size
    <3> QED
      BY <1>2, <1>6, <1>8, <2>2, <3>1, <3>2, <3>3 DEF JoinInv
  <2>3. CASE k = n
    <3>1. phase[n] < 2 * ring[n]
      <4>1. phase[n] + 1 < 2 * ring[n]
        BY <1>1, <1>6, <2>3 DEF Outer
      <4> QED
        BY <1>4, <4>1
    <3>2. Eligible(n, cands[n][1]) = cands[n][1]
      BY <1>2, <3>1, Inward
    <3>3. acts_as_follower(n)
      BY <1>2, <1>3, <3>1, Outward
    <3>4. /\ join'[n].target = cands[n][1] /\ join'[n].try /\ ~join'[n].triedSecond
          /\ ~join'[n].joined
      BY <1>6, <3>2, <3>3 DEF Joiner
    <3> QED
      BY <1>1, <2>3, <3>4 DEF Aims, Heeded, Seeks
  <2> QED
    BY <2>2, <2>3
<1> QED
  BY <1>9, <1>10, <1>11, <1>12 DEF FlowInv

LEMMA EndJoiningFlow ==
    ASSUME NEW n \in Node, Between, EndJoining(n)
    PROVE  FlowInv'
<1>1. /\ phase' = [phase EXCEPT ![n] = @ + 1] /\ parity' = parity /\ ring' = ring
      /\ isCH' = isCH /\ parent' = parent /\ inbox' = inbox /\ rx' = rx
      /\ cands'[n] = NoCands /\ join'[n] = NoJoin
      /\ bid'[n] # "made" /\ bid[n] = "none"
      /\ \A k \in Node : slots'[k] # slots[k] => ~isCH[k]
      /\ \A k \in Node : k # n => /\ bid'[k] = bid[k] /\ cands'[k] = cands[k]
                                  /\ join'[k] = join[k] /\ slots'[k] = slots[k]
  BY EndJoiningShape DEF Between
<1>2. TypeOK /\ MsgInv /\ CandInv /\ HeardInv /\ JoinInv /\ StandInv
  BY DEF Between, FlowInv, PaceInv
<1>3. Joining(n) /\ Live(n) /\ MayEndPhase(n)
  BY <1>2, PhaseIs DEF EndJoining
<1>4. \A k \in Node : /\ Msgs(k) = {} /\ Msgs(k)' = {} /\ parity[k] = parity[n]
                      /\ phase[k] \in Nat /\ ring[k] \in Nat
                      /\ \/ phase[k] = phase[n]
                         \/ phase[k] = phase[n] + 1 /\ Fresh(k)
  BY <1>1, <1>3, NothingLeft
<1>5. \A k \in Node : \A b : ~Calls(k, b) /\ ~Calls(k, b)' /\ ~Asks(b, k) /\ ~Answers(k, b)
  BY <1>4, NothingSaid DEF Calls
<1>6. phase'[n] = phase[n] + 1 /\ \A k \in Node : k # n => phase'[k] = phase[k]
  BY <1>1, <1>2 DEF TypeOK
<1>7. /\ \A g \in Nat : phase'[n] # 2 * g + 1
      /\ ~Joining(n)'
  <2>1. phase[n] \in Nat /\ phase[n] % 2 = 1
    BY <1>3, <1>4 DEF Joining
  <2>2. (phase[n] + 1) % 2 # 1
    BY <2>1
  <2> QED
    BY <1>6, <2>1, <2>2 DEF Joining
<1>8. ASSUME NEW c \in Node, Stands(c)' PROVE Stands(c) /\ slots'[c] = slots[c]
  BY <1>1, <1>8 DEF Stands
<1>9. MsgInv'
  BY <1>4 DEF MsgInv
<1>10. CandInv'
  <2> SUFFICES ASSUME NEW k \in Node
               PROVE  /\ Current(cands[k][1], k)' /\ Current(cands[k][2], k)'
                      /\ ScoreOf(cands'[k][2]) <= ScoreOf(cands'[k][1])
    BY DEF CandInv, ScoreOf
  <2>1. CASE k = n
    BY <1>1, <2>1, NobodyIsUnknown DEF Current, ScoreOf
  <2>2. CASE k # n
    <3>1. /\ Current(cands[k][1], k) /\ Current(cands[k][2], k)
          /\ ScoreOf(cands[k][2]) <= ScoreOf(cands[k][1])
      BY <1>2 DEF CandInv
    <3>2. cands'[k] = cands[k] /\ phase'[k] = phase[k]
      BY <1>1, <1>6, <2>2
    <3> QED
      BY <1>1, <3>1, <3>2 DEF Current
  <2> QED
    BY <2>1, <2>2
<1>11. HeardInv'
  <2> SUFFICES ASSUME NEW k \in Node, NEW c \in Node, Stands(c)', InRange(c, k),
                      phase'[k] = 2 * ring[c] \/ phase'[k] = 2 * ring[c] + 1,
                      parity[k] = parity[c]
               PROVE  Ranked(cands'[k], c)
    BY <1>1 DEF HeardInv, Ranked, ScoreOf
  <2>1. Stands(c)
    BY <1>8
  <2>2. CASE k # n
    BY <1>1, <1>2, <1>5, <1>6, <2>1, <2>2 DEF HeardInv
  <2>3. CASE k = n
    <3>1. 2 * ring[c] = phase[n] + 1
      BY <1>4, <1>6, <1>7, <2>3
    <3>2. ~isCH[c]
      BY <1>2, <1>4, <3>1 DEF StandInv
    <3>3. bid[c] = "made"
      BY <2>1, <3>2 DEF Stands
    <3>4. phase[c] = phase[n] + 1
      BY <1>2, <3>1, <3>3 DEF StandInv
    <3>5. phase[c] # phase[n]
      BY <1>4, <3>4
    <3> QED
      BY <1>4, <3>3, <3>5 DEF Fresh
  <2> QED
    BY <2>2, <2>3
<1>12. JoinInv'
  <2> SUFFICES ASSUME NEW k \in Node, Outer(k)'
               PROVE  /\ Aims(k)'
                      /\ \A c \in Node :
                            join'[k].target.addr = c /\ Stands(c)' /\ InRange(k, c)
                            => Heeded(k, c)'
    BY DEF JoinInv
  <2>1. k # n
    BY <1>7 DEF Outer
  <2>2. Outer(k) /\ join'[k] = join[k] /\ cands'[k] = cands[k]
    BY <1>1, <1>6, <2>1 DEF Outer, Joining
  <2>3. \A c : Exhausted(c) => Exhausted(c)'
    BY <1>1 DEF Exhausted, Full, vtdma_window_size
  <2>4. \A c \in Node : Stands(c)' /\ Heeded(k, c) => Heeded(k, c)'
    BY <1>1, <1>5, <1>8, <2>2 DEF Heeded, Seeks, Full, vtdma_window_size, UNKNOWN_ADDR
  <2>5. Aims(k)'
    BY <1>2, <2>2, <2>3 DEF JoinInv, Aims, Exhausted, Full, vtdma_window_size
  <2> QED
    BY <1>2, <1>8, <2>2, <2>4, <2>5 DEF JoinInv
<1> QED
  BY <1>9, <1>10, <1>11, <1>12 DEF FlowInv

LEMMA AdvertiseFlow ==
    ASSUME NEW n \in Node, Between, Advertise(n)
    PROVE  FlowInv'
<1>1. /\ TypeOK /\ SkewInv /\ RestInv /\ LockInv /\ QuietInv /\ StandInv /\ FrameInv
  BY DEF Between, PaceInv
<1>2. PICK g \in Rings[n] : /\ ring' = [ring EXCEPT ![n] = g]
                            /\ BeginAnnouncement(n, 0, g, BaseRole(n), FALSE)
  BY DEF Advertise
<1>3. /\ bid'[n] # "made"
      /\ \A k \in Node : k # n => bid'[k] = bid[k] /\ slots'[k] = slots[k]
  BY <1>1, <1>2, BeginBid
<1>4. /\ isCH' = [isCH EXCEPT ![n] = FALSE] /\ phase' = [phase EXCEPT ![n] = 0]
      /\ parity' = [parity EXCEPT ![n] = 1 - @]
      /\ parent' = [parent EXCEPT ![n] = UNKNOWN_ADDR]
      /\ inbox' = [inbox EXCEPT ![n] = <<>>] /\ rx' = rx /\ cands' = cands /\ join' = join
  BY DEF Advertise
<1>5. /\ isCH'[n] = FALSE /\ parity'[n] = 1 - parity[n] /\ parity[n] \in {0, 1}
      /\ \A k \in Node : k # n => /\ phase'[k] = phase[k] /\ parity'[k] = parity[k]
                                  /\ isCH'[k] = isCH[k] /\ ring'[k] = ring[k]
                                  /\ parent'[k] = parent[k] /\ inbox'[k] = inbox[k]
  BY <1>1, <1>2, <1>4 DEF TypeOK
<1>6. ASSUME NEW k \in Node
      PROVE  /\ Idle(k) /\ cands[k] = NoCands /\ bid[k] # "made"
             /\ \/ ~Live(k) /\ parity[k] = parity[n]
                \/ parity[k] # parity[n] /\ ~isCH[k]
  <2>1. CASE ~Live(k) /\ parity[k] = parity[n] /\ Quiet(k)
    <3>1. bid[k] = "none" /\ cands[k] = NoCands
      BY <1>1, <2>1 DEF QuietInv, RestInv
    <3> QED
      BY <2>1, <3>1 DEF Quiet, Idle
  <2>2. CASE Live(k) /\ parity[k] # parity[n] /\ phase[k] = 0 /\ Fresh(k)
    <3>1. ~Joining(k)
      BY <2>2 DEF Joining
    <3>2. ~isCH[k]
      <4>1. ring[k] \in Nat /\ (isCH[k] => phase[k] > 2 * ring[k])
        BY <1>1, PhaseIs DEF StandInv
      <4> QED
        BY <2>2, <4>1
    <3> QED
      BY <2>2, <3>1, <3>2 DEF Fresh
  <2> QED
    BY <1>1, <2>1, <2>2, AdvertiseAlone
<1>7. ASSUME NEW k \in Node PROVE Msgs(k) = {} /\ Msgs(k)' = {}
  <2>1. Msgs(k) = {} /\ inbox[k] = <<>> /\ rx[k] = <<>>
    BY <1>1, <1>6, FrameType DEF Idle
  <2>2. Msgs(k)' = Msgs(k)
    <3>1. inbox'[k] = inbox[k] /\ rx'[k] = rx[k]
      BY <1>1, <1>4, <1>5, <2>1 DEF TypeOK
    <3> QED
      BY <3>1 DEF Msgs, Waiting, Reading
  <2> QED
    BY <2>1, <2>2
<1>8. \A k \in Node : \A b : ~Calls(k, b)' /\ ~Asks(b, k) /\ ~Answers(k, b)
  BY <1>7, NothingSaid DEF Calls
<1>9. ASSUME NEW c \in Node, Stands(c)', NEW k \in Node, parity'[k] = parity'[c]
      PROVE  /\ c # n /\ k # n /\ Stands(c) /\ isCH[c] /\ parity[k] = parity[c]
             /\ phase[k] = DATA /\ phase[c] = DATA
  <2>1. c # n
    BY <1>3, <1>5, <1>9 DEF Stands
  <2>2. isCH[c] /\ Stands(c)
    BY <1>3, <1>5, <1>6, <1>9, <2>1 DEF Stands
  <2>3. ~Live(c) /\ parity[c] = parity[n]
    BY <1>6, <2>2
  <2>4. k # n
    BY <1>5, <1>9, <2>1, <2>3
  <2>5. parity[k] = parity[c] /\ ~Live(k)
    BY <1>5, <1>6, <1>9, <2>1, <2>3, <2>4
  <2> QED
    BY <2>1, <2>2, <2>3, <2>4, <2>5 DEF Live
<1>10. MsgInv'
  BY <1>7 DEF MsgInv
<1>11. CandInv'
  <2>1. \A k \in Node : cands'[k][1] = NoCandidate /\ cands'[k][2] = NoCandidate
    BY <1>4, <1>6, NobodyIsUnknown
  <2>2. ScoreOf(NoCandidate) = 0
    BY DEF ScoreOf
  <2> QED
    BY <2>1, <2>2, NobodyIsUnknown DEF CandInv, Current, ScoreOf
<1>12. HeardInv'
  <2> SUFFICES ASSUME NEW k \in Node, NEW c \in Node, Stands(c)',
                      phase'[k] = 2 * ring'[c] \/ phase'[k] = 2 * ring'[c] + 1,
                      parity'[k] = parity'[c]
               PROVE  FALSE
    BY DEF HeardInv
  <2>1. c # n /\ k # n /\ isCH[c] /\ phase[k] = DATA /\ phase[c] = DATA
    BY <1>9
  <2>2. phase[c] > 2 * ring[c]
    BY <1>1, <2>1 DEF StandInv
  <2>3. phase[k] = 2 * ring[c] \/ phase[k] = 2 * ring[c] + 1
    BY <1>5, <2>1
  <2>4. ring[c] \in Nat /\ DATA \in Nat /\ DATA % 2 = 0
    BY <1>1, PhaseIs, DataType
  <2> QED
    BY <2>1, <2>2, <2>3, <2>4
<1>13. JoinInv'
  <2>1. ASSUME NEW k \in Node PROVE ~Joining(k)'
    <3>1. phase'[k] = 0 \/ phase'[k] = DATA
      <4>1. phase[k] = 0 \/ phase[k] = DATA
        BY <1>1, AdvertiseAlone DEF Live
      <4> QED
        BY <1>1, <1>4, <4>1 DEF TypeOK
    <3> QED
      BY <3>1, DataType DEF Joining, DATA
  <2> QED
    BY <2>1 DEF JoinInv, Outer
<1> QED
  BY <1>10, <1>11, <1>12, <1>13 DEF FlowInv

-----------------------------------------------------------------------------
ServingInv == PaceInv /\ FlowInv

LEMMA InitServing == Init => ServingInv
<1> SUFFICES ASSUME Init PROVE ServingInv
  OBVIOUS
<1>1. \A n \in Node : /\ phase[n] = DATA /\ parity[n] = 0 /\ ~Live(n) /\ bid[n] = "none"
                      /\ ~isCH[n] /\ cands[n] = NoCands /\ join[n] = NoJoin /\ tx[n] = <<>>
                      /\ inbox[n] = <<>> /\ rx[n] = <<>>
  BY DEF Init, Live
<1>2. ~NoJoin.try
  BY DEF NoJoin, Joiner
<1>3. \A n \in Node : Quiet(n)
  BY <1>1, <1>2 DEF Quiet
<1>4. LockInv
  <2>1. \A n, m \in Node : Lead(n, m) = 0
    BY <1>1, DataType DEF Lead
  <2> QED
    BY <2>1 DEF LockInv
<1>5. QuietInv /\ StandInv
  BY <1>1, <1>3 DEF QuietInv, StandInv
<1>6. FrameInv
  <2>1. <<>> \in Seq(Single)
    OBVIOUS
  <2> QED
    BY <1>1, <2>1 DEF FrameInv
<1>7. \A n \in Node : Msgs(n) = {}
  BY <1>1, <1>6, FrameType DEF Idle
<1>8. \A n \in Node : \A b : ~Calls(n, b) /\ ~Stands(n)
  BY <1>1, <1>7, NothingSaid DEF Stands
<1>9. MsgInv /\ HeardInv
  BY <1>7, <1>8 DEF MsgInv, HeardInv
<1>10. CandInv
  BY <1>1, NobodyIsUnknown DEF CandInv, Current, ScoreOf
<1>11. JoinInv
  BY <1>1, DataType DEF JoinInv, Outer, Joining
<1> QED
  BY <1>4, <1>5, <1>6, <1>9, <1>10, <1>11 DEF ServingInv, PaceInv, FlowInv

LEMMA StepServing ==
    ASSUME Lossless, Roomy, TypeOK, TypeOK', FormationInv, ServingInv,
           NEW n \in Node, Step(n)
    PROVE  ServingInv'
<1>1. SkewInv /\ RoleInv /\ RestInv /\ PaceInv /\ FlowInv
  BY DEF FormationInv, ServingInv
<1>2. Between
  BY <1>1 DEF Between
<1>3. CASE Inner(n)
  <2>1. Within(n)
    BY <1>1, <1>3 DEF Within
  <2> QED
    BY <1>1, <1>3, <2>1, InnerPace, InnerFlow DEF ServingInv
<1>4. CASE EndAnnouncement(n)
  BY <1>1, <1>2, <1>4, EndAnnouncementPace, EndAnnouncementFlow DEF ServingInv
<1>5. CASE EndJoining(n)
  BY <1>1, <1>2, <1>5, EndJoiningPace, EndJoiningFlow DEF ServingInv
<1>6. CASE Advertise(n)
  BY <1>1, <1>2, <1>6, AdvertisePace, AdvertiseFlow DEF ServingInv
<1> QED
  BY <1>3, <1>4, <1>5, <1>6 DEF Step, Inner

LEMMA StutterServing == ASSUME ServingInv, UNCHANGED vars PROVE ServingInv'
<1>1. /\ phase' = phase /\ parity' = parity /\ ring' = ring /\ slots' = slots
      /\ parent' = parent /\ isCH' = isCH /\ cands' = cands /\ bid' = bid
      /\ join' = join /\ tx' = tx /\ inbox' = inbox /\ rx' = rx
  BY DEF vars, state, locals, radio
<1>2. /\ \A n, m \in Node : Lead(n, m)' = Lead(n, m)
      /\ \A n \in Node : /\ Quiet(n)' <=> Quiet(n)
                         /\ Fresh(n)' <=> Fresh(n)
                         /\ Live(n)' <=> Live(n)
                         /\ Joining(n)' <=> Joining(n)
  BY <1>1 DEF Lead, Quiet, Fresh, Idle, Live, Joining
<1>3. /\ LockInv' <=> LockInv
      /\ QuietInv' <=> QuietInv
      /\ StandInv' <=> StandInv
      /\ FrameInv' <=> FrameInv
  BY <1>1, <1>2 DEF LockInv, QuietInv, StandInv, FrameInv, Single
<1>4. \A n \in Node : Msgs(n)' = Msgs(n)
  BY <1>1 DEF Msgs, Waiting, Reading
<1>5. \A n \in Node : \A b : /\ Calls(n, b)' <=> Calls(n, b)
                             /\ Asks(b, n)' <=> Asks(b, n)
                             /\ Answers(n, b)' <=> Answers(n, b)
  BY <1>1, <1>4 DEF Calls, Asks, Answers
<1>6. \A c \in Node : (Stands(c)' <=> Stands(c)) /\ (Full(c)' <=> Full(c))
  BY <1>1 DEF Stands, Full, vtdma_window_size
<1>7. /\ \A n, c \in Node : Seeks(n, c)' <=> Seeks(n, c)
      /\ \A n \in Node : Outer(n)' <=> Outer(n)
      /\ \A n \in Node : Aims(n)' <=> Aims(n)
  BY <1>1, <1>2, <1>5, <1>6 DEF Seeks, Outer, Aims, Exhausted, Full, vtdma_window_size
<1>8. MsgInv'
  <2> SUFFICES ASSUME NEW k \in Node, NEW m \in Msgs(k)
               PROVE  /\ InRange(m.src, k)
                      /\ m.type = "OpenCluster" =>
                           m.ring = ring[m.src] /\ phase[k] = 2 * ring[m.src]
                      /\ m.type = "Accept" => isCH[m.src] /\ (~m.accepted => Full(m.src)')
    BY <1>1, <1>4 DEF MsgInv
  <2>1. m.src \in Node
    BY MsgsType, MessageType
  <2> QED
    BY <1>6, <2>1 DEF ServingInv, FlowInv, MsgInv
<1>9. /\ CandInv' <=> CandInv
      /\ HeardInv' <=> HeardInv
  BY <1>1, <1>5, <1>6 DEF CandInv, Current, HeardInv, Ranked, ScoreOf
<1>10. JoinInv' <=> JoinInv
  BY <1>1, <1>6, <1>7 DEF JoinInv, Heeded, UNKNOWN_ADDR
<1> QED
  BY <1>3, <1>8, <1>9, <1>10 DEF ServingInv, PaceInv, FlowInv

LEMMA FullIsSpent == ASSUME NEW c \in Node, TypeOK, Full(c) PROVE Spent(c)
<1>1. Len(slots[c]) \in Nat /\ vtdma_window_size \in Nat
  BY WindowType DEF TypeOK
<1> QED
  BY <1>1 DEF Full, Spent

\* A node ends the joining phase of a clusterhead that reaches it without a slot
\* only if there is none left, or if it waited for one that does not answer.
LEMMA LeftOut ==
    ASSUME Lossless, TypeOK, FormationInv, ServingInv, NEW n \in Node, NEW c \in Node,
           phase[n] = 2 * ring[c] + 1, parent[n] = UNKNOWN_ADDR, isCH[c], Reaches(c, n),
           EndJoining(n)
    PROVE  \/ Spent(c)
           \/ \E b \in Preferred(n, c) : Mute(b, n)
           \/ \A i \in 1 .. 2 :
                cands[n][i].addr \in Preferred(n, c) /\ Spent(cands[n][i].addr)
<1>1. Between /\ HeardInv /\ JoinInv /\ CandInv
  BY DEF Between, FormationInv, ServingInv, FlowInv
<1>2. Live(n) /\ MayEndPhase(n) /\ Joining(n) /\ inbox' = inbox /\ rx' = rx
  BY PhaseIs DEF EndJoining, radio
<1>3. Quiet(n) /\ \A k \in Node : Msgs(k) = {}
  BY <1>1, <1>2, NothingLeft
<1>4. \A b \in Node : ~Calls(n, b) /\ ~Asks(n, b) /\ ~Answers(n, b)
  BY <1>3, NothingSaid
<1>5. /\ InRange(c, n) /\ InRange(n, c) /\ ring[c] < ring[n] /\ parity[c] = parity[n]
      /\ Score[c] > 0 /\ Score[c] \in Nat /\ Stands(c)
  BY ScoreAssumption DEF Reaches, Stands
<1>6. Ranked(cands[n], c)
  BY <1>1, <1>4, <1>5 DEF HeardInv
<1>7. Outer(n)
  <2>1. ring[c] \in Nat /\ ring[n] \in Nat
    BY PhaseIs
  <2> QED
    BY <1>2, <1>5, <2>1 DEF Outer
<1>8. /\ join[n].triedSecond => /\ join[n].target = cands[n][2]
                                /\ Exhausted(cands[n][1].addr)
      /\ ~join[n].triedSecond => join[n].target = cands[n][1]
  BY <1>1, <1>7 DEF JoinInv, Aims
<1>9. ASSUME NEW b \in Node, join[n].target.addr = b, isCH[b], InRange(n, b)
      PROVE  join[n].triedSecond /\ Full(b)
  <2>1. ~Seeks(n, b)
    <3>1. join[n].target # NoCandidate
      BY <1>9, NobodyIsUnknown
    <3> QED
      BY <1>3, <1>4, <3>1 DEF Seeks, Quiet
  <2> QED
    BY <1>1, <1>7, <1>9, <2>1 DEF JoinInv, Heeded, Stands
<1>10. ASSUME NEW b, Exhausted(b) PROVE b \in Node /\ Spent(b)
  BY <1>10, FullIsSpent DEF Exhausted
<1>11. ASSUME NEW i \in 1 .. 2, Score[c] <= ScoreOf(cands[n][i]), cands[n][i].addr # c
       PROVE  cands[n][i].addr \in Preferred(n, c)
  <2>1. cands[n][i] \in Candidate
    <3>1. cands[n] \in Candidate \X Candidate
      BY DEF TypeOK
    <3>2. i = 1 \/ i = 2
      BY <1>11
    <3> QED
      BY <3>1, <3>2
  <2>2. cands[n][i] # NoCandidate
    BY <1>5, <1>11 DEF ScoreOf
  <2>3. cands[n][i].addr \in Node /\ Score[cands[n][i].addr] >= Score[c]
    <3>1. cands[n][i].addr \in Node
      BY <2>1, <2>2 DEF Candidate
    <3>2. ScoreOf(cands[n][i]) = Score[cands[n][i].addr] /\ Score[cands[n][i].addr] \in Nat
      BY <2>2, <3>1, ScoreAssumption DEF ScoreOf
    <3> QED
      BY <1>5, <1>11, <3>1, <3>2
  <2> QED
    BY <1>11, <2>3 DEF Preferred
<1>12. \A b \in Preferred(n, c) : Mute(b, n) \/ (b \in Node /\ isCH[b] /\ InRange(n, b))
  BY DEF Preferred, Mute
<1>13. CASE cands[n][1].addr = c
  <2>1. join[n].triedSecond => Spent(c)
    BY <1>8, <1>10, <1>13
  <2>2. ~join[n].triedSecond => FALSE
    BY <1>5, <1>8, <1>9, <1>13
  <2> QED
    BY <2>1, <2>2
<1>14. CASE cands[n][1].addr # c /\ cands[n][2].addr = c
  <2> DEFINE b == cands[n][1].addr
  <2>1. Score[c] <= ScoreOf(cands[n][1])
    <3>1. cands[n][2] # NoCandidate
      BY <1>14, NobodyIsUnknown
    <3>2. ScoreOf(cands[n][2]) = Score[c]
      BY <1>14, <3>1 DEF ScoreOf
    <3> QED
      BY <1>1, <3>2 DEF CandInv
  <2>2. b \in Preferred(n, c)
    BY <1>11, <1>14, <2>1
  <2>3. CASE isCH[b] /\ InRange(n, b) /\ b \in Node
    <3>1. join[n].triedSecond
      BY <1>8, <1>9, <2>3
    <3>2. join[n].target.addr = c
      BY <1>8, <1>14, <3>1
    <3> QED
      BY <1>5, <1>9, <3>2, FullIsSpent
  <2> QED
    BY <1>12, <2>2, <2>3
<1>15. CASE cands[n][1].addr # c /\ cands[n][2].addr # c
  <2> DEFINE b(i) == cands[n][i].addr
  <2>1. \A i \in 1 .. 2 : Score[c] <= ScoreOf(cands[n][i])
    <3>1. Score[c] <= ScoreOf(cands[n][1]) /\ Score[c] <= ScoreOf(cands[n][2])
      BY <1>6, <1>15 DEF Ranked
    <3> QED
      BY <3>1
  <2>2. b(1) \in Preferred(n, c) /\ b(2) \in Preferred(n, c)
    BY <1>11, <1>15, <2>1
  <2>3. CASE \A i \in 1 .. 2 : isCH[b(i)] /\ InRange(n, b(i)) /\ b(i) \in Node
    <3>1. join[n].triedSecond
      BY <1>8, <1>9, <2>3
    <3>2. join[n].target.addr = b(2)
      BY <1>8, <3>1
    <3>3. Spent(b(2))
      BY <1>9, <2>3, <3>2, FullIsSpent
    <3>4. Spent(b(1))
      BY <1>8, <1>10, <3>1
    <3>5. \A i \in 1 .. 2 : i = 1 \/ i = 2
      OBVIOUS
    <3> QED
      BY <2>2, <3>3, <3>4, <3>5
  <2>4. CASE ~(\A i \in 1 .. 2 : isCH[b(i)] /\ InRange(n, b(i)) /\ b(i) \in Node)
    <3>1. \A i \in 1 .. 2 : b(i) \in Preferred(n, c)
      BY <1>11, <1>15, <2>1
    <3> QED
      BY <1>12, <2>4, <3>1
  <2> QED
    BY <2>3, <2>4
<1> QED
  BY <1>13, <1>14, <1>15

\* In timely rounds that lose nothing a node that a clusterhead reaches goes
\* without a slot only for want of one, or because a better candidate of its does
\* not answer, for any number of nodes and rounds, any range and scores, and any
\* size of the window.
THEOREM FormationServed ==
    ASSUME Lossless
    PROVE  Spec /\ [][Roomy]_vars => ServedUpToCapacity
<1>1. ASSUME TypeOK, TypeOK', FormationInv, ServingInv, [Next]_vars, [Roomy]_vars PROVE ServingInv'
  BY <1>1, StepServing, StutterServing DEF Next
<1> DEFINE A == \A n, c \in Node :
                  /\ phase[n] = 2 * ring[c] + 1 /\ parent[n] = UNKNOWN_ADDR
                  /\ isCH[c] /\ Reaches(c, n) /\ EndJoining(n)
                  => \/ Spent(c)
                     \/ \E b \in Preferred(n, c) : Mute(b, n)
                     \/ \A i \in 1 .. 2 :
                          cands[n][i].addr \in Preferred(n, c) /\ Spent(cands[n][i].addr)
<1>2. TypeOK /\ FormationInv /\ ServingInv => [A]_vars
  BY LeftOut
<1> QED
  BY <1>1, <1>2, InitServing, FormationTypeOK, FormationInvariant, PTL DEF Spec, ServedUpToCapacity
=============================================================================
