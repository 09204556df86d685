--------------------------- MODULE ClusterFormation ---------------------------
(***************************************************************************)
(* The advertisement slot of lib/net/src/multihop.cpp: after neighbour     *)
(* discovery, NUM_ADV_ROUNDS rounds, each of an announcement phase, in     *)
(* which the nodes of one ring volunteer as clusterheads, and a joining    *)
(* phase, in which nodes farther out follow one of them and are assigned a *)
(* slot of its downstream window.                                          *)
(*                                                                         *)
(* Every node runs do_advertise on its own: phases end by local timers, so *)
(* a node may be MaxSkew phases ahead of another.  A flushed frame reaches *)
(* any subset of the nodes in range; a frame whose flush fails stays in    *)
(* the transmit buffer and leaves with the next one, even in a later phase *)
(* or superframe.                                                          *)
(***************************************************************************)
EXTENDS SlotLayout, Sequences

CONSTANTS
    Node,                   \* the addresses in use
    InRange(_, _),          \* whether a frame of the first reaches the second
    Rings,                  \* the rings discovery may leave a node in
    Score,                  \* RingList::score of a node's neighbours
    OptedOut,               \* nodes with clusterhead_p = 0
    NUM_ADV_ROUNDS,
    TxCap,                  \* bound: messages that fit in the transmit buffer
    RxCap,                  \* bound: frames the radio driver holds
    MaxSkew,                \* bound: phases a node may be ahead of another
    Lossy,                  \* whether frames may be lost
    FlushFails,             \* whether link::flush may fail
    Timely                  \* whether phases start together and outlast their work

ASSUME NodeAssumption == Node \subseteq Nat /\ GATEWAY_ADDR \in Node /\ UNKNOWN_ADDR \notin Node
\* NUM_ADV_ROUNDS is a uint8_t.
ASSUME RoundAssumption == NUM_ADV_ROUNDS \in 1 .. UNKNOWN_RING
\* Advertising begins in its slot and lasts a slot's length: no node is through
\* with it before all others have begun (multihop.cpp:775-802).
ASSUME SkewAssumption == MaxSkew \in Nat /\ MaxSkew <= 2 * NUM_ADV_ROUNDS
ASSUME RingAssumption ==
    /\ Rings \in [Node -> SUBSET (0 .. UNKNOWN_RING)]
    /\ Rings[GATEWAY_ADDR] = {GATEWAY_RING}
ASSUME ScoreAssumption == Score \in [Node -> Nat]
ASSUME SwitchAssumption == Lossy \in BOOLEAN /\ FlushFails \in BOOLEAN /\ Timely \in BOOLEAN

VARIABLES
    phase,     \* 2r: announcing in round r, 2r + 1: joining, DATA: afterwards
    parity,    \* of the superframe the node is in
    ring,      \* STATE.ring
    role,      \* STATE.role
    slots,     \* STATE.slot_assignments[1 .. slots_assigned - 1]
    parent,    \* STATE.clusterhead_addr
    rel,       \* STATE.upstream_relative_slot
    isCH,      \* do_advertise: is_clusterhead, accumulated over the rounds
    cands,     \* the best and second best candidate of the round
    bid,       \* announcement: "none", "pending" (need_to_announce) or "made"
    join,      \* the locals of run_clusterhead_joining
    tx,        \* the messages in the transmit buffer
    inbox,     \* the frames the driver holds
    rx         \* the messages of the frame being read
state == <<ring, role, slots, parent, rel>>
radio == <<tx, inbox, rx>>
locals == <<cands, bid, join>>
vars == <<phase, parity, state, isCH, locals, radio>>

-----------------------------------------------------------------------------
DATA == 2 * NUM_ADV_ROUNDS

acts_as_clusterhead(n) == role[n] \in {"Gateway", "Clusterhead"}
acts_as_follower(n) == role[n] \in {"Follower", "Clusterhead"}

\* The roles do_advertise resets to.
BaseRole(n) == IF n = GATEWAY_ADDR THEN "Gateway" ELSE "Follower"

\* What announce_clusterhead may answer: base_p_for_ring is certain in rings 0
\* and 1, and a draw of rand() elsewhere.
announce_clusterhead(n, r) ==
    IF n \in OptedOut THEN {FALSE} ELSE IF r <= 1 THEN {TRUE} ELSE BOOLEAN

OpenCluster(n) == [type |-> "OpenCluster", src |-> n, ring |-> ring[n]]
Follow(n, ch) == [type |-> "Follow", src |-> n, clusterhead |-> ch]
Accept(n, f, slot) ==
    [type |-> "Accept", src |-> n, follower |-> f, accepted |-> slot # 0, relative_slot |-> slot]

NoCandidate == [addr |-> UNKNOWN_ADDR, ring |-> UNKNOWN_RING]
ScoreOf(c) == IF c = NoCandidate THEN 0 ELSE Score[c.addr]

\* ClusterheadCandidates::update, on the pair of the best and the second best.
update(best, c) ==
    IF ScoreOf(c) > ScoreOf(best[1]) THEN <<c, best[1]>>
    ELSE IF ScoreOf(c) > ScoreOf(best[2]) THEN <<best[1], c>>
    ELSE best

\* Mutant: a clusterhead of the node's own ring will do.
Eligible_SameRing(n, c) ==
    IF ring[n] # UNKNOWN_RING /\ c.ring > ring[n] THEN NoCandidate ELSE c

\* A node only follows a clusterhead strictly closer to the gateway.
Eligible(n, c) ==
    IF ring[n] # UNKNOWN_RING /\ c.ring >= ring[n] THEN NoCandidate ELSE c

\* Mutant: accept without its duplicate guard.
Granted_Twice(table, f) ==
    IF Len(table) + 1 >= vtdma_window_size THEN table ELSE Append(table, f)

\* Mutant: accept one slot too early full, even were the last slot left to the
\* clusterhead.
Granted_ShortWindow(table, f) ==
    IF \/ \E i \in DOMAIN table : table[i] = f
       \/ Len(table) + 3 >= vtdma_window_size
    THEN table
    ELSE Append(table, f)

\* Mutant: accept with > for its >=.
Granted_PastWindow(table, f) ==
    IF \/ \E i \in DOMAIN table : table[i] = f
       \/ Len(table) + 1 > vtdma_window_size
    THEN table
    ELSE Append(table, f)

\* The followers' table after accept(f), and the slot f has in a table (0: none).
Granted(table, f) ==
    IF \/ \E i \in DOMAIN table : table[i] = f
       \/ Len(table) + 1 >= vtdma_window_size
    THEN table
    ELSE Append(table, f)

SlotOf(table, f) ==
    IF \E i \in DOMAIN table : table[i] = f
    THEN CHOOSE i \in DOMAIN table : table[i] = f
    ELSE 0

-----------------------------------------------------------------------------
(* The locals of the two phase functions.                                  *)

NoCands == <<NoCandidate, NoCandidate>>

Joiner(target, try) ==
    [target |-> target, try |-> try, triedSecond |-> FALSE, joined |-> FALSE]
NoJoin == Joiner(NoCandidate, FALSE)

Announcing(n) == phase[n] # DATA /\ phase[n] % 2 = 0
Joining(n) == phase[n] % 2 = 1

\* How many phases n is ahead of m; superframes overlap only at DATA.
Lead(n, m) ==
    IF parity[n] = parity[m] THEN phase[n] - phase[m]
    ELSE IF phase[n] = DATA THEN -1 ELSE phase[n] + 1

\* A phase's work is done when its sends are out and its frames read.
Quiet(n) ==
    /\ bid[n] # "pending"
    /\ ~(join[n].try /\ join[n].target # NoCandidate)
    /\ inbox[n] = <<>> /\ rx[n] = <<>>

MayEndPhase(n) ==
    /\ rx[n] = <<>>
    /\ \A m \in Node \ {n} : Lead(n, m) < MaxSkew
    /\ Timely => \A m \in Node : Lead(n, m) = 0 => Quiet(m)

\* In timely rounds nobody speaks before all others are in the phase.
MaySpeak(n) == rx[n] = <<>> /\ (Timely => \A m \in Node : Lead(n, m) <= 0)

-----------------------------------------------------------------------------
(* The link layer.                                                         *)

\* link::sendmsg: a full buffer refuses the message.
Queued(q, m) == IF Len(q) < TxCap THEN Append(q, m) ELSE q

\* A frame that is not lost is dropped by a receiver whose driver is full; an
\* empty frame is rejected by all.
Delivered(n, q) ==
    \E heard \in SUBSET {m \in Node : InRange(n, m)} :
      /\ ~Lossy => heard = {m \in Node : InRange(n, m)}
      /\ inbox' = [m \in Node |->
           IF m \in heard /\ q # <<>> /\ Len(inbox[m]) < RxCap
           THEN Append(inbox[m], q) ELSE inbox[m]]

\* link::flush of the queue q, and one that fails: lora::send refused the frame.
\* (A send that times out on a frame that is out is not modelled: the radio
\* driver waits without a limit.)
Flushed(n, q) ==
    /\ tx' = [tx EXCEPT ![n] = <<>>]
    /\ Delivered(n, q)

NotFlushed(n, q) ==
    /\ FlushFails
    /\ tx' = [tx EXCEPT ![n] = q]
    /\ UNCHANGED inbox

-----------------------------------------------------------------------------
Init ==
    /\ phase = [n \in Node |-> DATA]
    /\ parity = [n \in Node |-> 0]
    /\ ring = [n \in Node |-> IF n = GATEWAY_ADDR THEN GATEWAY_RING ELSE UNKNOWN_RING]
    /\ role = [n \in Node |-> BaseRole(n)]
    /\ slots = [n \in Node |-> <<>>]
    /\ parent = [n \in Node |-> UNKNOWN_ADDR]
    /\ rel = [n \in Node |-> 0]
    /\ isCH = [n \in Node |-> FALSE]
    /\ cands = [n \in Node |-> NoCands]
    /\ bid = [n \in Node |-> "none"]
    /\ join = [n \in Node |-> NoJoin]
    /\ tx = [n \in Node |-> <<>>]
    /\ inbox = [n \in Node |-> <<>>]
    /\ rx = [n \in Node |-> <<>>]

\* run_clusterhead_announcement up to its loop, for round r of a node in ring
\* g with role w whose is_clusterhead from earlier rounds is ch.
BeginAnnouncement(n, r, g, w, ch) ==
    \E volunteer \in IF g # r THEN {FALSE}
                     ELSE IF w = "Gateway" THEN {TRUE} ELSE announce_clusterhead(n, g) :
      LET promoted == volunteer /\ ~ch
      IN  /\ bid' = [bid EXCEPT ![n] = IF promoted THEN "pending"
                                      ELSE IF volunteer THEN "made" ELSE "none"]
          /\ role' = [role EXCEPT ![n] =
                        IF promoted /\ w # "Gateway" THEN "Clusterhead" ELSE w]
          /\ slots' = [slots EXCEPT ![n] = IF promoted THEN <<>> ELSE @]

\* Mutant: the clusterhead of the last superframe is kept.
Advertise_KeepsParent(n) ==
    /\ phase[n] = DATA
    /\ \A m \in Node : parity[m] = parity[n] => phase[m] = DATA
    /\ phase' = [phase EXCEPT ![n] = 0]
    /\ parity' = [parity EXCEPT ![n] = 1 - @]
    /\ isCH' = [isCH EXCEPT ![n] = FALSE]
    /\ \E q \in {tx[n], <<>>} : tx' = [tx EXCEPT ![n] = q]
    /\ inbox' = [inbox EXCEPT ![n] = <<>>]
    /\ \E g \in Rings[n] :
         /\ ring' = [ring EXCEPT ![n] = g]
         /\ BeginAnnouncement(n, 0, g, BaseRole(n), FALSE)
    /\ UNCHANGED <<parent, rel, cands, join, rx>>

\* do_advertise up to its first round.  Discovery reads and discards whatever
\* the driver held and leaves the node in one of its rings; the data slots
\* since the last advertisement may have emptied the transmit buffer.
Advertise(n) ==
    /\ phase[n] = DATA
    /\ \A m \in Node : parity[m] = parity[n] => phase[m] = DATA
    /\ phase' = [phase EXCEPT ![n] = 0]
    /\ parity' = [parity EXCEPT ![n] = 1 - @]
    /\ parent' = [parent EXCEPT ![n] = UNKNOWN_ADDR]
    /\ rel' = [rel EXCEPT ![n] = 0]
    /\ isCH' = [isCH EXCEPT ![n] = FALSE]
    /\ \E q \in {tx[n], <<>>} : tx' = [tx EXCEPT ![n] = q]
    /\ inbox' = [inbox EXCEPT ![n] = <<>>]
    /\ \E g \in Rings[n] :
         /\ ring' = [ring EXCEPT ![n] = g]
         /\ BeginAnnouncement(n, 0, g, BaseRole(n), FALSE)
    /\ UNCHANGED <<cands, join, rx>>

\* link::recv takes the driver's next frame; getmsg hands out its messages.
Recv(n) ==
    /\ phase[n] # DATA
    /\ rx[n] = <<>> /\ inbox[n] # <<>>
    /\ rx' = [rx EXCEPT ![n] = Head(inbox[n])]
    /\ inbox' = [inbox EXCEPT ![n] = Tail(@)]
    /\ UNCHANGED <<phase, parity, state, isCH, locals, tx>>

\* The announcement deadline: open_cluster and, if it was queued, flush.
Announce(n) ==
    /\ Announcing(n) /\ bid[n] = "pending" /\ MaySpeak(n)
    /\ Len(tx[n]) < TxCap
    /\ LET q == Append(tx[n], OpenCluster(n))
       IN  \/ /\ Flushed(n, q)
              /\ bid' = [bid EXCEPT ![n] = "made"]
           \/ /\ NotFlushed(n, q)
              /\ UNCHANGED bid
    /\ UNCHANGED <<phase, parity, state, isCH, cands, join, rx>>

\* A message is read in the announcement phase.  Every clusterhead heard is a
\* candidate; a volunteer gives way to one of its own ring unless it has
\* announced itself already and has the higher address.
HearAnnouncement(n) ==
    /\ Announcing(n) /\ rx[n] # <<>>
    /\ rx' = [rx EXCEPT ![n] = Tail(@)]
    /\ LET m == Head(rx[n])
           givesWay == m.ring = ring[n] /\ (bid[n] = "pending" \/ n < m.src)
       IN  IF m.type = "OpenCluster"
           THEN /\ cands' = [cands EXCEPT ![n] = update(@, [addr |-> m.src, ring |-> m.ring])]
                /\ bid' = [bid EXCEPT ![n] = IF givesWay THEN "none" ELSE @]
           ELSE UNCHANGED <<cands, bid>>
    /\ UNCHANGED <<phase, parity, state, isCH, join, tx, inbox>>

\* The announcement phase ends; the joining phase picks the node to follow.
EndAnnouncement(n) ==
    /\ Announcing(n) /\ MayEndPhase(n)
    /\ phase' = [phase EXCEPT ![n] = @ + 1]
    /\ isCH' = [isCH EXCEPT ![n] = @ \/ bid[n] # "none"]
    /\ bid' = [bid EXCEPT ![n] = "none"]
    /\ join' = [join EXCEPT ![n] = Joiner(Eligible(n, cands[n][1]), acts_as_follower(n))]
    /\ UNCHANGED <<parity, state, cands, radio>>

\* The follow deadline: follow the target, if there is one.
SendFollow(n) ==
    /\ Joining(n) /\ join[n].try /\ MaySpeak(n)
    /\ join' = [join EXCEPT ![n] = [@ EXCEPT !.try = FALSE]]
    /\ IF join[n].target = NoCandidate
       THEN UNCHANGED <<tx, inbox>>
       ELSE LET q == Queued(tx[n], Follow(n, join[n].target.addr))
            IN  Flushed(n, q) \/ NotFlushed(n, q)
    /\ UNCHANGED <<phase, parity, state, isCH, cands, bid, rx>>

\* A clusterhead reads a Follow addressed to it: accept, then flush.
HearFollow(n) ==
    /\ Joining(n) /\ rx[n] # <<>>
    /\ LET m == Head(rx[n])
           table == Granted(slots[n], m.src)
           q == Queued(tx[n], Accept(n, m.src, SlotOf(table, m.src)))
       IN  /\ m.type = "Follow" /\ isCH[n] /\ m.clusterhead = n
           /\ slots' = [slots EXCEPT ![n] = table]
           /\ Flushed(n, q) \/ NotFlushed(n, q)
    /\ rx' = [rx EXCEPT ![n] = Tail(@)]
    /\ UNCHANGED <<phase, parity, ring, role, parent, rel, isCH, locals>>

\* Mutant: the follower the answer is meant for is not compared.
AnswerAwaited_Anyone(n) ==
    /\ Joining(n) /\ rx[n] # <<>>
    /\ n # GATEWAY_ADDR /\ ~join[n].joined
    /\ Head(rx[n]).type = "Accept" /\ Head(rx[n]).src = join[n].target.addr

\* The answer n waits for is the next message.
AnswerAwaited(n) ==
    /\ Joining(n) /\ rx[n] # <<>>
    /\ n # GATEWAY_ADDR /\ ~join[n].joined
    /\ LET m == Head(rx[n])
       IN  m.type = "Accept" /\ m.src = join[n].target.addr /\ m.follower = n

\* Mutant: promotion does not ask whether the node already is a clusterhead.
Join_Rewipes(n) ==
    /\ AnswerAwaited(n) /\ Head(rx[n]).accepted
    /\ join' = [join EXCEPT ![n] = [@ EXCEPT !.joined = TRUE]]
    /\ parent' = [parent EXCEPT ![n] = join[n].target.addr]
    /\ rel' = [rel EXCEPT ![n] = Head(rx[n]).relative_slot]
    /\ \E promoted \in announce_clusterhead(n, ring[n]) :
         LET prepare == promoted
         IN  /\ role' = [role EXCEPT ![n] = IF prepare THEN "Clusterhead" ELSE @]
             /\ slots' = [slots EXCEPT ![n] = IF prepare THEN <<>> ELSE @]
    /\ rx' = [rx EXCEPT ![n] = Tail(@)]
    /\ UNCHANGED <<phase, parity, ring, isCH, cands, bid, tx, inbox>>

\* It was accepted: it joins, and may itself become a clusterhead.
Join(n) ==
    /\ AnswerAwaited(n) /\ Head(rx[n]).accepted
    /\ join' = [join EXCEPT ![n] = [@ EXCEPT !.joined = TRUE]]
    /\ parent' = [parent EXCEPT ![n] = join[n].target.addr]
    /\ rel' = [rel EXCEPT ![n] = Head(rx[n]).relative_slot]
    /\ \E promoted \in announce_clusterhead(n, ring[n]) :
         LET prepare == promoted /\ ~acts_as_clusterhead(n)
         IN  /\ role' = [role EXCEPT ![n] = IF prepare THEN "Clusterhead" ELSE @]
             /\ slots' = [slots EXCEPT ![n] = IF prepare THEN <<>> ELSE @]
    /\ rx' = [rx EXCEPT ![n] = Tail(@)]
    /\ UNCHANGED <<phase, parity, ring, isCH, cands, bid, tx, inbox>>

\* It was refused: it turns to its second candidate, once, and leaves the rest
\* of the frame unread.
Refused(n) ==
    /\ AnswerAwaited(n) /\ ~Head(rx[n]).accepted
    /\ LET next == Eligible(n, cands[n][2])
       IN  join' = IF join[n].triedSecond THEN join
                   ELSE [join EXCEPT ![n] = [target |-> next, try |-> @.try \/ next # NoCandidate,
                                             triedSecond |-> TRUE, joined |-> FALSE]]
    /\ rx' = [rx EXCEPT ![n] = <<>>]
    /\ UNCHANGED <<phase, parity, state, isCH, cands, bid, tx, inbox>>

\* Every other message of the joining phase is ignored.
IgnoreInJoining(n) ==
    /\ Joining(n) /\ rx[n] # <<>>
    /\ ~AnswerAwaited(n)
    /\ ~(LET m == Head(rx[n]) IN m.type = "Follow" /\ isCH[n] /\ m.clusterhead = n)
    /\ rx' = [rx EXCEPT ![n] = Tail(@)]
    /\ UNCHANGED <<phase, parity, state, isCH, locals, tx, inbox>>

\* The joining phase ends; the next round, or the data slots, begin.
EndJoining(n) ==
    /\ Joining(n) /\ MayEndPhase(n)
    /\ phase' = [phase EXCEPT ![n] = @ + 1]
    /\ cands' = [cands EXCEPT ![n] = NoCands]
    /\ join' = [join EXCEPT ![n] = NoJoin]
    /\ IF phase[n] + 1 = DATA
       THEN UNCHANGED <<bid, role, slots>>
       ELSE BeginAnnouncement(n, (phase[n] + 1) \div 2, ring[n], role[n], isCH[n])
    /\ UNCHANGED <<parity, ring, parent, rel, isCH, radio>>

Step(n) ==
    \/ Advertise(n)
    \/ Recv(n)
    \/ Announce(n)
    \/ HearAnnouncement(n)
    \/ EndAnnouncement(n)
    \/ SendFollow(n)
    \/ HearFollow(n)
    \/ Join(n)
    \/ Refused(n)
    \/ IgnoreInJoining(n)
    \/ EndJoining(n)

Next == \E n \in Node : Step(n)

Spec == Init /\ [][Next]_vars

-----------------------------------------------------------------------------
(* Properties.                                                             *)

Message ==
    [type : {"OpenCluster"}, src : Node, ring : 0 .. UNKNOWN_RING]
    \cup [type : {"Follow"}, src : Node, clusterhead : Node]
    \cup [type : {"Accept"}, src : Node, follower : Node, accepted : BOOLEAN,
          relative_slot : 0 .. vtdma_window_size - 1]

Candidate == [addr : Node, ring : 0 .. UNKNOWN_RING] \cup {NoCandidate}

Joiners == [target : Candidate, try : BOOLEAN, triedSecond : BOOLEAN, joined : BOOLEAN]

\* The protocol's state stays in its ranges: no table outgrows the window, and
\* every relative slot lies in it (multihop.cpp:375-413).
TypeOK ==
    /\ phase \in [Node -> 0 .. DATA]
    /\ parity \in [Node -> {0, 1}]
    /\ ring \in [Node -> 0 .. UNKNOWN_RING]
    /\ role \in [Node -> {"Gateway", "Clusterhead", "Follower"}]
    /\ slots \in [Node -> Seq(Node)]
    /\ \A n \in Node : Len(slots[n]) < vtdma_window_size
    /\ parent \in [Node -> Node \cup {UNKNOWN_ADDR}]
    /\ rel \in [Node -> 0 .. vtdma_window_size - 1]
    /\ isCH \in [Node -> BOOLEAN]
    /\ cands \in [Node -> Candidate \X Candidate]
    /\ bid \in [Node -> {"none", "pending", "made"}]
    /\ join \in [Node -> Joiners]
    /\ tx \in [Node -> Seq(Message)]
    /\ inbox \in [Node -> Seq(Seq(Message))]
    /\ rx \in [Node -> Seq(Message)]

\* A follower's slot is the one its clusterhead has recorded for it, whatever
\* was lost, repeated, delayed into a later phase or sent again in a later
\* superframe (accept, multihop.cpp:370-414, against 712-729).
AssignmentAgrees ==
    \A f, c \in Node :
        parent[f] = c /\ parity[f] = parity[c] =>
            /\ rel[f] \in DOMAIN slots[c]
            /\ slots[c][rel[f]] = f

\* Whoever a node follows acts as a clusterhead for the whole superframe, so
\* that somebody listens in the slot it was given (multihop.cpp:745-752,
\* 786-788) - unless that is the last slot of the window, in which the
\* clusterhead sends itself, though accept hands it out (multihop.cpp:392, 943).
FollowedActsAsClusterhead ==
    \A f, c \in Node :
        parent[f] = c /\ parity[f] = parity[c] => acts_as_clusterhead(c)

\* Following leads strictly closer to the gateway, so forwarding never runs in
\* a circle: the "chain inversion" of multihop.cpp:639-646.  A ring that changes
\* while an announcement of it waits for a flush to succeed is the exception.
FollowsCloser ==
    \A f, c \in Node :
        parent[f] = c /\ parity[f] = parity[c] => ring[c] < ring[f]

\* The leases of n's downstream window: its table of followers once it acts
\* as a clusterhead, before that only what an earlier superframe left behind.
Leased(n) ==
    [s \in 1 .. vtdma_window_size - 1 |->
        IF acts_as_clusterhead(n) /\ s \in DOMAIN slots[n] THEN slots[n][s] ELSE UNKNOWN_ADDR]

Lease(n) ==
    INSTANCE SlotLease WITH
        Follower <- Node, NoFollower <- UNKNOWN_ADDR, Slot <- 1 .. vtdma_window_size - 1,
        Epoch <- {0, 1}, epoch <- parity[n], lease <- Leased(n)

\* Every node's table implements the slot lease: in one superframe a follower
\* never loses its slot and never gets a second one, although the table is
\* cleared in three places (LeaseSpec of every node, in the form TLC accepts).
LeasesSlots ==
    /\ \A n \in Node : Lease(n)!LeaseInit
    /\ [][\A n \in Node : Lease(n)!LeaseNext \/ UNCHANGED <<parity[n], Leased(n)>>]_vars

\* No slot that c listens in is left: the last one of the window is its own
\* (multihop.cpp:211, 943), whether or not accept hands that out, too.
Spent(c) == Len(slots[c]) >= vtdma_window_size - 2

\* n hears c announce itself, and c hears n, closer to the gateway.
Reaches(c, n) ==
    InRange(c, n) /\ InRange(n, c) /\ ring[c] < ring[n] /\ parity[c] = parity[n] /\ Score[c] > 0

\* The candidates n asks first, or instead of c.
Preferred(n, c) ==
    {b \in Node \ {c} : /\ \E i \in 1 .. 2 : cands[n][i].addr = b
                        /\ Score[b] >= Score[c]}

\* One that announced itself and then gave way to another, or that does not hear
\* n: it refuses nobody, it does not answer (multihop.cpp:606-611, 697).
Mute(b, n) == ~isCH[b] \/ ~InRange(n, b)

\* In lossless, timely rounds a node that a clusterhead of the round reaches
\* ends the round without a slot for one of three reasons: the clusterhead has
\* none to spare; the node asked a better candidate that is mute, and waited for
\* an answer in vain - it turns to its second only when it is refused; or the
\* two it knows are better ones, both without a slot to spare
\* (multihop.cpp:392, 626-650, 752-770).
ServedUpToCapacity ==
    [][\A n, c \in Node :
          /\ phase[n] = 2 * ring[c] + 1 /\ parent[n] = UNKNOWN_ADDR
          /\ isCH[c] /\ Reaches(c, n) /\ EndJoining(n)
          => \/ Spent(c)
             \/ \E b \in Preferred(n, c) : Mute(b, n)
             \/ \A i \in 1 .. 2 :
                  cands[n][i].addr \in Preferred(n, c) /\ Spent(cands[n][i].addr)]_vars
=============================================================================
