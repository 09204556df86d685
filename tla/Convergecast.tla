----------------------------- MODULE Convergecast -----------------------------
(***************************************************************************)
(* The data slots of a superframe: loop() of multihop/node/src/main.cpp    *)
(* with do_follower_send, do_follower_recv, do_clusterhead_recv and        *)
(* do_clusterhead_send of lib/net/src/multihop.cpp.                        *)
(*                                                                         *)
(* The clusters are those a complete advertising slot forms on the tree    *)
(* Parent, except that a follower may have missed its Accept.  Within a    *)
(* slot the nodes act in any order, and a Late node may act one slot too   *)
(* late.  A frame is heard by any subset of the nodes in range that are    *)
(* tuned to its CDMA code.                                                 *)
(***************************************************************************)
EXTENDS SlotLayout, FiniteSets, Sequences

CONSTANTS
    Node,
    InRange(_, _),   \* whether a frame of the first reaches the second
    Ring, Parent, Rel,
    Clusterhead,     \* the nodes whose acts_as_clusterhead() holds
    Frames,          \* bound: superframes
    TxCap,           \* bound: messages that fit in the transmit buffer
    Late,            \* nodes that may oversleep
    Lossy,           \* whether frames may be lost
    FlushFails,      \* whether link::flush may fail
    Stale            \* whether an idle radio receives, and keeps what it has
                     \* received when it is retuned: drivers differ

ASSUME TreeAssumption ==
    /\ GATEWAY_ADDR \in Clusterhead /\ Clusterhead \subseteq Node
    /\ \A n \in Node : Parent[n] = UNKNOWN_ADDR \/ Parent[n] \in Clusterhead
    /\ Parent[GATEWAY_ADDR] = UNKNOWN_ADDR
    /\ Rel \in [Node -> 0 .. vtdma_window_size - 1]
\* A node joins a clusterhead of a lower ring (multihop.cpp:639-646).
ASSUME RingAssumption ==
    /\ Ring \in [Node -> Nat]
    /\ \A n \in Node : Parent[n] # UNKNOWN_ADDR => Ring[Parent[n]] < Ring[n]
ASSUME BoundAssumption == Frames \in Nat \ {0} /\ TxCap \in Nat
\* "no wraparound assumed" (main.cpp:176): a clusterhead's own window comes
\* before that of its clusterhead.
ASSUME NoWraparound == \A c \in Clusterhead : Ring[c] < REUSE_DISTANCE

VARIABLES
    frame,    \* the superframe
    slot,     \* the slot of the superframe
    todo,     \* what loop() still has to do in each node, up to this slot
    parent,   \* STATE.clusterhead_addr
    code,     \* the CDMA code set last
    acks,     \* STATE.acks
    tx,       \* the messages in the transmit buffer
    held,     \* the frame the radio driver holds
    mine,     \* the sequence number of the node's last datagram
    took,     \* the datagrams do_clusterhead_recv has processed
    faulty    \* whether anything went wrong in this superframe
vars == <<frame, slot, todo, parent, code, acks, tx, held, mine, took, faulty>>

-----------------------------------------------------------------------------
(* Sequence numbers are times of sending; 0 is what acks are reset to.     *)
now == frame * SUPERFRAME_SLOT_COUNT + slot
Time == 0 .. Frames * SUPERFRAME_SLOT_COUNT

Datagram(n) == [type |-> "Datagram", src |-> n, sequence |-> now]

\* Mutant: send_acks leaves the last entry out.
SendAcks_OneShort(n) ==
    [type |-> "SendAcks", src |-> n,
     acks |-> [i \in 0 .. vtdma_window_size - 2 |-> acks[n][i]]]

SendAcks(n) == [type |-> "SendAcks", src |-> n, acks |-> acks[n]]
CloseCluster(n, a) == [type |-> "CloseCluster", src |-> n, nomination |-> a]

Followers(c) == {f \in Node : Parent[f] = c}
slots_assigned(c) == 1 + Cardinality(Followers(c))

\* Mutant: relative slots counted from 1.
my_slot_Early(f) == downstream_start_slot(Ring[Parent[f]]) + Rel[f] - 1

my_slot(f) == downstream_start_slot(Ring[Parent[f]]) + Rel[f]
ack_slot(c) == downstream_start_slot(Ring[c]) + vtdma_window_size - 1

-----------------------------------------------------------------------------
(* What loop() plans for slot s, given the clusterheads p that the nodes   *)
(* follow.                                                                 *)
Task(do, s) == [do |-> do, slot |-> s]

Plan(n, s, p) ==
    (IF n \in Clusterhead /\ s - downstream_start_slot(Ring[n]) \in 1 .. vtdma_window_size - 2
       THEN <<Task("clusterhead_recv", s)>> ELSE <<>>)
    \o (IF n \in Clusterhead /\ s = ack_slot(n)
          THEN <<Task("clusterhead_send", s)>> ELSE <<>>)
    \o (IF p[n] # UNKNOWN_ADDR /\ s = my_slot(n)
          THEN <<Task("follower_send", s)>> ELSE <<>>)
    \o (IF p[n] # UNKNOWN_ADDR /\ s = ack_slot(Parent[n])
          THEN <<Task("follower_recv", s)>> ELSE <<>>)

Doing(n, do) == todo[n] # <<>> /\ Head(todo[n]).do = do
Done(n) == todo' = [todo EXCEPT ![n] = Tail(@)]

\* Blocked in link::recv, from the slot the task was planned for.
Listening(n) == Doing(n, "clusterhead_hear") \/ Doing(n, "follower_hear")
Listen(n, do) == todo' = [todo EXCEPT ![n][1].do = do]

-----------------------------------------------------------------------------
(* The link layer.                                                         *)

\* link::sendmsg: a full buffer refuses the message.
Queued(q, m) == IF Len(q) < TxCap THEN Append(q, m) ELSE q

\* What n's driver may hold once it is tuned to code c.
Retuned(n, c) ==
    IF ~Stale THEN {<<>>} ELSE IF c = code[n] THEN {held[n]} ELSE {held[n], <<>>}

Hears(m, c) == code[m] = c /\ held[m] = <<>> /\ (Stale \/ Listening(m))

\* Something goes wrong with a frame for the nodes in Wanted: one of them has
\* not come to listen in this slot yet, has not read the frame before, or hears
\* nothing although it could; or a radio that nobody listens to takes the frame.
Missed(Wanted, heard, c) ==
    \/ \E w \in Wanted :
         \/ todo[w] # <<>> /\ (~Listening(w) \/ Head(todo[w]).slot # slot)
         \/ held[w] # <<>>
         \/ Hears(w, c) /\ w \notin heard
    \/ \E m \in heard : ~Listening(m)

\* Mutant: link::flush does not truncate the transmit buffer.
Flushed_Again(n, q, c, Wanted) ==
    /\ code' = [code EXCEPT ![n] = c]
    /\ tx' = [tx EXCEPT ![n] = q]
    /\ \E heard \in SUBSET {m \in Node \ {n} : InRange(n, m) /\ Hears(m, c)}, h \in Retuned(n, c) :
         /\ ~Lossy => heard = {m \in Node \ {n} : InRange(n, m) /\ Hears(m, c)}
         /\ held' = [m \in Node |-> IF m \in heard THEN q ELSE IF m = n THEN h ELSE held[m]]
         /\ faulty' = (faulty \/ Missed(Wanted, heard, c) \/ Len(q) = TxCap)

\* link::flush of q on code c, a frame meant for the nodes in Wanted.  A full
\* buffer may have refused a message.
Flushed(n, q, c, Wanted) ==
    /\ code' = [code EXCEPT ![n] = c]
    /\ tx' = [tx EXCEPT ![n] = <<>>]
    /\ \E heard \in SUBSET {m \in Node \ {n} : InRange(n, m) /\ Hears(m, c)}, h \in Retuned(n, c) :
         /\ ~Lossy => heard = {m \in Node \ {n} : InRange(n, m) /\ Hears(m, c)}
         /\ held' = [m \in Node |-> IF m \in heard THEN q ELSE IF m = n THEN h ELSE held[m]]
         /\ faulty' = (faulty \/ Missed(Wanted, heard, c) \/ Len(q) = TxCap)

NotFlushed(n, q, c) ==
    /\ FlushFails
    /\ code' = [code EXCEPT ![n] = c]
    /\ tx' = [tx EXCEPT ![n] = q]
    /\ \E h \in Retuned(n, c) : held' = [held EXCEPT ![n] = h]
    /\ faulty' = TRUE

-----------------------------------------------------------------------------
Init ==
    /\ frame = 0 /\ slot = 0
    /\ todo = [n \in Node |-> <<>>]
    /\ parent = [n \in Node |-> UNKNOWN_ADDR]
    /\ code = [n \in Node |-> 0]
    /\ acks = [n \in Node |-> [i \in 0 .. vtdma_window_size - 1 |-> 0]]
    /\ tx = [n \in Node |-> <<>>]
    /\ held = [n \in Node |-> <<>>]
    /\ mine = [n \in Node |-> 0]
    /\ took = [n \in Node |-> <<>>]
    /\ faulty = FALSE

\* do_advertise, as far as the data slots see it: the acks are zeroed, the
\* code is the default one, the driver has been read empty.  A node that has
\* joined has flushed its Follow, and with it whatever was queued.
Advertise ==
    /\ slot = 0
    /\ slot' = ADV_SLOTS
    /\ \E joined \in SUBSET {f \in Node : Parent[f] # UNKNOWN_ADDR} :
         /\ parent' = [n \in Node |-> IF n \in joined THEN Parent[n] ELSE UNKNOWN_ADDR]
         /\ \E flushed \in SUBSET Node :
              /\ joined \subseteq flushed
              /\ tx' = [n \in Node |-> IF n \in flushed THEN <<>> ELSE tx[n]]
    /\ todo' = [n \in Node |-> Plan(n, ADV_SLOTS, parent')]
    /\ code' = [n \in Node |-> 0]
    /\ acks' = [n \in Node |-> [i \in DOMAIN acks[n] |-> 0]]
    /\ held' = [n \in Node |-> <<>>]
    /\ faulty' = FALSE
    /\ UNCHANGED <<frame, mine, took>>

\* do_clusterhead_recv up to link::recv.
ClusterheadListen(n) ==
    /\ Doing(n, "clusterhead_recv")
    /\ LET relative == slot - downstream_start_slot(Ring[n])
       IN  IF relative \in 1 .. vtdma_window_size - 2 /\ relative < slots_assigned(n)
           THEN /\ Listen(n, "clusterhead_hear")
                /\ code' = [code EXCEPT ![n] = relative]
                /\ \E h \in Retuned(n, relative) : held' = [held EXCEPT ![n] = h]
           ELSE Done(n) /\ UNCHANGED <<code, held>>
    /\ UNCHANGED <<frame, slot, parent, acks, tx, mine, took, faulty>>

\* do_clusterhead_recv after link::recv, message by message: each datagram is
\* noted in the acks of the slot (the code set is the relative slot) and queued
\* for forwarding.
Processed(n, s, m) ==
    IF m.type = "Datagram"
    THEN [acks |-> [s.acks EXCEPT ![code[n]] = m.sequence],
          tx   |-> Queued(s.tx, m),
          took |-> Append(s.took, m)]
    ELSE s

Received(n) ==
    LET after[i \in 0 .. Len(held[n])] ==
          IF i = 0 THEN [acks |-> acks[n], tx |-> tx[n], took |-> took[n]]
          ELSE LET s == after[i - 1] IN Processed(n, s, held[n][i])
    IN  after

ClusterheadHear(n) ==
    /\ Doing(n, "clusterhead_hear") /\ held[n] # <<>>
    /\ LET s == Received(n)[Len(held[n])]
       IN  /\ acks' = [acks EXCEPT ![n] = s.acks]
           /\ tx' = [tx EXCEPT ![n] = s.tx]
           /\ took' = [took EXCEPT ![n] = s.took]
    /\ held' = [held EXCEPT ![n] = <<>>]
    /\ Done(n)
    /\ UNCHANGED <<frame, slot, parent, code, mine, faulty>>

\* do_clusterhead_send: the acks and a CloseCluster join whatever is queued,
\* and all of it leaves on code 0.
ClusterheadSend(n) ==
    /\ Doing(n, "clusterhead_send")
    /\ Done(n)
    /\ IF slot = ack_slot(n)
       THEN \E nomination \in IF Ring[n] <= 1 THEN {n} ELSE {n, UNKNOWN_ADDR} :
              LET q == Queued(Queued(tx[n], SendAcks(n)), CloseCluster(n, nomination))
              IN  \/ Flushed(n, q, 0, {f \in Node : parent[f] = n})
                  \/ NotFlushed(n, q, 0)
       ELSE UNCHANGED <<code, tx, held, faulty>>
    /\ UNCHANGED <<frame, slot, parent, acks, mine, took>>

\* The follower part of loop(): the node's own datagram is queued behind what
\* it forwards, and do_follower_send flushes both if the slot is right.
FollowerSend(n) ==
    /\ Doing(n, "follower_send")
    /\ Done(n)
    /\ mine' = [mine EXCEPT ![n] = now]
    /\ LET q == Queued(tx[n], Datagram(n))
       IN  IF slot = my_slot(n)
           THEN Flushed(n, q, Rel[n], {parent[n]}) \/ NotFlushed(n, q, Rel[n])
           ELSE tx' = [tx EXCEPT ![n] = q] /\ UNCHANGED <<code, held, faulty>>
    /\ UNCHANGED <<frame, slot, parent, acks, took>>

\* do_follower_recv up to link::recv.
FollowerListen(n) ==
    /\ Doing(n, "follower_recv")
    /\ IF slot = ack_slot(Parent[n])
       THEN /\ Listen(n, "follower_hear")
            /\ code' = [code EXCEPT ![n] = 0]
            /\ \E h \in Retuned(n, 0) : held' = [held EXCEPT ![n] = h]
       ELSE Done(n) /\ UNCHANGED <<code, held>>
    /\ UNCHANGED <<frame, slot, parent, acks, tx, mine, took, faulty>>

\* The place of the last message of a type in a frame, if there is any.
LastOf(q, type) ==
    {i \in DOMAIN q : q[i].type = type /\ \A j \in DOMAIN q : q[j].type = type => j <= i}

\* do_follower_recv after link::recv: the node's entry of any SendAcks and the
\* nomination of any CloseCluster are taken, whoever sent them; without either
\* it listens on while the slot lasts.
FollowerHear(n) ==
    /\ Doing(n, "follower_hear") /\ held[n] # <<>>
    /\ LET answers == LastOf(held[n], "SendAcks")
           closes == LastOf(held[n], "CloseCluster")
       IN  /\ IF answers = {} THEN UNCHANGED acks
              ELSE \E i \in answers :
                     acks' = [acks EXCEPT ![n][0] = held[n][i].acks[Rel[n]]]
           /\ IF closes = {} THEN UNCHANGED parent
              ELSE \E i \in closes : parent' = [parent EXCEPT ![n] = held[n][i].nomination]
           /\ IF answers = {} /\ closes = {} /\ slot = ack_slot(Parent[n])
              THEN UNCHANGED todo ELSE Done(n)
    /\ held' = [held EXCEPT ![n] = <<>>]
    /\ UNCHANGED <<frame, slot, code, tx, mine, took, faulty>>

\* link::recv times out a slot's length after it began.
TimeOut(n) ==
    /\ Listening(n) /\ held[n] = <<>> /\ Head(todo[n]).slot < slot
    /\ Done(n)
    /\ UNCHANGED <<frame, slot, parent, code, acks, tx, held, mine, took, faulty>>

\* A slot ends.  A node that is not Late has done its tasks, or stops
\* listening on the boundary; a Late one takes at most one task along, and
\* only into the next slot.
Carried(n) == IF n \in Late THEN todo[n] ELSE <<>>

NextSlot ==
    /\ slot # 0
    /\ \A n \in Node :
         /\ Listening(n) => held[n] = <<>>
         /\ IF n \in Late THEN Len(todo[n]) <= 1 ELSE todo[n] = <<>> \/ Listening(n)
         /\ todo[n] # <<>> => Head(todo[n]).slot = slot
    /\ IF slot + 1 < SUPERFRAME_SLOT_COUNT
       THEN /\ slot' = slot + 1
            /\ todo' = [n \in Node |-> Carried(n) \o Plan(n, slot + 1, parent)]
            /\ faulty' = (faulty \/ \E n \in Late : todo[n] # <<>> /\ ~Listening(n))
            /\ UNCHANGED frame
       ELSE /\ frame + 1 < Frames
            /\ slot' = 0 /\ frame' = frame + 1
            /\ todo' = [n \in Node |-> <<>>]
            /\ UNCHANGED faulty
    /\ UNCHANGED <<parent, code, acks, tx, held, mine, took>>

Step(n) ==
    \/ ClusterheadListen(n)
    \/ ClusterheadHear(n)
    \/ ClusterheadSend(n)
    \/ FollowerSend(n)
    \/ FollowerListen(n)
    \/ FollowerHear(n)
    \/ TimeOut(n)

Next == Advertise \/ (\E n \in Node : Step(n)) \/ NextSlot

Spec == Init /\ [][Next]_vars

-----------------------------------------------------------------------------
(* Properties.                                                             *)

Message ==
    [type : {"Datagram"}, src : Node, sequence : Time]
    \cup [type : {"SendAcks"}, src : Node, acks : [0 .. vtdma_window_size - 1 -> Time]]
    \cup [type : {"CloseCluster"}, src : Node, nomination : Node \cup {UNKNOWN_ADDR}]

Duties ==
    {"clusterhead_recv", "clusterhead_hear", "clusterhead_send",
     "follower_send", "follower_recv", "follower_hear"}

\* The data slots' state stays in its ranges: no duty is carried past the next
\* slot, and no more is queued than the buffer holds (main.cpp:184-242).
TypeOK ==
    /\ frame \in 0 .. Frames - 1 /\ slot \in 0 .. SUPERFRAME_SLOT_COUNT - 1
    /\ todo \in [Node -> Seq([do : Duties, slot : {slot, slot - 1}])]
    /\ parent \in [Node -> Node \cup {UNKNOWN_ADDR}]
    /\ code \in [Node -> 0 .. vtdma_window_size - 1]
    /\ acks \in [Node -> [0 .. vtdma_window_size - 1 -> Time]]
    /\ tx \in [Node -> Seq(Message)] /\ \A n \in Node : Len(tx[n]) <= TxCap
    /\ held \in [Node -> Seq(Message)]
    /\ mine \in [Node -> Time]
    /\ took \in [Node -> Seq(Message)]
    /\ faulty \in BOOLEAN

\* No clusterhead takes a datagram twice, whatever is retried, delayed into a
\* later slot or superframe or left over in a buffer (flush,
\* link_layer.cpp:273-299, with do_clusterhead_recv).  It holds where the only
\* clusterhead nearer to the gateway a node reaches is the one it follows, as on
\* Converge's chain; on TwinAcks' tree, with refused flushes, it does not.
AtMostOnce ==
    \A n \in Node : \A i, j \in DOMAIN took[n] : took[n][i] = took[n][j] => i = j

\* A node that holds the acknowledgement of its last datagram had it taken by
\* a clusterhead (do_clusterhead_recv, emit_ch_messages, do_follower_recv).
AckTruthful ==
    \A f \in Node :
        mine[f] # 0 /\ acks[f][0] = mine[f] =>
            \E c \in Clusterhead : \E i \in DOMAIN took[c] :
                took[c][i].src = f /\ took[c][i].sequence = mine[f]

\* Data only moves towards the gateway: windows that are reused are too far
\* apart for a clusterhead to take its own clusterhead's side of the traffic.
NoBackflow ==
    \A c \in Node : \A i \in DOMAIN took[c] : Ring[took[c][i].src] > Ring[c]

\* The two ends agree on every slot and code: by the end of a superframe in
\* which nothing was lost, late or failed, every node that sent has its ack.
AckedInTime ==
    slot = SUPERFRAME_SLOT_COUNT - 1 /\ (\A n \in Node : todo[n] = <<>>) /\ ~faulty =>
        \A f \in Node :
            mine[f] > frame * SUPERFRAME_SLOT_COUNT => acks[f][0] = mine[f]

\* multihop.h:175-176, "re-queue data for forwarding to this clusterhead's own
\* clusterhead": while nothing goes missing, what a relay has taken is still
\* queued there or its clusterhead has it.
Custody ==
    \A c \in Node : \A i \in DOMAIN took[c] :
        parent[c] # UNKNOWN_ADDR /\ ~faulty =>
            \/ \E j \in DOMAIN tx[c] : tx[c][j] = took[c][i]
            \/ \E m \in Node : InRange(c, m) /\ \E j \in DOMAIN held[m] : held[m][j] = took[c][i]
            \/ \E j \in DOMAIN took[Parent[c]] : took[Parent[c]][j] = took[c][i]
=============================================================================
