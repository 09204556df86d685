--------------------------- MODULE ConvergecastProof ---------------------------
(***************************************************************************)
(* Proofs about Convergecast, for every tree that leads towards the        *)
(* gateway, any buffers, any number of superframes, and whatever is lost,  *)
(* late, kept or left over: types hold, data moves only towards the        *)
(* gateway, and, if no node reaches or hears two clusterheads nearer to    *)
(* the gateway, no clusterhead takes a datagram twice, no follower holds   *)
(* an acknowledgement that is not its own, and each has its own by the end *)
(* of a superframe in which nothing went wrong.                            *)
(***************************************************************************)
EXTENDS Convergecast, WellFoundedInduction, TLAPS

-----------------------------------------------------------------------------
(* What do_clusterhead_recv makes of a frame, message by message.          *)

\* A nonempty set of naturals has a least member.
LEMMA LeastMember ==
    ASSUME NEW T, T \subseteq Nat, T # {}
    PROVE  \E x \in T : \A y \in T : x <= y
<1>1. \E x \in T : \A y \in T : ~(<<y, x>> \in OpToRel(<, Nat))
  BY NatLessThanWellFounded, WFMin
<1>2. \A x, y \in Nat : ~(<<y, x>> \in OpToRel(<, Nat)) => x <= y
  BY DEF OpToRel
<1> QED
  BY <1>1, <1>2

\* Induction up to a bound, for a set.
LEMMA UpTo ==
    ASSUME NEW N \in Nat, NEW S, 0 \in S,
           \A k \in 0 .. N - 1 : k \in S => k + 1 \in S
    PROVE  0 .. N \subseteq S
<1> DEFINE T == {k \in 0 .. N : k \notin S}
<1> SUFFICES ASSUME T # {} PROVE FALSE
  OBVIOUS
<1>1. PICK x \in T : \A y \in T : x <= y
  <2>1. T \subseteq Nat
    OBVIOUS
  <2> HIDE DEF T
  <2> QED
    BY <2>1, LeastMember
<1>2. x \in 0 .. N /\ x # 0 /\ x - 1 \in 0 .. N - 1
  BY <1>1
<1>3. x - 1 \in S
  BY <1>1, <1>2
<1>4. x - 1 + 1 = x
  BY <1>2
<1>5. x \in S
  BY <1>2, <1>3, <1>4
<1> QED
  BY <1>1, <1>5

\* What is left of the state of n once i messages of the frame it holds are read.
Start(n) == [acks |-> acks[n], tx |-> tx[n], took |-> took[n]]

IsReading(n, after, i) ==
    after = [k \in 0 .. i |->
               IF k = 0 THEN Start(n) ELSE Processed(n, after[k - 1], held[n][k])]

LEMMA ReadingExists ==
    ASSUME NEW n, NEW N \in Nat
    PROVE  \E after : IsReading(n, after, N)
<1> DEFINE S == {i \in 0 .. N : \E after : IsReading(n, after, i)}
<1>1. 0 \in S
  <2>1. IsReading(n, [k \in 0 .. 0 |-> Start(n)], 0)
    BY DEF IsReading
  <2> QED
    BY <2>1
<1>2. ASSUME NEW i \in 0 .. N - 1, i \in S  PROVE i + 1 \in S
  <2>1. PICK after : IsReading(n, after, i)
    BY <1>2
  <2> DEFINE next == [k \in 0 .. i + 1 |->
                        IF k \in 0 .. i THEN after[k]
                        ELSE Processed(n, after[i], held[n][i + 1])]
  <2>2. \A k \in 0 .. i : next[k] = after[k]
    OBVIOUS
  <2>3. next[i + 1] = Processed(n, after[i], held[n][i + 1])
    OBVIOUS
  <2>4. \A k \in 0 .. i :
          after[k] = IF k = 0 THEN Start(n) ELSE Processed(n, after[k - 1], held[n][k])
    BY <2>1 DEF IsReading
  <2> HIDE DEF next
  <2>5. \A k \in 0 .. i + 1 :
          next[k] = IF k = 0 THEN Start(n) ELSE Processed(n, next[k - 1], held[n][k])
    <3> SUFFICES ASSUME NEW k \in 0 .. i + 1
                 PROVE  next[k] = IF k = 0 THEN Start(n)
                                  ELSE Processed(n, next[k - 1], held[n][k])
      OBVIOUS
    <3>1. CASE k = i + 1
      <4>1. k # 0 /\ k - 1 = i /\ i \in 0 .. i
        BY <3>1
      <4> QED
        BY <2>2, <2>3, <3>1, <4>1
    <3>2. CASE k = 0
      <4>1. k \in 0 .. i
        BY <3>2
      <4> QED
        BY <2>2, <2>4, <3>2, <4>1
    <3>3. CASE k \in 1 .. i
      <4>1. k \in 0 .. i /\ k - 1 \in 0 .. i /\ k # 0
        BY <3>3
      <4> QED
        BY <2>2, <2>4, <4>1
    <3> QED
      BY <3>1, <3>2, <3>3
  <2>6. next = [k \in 0 .. i + 1 |->
                  IF k = 0 THEN Start(n) ELSE Processed(n, next[k - 1], held[n][k])]
    <3>1. next = [k \in 0 .. i + 1 |-> next[k]]
      BY DEF next
    <3> QED
      BY <2>5, <3>1
  <2>7. i + 1 \in 0 .. N
    OBVIOUS
  <2> QED
    BY <2>6, <2>7 DEF IsReading
<1> HIDE DEF S
<1>3. N \in S
  <2>1. 0 .. N \subseteq S
    BY <1>1, <1>2, UpTo
  <2> QED
    BY <2>1
<1> QED
  BY <1>3 DEF S

LEMMA ReceivedIs ==
    ASSUME NEW n, Len(held[n]) \in Nat
    PROVE  IsReading(n, Received(n), Len(held[n]))
<1>1. PICK after : IsReading(n, after, Len(held[n]))
  BY ReadingExists
<1> QED
  BY <1>1 DEF IsReading, Received, Start

\* All that becomes of a frame comes from the messages there were before and the
\* datagrams of the frame.
LEMMA ReceivedFrom ==
    ASSUME NEW n, held[n] \in Seq(Message), code[n] \in 0 .. vtdma_window_size - 1,
           acks[n] \in [0 .. vtdma_window_size - 1 -> Time],
           NEW A, tx[n] \in Seq(A), Len(tx[n]) <= TxCap,
           NEW B, took[n] \in Seq(B),
           \A i \in DOMAIN held[n] : held[n][i].type = "Datagram" => held[n][i] \in A \cap B
    PROVE  /\ Received(n)[Len(held[n])].acks \in [0 .. vtdma_window_size - 1 -> Time]
           /\ Received(n)[Len(held[n])].tx \in Seq(A)
           /\ Len(Received(n)[Len(held[n])].tx) <= TxCap
           /\ Received(n)[Len(held[n])].took \in Seq(B)
<1> DEFINE States == [acks : [0 .. vtdma_window_size - 1 -> Time],
                      tx : {q \in Seq(A) : Len(q) <= TxCap},
                      took : Seq(B)]
           N == Len(held[n])
           R == Received(n)
           S == {i \in 0 .. N : R[i] \in States}
<1>1. N \in Nat /\ DOMAIN held[n] = 1 .. N
  OBVIOUS
<1>2. /\ R[0] = Start(n)
      /\ \A k \in 1 .. N : R[k] = Processed(n, R[k - 1], held[n][k])
  <2>1. IsReading(n, R, N)
    BY <1>1, ReceivedIs
  <2> HIDE DEF N, R
  <2>2. 0 \in 0 .. N /\ \A k \in 1 .. N : k \in 0 .. N /\ k # 0
    BY <1>1
  <2> QED
    BY <2>1, <2>2 DEF IsReading
<1> HIDE DEF N, R
<1>3. 0 \in S
  <2>1. Start(n) \in States
    BY DEF Start
  <2> HIDE DEF States
  <2> QED
    BY <1>1, <1>2, <2>1
<1>4. ASSUME NEW s \in States, NEW m \in Message, m.type = "Datagram" => m \in A \cap B
      PROVE  Processed(n, s, m) \in States
  <2>1. CASE m.type = "Datagram"
    <3>1. m.sequence \in Time
      BY <1>4, <2>1 DEF Message
    <3>2. [s.acks EXCEPT ![code[n]] = m.sequence] \in [0 .. vtdma_window_size - 1 -> Time]
      BY <3>1
    <3>3. Queued(s.tx, m) \in {q \in Seq(A) : Len(q) <= TxCap}
      BY <1>4, <2>1, BoundAssumption DEF Queued
    <3>4. Append(s.took, m) \in Seq(B)
      BY <1>4, <2>1
    <3> QED
      BY <2>1, <3>2, <3>3, <3>4 DEF Processed
  <2>2. CASE m.type # "Datagram"
    BY <2>2 DEF Processed
  <2> QED
    BY <2>1, <2>2
<1>5. ASSUME NEW k \in 0 .. N - 1, k \in S  PROVE k + 1 \in S
  <2>1. k + 1 \in 1 .. N /\ k + 1 \in 0 .. N /\ k + 1 - 1 = k
    BY <1>1
  <2>2. R[k + 1] = Processed(n, R[k], held[n][k + 1])
    BY <1>2, <2>1
  <2>3. /\ held[n][k + 1] \in Message
        /\ held[n][k + 1].type = "Datagram" => held[n][k + 1] \in A \cap B
    BY <1>1, <2>1
  <2> HIDE DEF States
  <2>4. R[k] \in States
    BY <1>5
  <2>5. R[k + 1] \in States
    BY <1>4, <2>2, <2>3, <2>4
  <2> QED
    BY <2>1, <2>5
<1> HIDE DEF S
<1>6. N \in S
  <2>1. 0 .. N \subseteq S
    BY <1>1, <1>3, <1>5, UpTo
  <2> QED
    BY <1>1, <2>1
<1>7. R[N] \in States
  BY <1>6 DEF S
<1> QED
  BY <1>7 DEF R, N

-----------------------------------------------------------------------------
(* Types.                                                                  *)

LEMMA Windows ==
    /\ vtdma_window_size \in Nat /\ vtdma_window_size >= 1
    /\ SUPERFRAME_SLOT_COUNT \in Nat /\ SUPERFRAME_SLOT_COUNT > 1
<1> DEFINE n == SUPERFRAME_SLOT_COUNT - 1
<1>1. REUSE_DISTANCE \in Nat \ {0} /\ n \in Nat /\ n >= REUSE_DISTANCE
  BY SlotAssumption
<1>2. n \div REUSE_DISTANCE \in Nat /\ n \div REUSE_DISTANCE >= 1
  <2> HIDE DEF n
  <2> QED
    BY <1>1, Z3
<1>3. vtdma_window_size = n \div REUSE_DISTANCE
  BY DEF vtdma_window_size, ADV_SLOTS
<1> HIDE DEF n
<1> QED
  BY <1>2, <1>3, SlotAssumption

LEMMA NowInTime == TypeOK => now \in Time
<1> SUFFICES ASSUME TypeOK PROVE now \in Time
  OBVIOUS
<1>1. /\ frame \in Nat /\ frame <= Frames - 1 /\ Frames \in Nat
      /\ slot \in Nat /\ slot <= SUPERFRAME_SLOT_COUNT - 1 /\ SUPERFRAME_SLOT_COUNT \in Nat
  BY BoundAssumption, Windows DEF TypeOK
<1>2. PICK d \in Nat : Frames = frame + 1 + d
  <2>1. Frames - frame - 1 \in Nat /\ Frames = frame + 1 + (Frames - frame - 1)
    BY <1>1
  <2> QED
    BY <2>1
<1>3. /\ Frames * SUPERFRAME_SLOT_COUNT
           = frame * SUPERFRAME_SLOT_COUNT + SUPERFRAME_SLOT_COUNT + d * SUPERFRAME_SLOT_COUNT
      /\ d * SUPERFRAME_SLOT_COUNT \in Nat /\ frame * SUPERFRAME_SLOT_COUNT \in Nat
  BY <1>1, <1>2
<1> QED
  BY <1>1, <1>3 DEF now, Time

LEMMA SeqOfMore ==
    ASSUME NEW S, NEW T, S \subseteq T, NEW q \in Seq(S)
    PROVE  q \in Seq(T)
  OBVIOUS

Task0 == [do : Duties, slot : {slot, slot - 1}]

LEMMA ListenType ==
    ASSUME NEW X, NEW q \in Seq([do : Duties, slot : X]), q # <<>>, NEW d \in Duties
    PROVE  [q EXCEPT ![1].do = d] \in Seq([do : Duties, slot : X])
<1> DEFINE S == [do : Duties, slot : X]
<1>1. 1 \in DOMAIN q /\ q[1] \in S
  <2>1. q \in Seq(S)
    OBVIOUS
  <2> HIDE DEF S
  <2> QED
    BY <2>1
<1>2. [q[1] EXCEPT !.do = d] \in S
  BY <1>1
<1>3. [q EXCEPT ![1].do = d] = [q EXCEPT ![1] = [q[1] EXCEPT !.do = d]]
  OBVIOUS
<1> HIDE DEF S
<1>4. \A v \in S : [q EXCEPT ![1] = v] \in Seq(S)
  BY <1>1 DEF S
<1> QED
  BY <1>2, <1>3, <1>4 DEF S

\* What a node has to do after it has begun to listen, or has done a task.
LEMMA TodoType ==
    ASSUME TypeOK, slot' = slot, NEW n \in Node, todo[n] # <<>>,
           Done(n) \/ \E d \in Duties : Listen(n, d)
    PROVE  todo' \in [Node -> Seq([do : Duties, slot : {slot', slot' - 1}])]
<1>1. todo \in [Node -> Seq(Task0)]
  BY DEF TypeOK, Task0
<1>2. CASE Done(n)
  <2>1. Tail(todo[n]) \in Seq(Task0)
    BY <1>1
  <2>2. todo' \in [Node -> Seq(Task0)]
    BY <1>1, <1>2, <2>1 DEF Done
  <2> QED
    BY <2>2 DEF Task0
<1>3. ASSUME NEW d \in Duties, Listen(n, d)
      PROVE  todo' \in [Node -> Seq([do : Duties, slot : {slot', slot' - 1}])]
  <2>1. [todo[n] EXCEPT ![1].do = d] \in Seq(Task0)
    BY <1>1, ListenType DEF Task0
  <2>2. todo' = [todo EXCEPT ![n] = [todo[n] EXCEPT ![1].do = d]]
    BY <1>3 DEF Listen
  <2>3. todo' \in [Node -> Seq(Task0)]
    BY <1>1, <2>1, <2>2
  <2> QED
    BY <2>3 DEF Task0
<1> QED
  BY <1>2, <1>3

\* loop() plans the duties of the roles a node has.
LEMMA PlanOf ==
    ASSUME NEW n, NEW s, NEW p, NEW D,
           n \in Clusterhead => "clusterhead_recv" \in D /\ "clusterhead_send" \in D,
           p[n] # UNKNOWN_ADDR => "follower_send" \in D /\ "follower_recv" \in D
    PROVE  Plan(n, s, p) \in Seq({Task(d, s) : d \in D})
<1> DEFINE S == {Task(d, s) : d \in D}
           b(c, d) == IF c THEN <<Task(d, s)>> ELSE <<>>
           c1 == n \in Clusterhead
                   /\ s - downstream_start_slot(Ring[n]) \in 1 .. vtdma_window_size - 2
           c2 == n \in Clusterhead /\ s = ack_slot(n)
           c3 == p[n] # UNKNOWN_ADDR /\ s = my_slot(n)
           c4 == p[n] # UNKNOWN_ADDR /\ s = ack_slot(Parent[n])
<1>1. \A c, d : (c => d \in D) => b(c, d) \in Seq(S)
  <2> SUFFICES ASSUME NEW c, NEW d, c => d \in D PROVE b(c, d) \in Seq(S)
    OBVIOUS
  <2>1. c => Task(d, s) \in S
    OBVIOUS
  <2> HIDE DEF S
  <2>2. <<>> \in Seq(S) /\ \A v \in S : <<v>> \in Seq(S)
    OBVIOUS
  <2> QED
    BY <2>1, <2>2
<1>2. Plan(n, s, p) = b(c1, "clusterhead_recv") \o b(c2, "clusterhead_send")
                        \o b(c3, "follower_send") \o b(c4, "follower_recv")
  BY DEF Plan
<1>3. /\ c1 => "clusterhead_recv" \in D
      /\ c2 => "clusterhead_send" \in D
      /\ c3 => "follower_send" \in D
      /\ c4 => "follower_recv" \in D
  OBVIOUS
<1> HIDE DEF S, b, c1, c2, c3, c4
<1>4. \A q, r \in Seq(S) : q \o r \in Seq(S)
  OBVIOUS
<1>5. Plan(n, s, p) \in Seq(S)
  BY <1>1, <1>2, <1>3, <1>4
<1> QED
  BY <1>5 DEF S

LEMMA PlanType ==
    ASSUME NEW n, NEW s, NEW p
    PROVE  Plan(n, s, p) \in Seq([do : Duties, slot : {s}])
<1>1. Plan(n, s, p) \in Seq({Task(d, s) : d \in Duties})
  BY PlanOf DEF Duties
<1>2. {Task(d, s) : d \in Duties} \subseteq [do : Duties, slot : {s}]
  BY DEF Task
<1> QED
  BY <1>1, <1>2, SeqOfMore

LEMMA RetunedType ==
    ASSUME TypeOK, NEW n \in Node, NEW c, NEW h \in Retuned(n, c)
    PROVE  h \in Seq(Message)
<1>1. h \in {held[n], <<>>}
  BY DEF Retuned
<1>2. held[n] \in Seq(Message)
  BY DEF TypeOK
<1>3. <<>> \in Seq(Message)
  OBVIOUS
<1> QED
  BY <1>1, <1>2, <1>3

LEMMA FlushType ==
    ASSUME TypeOK, NEW n \in Node, NEW q \in Seq(Message), Len(q) <= TxCap,
           NEW c \in 0 .. vtdma_window_size - 1, NEW Wanted,
           Flushed(n, q, c, Wanted) \/ NotFlushed(n, q, c)
    PROVE  /\ code' \in [Node -> 0 .. vtdma_window_size - 1]
           /\ tx' \in [Node -> Seq(Message)] /\ \A m \in Node : Len(tx'[m]) <= TxCap
           /\ held' \in [Node -> Seq(Message)]
           /\ faulty' \in BOOLEAN
<1>1. /\ code \in [Node -> 0 .. vtdma_window_size - 1] /\ faulty \in BOOLEAN
      /\ tx \in [Node -> Seq(Message)] /\ \A m \in Node : Len(tx[m]) <= TxCap
      /\ held \in [Node -> Seq(Message)]
  BY DEF TypeOK
<1>2. CASE Flushed(n, q, c, Wanted)
  <2>1. /\ code' = [code EXCEPT ![n] = c] /\ tx' = [tx EXCEPT ![n] = <<>>]
    BY <1>2 DEF Flushed
  <2>2. PICK heard \in SUBSET {m \in Node \ {n} : InRange(n, m) /\ Hears(m, c)},
             h \in Retuned(n, c) :
          /\ ~Lossy => heard = {m \in Node \ {n} : InRange(n, m) /\ Hears(m, c)}
          /\ held' = [m \in Node |-> IF m \in heard THEN q ELSE IF m = n THEN h ELSE held[m]]
          /\ faulty' = (faulty \/ Missed(Wanted, heard, c) \/ Len(q) = TxCap)
    BY <1>2, Zenon DEF Flushed
  <2>3. held' \in [Node -> Seq(Message)]
    <3>1. h \in Seq(Message)
      BY RetunedType
    <3> QED
      BY <1>1, <2>2, <3>1
  <2>4. tx' \in [Node -> Seq(Message)] /\ \A m \in Node : Len(tx'[m]) <= TxCap
    <3>1. <<>> \in Seq(Message) /\ Len(<<>>) = 0 /\ 0 <= TxCap
      BY BoundAssumption
    <3> QED
      BY <1>1, <2>1, <3>1
  <2>5. code' \in [Node -> 0 .. vtdma_window_size - 1]
    BY <1>1, <2>1
  <2>6. faulty' \in BOOLEAN
    BY <2>2
  <2> QED
    BY <2>3, <2>4, <2>5, <2>6
<1>3. CASE NotFlushed(n, q, c)
  <2>1. /\ code' = [code EXCEPT ![n] = c] /\ tx' = [tx EXCEPT ![n] = q] /\ faulty' = TRUE
        /\ \E h \in Retuned(n, c) : held' = [held EXCEPT ![n] = h]
    BY <1>3 DEF NotFlushed
  <2>2. held' \in [Node -> Seq(Message)]
    BY <1>1, <2>1, RetunedType
  <2>3. tx' \in [Node -> Seq(Message)] /\ \A m \in Node : Len(tx'[m]) <= TxCap
    BY <1>1, <2>1
  <2>4. code' \in [Node -> 0 .. vtdma_window_size - 1]
    BY <1>1, <2>1
  <2> QED
    BY <2>1, <2>2, <2>3, <2>4
<1> QED
  BY <1>2, <1>3

LEMMA QueuedType ==
    ASSUME NEW M, NEW q \in Seq(M), Len(q) <= TxCap, NEW m \in M
    PROVE  Queued(q, m) \in Seq(M) /\ Len(Queued(q, m)) <= TxCap
  BY BoundAssumption DEF Queued

Acks == [0 .. vtdma_window_size - 1 -> Time]

LEMMA ZeroInTime == 0 \in Time
<1>1. Frames * SUPERFRAME_SLOT_COUNT \in Nat
  BY BoundAssumption, Windows
<1> QED
  BY <1>1 DEF Time

LEMMA InitType == Init => TypeOK
<1> SUFFICES ASSUME Init PROVE TypeOK
  OBVIOUS
<1>1. frame \in 0 .. Frames - 1 /\ slot \in 0 .. SUPERFRAME_SLOT_COUNT - 1
  BY BoundAssumption, Windows DEF Init
<1>2. todo \in [Node -> Seq([do : Duties, slot : {slot, slot - 1}])]
  BY DEF Init
<1>3. 0 \in 0 .. vtdma_window_size - 1
  BY Windows
<1>4. code \in [Node -> 0 .. vtdma_window_size - 1]
  BY <1>3 DEF Init
<1>5. acks \in [Node -> Acks] /\ mine \in [Node -> Time]
  BY ZeroInTime DEF Init, Acks
<1>6. /\ tx \in [Node -> Seq(Message)] /\ held \in [Node -> Seq(Message)]
      /\ took \in [Node -> Seq(Message)]
  BY DEF Init
<1>7. \A n \in Node : Len(tx[n]) <= TxCap
  BY BoundAssumption DEF Init
<1>8. parent \in [Node -> Node \cup {UNKNOWN_ADDR}] /\ faulty \in BOOLEAN
  BY DEF Init
<1> QED
  BY <1>1, <1>2, <1>4, <1>5, <1>6, <1>7, <1>8 DEF TypeOK, Acks

LEMMA AdvertiseType == TypeOK /\ Advertise => TypeOK'
<1> SUFFICES ASSUME TypeOK, Advertise PROVE TypeOK'
  OBVIOUS
<1>1. slot' = ADV_SLOTS /\ slot' \in 0 .. SUPERFRAME_SLOT_COUNT - 1
  BY Windows DEF Advertise, ADV_SLOTS
<1>2. PICK joined \in SUBSET {f \in Node : Parent[f] # UNKNOWN_ADDR} :
        /\ parent' = [n \in Node |-> IF n \in joined THEN Parent[n] ELSE UNKNOWN_ADDR]
        /\ \E flushed \in SUBSET Node :
             /\ joined \subseteq flushed
             /\ tx' = [n \in Node |-> IF n \in flushed THEN <<>> ELSE tx[n]]
  BY Zenon DEF Advertise
<1>3. parent' \in [Node -> Node \cup {UNKNOWN_ADDR}]
  BY <1>2, TreeAssumption
<1>4. tx' \in [Node -> Seq(Message)] /\ \A n \in Node : Len(tx'[n]) <= TxCap
  <2>1. PICK flushed \in SUBSET Node :
          tx' = [n \in Node |-> IF n \in flushed THEN <<>> ELSE tx[n]]
    BY <1>2
  <2>2. <<>> \in Seq(Message) /\ Len(<<>>) <= TxCap
    BY BoundAssumption
  <2> QED
    BY <2>1, <2>2 DEF TypeOK
<1>5. todo' \in [Node -> Seq([do : Duties, slot : {slot', slot' - 1}])]
  <2>1. todo' = [n \in Node |-> Plan(n, ADV_SLOTS, parent')]
    BY DEF Advertise
  <2>2. \A n \in Node : Plan(n, ADV_SLOTS, parent') \in Seq([do : Duties, slot : {slot'}])
    BY <1>1, PlanType
  <2>3. [do : Duties, slot : {slot'}] \subseteq [do : Duties, slot : {slot', slot' - 1}]
    OBVIOUS
  <2> QED
    BY <2>1, <2>2, <2>3, SeqOfMore
<1>6. acks' \in [Node -> Acks]
  <2>1. acks' = [n \in Node |-> [i \in DOMAIN acks[n] |-> 0]]
    BY DEF Advertise
  <2>2. \A n \in Node : DOMAIN acks[n] = 0 .. vtdma_window_size - 1
    BY DEF TypeOK
  <2> QED
    BY <2>1, <2>2, ZeroInTime DEF Acks
<1>7. code' \in [Node -> 0 .. vtdma_window_size - 1]
  <2>1. 0 \in 0 .. vtdma_window_size - 1
    BY Windows
  <2> QED
    BY <2>1 DEF Advertise
<1>8. held' \in [Node -> Seq(Message)] /\ faulty' \in BOOLEAN
  <2>1. held' = [n \in Node |-> <<>>] /\ faulty' = FALSE
    BY DEF Advertise
  <2>2. <<>> \in Seq(Message)
    OBVIOUS
  <2> QED
    BY <2>1, <2>2
<1>9. UNCHANGED <<frame, mine, took>>
  BY DEF Advertise
<1> QED
  BY <1>1, <1>3, <1>4, <1>5, <1>6, <1>7, <1>8, <1>9 DEF TypeOK, Acks

\* Turning the radio to a code.
LEMMA TunedType ==
    ASSUME TypeOK, NEW n \in Node, NEW c \in 0 .. vtdma_window_size - 1,
           code' = [code EXCEPT ![n] = c],
           \E h \in Retuned(n, c) : held' = [held EXCEPT ![n] = h]
    PROVE  /\ code' \in [Node -> 0 .. vtdma_window_size - 1]
           /\ held' \in [Node -> Seq(Message)]
<1>1. PICK h \in Retuned(n, c) : held' = [held EXCEPT ![n] = h]
  OBVIOUS
<1>2. h \in Seq(Message)
  BY RetunedType
<1>3. held' \in [Node -> Seq(Message)]
  BY <1>1, <1>2 DEF TypeOK
<1>4. code' \in [Node -> 0 .. vtdma_window_size - 1]
  BY DEF TypeOK
<1> QED
  BY <1>3, <1>4

LEMMA ClusterheadListenType ==
    ASSUME TypeOK, NEW n \in Node, ClusterheadListen(n)
    PROVE  TypeOK'
<1> DEFINE relative == slot - downstream_start_slot(Ring[n])
<1>1. UNCHANGED <<frame, slot, parent, acks, tx, mine, took, faulty>> /\ todo[n] # <<>>
  BY DEF ClusterheadListen, Doing
<1>2. \/ /\ relative \in 1 .. vtdma_window_size - 2
         /\ Listen(n, "clusterhead_hear") /\ code' = [code EXCEPT ![n] = relative]
         /\ \E h \in Retuned(n, relative) : held' = [held EXCEPT ![n] = h]
      \/ Done(n) /\ UNCHANGED <<code, held>>
  BY DEF ClusterheadListen
<1> HIDE DEF relative
<1>3. todo' \in [Node -> Seq([do : Duties, slot : {slot', slot' - 1}])]
  <2>1. "clusterhead_hear" \in Duties
    BY DEF Duties
  <2> QED
    BY <1>1, <1>2, <2>1, TodoType
<1>4. code' \in [Node -> 0 .. vtdma_window_size - 1] /\ held' \in [Node -> Seq(Message)]
  <2>1. relative \in 1 .. vtdma_window_size - 2 => relative \in 0 .. vtdma_window_size - 1
    BY Windows
  <2>2. CASE UNCHANGED <<code, held>>
    BY <2>2 DEF TypeOK
  <2> QED
    BY <1>2, <2>1, <2>2, TunedType
<1> QED
  BY <1>1, <1>3, <1>4 DEF TypeOK

LEMMA FollowerListenType ==
    ASSUME TypeOK, NEW n \in Node, FollowerListen(n)
    PROVE  TypeOK'
<1>1. UNCHANGED <<frame, slot, parent, acks, tx, mine, took, faulty>> /\ todo[n] # <<>>
  BY DEF FollowerListen, Doing
<1>2. \/ /\ Listen(n, "follower_hear") /\ code' = [code EXCEPT ![n] = 0]
         /\ \E h \in Retuned(n, 0) : held' = [held EXCEPT ![n] = h]
      \/ Done(n) /\ UNCHANGED <<code, held>>
  BY DEF FollowerListen
<1>3. todo' \in [Node -> Seq([do : Duties, slot : {slot', slot' - 1}])]
  <2>1. "follower_hear" \in Duties
    BY DEF Duties
  <2> QED
    BY <1>1, <1>2, <2>1, TodoType
<1>4. code' \in [Node -> 0 .. vtdma_window_size - 1] /\ held' \in [Node -> Seq(Message)]
  <2>1. 0 \in 0 .. vtdma_window_size - 1
    BY Windows
  <2>2. CASE UNCHANGED <<code, held>>
    BY <2>2 DEF TypeOK
  <2> QED
    BY <1>2, <2>1, <2>2, TunedType
<1> QED
  BY <1>1, <1>3, <1>4 DEF TypeOK

LEMMA ClusterheadHearType ==
    ASSUME TypeOK, NEW n \in Node, ClusterheadHear(n)
    PROVE  TypeOK'
<1> DEFINE s == Received(n)[Len(held[n])]
<1>1. UNCHANGED <<frame, slot, parent, code, mine, faulty>> /\ todo[n] # <<>> /\ Done(n)
  BY DEF ClusterheadHear, Doing
<1>2. /\ acks' = [acks EXCEPT ![n] = s.acks]
      /\ tx' = [tx EXCEPT ![n] = s.tx]
      /\ took' = [took EXCEPT ![n] = s.took]
      /\ held' = [held EXCEPT ![n] = <<>>]
  BY DEF ClusterheadHear
<1>3. s.acks \in Acks /\ s.tx \in Seq(Message) /\ Len(s.tx) <= TxCap /\ s.took \in Seq(Message)
  <2>1. /\ held[n] \in Seq(Message) /\ code[n] \in 0 .. vtdma_window_size - 1
        /\ acks[n] \in [0 .. vtdma_window_size - 1 -> Time]
        /\ tx[n] \in Seq(Message) /\ Len(tx[n]) <= TxCap /\ took[n] \in Seq(Message)
    BY DEF TypeOK
  <2>2. \A i \in DOMAIN held[n] : held[n][i] \in Message \cap Message
    BY <2>1
  <2> QED
    BY <2>1, <2>2, ReceivedFrom DEF Acks
<1> HIDE DEF s
<1>4. todo' \in [Node -> Seq([do : Duties, slot : {slot', slot' - 1}])]
  BY <1>1, TodoType
<1>5. acks' \in [Node -> Acks] /\ took' \in [Node -> Seq(Message)]
  BY <1>2, <1>3 DEF TypeOK, Acks
<1>6. tx' \in [Node -> Seq(Message)] /\ \A m \in Node : Len(tx'[m]) <= TxCap
  BY <1>2, <1>3 DEF TypeOK
<1>7. held' \in [Node -> Seq(Message)]
  <2>1. <<>> \in Seq(Message)
    OBVIOUS
  <2> QED
    BY <1>2, <2>1 DEF TypeOK
<1> QED
  BY <1>1, <1>4, <1>5, <1>6, <1>7 DEF TypeOK, Acks

LEMMA ClusterheadSendType ==
    ASSUME TypeOK, NEW n \in Node, ClusterheadSend(n)
    PROVE  TypeOK'
<1>1. UNCHANGED <<frame, slot, parent, acks, mine, took>> /\ todo[n] # <<>> /\ Done(n)
  BY DEF ClusterheadSend, Doing
<1>2. todo' \in [Node -> Seq([do : Duties, slot : {slot', slot' - 1}])]
  BY <1>1, TodoType
<1>3. /\ code' \in [Node -> 0 .. vtdma_window_size - 1]
      /\ tx' \in [Node -> Seq(Message)] /\ \A m \in Node : Len(tx'[m]) <= TxCap
      /\ held' \in [Node -> Seq(Message)] /\ faulty' \in BOOLEAN
  <2>1. CASE UNCHANGED <<code, tx, held, faulty>>
    BY <2>1 DEF TypeOK
  <2>2. CASE slot = ack_slot(n)
    <3>1. PICK nomination \in {n, UNKNOWN_ADDR} :
            LET q == Queued(Queued(tx[n], SendAcks(n)), CloseCluster(n, nomination))
            IN  \/ Flushed(n, q, 0, {f \in Node : parent[f] = n})
                \/ NotFlushed(n, q, 0)
      BY <2>2 DEF ClusterheadSend
    <3> DEFINE q1 == Queued(tx[n], SendAcks(n))
               q == Queued(q1, CloseCluster(n, nomination))
    <3>2. SendAcks(n) \in Message /\ CloseCluster(n, nomination) \in Message
      BY DEF SendAcks, CloseCluster, Message, TypeOK
    <3>3. q1 \in Seq(Message) /\ Len(q1) <= TxCap
      BY <3>2, QueuedType DEF TypeOK
    <3> HIDE DEF q1
    <3>4. q \in Seq(Message) /\ Len(q) <= TxCap
      BY <3>2, <3>3, QueuedType
    <3>5. Flushed(n, q, 0, {f \in Node : parent[f] = n}) \/ NotFlushed(n, q, 0)
      BY <3>1 DEF q1
    <3>6. 0 \in 0 .. vtdma_window_size - 1
      BY Windows
    <3> HIDE DEF q
    <3> QED
      BY <3>4, <3>5, <3>6, FlushType
  <2> QED
    BY <2>1, <2>2 DEF ClusterheadSend
<1> QED
  BY <1>1, <1>2, <1>3 DEF TypeOK

LEMMA FollowerSendType ==
    ASSUME TypeOK, NEW n \in Node, FollowerSend(n)
    PROVE  TypeOK'
<1> DEFINE q == Queued(tx[n], Datagram(n))
<1>1. UNCHANGED <<frame, slot, parent, acks, took>> /\ todo[n] # <<>> /\ Done(n)
  BY DEF FollowerSend, Doing
<1>2. todo' \in [Node -> Seq([do : Duties, slot : {slot', slot' - 1}])]
  BY <1>1, TodoType
<1>3. mine' \in [Node -> Time]
  BY NowInTime DEF FollowerSend, TypeOK
<1>4. q \in Seq(Message) /\ Len(q) <= TxCap
  <2>1. Datagram(n) \in Message
    BY NowInTime DEF Datagram, Message
  <2> QED
    BY <2>1, QueuedType DEF TypeOK
<1>5. \/ Flushed(n, q, Rel[n], {parent[n]}) \/ NotFlushed(n, q, Rel[n])
      \/ tx' = [tx EXCEPT ![n] = q] /\ UNCHANGED <<code, held, faulty>>
  BY DEF FollowerSend
<1> HIDE DEF q
<1>6. /\ code' \in [Node -> 0 .. vtdma_window_size - 1]
      /\ tx' \in [Node -> Seq(Message)] /\ \A m \in Node : Len(tx'[m]) <= TxCap
      /\ held' \in [Node -> Seq(Message)] /\ faulty' \in BOOLEAN
  <2>1. Rel[n] \in 0 .. vtdma_window_size - 1
    BY TreeAssumption
  <2>2. CASE tx' = [tx EXCEPT ![n] = q] /\ UNCHANGED <<code, held, faulty>>
    BY <1>4, <2>2 DEF TypeOK
  <2> QED
    BY <1>4, <1>5, <2>1, <2>2, FlushType
<1> QED
  BY <1>1, <1>2, <1>3, <1>6 DEF TypeOK

LEMMA FollowerHearType ==
    ASSUME TypeOK, NEW n \in Node, FollowerHear(n)
    PROVE  TypeOK'
<1>1. UNCHANGED <<frame, slot, code, tx, mine, took, faulty>> /\ todo[n] # <<>>
  BY DEF FollowerHear, Doing
<1>2. held' = [held EXCEPT ![n] = <<>>] /\ (Done(n) \/ UNCHANGED todo)
  BY DEF FollowerHear
<1>3. todo' \in [Node -> Seq([do : Duties, slot : {slot', slot' - 1}])]
  <2>1. CASE Done(n)
    BY <1>1, <2>1, TodoType
  <2>2. CASE UNCHANGED todo
    BY <1>1, <2>2 DEF TypeOK
  <2> QED
    BY <1>2, <2>1, <2>2
<1>4. held' \in [Node -> Seq(Message)]
  <2>1. <<>> \in Seq(Message)
    OBVIOUS
  <2> QED
    BY <1>2, <2>1 DEF TypeOK
<1>5. \A type : \A i \in LastOf(held[n], type) : held[n][i] \in Message /\ held[n][i].type = type
  <2>1. held[n] \in Seq(Message)
    BY DEF TypeOK
  <2> QED
    BY <2>1 DEF LastOf
<1>6. acks' \in [Node -> Acks]
  <2>1. acks \in [Node -> Acks] /\ 0 \in 0 .. vtdma_window_size - 1
    BY Windows DEF TypeOK, Acks
  <2>2. CASE UNCHANGED acks
    BY <2>1, <2>2
  <2>3. CASE \E i \in LastOf(held[n], "SendAcks") :
               acks' = [acks EXCEPT ![n][0] = held[n][i].acks[Rel[n]]]
    <3>1. PICK i \in LastOf(held[n], "SendAcks") :
            acks' = [acks EXCEPT ![n][0] = held[n][i].acks[Rel[n]]]
      BY <2>3
    <3>2. held[n][i].acks \in [0 .. vtdma_window_size - 1 -> Time]
      BY <1>5 DEF Message
    <3>3. held[n][i].acks[Rel[n]] \in Time
      BY <3>2, TreeAssumption
    <3> QED
      BY <2>1, <3>1, <3>3 DEF Acks
  <2> QED
    BY <2>2, <2>3 DEF FollowerHear
<1>7. parent' \in [Node -> Node \cup {UNKNOWN_ADDR}]
  <2>1. CASE UNCHANGED parent
    BY <2>1 DEF TypeOK
  <2>2. CASE \E i \in LastOf(held[n], "CloseCluster") :
               parent' = [parent EXCEPT ![n] = held[n][i].nomination]
    <3>1. PICK i \in LastOf(held[n], "CloseCluster") :
            parent' = [parent EXCEPT ![n] = held[n][i].nomination]
      BY <2>2
    <3>2. held[n][i].nomination \in Node \cup {UNKNOWN_ADDR}
      BY <1>5 DEF Message
    <3> QED
      BY <3>1, <3>2 DEF TypeOK
  <2> QED
    BY <2>1, <2>2 DEF FollowerHear
<1> QED
  BY <1>1, <1>3, <1>4, <1>6, <1>7 DEF TypeOK, Acks

LEMMA NextSlotType == TypeOK /\ NextSlot => TypeOK'
<1> SUFFICES ASSUME TypeOK, NextSlot PROVE TypeOK'
  OBVIOUS
<1>1. UNCHANGED <<parent, code, acks, tx, held, mine, took>>
  BY DEF NextSlot
<1>2. CASE /\ slot + 1 < SUPERFRAME_SLOT_COUNT
           /\ slot' = slot + 1
           /\ todo' = [n \in Node |-> Carried(n) \o Plan(n, slot + 1, parent)]
           /\ UNCHANGED frame
  <2>1. slot \in Nat /\ slot' \in 0 .. SUPERFRAME_SLOT_COUNT - 1
    BY <1>2, Windows DEF TypeOK
  <2>2. ASSUME NEW n \in Node
        PROVE  Carried(n) \o Plan(n, slot + 1, parent)
                 \in Seq([do : Duties, slot : {slot', slot' - 1}])
    <3> DEFINE S == [do : Duties, slot : {slot', slot' - 1}]
    <3>1. Carried(n) \in Seq(S)
      <4>1. CASE n \in Late
        <5>1. /\ todo[n] \in Seq(Task0) /\ Len(todo[n]) <= 1
              /\ todo[n] # <<>> => Head(todo[n]).slot = slot
          BY <4>1 DEF NextSlot, TypeOK, Task0
        <5>2. CASE todo[n] = <<>>
          BY <4>1, <5>2 DEF Carried
        <5>3. CASE todo[n] # <<>>
          <6>1. Head(todo[n]) \in Task0 /\ todo[n] = <<Head(todo[n])>>
            BY <5>1, <5>3
          <6>2. Head(todo[n]) \in S
            BY <1>2, <2>1, <5>1, <5>3, <6>1 DEF Task0
          <6> HIDE DEF S
          <6>3. \A v \in S : <<v>> \in Seq(S)
            OBVIOUS
          <6> QED
            BY <4>1, <6>1, <6>2, <6>3 DEF Carried
        <5> QED
          BY <5>2, <5>3
      <4>2. CASE n \notin Late
        BY <4>2 DEF Carried
      <4> QED
        BY <4>1, <4>2
    <3>2. Plan(n, slot + 1, parent) \in Seq(S)
      <4> DEFINE P == [do : Duties, slot : {slot + 1}]
      <4>1. Plan(n, slot + 1, parent) \in Seq(P)
        BY PlanType
      <4>2. P \subseteq S
        BY <1>2
      <4> HIDE DEF S, P
      <4> QED
        BY <4>1, <4>2, SeqOfMore
    <3> HIDE DEF S
    <3>3. Carried(n) \o Plan(n, slot + 1, parent) \in Seq(S)
      BY <3>1, <3>2
    <3> QED
      BY <3>3 DEF S
  <2>3. todo' \in [Node -> Seq([do : Duties, slot : {slot', slot' - 1}])]
    BY <1>2, <2>2
  <2>4. faulty' \in BOOLEAN
    BY <1>2 DEF NextSlot, TypeOK
  <2> QED
    BY <1>1, <1>2, <2>1, <2>3, <2>4 DEF TypeOK
<1>3. CASE /\ frame + 1 < Frames
           /\ slot' = 0 /\ frame' = frame + 1
           /\ todo' = [n \in Node |-> <<>>]
           /\ UNCHANGED faulty
  <2>1. frame' \in 0 .. Frames - 1 /\ slot' \in 0 .. SUPERFRAME_SLOT_COUNT - 1
    BY <1>3, Windows, BoundAssumption DEF TypeOK
  <2>2. todo' \in [Node -> Seq([do : Duties, slot : {slot', slot' - 1}])]
    <3>1. <<>> \in Seq([do : Duties, slot : {slot', slot' - 1}])
      OBVIOUS
    <3> QED
      BY <1>3, <3>1
  <2> QED
    BY <1>1, <1>3, <2>1, <2>2 DEF TypeOK
<1> QED
  BY <1>2, <1>3 DEF NextSlot

LEMMA TimeOutType ==
    ASSUME TypeOK, NEW n \in Node, TimeOut(n)
    PROVE  TypeOK'
<1>1. /\ UNCHANGED <<frame, slot, parent, code, acks, tx, held, mine, took, faulty>>
      /\ todo[n] # <<>> /\ Done(n)
  BY DEF TimeOut, Listening, Doing
<1>2. todo' \in [Node -> Seq([do : Duties, slot : {slot', slot' - 1}])]
  BY <1>1, TodoType
<1> QED
  BY <1>1, <1>2 DEF TypeOK

\* The types of the data slots' state, for every tree and buffer: no duty is
\* carried past the next slot, and no more is queued than the buffer holds.
THEOREM ConvergecastTypeOK == Spec => []TypeOK
<1>1. ASSUME TypeOK, [Next]_vars PROVE TypeOK'
  <2>1. CASE UNCHANGED vars
    BY <1>1, <2>1 DEF vars, TypeOK
  <2>2. ASSUME NEW n \in Node, Step(n) PROVE TypeOK'
    BY <1>1, <2>2, ClusterheadListenType, ClusterheadHearType, ClusterheadSendType,
       FollowerSendType, FollowerListenType, FollowerHearType, TimeOutType DEF Step
  <2> QED
    BY <1>1, <2>1, <2>2, AdvertiseType, NextSlotType DEF Next
<1> QED
  BY <1>1, InitType, PTL DEF Spec

-----------------------------------------------------------------------------
(* Data moves towards the gateway.  What a node has to send comes from its  *)
(* own ring or from above, so a frame that a clusterhead must not take is   *)
(* sent in a later window than the clusterhead's, or with the acks of its   *)
(* own ring, on the code it does not listen on.  A driver may keep such a   *)
(* frame, but the clusterhead has listened for the last time by then.       *)

\* What n may have to do.
Dutiful(n) ==
    \A i \in DOMAIN todo[n] :
        /\ todo[n][i].do \in {"clusterhead_recv", "clusterhead_hear", "clusterhead_send"}
             => n \in Clusterhead
        /\ todo[n][i].do \in {"follower_send", "follower_recv", "follower_hear"}
             => Parent[n] # UNKNOWN_ADDR
        /\ todo[n][i].do = "clusterhead_hear"
             => i = 1 /\ todo[n][i].slot < ack_slot(n) /\ code[n] # 0

\* The messages n may have to send, and those it may have taken.
FromHere(n) == {m \in Message : m.type = "Datagram" => Ring[m.src] >= Ring[n]}
FromAbove(n) == {m \in Message : Ring[m.src] > Ring[n]}

\* The clusterhead c takes nothing any more in this superframe.
Over(c) == slot # 0 => ack_slot(c) <= slot /\ ~Doing(c, "clusterhead_hear")

Harmless(c) ==
    \A i \in DOMAIN held[c] :
        held[c][i].type = "Datagram" /\ Ring[held[c][i].src] <= Ring[c] => Over(c)

FlowInv ==
    /\ \A n \in Node : Dutiful(n)
    /\ \A n \in Node : parent[n] # UNKNOWN_ADDR => Parent[n] # UNKNOWN_ADDR
    /\ slot = 0 => \A n \in Node : todo[n] = <<>>
    /\ \A n \in Node : tx[n] \in Seq(FromHere(n)) /\ took[n] \in Seq(FromAbove(n))
    /\ \A c \in Clusterhead : Harmless(c)

\* Lower rings have the later windows (prepare_clusterhead, main.cpp:176).
LEMMA StartType ==
    ASSUME NEW r \in Nat
    PROVE  downstream_start_slot(r) \in Int
<1>1. r % REUSE_DISTANCE \in Int /\ REUSE_DISTANCE \in Int
  BY SlotAssumption
<1> QED
  BY <1>1, Windows DEF downstream_start_slot, ADV_SLOTS

LEMMA LaterWindow ==
    ASSUME NEW r \in Nat, NEW s \in Nat, r < s, s < REUSE_DISTANCE
    PROVE  downstream_start_slot(s) + vtdma_window_size <= downstream_start_slot(r)
<1> DEFINE w == vtdma_window_size
           a == REUSE_DISTANCE - 1 - s
           d == s - r - 1
<1>1. REUSE_DISTANCE \in Nat \ {0} /\ w \in Nat /\ a \in Nat /\ d \in Nat
  BY SlotAssumption, Windows
<1>2. r % REUSE_DISTANCE = r /\ s % REUSE_DISTANCE = s
  BY <1>1
<1>3. /\ downstream_start_slot(s) = 1 + a * w
      /\ downstream_start_slot(r) = 1 + (a + 1 + d) * w
  <2>1. REUSE_DISTANCE - 1 - r = a + 1 + d
    BY <1>1
  <2> QED
    BY <1>2, <2>1 DEF downstream_start_slot, ADV_SLOTS
<1> HIDE DEF w, a, d
<1>4. (a + 1 + d) * w = a * w + w + d * w /\ a * w \in Nat /\ d * w \in Nat
  BY <1>1
<1>5. downstream_start_slot(s) + w <= downstream_start_slot(r)
  BY <1>1, <1>3, <1>4
<1> QED
  BY <1>5 DEF w

LEMMA ClusterheadRing ==
    ASSUME NEW c \in Clusterhead
    PROVE  /\ c \in Node /\ Ring[c] \in Nat /\ Ring[c] < REUSE_DISTANCE
           /\ downstream_start_slot(Ring[c]) \in Int /\ ack_slot(c) \in Int
           /\ ack_slot(c) = downstream_start_slot(Ring[c]) + vtdma_window_size - 1
<1>1. c \in Node /\ Ring[c] \in Nat /\ Ring[c] < REUSE_DISTANCE
  BY TreeAssumption, RingAssumption, NoWraparound
<1> QED
  BY <1>1, StartType, Windows DEF ack_slot

\* What follows of a node's tasks once it has done the first, or another has
\* moved.
LEMMA TodoParts ==
    ASSUME TypeOK, NEW n \in Node
    PROVE  /\ todo[n] \in Seq(Task0)
           /\ todo[n] # <<>> => 1 \in DOMAIN todo[n] /\ Head(todo[n]) = todo[n][1]
           /\ \A i \in DOMAIN todo[n] : todo[n][i].slot \in {slot, slot - 1} /\ i \in Nat
<1>1. todo[n] \in Seq(Task0)
  BY DEF TypeOK, Task0
<1>2. \A t \in Task0 : t.slot \in {slot, slot - 1}
  BY DEF Task0
<1>3. /\ \A i \in DOMAIN todo[n] : todo[n][i] \in Task0 /\ i \in Nat
      /\ todo[n] # <<>> => 1 \in DOMAIN todo[n] /\ Head(todo[n]) = todo[n][1]
  BY <1>1
<1> QED
  BY <1>1, <1>2, <1>3

LEMMA DoneDutiful ==
    ASSUME TypeOK, NEW n \in Node, Dutiful(n), todo[n] # <<>>, Done(n)
    PROVE  Dutiful(n)' /\ ~Doing(n, "clusterhead_hear")'
<1>1. todo'[n] = Tail(todo[n])
  BY DEF Done, TypeOK
<1>2. \A i \in DOMAIN todo'[n] :
        i + 1 \in DOMAIN todo[n] /\ todo'[n][i] = todo[n][i + 1] /\ i + 1 # 1
  <2>1. todo[n] \in Seq(Task0)
    BY TodoParts
  <2> QED
    BY <1>1, <2>1
<1>3. \A i \in DOMAIN todo'[n] : todo'[n][i].do # "clusterhead_hear"
  BY <1>2 DEF Dutiful
<1>4. Dutiful(n)'
  BY <1>2, <1>3 DEF Dutiful
<1>5. ~Doing(n, "clusterhead_hear")'
  <2>1. todo'[n] \in Seq(Task0)
    <3>1. todo[n] \in Seq(Task0)
      BY TodoParts
    <3> QED
      BY <1>1, <3>1
  <2>2. todo'[n] # <<>> => 1 \in DOMAIN todo'[n] /\ Head(todo'[n]) = todo'[n][1]
    BY <2>1
  <2> QED
    BY <1>3, <2>2 DEF Doing
<1> QED
  BY <1>4, <1>5

LEMMA ElseDutiful ==
    ASSUME NEW n, Dutiful(n), todo'[n] = todo[n], code'[n] = code[n]
    PROVE  Dutiful(n)'
  BY DEF Dutiful, ack_slot

\* The first task of a node that listens as a clusterhead.
LEMMA Hearing ==
    ASSUME TypeOK, NEW n \in Node, Dutiful(n), Doing(n, "clusterhead_hear")
    PROVE  n \in Clusterhead /\ slot - 1 < ack_slot(n) /\ code[n] # 0
<1>1. 1 \in DOMAIN todo[n] /\ todo[n][1].do = "clusterhead_hear"
      /\ todo[n][1].slot \in {slot, slot - 1}
  BY TodoParts DEF Doing
<1>2. n \in Clusterhead /\ todo[n][1].slot < ack_slot(n) /\ code[n] # 0
  BY <1>1 DEF Dutiful
<1>3. ack_slot(n) \in Int /\ slot \in Int
  BY <1>2, ClusterheadRing DEF TypeOK
<1> QED
  BY <1>1, <1>2, <1>3

\* A clusterhead that has listened for the last time goes on not listening.
LEMMA OverStays ==
    ASSUME TypeOK, NEW n \in Node, Dutiful(n), todo[n] # <<>>, Done(n), slot' = slot,
           NEW c \in Clusterhead, Over(c)
    PROVE  Over(c)'
<1>1. ~Doing(n, "clusterhead_hear")'
  BY DoneDutiful
<1>2. c # n => todo'[c] = todo[c]
  BY ClusterheadRing DEF Done, TypeOK
<1>3. ack_slot(c)' = ack_slot(c)
  BY DEF ack_slot
<1> QED
  BY <1>1, <1>2, <1>3 DEF Over, Doing

\* Whom a frame may reach.
LEMMA Reached ==
    ASSUME TypeOK, NEW n \in Node, NEW q, NEW k, NEW Wanted,
           Flushed(n, q, k, Wanted) \/ NotFlushed(n, q, k), NEW c \in Node
    PROVE  \/ held'[c] = held[c] \/ held'[c] = <<>>
           \/ /\ Flushed(n, q, k, Wanted) /\ held'[c] = q
              /\ c # n /\ InRange(n, c) /\ code[c] = k
<1>1. \A h \in Retuned(n, k) : h = held[n] \/ h = <<>>
  BY DEF Retuned
<1>2. CASE Flushed(n, q, k, Wanted)
  <2>1. PICK heard \in SUBSET {m \in Node \ {n} : InRange(n, m) /\ Hears(m, k)},
             h \in Retuned(n, k) :
          /\ ~Lossy => heard = {m \in Node \ {n} : InRange(n, m) /\ Hears(m, k)}
          /\ held' = [m \in Node |-> IF m \in heard THEN q ELSE IF m = n THEN h ELSE held[m]]
          /\ faulty' = (faulty \/ Missed(Wanted, heard, k) \/ Len(q) = TxCap)
    BY <1>2, Zenon DEF Flushed
  <2>2. c \in heard => c # n /\ InRange(n, c) /\ code[c] = k
    BY <2>1 DEF Hears
  <2>3. held'[c] = IF c \in heard THEN q ELSE IF c = n THEN h ELSE held[c]
    BY <2>1
  <2> QED
    BY <1>1, <1>2, <2>2, <2>3
<1>3. CASE NotFlushed(n, q, k)
  <2>1. PICK h \in Retuned(n, k) : held' = [held EXCEPT ![n] = h]
    BY <1>3 DEF NotFlushed
  <2>2. held'[c] = IF c = n THEN h ELSE held[c]
    BY <2>1 DEF TypeOK
  <2> QED
    BY <1>1, <2>2
<1> QED
  BY <1>2, <1>3

\* The slot is after the window of every clusterhead of a higher ring than n's,
\* and after that of n's own ring unless it is its last and the code is 0.
After(n, k) ==
    \A c \in Clusterhead : Ring[n] <= Ring[c] =>
        ack_slot(c) < slot \/ (ack_slot(c) = slot /\ k = 0)

LEMMA AfterIsOver ==
    ASSUME TypeOK, FlowInv, NEW n \in Node, NEW k, After(n, k),
           NEW c \in Clusterhead, Ring[n] <= Ring[c], code[c] = k
    PROVE  Over(c)
<1>1. c \in Node /\ ack_slot(c) \in Int /\ slot \in Int
  BY ClusterheadRing DEF TypeOK
<1>2. ack_slot(c) < slot \/ (ack_slot(c) = slot /\ k = 0)
  BY DEF After
<1>3. Doing(c, "clusterhead_hear") => slot - 1 < ack_slot(c) /\ code[c] # 0
  BY <1>1, Hearing DEF FlowInv
<1> QED
  BY <1>1, <1>2, <1>3 DEF Over

LEMMA AckSlotIsAfter ==
    ASSUME NEW n \in Clusterhead, slot = ack_slot(n)
    PROVE  After(n, 0)
<1> SUFFICES ASSUME NEW c \in Clusterhead, Ring[n] <= Ring[c]
             PROVE  ack_slot(c) < slot \/ (ack_slot(c) = slot /\ 0 = 0)
  BY DEF After
<1>1. CASE Ring[n] = Ring[c]
  BY <1>1 DEF ack_slot
<1>2. CASE Ring[n] < Ring[c]
  <2>1. downstream_start_slot(Ring[c]) + vtdma_window_size <= downstream_start_slot(Ring[n])
    BY <1>2, ClusterheadRing, LaterWindow
  <2> QED
    BY <2>1, ClusterheadRing, Windows
<1> QED
  BY <1>1, <1>2, ClusterheadRing

LEMMA MySlotIsAfter ==
    ASSUME NEW n \in Node, Parent[n] # UNKNOWN_ADDR, slot = my_slot(n)
    PROVE  After(n, Rel[n])
<1> SUFFICES ASSUME NEW c \in Clusterhead, Ring[n] <= Ring[c]
             PROVE  ack_slot(c) < slot
  BY DEF After
<1>1. Parent[n] \in Clusterhead /\ Ring[Parent[n]] < Ring[n] /\ Ring[n] \in Nat
  BY TreeAssumption, RingAssumption
<1>2. Ring[Parent[n]] < Ring[c]
  BY <1>1, ClusterheadRing
<1>3. downstream_start_slot(Ring[c]) + vtdma_window_size
        <= downstream_start_slot(Ring[Parent[n]])
  BY <1>1, <1>2, ClusterheadRing, LaterWindow
<1>4. Rel[n] \in Nat
  BY TreeAssumption, Windows
<1> QED
  BY <1>1, <1>3, <1>4, ClusterheadRing, Windows DEF my_slot

\* A frame that n sends, with what it has from its ring and above, is harmless
\* to whoever it reaches.
LEMMA FlushHarmless ==
    ASSUME TypeOK, FlowInv, NEW n \in Node, todo[n] # <<>>, Done(n), slot' = slot,
           NEW q \in Seq(FromHere(n)), NEW k, NEW Wanted,
           Flushed(n, q, k, Wanted) \/ NotFlushed(n, q, k), After(n, k)
    PROVE  /\ \A c \in Clusterhead : Harmless(c)'
           /\ \A m \in Node : tx'[m] \in Seq(FromHere(m)) /\ Dutiful(m)'
<1>1. \A m \in Node : Dutiful(m)'
  <2>1. Dutiful(n)'
    BY DoneDutiful DEF FlowInv
  <2>2. ASSUME NEW m \in Node, m # n  PROVE Dutiful(m)'
    <3>1. code'[m] = code[m]
      BY <2>2 DEF Flushed, NotFlushed, TypeOK
    <3>2. todo'[m] = todo[m]
      BY <2>2 DEF Done, TypeOK
    <3> QED
      BY <3>1, <3>2, ElseDutiful DEF FlowInv
  <2> QED
    BY <2>1, <2>2
<1>2. \A m \in Node : tx'[m] \in Seq(FromHere(m))
  <2>1. tx' = [tx EXCEPT ![n] = <<>>] \/ tx' = [tx EXCEPT ![n] = q]
    BY DEF Flushed, NotFlushed
  <2>2. DOMAIN tx = Node /\ \A m \in Node : tx[m] \in Seq(FromHere(m))
    BY DEF TypeOK, FlowInv
  <2>3. <<>> \in Seq(FromHere(n))
    OBVIOUS
  <2> QED
    BY <2>1, <2>2, <2>3
<1>3. ASSUME NEW c \in Clusterhead  PROVE Harmless(c)'
  <2>1. c \in Node /\ Ring[c] \in Nat /\ Ring[n] \in Nat
    BY ClusterheadRing, RingAssumption
  <2>2. \/ held'[c] = held[c] \/ held'[c] = <<>>
        \/ held'[c] = q /\ code[c] = k
    BY <2>1, Reached
  <2>3. Over(c) => Over(c)'
    BY OverStays DEF FlowInv
  <2>4. CASE held'[c] = held[c]
    <3>1. Harmless(c)
      BY DEF FlowInv
    <3> QED
      BY <2>3, <2>4, <3>1 DEF Harmless
  <2>5. CASE held'[c] = <<>>
    BY <2>5 DEF Harmless
  <2>6. CASE held'[c] = q /\ code[c] = k
    <3> SUFFICES ASSUME NEW i \in DOMAIN q, q[i].type = "Datagram", Ring[q[i].src] <= Ring[c]
                 PROVE  Over(c)'
      BY <2>6 DEF Harmless
    <3>1. q[i] \in FromHere(n)
      OBVIOUS
    <3>2. Ring[n] <= Ring[c]
      <4>1. q[i] \in Message /\ Ring[q[i].src] >= Ring[n]
        BY <3>1 DEF FromHere
      <4>2. q[i].src \in Node
        BY <4>1 DEF Message
      <4> QED
        BY <2>1, <4>1, <4>2, RingAssumption
    <3> QED
      BY <2>3, <2>6, <3>2, AfterIsOver
  <2> QED
    BY <2>2, <2>4, <2>5, <2>6
<1> QED
  BY <1>1, <1>2, <1>3

\* The head of what a node has to do.
LEMMA FirstTask ==
    ASSUME TypeOK, NEW n \in Node, Dutiful(n), NEW do, Doing(n, do)
    PROVE  /\ do \in {"clusterhead_recv", "clusterhead_hear", "clusterhead_send"}
                => n \in Clusterhead
           /\ do \in {"follower_send", "follower_recv", "follower_hear"}
                => Parent[n] # UNKNOWN_ADDR
<1>1. 1 \in DOMAIN todo[n] /\ todo[n][1].do = do
  BY TodoParts DEF Doing
<1> QED
  BY <1>1 DEF Dutiful

\* The parts of FlowInv that a step of one node in a slot leaves alone.
LEMMA FlowParts ==
    ASSUME FlowInv, NEW n \in Node, todo[n] # <<>>, slot' = slot, parent' = parent, took' = took,
           \A m \in Node : Dutiful(m)' /\ tx'[m] \in Seq(FromHere(m)),
           \A c \in Clusterhead : Harmless(c)'
    PROVE  FlowInv'
<1>1. slot' # 0
  BY DEF FlowInv
<1>2. \A m \in Node : FromHere(m)' = FromHere(m) /\ FromAbove(m)' = FromAbove(m)
  BY DEF FromHere, FromAbove, Message
<1> QED
  BY <1>1, <1>2 DEF FlowInv

\* A step that finishes a task, changes no code of another node, and puts no
\* frame in a driver.
LEMMA DoneFlow ==
    ASSUME TypeOK, FlowInv, NEW n \in Node, todo[n] # <<>>, Done(n), slot' = slot,
           \A m \in Node : m # n => code'[m] = code[m],
           \A m \in Node : held'[m] = held[m] \/ held'[m] = <<>>
    PROVE  (\A m \in Node : Dutiful(m)') /\ (\A c \in Clusterhead : Harmless(c)')
<1>1. \A m \in Node : m # n => todo'[m] = todo[m]
  BY DEF Done, TypeOK
<1>2. \A m \in Node : Dutiful(m)'
  BY <1>1, DoneDutiful, ElseDutiful DEF FlowInv
<1>3. ASSUME NEW c \in Clusterhead PROVE Harmless(c)'
  <2>1. Over(c) => Over(c)'
    <3>1. ~Doing(n, "clusterhead_hear")'
      BY DoneDutiful DEF FlowInv
    <3>2. ack_slot(c)' = ack_slot(c)
      BY DEF ack_slot
    <3> QED
      BY <1>1, <3>1, <3>2, ClusterheadRing DEF Over, Doing
  <2>2. CASE held'[c] = held[c]
    BY <2>1, <2>2 DEF Harmless, FlowInv
  <2>3. CASE held'[c] = <<>>
    BY <2>3 DEF Harmless
  <2> QED
    BY <2>2, <2>3, ClusterheadRing
<1> QED
  BY <1>2, <1>3

LEMMA ClusterheadSendFlow ==
    ASSUME TypeOK, FlowInv, NEW n \in Node, ClusterheadSend(n)
    PROVE  FlowInv'
<1>1. /\ todo[n] # <<>> /\ Done(n) /\ n \in Clusterhead /\ slot' = slot
      /\ parent' = parent /\ took' = took
  BY FirstTask DEF ClusterheadSend, Doing, FlowInv
<1>2. CASE slot = ack_slot(n)
  <2>1. PICK nomination \in {n, UNKNOWN_ADDR} :
          LET q == Queued(Queued(tx[n], SendAcks(n)), CloseCluster(n, nomination))
          IN  \/ Flushed(n, q, 0, {f \in Node : parent[f] = n})
              \/ NotFlushed(n, q, 0)
    BY <1>2 DEF ClusterheadSend
  <2> DEFINE q1 == Queued(tx[n], SendAcks(n))
             q == Queued(q1, CloseCluster(n, nomination))
  <2>2. SendAcks(n) \in FromHere(n) /\ CloseCluster(n, nomination) \in FromHere(n)
    BY DEF SendAcks, CloseCluster, Message, TypeOK, FromHere
  <2>3. tx[n] \in Seq(FromHere(n)) /\ Len(tx[n]) <= TxCap
    BY DEF FlowInv, TypeOK
  <2>4. q1 \in Seq(FromHere(n)) /\ Len(q1) <= TxCap
    BY <2>2, <2>3, QueuedType
  <2> HIDE DEF q1
  <2>5. q \in Seq(FromHere(n))
    BY <2>2, <2>4, QueuedType
  <2>6. Flushed(n, q, 0, {f \in Node : parent[f] = n}) \/ NotFlushed(n, q, 0)
    BY <2>1 DEF q1
  <2>7. After(n, 0)
    BY <1>1, <1>2, AckSlotIsAfter
  <2> HIDE DEF q
  <2>8. /\ \A c \in Clusterhead : Harmless(c)'
        /\ \A m \in Node : tx'[m] \in Seq(FromHere(m)) /\ Dutiful(m)'
    BY <1>1, <2>5, <2>6, <2>7, FlushHarmless
  <2> QED
    BY <1>1, <2>8, FlowParts
<1>3. CASE UNCHANGED <<code, tx, held, faulty>>
  <2>1. (\A m \in Node : Dutiful(m)') /\ (\A c \in Clusterhead : Harmless(c)')
    BY <1>1, <1>3, DoneFlow
  <2> QED
    BY <1>1, <1>3, <2>1, FlowParts DEF FlowInv
<1> QED
  BY <1>2, <1>3 DEF ClusterheadSend

LEMMA FollowerSendFlow ==
    ASSUME TypeOK, FlowInv, NEW n \in Node, FollowerSend(n)
    PROVE  FlowInv'
<1> DEFINE q == Queued(tx[n], Datagram(n))
<1>1. /\ todo[n] # <<>> /\ Done(n) /\ Parent[n] # UNKNOWN_ADDR /\ slot' = slot
      /\ parent' = parent /\ took' = took
  BY FirstTask DEF FollowerSend, Doing, FlowInv
<1>2. q \in Seq(FromHere(n))
  <2>1. Datagram(n) \in FromHere(n)
    BY NowInTime, RingAssumption DEF Datagram, Message, FromHere
  <2> QED
    BY <2>1, QueuedType DEF FlowInv, TypeOK
<1>3. CASE slot = my_slot(n)
  <2>1. Flushed(n, q, Rel[n], {parent[n]}) \/ NotFlushed(n, q, Rel[n])
    BY <1>3 DEF FollowerSend
  <2>2. After(n, Rel[n])
    BY <1>1, <1>3, MySlotIsAfter
  <2> HIDE DEF q
  <2>3. /\ \A c \in Clusterhead : Harmless(c)'
        /\ \A m \in Node : tx'[m] \in Seq(FromHere(m)) /\ Dutiful(m)'
    BY <1>1, <1>2, <2>1, <2>2, FlushHarmless
  <2> QED
    BY <1>1, <2>3, FlowParts
<1>4. CASE tx' = [tx EXCEPT ![n] = q] /\ UNCHANGED <<code, held, faulty>>
  <2> HIDE DEF q
  <2>1. (\A m \in Node : Dutiful(m)') /\ (\A c \in Clusterhead : Harmless(c)')
    BY <1>1, <1>4, DoneFlow
  <2>2. \A m \in Node : tx'[m] \in Seq(FromHere(m))
    BY <1>2, <1>4 DEF FlowInv, TypeOK
  <2> QED
    BY <1>1, <2>1, <2>2, FlowParts
<1> QED
  BY <1>3, <1>4 DEF FollowerSend

\* A node begins to listen.
LEMMA ListenDutiful ==
    ASSUME TypeOK, NEW n \in Node, Dutiful(n), todo[n] # <<>>,
           NEW d \in Duties, Listen(n, d),
           d = "clusterhead_hear" =>
               n \in Clusterhead /\ todo[n][1].slot < ack_slot(n) /\ code'[n] # 0,
           d = "follower_hear" => Parent[n] # UNKNOWN_ADDR,
           d \in {"clusterhead_hear", "follower_hear"}
    PROVE  Dutiful(n)' /\ (Doing(n, "clusterhead_hear")' <=> d = "clusterhead_hear")
<1>1. todo[n] \in Seq(Task0) /\ 1 \in DOMAIN todo[n]
  BY TodoParts
<1>2. todo'[n] = [todo[n] EXCEPT ![1].do = d]
  BY DEF Listen, TypeOK
<1>3. /\ DOMAIN todo'[n] = DOMAIN todo[n]
      /\ \A i \in DOMAIN todo[n] : i # 1 => todo'[n][i] = todo[n][i]
  BY <1>2
<1>4. todo'[n][1].do = d /\ todo'[n][1].slot = todo[n][1].slot
  <2>1. todo[n][1] \in Task0
    BY <1>1
  <2>2. todo'[n][1] = [todo[n][1] EXCEPT !.do = d]
    BY <1>1, <1>2
  <2> QED
    BY <2>1, <2>2 DEF Task0
<1>5. Dutiful(n)'
  <2> SUFFICES ASSUME NEW i \in DOMAIN todo'[n]
               PROVE  /\ todo'[n][i].do \in {"clusterhead_recv", "clusterhead_hear",
                                              "clusterhead_send"} => n \in Clusterhead
                      /\ todo'[n][i].do \in {"follower_send", "follower_recv", "follower_hear"}
                           => Parent[n] # UNKNOWN_ADDR
                      /\ todo'[n][i].do = "clusterhead_hear"
                           => i = 1 /\ todo'[n][i].slot < ack_slot(n) /\ code'[n] # 0
    BY DEF Dutiful, ack_slot
  <2>1. CASE i = 1
    BY <1>4, <2>1
  <2>2. CASE i # 1
    BY <1>3, <2>2 DEF Dutiful
  <2> QED
    BY <2>1, <2>2
<1>6. todo'[n] # <<>> /\ Head(todo'[n]) = todo'[n][1]
  <2>1. [todo[n] EXCEPT ![1].do = d] \in Seq(Task0)
    BY <1>1, ListenType DEF Task0
  <2>2. todo'[n] \in Seq(Task0)
    BY <1>2, <2>1
  <2> QED
    BY <1>1, <1>3, <2>2
<1> QED
  BY <1>4, <1>5, <1>6 DEF Doing

LEMMA HeldOrNothing ==
    ASSUME TypeOK, NEW n \in Node, NEW k,
           \E h \in Retuned(n, k) : held' = [held EXCEPT ![n] = h]
    PROVE  \A m \in Node : held'[m] = held[m] \/ held'[m] = <<>>
  BY DEF Retuned, TypeOK

LEMMA ClusterheadListenFlow ==
    ASSUME TypeOK, FlowInv, NEW n \in Node, ClusterheadListen(n)
    PROVE  FlowInv'
<1> DEFINE relative == slot - downstream_start_slot(Ring[n])
<1>1. /\ todo[n] # <<>> /\ n \in Clusterhead /\ slot' = slot
      /\ parent' = parent /\ took' = took /\ tx' = tx
  BY FirstTask DEF ClusterheadListen, Doing, FlowInv
<1>2. CASE /\ relative \in 1 .. vtdma_window_size - 2
           /\ Listen(n, "clusterhead_hear") /\ code' = [code EXCEPT ![n] = relative]
           /\ \E h \in Retuned(n, relative) : held' = [held EXCEPT ![n] = h]
  <2>1. slot < ack_slot(n) /\ relative # 0 /\ slot \in Int
    BY <1>1, <1>2, ClusterheadRing, Windows, SMTT(30) DEF TypeOK
  <2>2. code'[n] # 0
    BY <1>2, <2>1 DEF TypeOK
  <2>3. todo[n][1].slot < ack_slot(n)
    BY <1>1, <2>1, TodoParts, ClusterheadRing
  <2>4. \A m \in Node : held'[m] = held[m] \/ held'[m] = <<>>
    BY <1>2, HeldOrNothing
  <2>5. \A m \in Node : m # n => todo'[m] = todo[m] /\ code'[m] = code[m]
    BY <1>2 DEF Listen, TypeOK
  <2>6. \A m \in Node : Dutiful(m)'
    <3>1. Dutiful(n)'
      <4>1. "clusterhead_hear" \in Duties
        BY DEF Duties
      <4> QED
        BY <1>1, <1>2, <2>2, <2>3, <4>1, ListenDutiful DEF FlowInv
    <3> QED
      BY <2>5, <3>1, ElseDutiful DEF FlowInv
  <2>7. ASSUME NEW c \in Clusterhead PROVE Harmless(c)'
    <3>1. CASE c = n
      <4>1. ~Over(n)
        BY <1>1, <2>1, ClusterheadRing DEF Over, FlowInv
      <4>2. Harmless(n)
        BY <1>1 DEF FlowInv
      <4>3. held'[n] = held[n] \/ held'[n] = <<>>
        BY <2>4
      <4> QED
        BY <3>1, <4>1, <4>2, <4>3 DEF Harmless
    <3>2. CASE c # n
      <4>1. Over(c) => Over(c)'
        <5>1. ack_slot(c)' = ack_slot(c)
          BY DEF ack_slot
        <5> QED
          BY <1>1, <2>5, <3>2, <5>1, ClusterheadRing DEF Over, Doing
      <4>2. held'[c] = held[c] \/ held'[c] = <<>>
        BY <2>4, ClusterheadRing
      <4> QED
        BY <4>1, <4>2 DEF Harmless, FlowInv
    <3> QED
      BY <3>1, <3>2
  <2> QED
    BY <1>1, <2>6, <2>7, FlowParts DEF FlowInv
<1>3. CASE Done(n) /\ UNCHANGED <<code, held>>
  <2>1. (\A m \in Node : Dutiful(m)') /\ (\A c \in Clusterhead : Harmless(c)')
    BY <1>1, <1>3, DoneFlow
  <2> QED
    BY <1>1, <2>1, FlowParts DEF FlowInv
<1> QED
  BY <1>2, <1>3 DEF ClusterheadListen

LEMMA FollowerListenFlow ==
    ASSUME TypeOK, FlowInv, NEW n \in Node, FollowerListen(n)
    PROVE  FlowInv'
<1>1. /\ todo[n] # <<>> /\ Parent[n] # UNKNOWN_ADDR /\ slot' = slot
      /\ parent' = parent /\ took' = took /\ tx' = tx
      /\ ~Doing(n, "clusterhead_hear")
  BY FirstTask DEF FollowerListen, Doing, FlowInv
<1>2. CASE /\ Listen(n, "follower_hear") /\ code' = [code EXCEPT ![n] = 0]
           /\ \E h \in Retuned(n, 0) : held' = [held EXCEPT ![n] = h]
  <2>1. \A m \in Node : held'[m] = held[m] \/ held'[m] = <<>>
    BY <1>2, HeldOrNothing
  <2>2. \A m \in Node : m # n => todo'[m] = todo[m] /\ code'[m] = code[m]
    BY <1>2 DEF Listen, TypeOK
  <2>3. Dutiful(n)' /\ ~Doing(n, "clusterhead_hear")'
    <3>1. "follower_hear" \in Duties
      BY DEF Duties
    <3> QED
      BY <1>1, <1>2, <3>1, ListenDutiful DEF FlowInv
  <2>4. \A m \in Node : Dutiful(m)'
    BY <2>2, <2>3, ElseDutiful DEF FlowInv
  <2>5. ASSUME NEW c \in Clusterhead PROVE Harmless(c)'
    <3>1. Over(c) => Over(c)'
      <4>1. ack_slot(c)' = ack_slot(c)
        BY DEF ack_slot
      <4> QED
        BY <1>1, <2>2, <2>3, <4>1, ClusterheadRing DEF Over, Doing
    <3>2. held'[c] = held[c] \/ held'[c] = <<>>
      BY <2>1, ClusterheadRing
    <3> QED
      BY <3>1, <3>2 DEF Harmless, FlowInv
  <2> QED
    BY <1>1, <2>4, <2>5, FlowParts DEF FlowInv
<1>3. CASE Done(n) /\ UNCHANGED <<code, held>>
  <2>1. (\A m \in Node : Dutiful(m)') /\ (\A c \in Clusterhead : Harmless(c)')
    BY <1>1, <1>3, DoneFlow
  <2> QED
    BY <1>1, <2>1, FlowParts DEF FlowInv
<1> QED
  BY <1>2, <1>3 DEF FollowerListen

LEMMA ClusterheadHearFlow ==
    ASSUME TypeOK, FlowInv, NEW n \in Node, ClusterheadHear(n)
    PROVE  FlowInv'
<1> DEFINE s == Received(n)[Len(held[n])]
<1>1. /\ todo[n] # <<>> /\ n \in Clusterhead /\ slot' = slot /\ Done(n)
      /\ parent' = parent /\ code' = code /\ Doing(n, "clusterhead_hear")
  BY FirstTask DEF ClusterheadHear, Doing, FlowInv
<1>2. /\ tx' = [tx EXCEPT ![n] = s.tx]
      /\ took' = [took EXCEPT ![n] = s.took]
      /\ held' = [held EXCEPT ![n] = <<>>]
  BY DEF ClusterheadHear
<1>3. \A i \in DOMAIN held[n] :
        held[n][i].type = "Datagram" => held[n][i] \in FromHere(n) \cap FromAbove(n)
  <2> SUFFICES ASSUME NEW i \in DOMAIN held[n], held[n][i].type = "Datagram"
               PROVE  held[n][i] \in FromHere(n) \cap FromAbove(n)
    OBVIOUS
  <2>1. held[n][i] \in Message
    BY DEF TypeOK
  <2>2. Ring[held[n][i].src] \in Nat /\ Ring[n] \in Nat
    BY <2>1, RingAssumption DEF Message
  <2>3. ~Over(n)
    BY <1>1 DEF Over, FlowInv
  <2>4. ~ Ring[held[n][i].src] <= Ring[n]
    BY <1>1, <2>3 DEF FlowInv, Harmless
  <2> QED
    BY <2>1, <2>2, <2>4 DEF FromHere, FromAbove
<1>4. s.tx \in Seq(FromHere(n)) /\ s.took \in Seq(FromAbove(n))
  <2>1. /\ held[n] \in Seq(Message) /\ code[n] \in 0 .. vtdma_window_size - 1
        /\ acks[n] \in [0 .. vtdma_window_size - 1 -> Time] /\ Len(tx[n]) <= TxCap
    BY DEF TypeOK
  <2>2. tx[n] \in Seq(FromHere(n)) /\ took[n] \in Seq(FromAbove(n))
    BY DEF FlowInv
  <2> QED
    BY <1>3, <2>1, <2>2, ReceivedFrom
<1> HIDE DEF s
<1>5. \A m \in Node : tx'[m] \in Seq(FromHere(m)) /\ took'[m] \in Seq(FromAbove(m))
  <2>1. DOMAIN tx = Node /\ DOMAIN took = Node
    BY DEF TypeOK
  <2> QED
    BY <1>2, <1>4, <2>1 DEF FlowInv
<1>6. (\A m \in Node : Dutiful(m)') /\ (\A c \in Clusterhead : Harmless(c)')
  <2>1. \A m \in Node : held'[m] = held[m] \/ held'[m] = <<>>
    BY <1>2 DEF TypeOK
  <2> QED
    BY <1>1, <2>1, DoneFlow
<1>7. \A m \in Node : FromHere(m)' = FromHere(m) /\ FromAbove(m)' = FromAbove(m)
  BY DEF FromHere, FromAbove, Message
<1>8. slot' # 0
  BY <1>1 DEF FlowInv
<1> QED
  BY <1>1, <1>5, <1>6, <1>7, <1>8 DEF FlowInv

LEMMA FollowerHearFlow ==
    ASSUME TypeOK, FlowInv, NEW n \in Node, FollowerHear(n)
    PROVE  FlowInv'
<1>1. /\ todo[n] # <<>> /\ Parent[n] # UNKNOWN_ADDR /\ slot' = slot
      /\ tx' = tx /\ took' = took /\ code' = code /\ held' = [held EXCEPT ![n] = <<>>]
  BY FirstTask DEF FollowerHear, Doing, FlowInv
<1>2. \A m \in Node : held'[m] = held[m] \/ held'[m] = <<>>
  BY <1>1 DEF TypeOK
<1>3. (\A m \in Node : Dutiful(m)') /\ (\A c \in Clusterhead : Harmless(c)')
  <2>1. CASE Done(n)
    BY <1>1, <1>2, <2>1, DoneFlow
  <2>2. CASE UNCHANGED todo
    <3>1. \A m \in Node : Dutiful(m)'
      BY <1>1, <2>2, ElseDutiful DEF FlowInv
    <3>2. ASSUME NEW c \in Clusterhead PROVE Harmless(c)'
      <4>1. Over(c) => Over(c)'
        BY <1>1, <2>2 DEF Over, Doing, ack_slot
      <4>2. held'[c] = held[c] \/ held'[c] = <<>>
        BY <1>2, ClusterheadRing
      <4> QED
        BY <4>1, <4>2 DEF Harmless, FlowInv
    <3> QED
      BY <3>1, <3>2
  <2> QED
    BY <2>1, <2>2 DEF FollowerHear
<1>4. \A m \in Node : parent'[m] # UNKNOWN_ADDR => Parent[m] # UNKNOWN_ADDR
  <2>1. \A m \in Node : m # n => parent'[m] = parent[m]
    BY DEF FollowerHear, TypeOK
  <2> QED
    BY <1>1, <2>1 DEF FlowInv
<1>5. \A m \in Node : FromHere(m)' = FromHere(m) /\ FromAbove(m)' = FromAbove(m)
  BY DEF FromHere, FromAbove, Message
<1>6. slot' # 0
  BY <1>1 DEF FlowInv
<1> QED
  BY <1>1, <1>3, <1>4, <1>5, <1>6 DEF FlowInv

LEMMA TimeOutFlow ==
    ASSUME TypeOK, FlowInv, NEW n \in Node, TimeOut(n)
    PROVE  FlowInv'
<1>1. /\ todo[n] # <<>> /\ Done(n)
      /\ UNCHANGED <<frame, slot, parent, code, acks, tx, held, mine, took, faulty>>
  BY DEF TimeOut, Listening, Doing
<1>2. (\A m \in Node : Dutiful(m)') /\ (\A c \in Clusterhead : Harmless(c)')
  BY <1>1, DoneFlow
<1> QED
  BY <1>1, <1>2, FlowParts DEF FlowInv

\* What loop() plans for a slot: no node begins by listening, and each task
\* falls to a clusterhead or to a follower.
LEMMA PlanDutiful ==
    ASSUME NEW n, NEW s, NEW p, p[n] # UNKNOWN_ADDR => Parent[n] # UNKNOWN_ADDR,
           NEW i \in DOMAIN Plan(n, s, p)
    PROVE  /\ Plan(n, s, p)[i].do \in {"clusterhead_recv", "clusterhead_send"}
                => n \in Clusterhead
           /\ Plan(n, s, p)[i].do \in {"follower_send", "follower_recv"}
                => Parent[n] # UNKNOWN_ADDR
           /\ Plan(n, s, p)[i].do \notin {"clusterhead_hear", "follower_hear"}
<1> DEFINE D == {d \in {"clusterhead_recv", "clusterhead_send", "follower_send",
                        "follower_recv"} :
                   /\ d \in {"clusterhead_recv", "clusterhead_send"} => n \in Clusterhead
                   /\ d \in {"follower_send", "follower_recv"} => Parent[n] # UNKNOWN_ADDR}
           S == {Task(d, s) : d \in D}
<1>1. Plan(n, s, p) \in Seq(S)
  <2>1. /\ n \in Clusterhead => "clusterhead_recv" \in D /\ "clusterhead_send" \in D
        /\ p[n] # UNKNOWN_ADDR => "follower_send" \in D /\ "follower_recv" \in D
    OBVIOUS
  <2> HIDE DEF D
  <2> QED
    BY <2>1, PlanOf
<1>2. Plan(n, s, p)[i] \in S
  <2> HIDE DEF S
  <2> QED
    BY <1>1
<1>3. PICK d \in D : Plan(n, s, p)[i].do = d
  BY <1>2 DEF Task
<1> QED
  BY <1>3

LEMMA InitFlow == Init => FlowInv
<1> SUFFICES ASSUME Init PROVE FlowInv
  OBVIOUS
<1>1. \A n \in Node : tx[n] = <<>> /\ took[n] = <<>> /\ held[n] = <<>> /\ todo[n] = <<>>
                        /\ parent[n] = UNKNOWN_ADDR
  BY DEF Init
<1>2. \A n \in Node : Dutiful(n)
  BY <1>1 DEF Dutiful
<1>3. \A n \in Node : tx[n] \in Seq(FromHere(n)) /\ took[n] \in Seq(FromAbove(n))
  <2>1. \A S : <<>> \in Seq(S)
    OBVIOUS
  <2> QED
    BY <1>1, <2>1
<1>4. \A c \in Clusterhead : Harmless(c)
  BY <1>1, ClusterheadRing DEF Harmless
<1> QED
  BY <1>1, <1>2, <1>3, <1>4 DEF FlowInv

LEMMA AdvertiseFlow == TypeOK /\ FlowInv /\ Advertise => FlowInv'
<1> SUFFICES ASSUME TypeOK, FlowInv, Advertise PROVE FlowInv'
  OBVIOUS
<1>1. /\ slot' = ADV_SLOTS /\ took' = took
      /\ todo' = [n \in Node |-> Plan(n, ADV_SLOTS, parent')]
      /\ held' = [n \in Node |-> <<>>]
  BY DEF Advertise
<1>2. PICK joined \in SUBSET {f \in Node : Parent[f] # UNKNOWN_ADDR} :
        /\ parent' = [n \in Node |-> IF n \in joined THEN Parent[n] ELSE UNKNOWN_ADDR]
        /\ \E flushed \in SUBSET Node :
             /\ joined \subseteq flushed
             /\ tx' = [n \in Node |-> IF n \in flushed THEN <<>> ELSE tx[n]]
  BY Zenon DEF Advertise
<1>3. \A n \in Node : parent'[n] # UNKNOWN_ADDR => Parent[n] # UNKNOWN_ADDR
  BY <1>2
<1>4. ASSUME NEW n \in Node PROVE Dutiful(n)'
  <2>1. todo'[n] = Plan(n, ADV_SLOTS, parent')
    BY <1>1
  <2> SUFFICES ASSUME NEW i \in DOMAIN todo'[n]
               PROVE  /\ todo'[n][i].do \in {"clusterhead_recv", "clusterhead_hear",
                                              "clusterhead_send"} => n \in Clusterhead
                      /\ todo'[n][i].do \in {"follower_send", "follower_recv", "follower_hear"}
                           => Parent[n] # UNKNOWN_ADDR
                      /\ todo'[n][i].do # "clusterhead_hear"
    BY DEF Dutiful
  <2>2. /\ Plan(n, ADV_SLOTS, parent')[i].do \in {"clusterhead_recv", "clusterhead_send"}
             => n \in Clusterhead
        /\ Plan(n, ADV_SLOTS, parent')[i].do \in {"follower_send", "follower_recv"}
             => Parent[n] # UNKNOWN_ADDR
        /\ Plan(n, ADV_SLOTS, parent')[i].do \notin {"clusterhead_hear", "follower_hear"}
    BY <1>3, <2>1, PlanDutiful
  <2> QED
    BY <2>1, <2>2
<1>5. slot' # 0
  BY <1>1 DEF ADV_SLOTS
<1>6. \A n \in Node : tx'[n] \in Seq(FromHere(n))
  <2>1. \A n \in Node : tx'[n] = <<>> \/ tx'[n] = tx[n]
    BY <1>2
  <2>2. \A n \in Node : <<>> \in Seq(FromHere(n))
    OBVIOUS
  <2> QED
    BY <2>1, <2>2 DEF FlowInv
<1>7. \A c \in Clusterhead : Harmless(c)'
  BY <1>1, ClusterheadRing DEF Harmless
<1>8. \A m \in Node : FromHere(m)' = FromHere(m) /\ FromAbove(m)' = FromAbove(m)
  BY DEF FromHere, FromAbove, Message
<1> QED
  BY <1>1, <1>3, <1>4, <1>5, <1>6, <1>7, <1>8 DEF FlowInv

\* What follows at most one other item.
LEMMA Behind ==
    ASSUME NEW S, NEW q \in Seq(S), Len(q) <= 1, NEW p \in Seq(S), NEW i \in DOMAIN (q \o p)
    PROVE  \/ i = 1 /\ q # <<>> /\ (q \o p)[i] = q[1]
           \/ \E j \in DOMAIN p : (q \o p)[i] = p[j]
<1>1. i \in 1 .. Len(q) + Len(p)
  OBVIOUS
<1>2. CASE i <= Len(q)
  <2>1. i = 1 /\ (q \o p)[i] = q[1] /\ q # <<>>
    BY <1>1, <1>2
  <2> QED
    BY <2>1
<1>3. CASE i > Len(q)
  <2>1. i - Len(q) \in DOMAIN p /\ (q \o p)[i] = p[i - Len(q)]
    BY <1>1, <1>3
  <2> QED
    BY <2>1
<1> QED
  BY <1>1, <1>2, <1>3

\* A task taken along into the next slot is followed by what is planned there.
LEMMA CarriedParts ==
    ASSUME TypeOK, NextSlot, NEW n \in Node, NEW p \in Seq([do : Duties, slot : {slot + 1}]),
           NEW i \in DOMAIN (Carried(n) \o p)
    PROVE  \/ i = 1 /\ todo[n] # <<>> /\ (Carried(n) \o p)[i] = todo[n][1]
           \/ \E j \in DOMAIN p : (Carried(n) \o p)[i] = p[j]
<1> DEFINE S == [do : Duties, slot : {slot, slot - 1, slot + 1}]
<1>1. Carried(n) \in Seq(S) /\ Len(Carried(n)) <= 1
  <2>1. todo[n] \in Seq(Task0) /\ Task0 \subseteq S
    BY TodoParts DEF Task0
  <2>2. n \in Late => Len(todo[n]) <= 1
    BY DEF NextSlot
  <2> HIDE DEF S
  <2>3. todo[n] \in Seq(S)
    BY <2>1, SeqOfMore
  <2>4. <<>> \in Seq(S) /\ Len(<<>>) <= 1
    OBVIOUS
  <2> QED
    BY <2>2, <2>3, <2>4 DEF Carried
<1>2. p \in Seq(S)
  <2>1. [do : Duties, slot : {slot + 1}] \subseteq S
    OBVIOUS
  <2> HIDE DEF S
  <2> QED
    BY <2>1, SeqOfMore
<1> HIDE DEF S
<1>3. Carried(n) # <<>> => Carried(n) = todo[n]
  BY DEF Carried
<1> QED
  BY <1>1, <1>2, <1>3, Behind

LEMMA NextSlotFlow == TypeOK /\ FlowInv /\ NextSlot => FlowInv'
<1> SUFFICES ASSUME TypeOK, FlowInv, NextSlot PROVE FlowInv'
  OBVIOUS
<1>1. UNCHANGED <<parent, code, acks, tx, held, mine, took>> /\ slot # 0
  BY DEF NextSlot
<1>2. \A m \in Node : FromHere(m)' = FromHere(m) /\ FromAbove(m)' = FromAbove(m)
  BY DEF FromHere, FromAbove, Message
<1>3. CASE /\ slot' = slot + 1
           /\ todo' = [n \in Node |-> Carried(n) \o Plan(n, slot + 1, parent)]
  <2>1. slot' # 0 /\ slot \in Int
    BY <1>3 DEF TypeOK
  <2>2. ASSUME NEW n \in Node
        PROVE  /\ Dutiful(n)'
               /\ Doing(n, "clusterhead_hear")' => Doing(n, "clusterhead_hear")
    <3> DEFINE p == Plan(n, slot + 1, parent)
    <3>1. todo'[n] = Carried(n) \o p
      BY <1>3
    <3>2. p \in Seq([do : Duties, slot : {slot + 1}])
      BY PlanType
    <3>3. \A j \in DOMAIN p :
            /\ p[j].do \in {"clusterhead_recv", "clusterhead_send"} => n \in Clusterhead
            /\ p[j].do \in {"follower_send", "follower_recv"} => Parent[n] # UNKNOWN_ADDR
            /\ p[j].do \notin {"clusterhead_hear", "follower_hear"}
      <4>1. parent[n] # UNKNOWN_ADDR => Parent[n] # UNKNOWN_ADDR
        BY DEF FlowInv
      <4> QED
        BY <4>1, PlanDutiful
    <3> HIDE DEF p
    <3>4. \A i \in DOMAIN todo'[n] :
            \/ i = 1 /\ todo[n] # <<>> /\ todo'[n][i] = todo[n][1]
            \/ \E j \in DOMAIN p : todo'[n][i] = p[j]
      <4> SUFFICES ASSUME NEW i \in DOMAIN (Carried(n) \o p)
                   PROVE  \/ i = 1 /\ todo[n] # <<>> /\ (Carried(n) \o p)[i] = todo[n][1]
                          \/ \E j \in DOMAIN p : (Carried(n) \o p)[i] = p[j]
        BY <3>1, Zenon
      <4> QED
        BY <3>2, CarriedParts
    <3>5. Dutiful(n)'
      <4> SUFFICES ASSUME NEW i \in DOMAIN todo'[n]
                   PROVE  /\ todo'[n][i].do \in {"clusterhead_recv", "clusterhead_hear",
                                                  "clusterhead_send"} => n \in Clusterhead
                          /\ todo'[n][i].do \in {"follower_send", "follower_recv",
                                                  "follower_hear"} => Parent[n] # UNKNOWN_ADDR
                          /\ todo'[n][i].do = "clusterhead_hear"
                               => i = 1 /\ todo'[n][i].slot < ack_slot(n) /\ code[n] # 0
        BY <1>1 DEF Dutiful, ack_slot
      <4>1. CASE i = 1 /\ todo[n] # <<>> /\ todo'[n][i] = todo[n][1]
        <5>1. 1 \in DOMAIN todo[n]
          BY <4>1, TodoParts
        <5> QED
          BY <4>1, <5>1 DEF FlowInv, Dutiful
      <4>2. CASE \E j \in DOMAIN p : todo'[n][i] = p[j]
        BY <3>3, <4>2
      <4> QED
        BY <3>4, <4>1, <4>2
    <3>6. ASSUME Doing(n, "clusterhead_hear")'
          PROVE  Doing(n, "clusterhead_hear")
      <4>1. 1 \in DOMAIN todo'[n] /\ todo'[n][1].do = "clusterhead_hear"
        <5>1. todo'[n] # <<>> /\ Head(todo'[n]).do = "clusterhead_hear"
          BY <3>6 DEF Doing
        <5>2. todo'[n] \in Seq([do : Duties, slot : {slot', slot' - 1}])
          BY NextSlotType DEF TypeOK
        <5> QED
          BY <5>1, <5>2
      <4>2. todo[n] # <<>> /\ todo'[n][1] = todo[n][1]
        BY <3>3, <3>4, <4>1
      <4> QED
        BY <4>1, <4>2, TodoParts DEF Doing
    <3> QED
      BY <3>5, <3>6
  <2>3. ASSUME NEW c \in Clusterhead PROVE Harmless(c)'
    <3>1. Over(c) => Over(c)'
      <4>1. ack_slot(c)' = ack_slot(c)
        BY DEF ack_slot
      <4> QED
        BY <1>1, <1>3, <2>1, <2>2, <4>1, ClusterheadRing DEF Over
    <3> QED
      BY <1>1, <3>1 DEF Harmless, FlowInv
  <2> QED
    BY <1>1, <1>2, <2>1, <2>2, <2>3 DEF FlowInv
<1>4. CASE slot' = 0 /\ todo' = [n \in Node |-> <<>>]
  <2>1. \A n \in Node : todo'[n] = <<>>
    BY <1>4
  <2>2. \A n \in Node : Dutiful(n)'
    BY <2>1 DEF Dutiful
  <2>3. \A c \in Clusterhead : Harmless(c)'
    BY <1>4 DEF Harmless, Over
  <2> QED
    BY <1>1, <1>2, <1>4, <2>1, <2>2, <2>3 DEF FlowInv
<1> QED
  BY <1>3, <1>4 DEF NextSlot

LEMMA NextFlow ==
    ASSUME TypeOK, FlowInv, [Next]_vars
    PROVE  FlowInv'
<1>1. CASE UNCHANGED vars
  <2>1. \A m \in Node : FromHere(m)' = FromHere(m) /\ FromAbove(m)' = FromAbove(m)
    BY DEF FromHere, FromAbove, Message
  <2>2. /\ \A m \in Node : Dutiful(m)' = Dutiful(m)
        /\ \A c \in Clusterhead : Harmless(c)' = Harmless(c)
    BY <1>1 DEF vars, Dutiful, Harmless, Over, Doing, ack_slot
  <2> QED
    BY <1>1, <2>1, <2>2 DEF vars, FlowInv
<1>2. ASSUME NEW n \in Node, Step(n) PROVE FlowInv'
  BY <1>2, ClusterheadListenFlow, ClusterheadHearFlow, ClusterheadSendFlow,
     FollowerSendFlow, FollowerListenFlow, FollowerHearFlow, TimeOutFlow DEF Step
<1> QED
  BY <1>1, <1>2, AdvertiseFlow, NextSlotFlow DEF Next

\* What a clusterhead takes comes from a higher ring than its own, whatever
\* was lost, left over in a buffer, kept by a driver or done a slot late:
\* windows that are reused are too far apart for anything else
\* (prepare_clusterhead with do_clusterhead_recv).
THEOREM ConvergecastNoBackflow == Spec => []NoBackflow
<1>1. FlowInv => NoBackflow
  <2> SUFFICES ASSUME FlowInv, NEW c \in Node, NEW i \in DOMAIN took[c]
               PROVE  Ring[took[c][i].src] > Ring[c]
    BY DEF NoBackflow
  <2>1. took[c] \in Seq(FromAbove(c))
    BY DEF FlowInv
  <2>2. took[c][i] \in FromAbove(c)
    BY <2>1
  <2> QED
    BY <2>2 DEF FromAbove
<1> QED
  BY <1>1, InitFlow, NextFlow, ConvergecastTypeOK, PTL DEF Spec

-----------------------------------------------------------------------------
(* At most once, where a node reaches no clusterhead of a lower ring but    *)
(* the one it follows: each datagram then moves up from node to node and is *)
(* in one place at a time.  First when a node makes a datagram.             *)

\* Where a node that hears two clusterheads above it sends, both may take its
\* datagram and forward it to a third.
OneUpstream ==
    \A n \in Node, c \in Clusterhead : InRange(n, c) /\ Ring[c] < Ring[n] => c = Parent[n]

Sends(q) == {i \in DOMAIN q : q[i].do = "follower_send"}
SendsOnce(q) == \A i, j \in Sends(q) : i = j

\* A node sends once a superframe, in its slot or late.
SendInv ==
    \A n \in Node :
        /\ mine[n] <= now
        /\ SendsOnce(todo[n])
        /\ \A i \in Sends(todo[n]) : mine[n] < now /\ todo[n][i].slot = my_slot(n)

LEMMA SendsPart ==
    ASSUME NEW S, NEW q \in Seq(S), NEW r \in Seq(S), NEW i \in Sends(q \o r)
    PROVE  \/ i \in Sends(q) /\ (q \o r)[i] = q[i]
           \/ i - Len(q) \in Sends(r) /\ (q \o r)[i] = r[i - Len(q)]
<1>1. i \in 1 .. Len(q) + Len(r) /\ (q \o r)[i].do = "follower_send"
  BY DEF Sends
<1>2. CASE i <= Len(q)
  <2>1. i \in DOMAIN q /\ (q \o r)[i] = q[i]
    BY <1>1, <1>2
  <2> QED
    BY <1>1, <2>1 DEF Sends
<1>3. CASE i > Len(q)
  <2>1. i - Len(q) \in DOMAIN r /\ (q \o r)[i] = r[i - Len(q)]
    BY <1>1, <1>3
  <2> QED
    BY <1>1, <2>1 DEF Sends
<1> QED
  BY <1>1, <1>2, <1>3

LEMMA SendsJoined ==
    ASSUME NEW S, NEW q \in Seq(S), NEW r \in Seq(S),
           SendsOnce(q), SendsOnce(r), Sends(q) = {} \/ Sends(r) = {}
    PROVE  SendsOnce(q \o r)
<1> SUFFICES ASSUME NEW i \in Sends(q \o r), NEW j \in Sends(q \o r)
             PROVE  i = j
  BY DEF SendsOnce
<1>1. i \in Int /\ j \in Int /\ Len(q) \in Int
  BY DEF Sends
<1>2. CASE Sends(r) = {}
  <2>1. i \in Sends(q) /\ j \in Sends(q)
    BY <1>2, SendsPart
  <2> QED
    BY <2>1 DEF SendsOnce
<1>3. CASE Sends(q) = {}
  <2>1. i - Len(q) \in Sends(r) /\ j - Len(q) \in Sends(r)
    BY <1>3, SendsPart
  <2>2. i - Len(q) = j - Len(q)
    BY <2>1 DEF SendsOnce
  <2> QED
    BY <1>1, <2>2
<1> QED
  BY <1>2, <1>3

\* A plan has one follower_send, in the node's slot, or none.
LEMMA PlanSends ==
    ASSUME NEW n, NEW s, NEW p
    PROVE  /\ SendsOnce(Plan(n, s, p))
           /\ \A i \in Sends(Plan(n, s, p)) : s = my_slot(n) /\ Plan(n, s, p)[i].slot = s
<1> DEFINE S == {Task(d, s) : d \in Duties}
           b(c, d) == IF c THEN <<Task(d, s)>> ELSE <<>>
           c1 == n \in Clusterhead
                   /\ s - downstream_start_slot(Ring[n]) \in 1 .. vtdma_window_size - 2
           c2 == n \in Clusterhead /\ s = ack_slot(n)
           c3 == p[n] # UNKNOWN_ADDR /\ s = my_slot(n)
           c4 == p[n] # UNKNOWN_ADDR /\ s = ack_slot(Parent[n])
           q1 == b(c1, "clusterhead_recv")
           q2 == b(c2, "clusterhead_send")
           q3 == b(c3, "follower_send")
           q4 == b(c4, "follower_recv")
<1>1. \A c : \A d \in Duties : b(c, d) \in Seq(S)
  <2> SUFFICES ASSUME NEW c, NEW d \in Duties PROVE b(c, d) \in Seq(S)
    OBVIOUS
  <2>1. Task(d, s) \in S
    OBVIOUS
  <2> HIDE DEF S
  <2>2. <<>> \in Seq(S) /\ \A v \in S : <<v>> \in Seq(S)
    OBVIOUS
  <2> QED
    BY <2>1, <2>2
<1>2. \A c, d : SendsOnce(b(c, d)) /\ (d # "follower_send" => Sends(b(c, d)) = {})
  BY DEF SendsOnce, Sends, Task
<1>3. \A i \in Sends(q3) : s = my_slot(n) /\ q3[i].slot = s
  BY DEF Sends, Task
<1>4. Plan(n, s, p) = ((q1 \o q2) \o q3) \o q4
  BY DEF Plan
<1>5. q1 \in Seq(S) /\ q2 \in Seq(S) /\ q3 \in Seq(S) /\ q4 \in Seq(S)
  BY <1>1 DEF Duties
<1> HIDE DEF S, b, c1, c2, c3, c4
<1>6. /\ Sends(q1) = {} /\ Sends(q2) = {} /\ Sends(q4) = {}
      /\ SendsOnce(q1) /\ SendsOnce(q2) /\ SendsOnce(q3) /\ SendsOnce(q4)
  BY <1>2
<1> HIDE DEF q1, q2, q3, q4
<1> DEFINE r2 == q1 \o q2
           r3 == r2 \o q3
<1>7. r2 \in Seq(S) /\ SendsOnce(r2) /\ Sends(r2) = {}
  <2>1. \A i \in Sends(q1 \o q2) : FALSE
    BY <1>5, <1>6, SendsPart
  <2> QED
    BY <1>5, <1>6, <2>1, SendsJoined
<1> HIDE DEF r2
<1>8. r3 \in Seq(S) /\ SendsOnce(r3)
  BY <1>5, <1>6, <1>7, SendsJoined
<1>9. \A i \in Sends(r3) : s = my_slot(n) /\ r3[i].slot = s
  <2> SUFFICES ASSUME NEW i \in Sends(r2 \o q3) PROVE s = my_slot(n) /\ (r2 \o q3)[i].slot = s
    OBVIOUS
  <2>1. r2 \in Seq(S) /\ q3 \in Seq(S)
    BY <1>5, <1>7
  <2>2. \/ i \in Sends(r2) /\ (r2 \o q3)[i] = r2[i]
        \/ i - Len(r2) \in Sends(q3) /\ (r2 \o q3)[i] = q3[i - Len(r2)]
    BY <2>1, SendsPart
  <2> QED
    BY <1>3, <1>7, <2>2
<1> HIDE DEF r3
<1>10. SendsOnce(r3 \o q4)
  BY <1>5, <1>6, <1>8, SendsJoined
<1>11. ASSUME NEW i \in Sends(r3 \o q4) PROVE s = my_slot(n) /\ (r3 \o q4)[i].slot = s
  <2>1. i \in Sends(r3) /\ (r3 \o q4)[i] = r3[i]
    BY <1>5, <1>6, <1>8, SendsPart
  <2> QED
    BY <1>9, <2>1
<1> QED
  BY <1>4, <1>10, <1>11 DEF r2, r3

LEMMA NowIsNat == TypeOK => now \in Nat
  BY NowInTime, Windows, BoundAssumption DEF Time

LEMMA TailSends ==
    ASSUME NEW S, NEW q \in Seq(S), q # <<>>, SendsOnce(q)
    PROVE  /\ SendsOnce(Tail(q))
           /\ \A i \in Sends(Tail(q)) : i + 1 \in Sends(q) /\ Tail(q)[i] = q[i + 1]
           /\ Head(q).do = "follower_send" => Sends(Tail(q)) = {}
<1>1. ASSUME NEW i \in Sends(Tail(q))
      PROVE  i \in Int /\ i # 0 /\ i + 1 \in Sends(q) /\ Tail(q)[i] = q[i + 1]
  <2>1. i \in DOMAIN Tail(q) /\ Tail(q)[i].do = "follower_send"
    BY DEF Sends
  <2>2. i \in Int /\ i # 0 /\ i + 1 \in DOMAIN q /\ Tail(q)[i] = q[i + 1]
    BY <2>1
  <2> QED
    BY <2>1, <2>2 DEF Sends
<1>2. \A i, j \in Sends(Tail(q)) : i = j
  <2> SUFFICES ASSUME NEW i \in Sends(Tail(q)), NEW j \in Sends(Tail(q)) PROVE i = j
    OBVIOUS
  <2>1. i + 1 = j + 1
    BY <1>1 DEF SendsOnce
  <2> QED
    BY <1>1, <2>1
<1>3. ASSUME Head(q).do = "follower_send", NEW i \in Sends(Tail(q)) PROVE FALSE
  <2>1. 1 \in DOMAIN q /\ q[1] = Head(q)
    OBVIOUS
  <2>2. 1 \in Sends(q)
    BY <1>3, <2>1 DEF Sends
  <2>3. i + 1 = 1
    BY <1>1, <2>2 DEF SendsOnce
  <2> QED
    BY <1>1, <2>3
<1> QED
  BY <1>1, <1>2, <1>3 DEF SendsOnce

\* A step within a slot in which no node sends, and the tasks of one become
\* fewer or begin.
LEMMA SendStays ==
    ASSUME TypeOK, SendInv, NEW n \in Node, frame' = frame, slot' = slot, mine' = mine,
           \A m \in Node : m # n => todo'[m] = todo[m],
           SendsOnce(todo'[n]),
           \A i \in Sends(todo'[n]) :
               \E j \in Sends(todo[n]) : todo'[n][i].slot = todo[n][j].slot
    PROVE  SendInv'
<1>1. now' = now
  BY DEF now
<1>2. \A m \in Node : my_slot(m)' = my_slot(m)
  BY DEF my_slot
<1> SUFFICES ASSUME NEW m \in Node
             PROVE  /\ mine[m] <= now /\ SendsOnce(todo'[m])
                    /\ \A i \in Sends(todo'[m]) :
                          mine[m] < now /\ todo'[m][i].slot = my_slot(m)
  BY <1>1, <1>2 DEF SendInv, Sends, SendsOnce
<1>3. CASE m = n
  BY <1>3 DEF SendInv
<1>4. CASE m # n
  BY <1>4 DEF SendInv
<1> QED
  BY <1>3, <1>4

LEMMA DoneSend ==
    ASSUME TypeOK, SendInv, NEW n \in Node, todo[n] # <<>>, Done(n),
           frame' = frame, slot' = slot, mine' = mine
    PROVE  SendInv'
<1>1. todo[n] \in Seq(Task0) /\ SendsOnce(todo[n])
  BY TodoParts DEF SendInv
<1>2. todo'[n] = Tail(todo[n]) /\ \A m \in Node : m # n => todo'[m] = todo[m]
  BY DEF Done, TypeOK
<1>3. /\ SendsOnce(Tail(todo[n]))
      /\ \A i \in Sends(Tail(todo[n])) :
            i + 1 \in Sends(todo[n]) /\ Tail(todo[n])[i] = todo[n][i + 1]
  BY <1>1, TailSends
<1>4. /\ SendsOnce(todo'[n])
      /\ \A i \in Sends(todo'[n]) :
            \E j \in Sends(todo[n]) : todo'[n][i].slot = todo[n][j].slot
  BY <1>2, <1>3
<1> QED
  BY <1>2, <1>4, SendStays

LEMMA ListenSend ==
    ASSUME TypeOK, SendInv, NEW n \in Node, todo[n] # <<>>,
           NEW d, d # "follower_send", Listen(n, d),
           frame' = frame, slot' = slot, mine' = mine
    PROVE  SendInv'
<1>1. todo[n] \in Seq(Task0) /\ 1 \in DOMAIN todo[n] /\ SendsOnce(todo[n])
  BY TodoParts DEF SendInv
<1>2. /\ todo'[n] = [todo[n] EXCEPT ![1].do = d]
      /\ \A m \in Node : m # n => todo'[m] = todo[m]
  BY DEF Listen, TypeOK
<1>3. todo[n][1] \in Task0
  BY <1>1
<1>4. DOMAIN todo'[n] = DOMAIN todo[n] /\ todo'[n][1].do = d
  BY <1>1, <1>2, <1>3 DEF Task0
<1>5. \A i \in DOMAIN todo[n] : i # 1 => todo'[n][i] = todo[n][i]
  BY <1>2
<1>6. \A i \in Sends(todo'[n]) : i \in Sends(todo[n]) /\ todo'[n][i] = todo[n][i]
  BY <1>4, <1>5 DEF Sends
<1>7. SendsOnce(todo'[n])
  BY <1>1, <1>6 DEF SendsOnce
<1> QED
  BY <1>2, <1>6, <1>7, SendStays

LEMMA FollowerSendSend ==
    ASSUME TypeOK, SendInv, NEW n \in Node, FollowerSend(n)
    PROVE  SendInv'
<1>1. /\ todo[n] # <<>> /\ Head(todo[n]).do = "follower_send" /\ Done(n)
      /\ frame' = frame /\ slot' = slot /\ mine' = [mine EXCEPT ![n] = now]
  BY DEF FollowerSend, Doing
<1>2. now' = now /\ now \in Nat
  BY <1>1, NowIsNat DEF now
<1>3. \A m \in Node : my_slot(m)' = my_slot(m)
  BY DEF my_slot
<1>4. /\ todo'[n] = Tail(todo[n]) /\ mine'[n] = now
      /\ \A m \in Node : m # n => todo'[m] = todo[m] /\ mine'[m] = mine[m]
  BY <1>1 DEF Done, TypeOK
<1>5. SendsOnce(todo'[n]) /\ Sends(todo'[n]) = {}
  <2>1. todo[n] \in Seq(Task0) /\ SendsOnce(todo[n])
    BY TodoParts DEF SendInv
  <2> QED
    BY <1>1, <1>4, <2>1, TailSends
<1> SUFFICES ASSUME NEW m \in Node
             PROVE  /\ mine'[m] <= now /\ SendsOnce(todo'[m])
                    /\ \A i \in Sends(todo'[m]) :
                          mine'[m] < now /\ todo'[m][i].slot = my_slot(m)
  BY <1>2, <1>3 DEF SendInv, Sends, SendsOnce
<1>6. CASE m = n
  BY <1>2, <1>4, <1>5, <1>6
<1>7. CASE m # n
  BY <1>4, <1>7 DEF SendInv
<1> QED
  BY <1>6, <1>7

\* Time passes between the slots.
LEMMA Passed ==
    ASSUME TypeOK, SendInv, NEW m \in Node, now' = now + 1
    PROVE  mine[m] <= now' /\ mine[m] < now'
<1>1. mine[m] \in Nat /\ now \in Nat /\ mine[m] <= now
  <2>1. mine[m] \in Time /\ Frames * SUPERFRAME_SLOT_COUNT \in Nat
    BY BoundAssumption, Windows DEF TypeOK
  <2> QED
    BY <2>1, NowIsNat DEF SendInv, Time
<1> QED
  BY <1>1

LEMMA AdvertiseSend == TypeOK /\ SendInv /\ Advertise => SendInv'
<1> SUFFICES ASSUME TypeOK, SendInv, Advertise PROVE SendInv'
  OBVIOUS
<1>1. /\ slot = 0 /\ slot' = ADV_SLOTS /\ frame' = frame /\ mine' = mine
      /\ todo' = [n \in Node |-> Plan(n, ADV_SLOTS, parent')]
  BY DEF Advertise
<1>2. now' = now + 1
  BY <1>1, Windows DEF now, ADV_SLOTS, TypeOK
<1>3. \A m \in Node : my_slot(m)' = my_slot(m)
  BY DEF my_slot
<1> SUFFICES ASSUME NEW m \in Node
             PROVE  /\ mine[m] <= now' /\ SendsOnce(todo'[m])
                    /\ \A i \in Sends(todo'[m]) :
                          mine[m] < now' /\ todo'[m][i].slot = my_slot(m)
  BY <1>1, <1>3 DEF SendInv, Sends, SendsOnce
<1>4. todo'[m] = Plan(m, ADV_SLOTS, parent')
  BY <1>1
<1> QED
  BY <1>2, <1>4, Passed, PlanSends

LEMMA NextSlotSend == TypeOK /\ SendInv /\ NextSlot => SendInv'
<1> SUFFICES ASSUME TypeOK, SendInv, NextSlot PROVE SendInv'
  OBVIOUS
<1>1. mine' = mine /\ slot \in Int /\ frame \in Int /\ SUPERFRAME_SLOT_COUNT \in Int
      /\ slot <= SUPERFRAME_SLOT_COUNT - 1
  BY Windows DEF NextSlot, TypeOK
<1>2. \A m \in Node : my_slot(m)' = my_slot(m)
  BY DEF my_slot
<1>3. CASE /\ slot' = slot + 1 /\ frame' = frame
           /\ todo' = [n \in Node |-> Carried(n) \o Plan(n, slot + 1, parent)]
  <2>1. now' = now + 1
    BY <1>1, <1>3 DEF now
  <2> SUFFICES ASSUME NEW m \in Node
               PROVE  /\ mine[m] <= now' /\ SendsOnce(todo'[m])
                      /\ \A i \in Sends(todo'[m]) :
                            mine[m] < now' /\ todo'[m][i].slot = my_slot(m)
    BY <1>1, <1>2 DEF SendInv, Sends, SendsOnce
  <2> DEFINE p == Plan(m, slot + 1, parent)
             S == [do : Duties, slot : {slot, slot - 1, slot + 1}]
  <2>2. todo'[m] = Carried(m) \o p
    BY <1>3
  <2>3. p \in Seq(S)
    <3>1. p \in Seq([do : Duties, slot : {slot + 1}])
      BY PlanType
    <3>2. [do : Duties, slot : {slot + 1}] \subseteq S
      OBVIOUS
    <3> HIDE DEF S, p
    <3> QED
      BY <3>1, <3>2, SeqOfMore
  <2>4. SendsOnce(p) /\ \A i \in Sends(p) : slot + 1 = my_slot(m) /\ p[i].slot = slot + 1
    BY PlanSends
  <2>5. Carried(m) \in Seq(S)
    <3>1. todo[m] \in Seq(Task0) /\ Task0 \subseteq S
      BY TodoParts DEF Task0
    <3> HIDE DEF S
    <3>2. todo[m] \in Seq(S)
      BY <3>1, SeqOfMore
    <3>3. <<>> \in Seq(S)
      OBVIOUS
    <3> QED
      BY <3>2, <3>3 DEF Carried
  <2>6. SendsOnce(Carried(m)) /\ \A i \in Sends(Carried(m)) :
                                    slot = my_slot(m) /\ Carried(m)[i].slot = my_slot(m)
    <3>1. CASE Carried(m) = <<>>
      BY <3>1 DEF SendsOnce, Sends
    <3>2. CASE m \in Late /\ Carried(m) = todo[m] /\ todo[m] # <<>>
      <4>1. Len(todo[m]) <= 1 /\ todo[m][1].slot = slot
        BY <3>2, TodoParts DEF NextSlot
      <4>2. \A i \in Sends(todo[m]) : i = 1
        <5>1. todo[m] \in Seq(Task0)
          BY TodoParts
        <5> QED
          BY <4>1, <5>1 DEF Sends
      <4>3. \A i \in Sends(todo[m]) : todo[m][i].slot = my_slot(m)
        BY DEF SendInv
      <4> QED
        BY <3>2, <4>1, <4>2, <4>3 DEF SendsOnce
    <3> QED
      BY <3>1, <3>2 DEF Carried
  <2>7. Sends(Carried(m)) = {} \/ Sends(p) = {}
    BY <1>1, <2>4, <2>6
  <2> HIDE DEF p, S
  <2>8. SendsOnce(Carried(m) \o p)
    BY <2>3, <2>4, <2>5, <2>6, <2>7, SendsJoined
  <2>9. ASSUME NEW i \in Sends(Carried(m) \o p)
        PROVE  (Carried(m) \o p)[i].slot = my_slot(m)
    <3>1. \/ i \in Sends(Carried(m)) /\ (Carried(m) \o p)[i] = Carried(m)[i]
          \/ i - Len(Carried(m)) \in Sends(p)
             /\ (Carried(m) \o p)[i] = p[i - Len(Carried(m))]
      BY <2>3, <2>5, SendsPart
    <3> QED
      BY <2>4, <2>6, <3>1
  <2> QED
    BY <2>1, <2>2, <2>8, <2>9, Passed
<1>4. CASE slot' = 0 /\ frame' = frame + 1 /\ ~(slot + 1 < SUPERFRAME_SLOT_COUNT)
           /\ todo' = [n \in Node |-> <<>>]
  <2>1. now' = now + 1
    <3>1. slot + 1 = SUPERFRAME_SLOT_COUNT
      BY <1>1, <1>4
    <3>2. (frame + 1) * SUPERFRAME_SLOT_COUNT
            = frame * SUPERFRAME_SLOT_COUNT + SUPERFRAME_SLOT_COUNT
      BY <1>1
    <3> QED
      BY <1>1, <1>4, <3>1, <3>2 DEF now
  <2> SUFFICES ASSUME NEW m \in Node
               PROVE  /\ mine[m] <= now' /\ SendsOnce(todo'[m])
                      /\ \A i \in Sends(todo'[m]) :
                            mine[m] < now' /\ todo'[m][i].slot = my_slot(m)
    BY <1>1, <1>2 DEF SendInv, Sends, SendsOnce
  <2>2. todo'[m] = <<>>
    BY <1>4
  <2> QED
    BY <2>1, <2>2, Passed DEF Sends, SendsOnce
<1> QED
  BY <1>3, <1>4 DEF NextSlot

LEMMA InitSend == Init => SendInv
<1> SUFFICES ASSUME Init, NEW n \in Node
             PROVE  mine[n] <= now /\ todo[n] = <<>>
  BY DEF SendInv, Sends, SendsOnce
<1>1. mine[n] = 0 /\ frame = 0 /\ slot = 0 /\ todo[n] = <<>>
  BY DEF Init
<1> QED
  BY <1>1, Windows DEF now

LEMMA NextSend == TypeOK /\ SendInv /\ [Next]_vars => SendInv'
<1> SUFFICES ASSUME TypeOK, SendInv, [Next]_vars PROVE SendInv'
  OBVIOUS
<1>1. CASE UNCHANGED vars
  BY <1>1 DEF vars, SendInv, Sends, SendsOnce, now, my_slot
<1>2. ASSUME NEW n \in Node, ClusterheadListen(n) PROVE SendInv'
  BY <1>2, DoneSend, ListenSend DEF ClusterheadListen, Doing
<1>3. ASSUME NEW n \in Node, ClusterheadHear(n) PROVE SendInv'
  BY <1>3, DoneSend DEF ClusterheadHear, Doing
<1>4. ASSUME NEW n \in Node, ClusterheadSend(n) PROVE SendInv'
  BY <1>4, DoneSend DEF ClusterheadSend, Doing
<1>5. ASSUME NEW n \in Node, FollowerListen(n) PROVE SendInv'
  BY <1>5, DoneSend, ListenSend DEF FollowerListen, Doing
<1>6. ASSUME NEW n \in Node, FollowerHear(n) PROVE SendInv'
  <2>1. /\ todo[n] # <<>> /\ frame' = frame /\ slot' = slot /\ mine' = mine
        /\ Done(n) \/ todo' = todo
    BY <1>6 DEF FollowerHear, Doing
  <2>2. CASE todo' = todo
    BY <2>1, <2>2 DEF SendInv, Sends, SendsOnce, now, my_slot
  <2> QED
    BY <2>1, <2>2, DoneSend
<1>7. ASSUME NEW n \in Node, TimeOut(n) PROVE SendInv'
  BY <1>7, DoneSend DEF TimeOut, Listening, Doing
<1> QED
  BY <1>1, <1>2, <1>3, <1>4, <1>5, <1>6, <1>7, FollowerSendSend, AdvertiseSend, NextSlotSend
     DEF Next, Step

-----------------------------------------------------------------------------
(* Then where it is: waiting in a buffer, on its way to a clusterhead that  *)
(* still listens, or taken.                                                 *)
Data(q) == {q[i] : i \in {j \in DOMAIN q : q[j].type = "Datagram"}}
Distinct(q) == \A i, j \in DOMAIN q : q[i].type = "Datagram" /\ q[i] = q[j] => i = j

Waiting == [n \in Node |-> Data(tx[n])]
Arriving == [c \in Clusterhead |-> IF Over(c) THEN {} ELSE Data(held[c])]
Taken == [n \in Node |-> Data(took[n])]

\* What waits in W or arrives in A is in one place, and has been taken (K) by
\* clusterheads further from the gateway only; M has the last datagrams made.
Placed(W, A, K, M) ==
    /\ \A n, k \in Node : \A m \in W[n] : m \in W[k] => n = k
    /\ \A n \in Node, c \in Clusterhead : \A m \in W[n] : m \notin A[c]
    /\ \A b, c \in Clusterhead : \A m \in A[b] : m \in A[c] => b = c
    /\ \A k, n \in Node : \A m \in W[n] : m \in K[k] => Ring[n] <= Ring[k]
    /\ \A k \in Node, c \in Clusterhead : \A m \in A[c] : m \in K[k] => Ring[c] < Ring[k]
    /\ \A n \in Node : \A m \in W[n] \cup K[n] :
          m.src \in Node /\ m.sequence \in Nat /\ m.sequence <= M[m.src]
    /\ \A c \in Clusterhead : \A m \in A[c] :
          m.src \in Node /\ m.sequence \in Nat /\ m.sequence <= M[m.src]

OnceInv ==
    /\ Placed(Waiting, Arriving, Taken, mine)
    /\ \A n \in Node : Distinct(tx[n]) /\ Distinct(took[n])
    /\ \A c \in Clusterhead : Over(c) \/ Distinct(held[c])

LEMMA PlacedFewer ==
    ASSUME NEW W, NEW A, NEW K, NEW M, Placed(W, A, K, M), NEW W2, NEW A2, NEW K2,
           \A n \in Node : W2[n] \subseteq W[n] /\ K2[n] \subseteq K[n],
           \A c \in Clusterhead : A2[c] \subseteq A[c]
    PROVE  Placed(W2, A2, K2, M)
<1>1. /\ \A n \in Node : \A m \in W2[n] : m \in W[n]
      /\ \A n \in Node : \A m \in K2[n] : m \in K[n]
      /\ \A c \in Clusterhead : \A m \in A2[c] : m \in A[c]
  OBVIOUS
<1> QED
  BY <1>1 DEF Placed

\* A datagram is made.
LEMMA PlacedMade ==
    ASSUME NEW W, NEW A, NEW K, NEW M \in [Node -> Nat], Placed(W, A, K, M),
           NEW n \in Node, NEW d, d.src = n, d.sequence \in Nat, M[n] < d.sequence,
           NEW W2, W2[n] \subseteq W[n] \cup {d},
           \A k \in Node : k # n => W2[k] \subseteq W[k]
    PROVE  Placed(W2, A, K, [M EXCEPT ![n] = d.sequence]) /\ d \notin W[n]
<1> DEFINE M2 == [M EXCEPT ![n] = d.sequence]
<1>1. \A k \in Node : M[k] \in Nat /\ M[k] <= M2[k] /\ M2[k] \in Nat /\ M2[n] = d.sequence
  OBVIOUS
<1>2. \A m : m.src \in Node /\ m.sequence \in Nat /\ m.sequence <= M[m.src]
               => m # d /\ m.sequence <= M2[m.src]
  BY <1>1
<1>3. /\ \A k \in Node : d \notin W[k] /\ d \notin K[k]
      /\ \A c \in Clusterhead : d \notin A[c]
  BY <1>2 DEF Placed
<1>4. \A k \in Node : \A m \in W2[k] : m \in W[k] \/ (m = d /\ k = n)
  OBVIOUS
<1>5. d.src \in Node /\ d.sequence \in Nat /\ d.sequence <= M2[d.src]
  BY <1>1
<1> HIDE DEF M2
<1>6. /\ \A k \in Node : \A m \in W2[k] \cup K[k] :
            m.src \in Node /\ m.sequence \in Nat /\ m.sequence <= M2[m.src]
      /\ \A c \in Clusterhead : \A m \in A[c] :
            m.src \in Node /\ m.sequence \in Nat /\ m.sequence <= M2[m.src]
  BY <1>2, <1>4, <1>5 DEF Placed
<1>7. Placed(W2, A, K, M2)
  BY <1>3, <1>4, <1>6 DEF Placed
<1> QED
  BY <1>3, <1>7 DEF M2

\* What waits in n leaves for p, nearer to the gateway.
LEMMA PlacedMoved ==
    ASSUME NEW W, NEW A, NEW K, NEW M, Placed(W, A, K, M),
           NEW n \in Node, NEW p \in Clusterhead, Ring[p] < Ring[n],
           NEW W2, W2[n] = {}, \A k \in Node : k # n => W2[k] \subseteq W[k],
           NEW A2, A2[p] \subseteq A[p] \cup W[n],
           \A c \in Clusterhead : c # p => A2[c] \subseteq A[c]
    PROVE  Placed(W2, A2, K, M)
<1>1. /\ \A k \in Node : \A m \in W2[k] : m \in W[k] /\ k # n
      /\ \A c \in Clusterhead : \A m \in A2[c] : m \in A[c] \/ (c = p /\ m \in W[n])
  OBVIOUS
<1>2. \A k \in Node : Ring[k] \in Nat
  BY RingAssumption
<1>3. p \in Node
  BY ClusterheadRing
<1>4. \A k \in Node : \A m \in W[n] : m \in K[k] => Ring[p] < Ring[k]
  BY <1>2, <1>3 DEF Placed
<1>5. /\ \A i, k \in Node : \A m \in W2[i] : m \in W2[k] => i = k
      /\ \A i \in Node, c \in Clusterhead : \A m \in W2[i] : m \notin A2[c]
      /\ \A k, i \in Node : \A m \in W2[i] : m \in K[k] => Ring[i] <= Ring[k]
  BY <1>1 DEF Placed
<1>6. \A b, c \in Clusterhead : \A m \in A2[b] : m \in A2[c] => b = c
  BY <1>1 DEF Placed
<1>7. \A k \in Node, c \in Clusterhead : \A m \in A2[c] : m \in K[k] => Ring[c] < Ring[k]
  BY <1>1, <1>4 DEF Placed
<1>8. /\ \A i \in Node : \A m \in W2[i] \cup K[i] :
            m.src \in Node /\ m.sequence \in Nat /\ m.sequence <= M[m.src]
      /\ \A c \in Clusterhead : \A m \in A2[c] :
            m.src \in Node /\ m.sequence \in Nat /\ m.sequence <= M[m.src]
  BY <1>1 DEF Placed
<1> QED
  BY <1>5, <1>6, <1>7, <1>8 DEF Placed

\* A clusterhead takes what arrives.
LEMMA PlacedTaken ==
    ASSUME NEW W, NEW A, NEW K, NEW M, Placed(W, A, K, M), NEW c \in Clusterhead,
           NEW W2, W2[c] \subseteq W[c] \cup A[c], \A n \in Node : n # c => W2[n] \subseteq W[n],
           NEW K2, K2[c] \subseteq K[c] \cup A[c], \A n \in Node : n # c => K2[n] \subseteq K[n],
           NEW A2, A2[c] = {}, \A b \in Clusterhead : b # c => A2[b] \subseteq A[b]
    PROVE  Placed(W2, A2, K2, M)
<1>1. /\ \A n \in Node : \A m \in W2[n] : m \in W[n] \/ (n = c /\ m \in A[c])
      /\ \A n \in Node : \A m \in K2[n] : m \in K[n] \/ (n = c /\ m \in A[c])
      /\ \A b \in Clusterhead : \A m \in A2[b] : m \in A[b] /\ b # c
  OBVIOUS
<1>2. c \in Node /\ \A n \in Node : Ring[n] \in Nat
  BY ClusterheadRing, RingAssumption
<1>3. /\ \A i, k \in Node : \A m \in W2[i] : m \in W2[k] => i = k
      /\ \A i \in Node, b \in Clusterhead : \A m \in W2[i] : m \notin A2[b]
      /\ \A a, b \in Clusterhead : \A m \in A2[a] : m \in A2[b] => a = b
  BY <1>1, <1>2 DEF Placed
<1>4. \A k, n \in Node : \A m \in W2[n] : m \in K2[k] => Ring[n] <= Ring[k]
  BY <1>1, <1>2 DEF Placed
<1>5. \A k \in Node, b \in Clusterhead : \A m \in A2[b] : m \in K2[k] => Ring[b] < Ring[k]
  BY <1>1 DEF Placed
<1>6. /\ \A i \in Node : \A m \in W2[i] \cup K2[i] :
            m.src \in Node /\ m.sequence \in Nat /\ m.sequence <= M[m.src]
      /\ \A b \in Clusterhead : \A m \in A2[b] :
            m.src \in Node /\ m.sequence \in Nat /\ m.sequence <= M[m.src]
  BY <1>1 DEF Placed
<1> QED
  BY <1>3, <1>4, <1>5, <1>6 DEF Placed

\* Queueing a message.
LEMMA DataAppended ==
    ASSUME NEW S, NEW q \in Seq(S), NEW m \in S
    PROVE  /\ Data(Append(q, m)) \subseteq Data(q) \cup {m}
           /\ m.type # "Datagram" => Data(Append(q, m)) \subseteq Data(q)
           /\ Distinct(q) /\ (m.type = "Datagram" => m \notin Data(q)) => Distinct(Append(q, m))
<1> DEFINE r == Append(q, m)
<1>1. /\ DOMAIN r = 1 .. Len(q) + 1 /\ DOMAIN q = 1 .. Len(q) /\ Len(q) \in Nat
      /\ r[Len(q) + 1] = m
      /\ \A i \in DOMAIN q : r[i] = q[i]
  OBVIOUS
<1>2. \A i \in DOMAIN r : i \in DOMAIN q \/ i = Len(q) + 1
  BY <1>1
<1> HIDE DEF r
<1>3. \A x \in Data(r) : x.type = "Datagram" /\ (x \in Data(q) \/ x = m)
  BY <1>1, <1>2 DEF Data
<1>4. ASSUME Distinct(q), m.type = "Datagram" => m \notin Data(q)
      PROVE  Distinct(r)
  <2> SUFFICES ASSUME NEW i \in DOMAIN r, NEW j \in DOMAIN r,
                      r[i].type = "Datagram", r[i] = r[j]
               PROVE  i = j
    BY DEF Distinct
  <2>1. CASE i \in DOMAIN q /\ j \in DOMAIN q
    BY <1>1, <1>4, <2>1 DEF Distinct
  <2>2. ASSUME NEW k \in DOMAIN q, m = q[k], m.type = "Datagram" PROVE FALSE
    BY <1>4, <2>2 DEF Data
  <2>3. CASE i = Len(q) + 1 /\ j \in DOMAIN q
    BY <1>1, <2>2, <2>3
  <2>4. CASE j = Len(q) + 1 /\ i \in DOMAIN q
    BY <1>1, <2>2, <2>4
  <2> QED
    BY <1>2, <2>1, <2>3, <2>4
<1> QED
  BY <1>3, <1>4 DEF r

LEMMA DataQueued ==
    ASSUME NEW S, NEW q \in Seq(S), NEW m \in S
    PROVE  /\ Data(Queued(q, m)) \subseteq Data(q) \cup {m}
           /\ m.type # "Datagram" => Data(Queued(q, m)) \subseteq Data(q)
           /\ Distinct(q) /\ (m.type = "Datagram" => m \notin Data(q)) => Distinct(Queued(q, m))
<1>1. Queued(q, m) = q \/ Queued(q, m) = Append(q, m)
  BY DEF Queued
<1> QED
  BY <1>1, DataAppended

LEMMA NextPlaces ==
    /\ Waiting' = [n \in Node |-> Data(tx'[n])]
    /\ Arriving' = [c \in Clusterhead |-> IF Over(c)' THEN {} ELSE Data(held'[c])]
    /\ Taken' = [n \in Node |-> Data(took'[n])]
<1>1. Waiting' = [n \in Node |-> Data(tx'[n])]
  BY DEF Waiting, Data
<1>2. Arriving' = [c \in Clusterhead |-> IF Over(c)' THEN {} ELSE Data(held'[c])]
  BY DEF Arriving, Data
<1>3. Taken' = [n \in Node |-> Data(took'[n])]
  BY DEF Taken, Data
<1> QED
  BY <1>1, <1>2, <1>3

LEMMA OnceNext ==
    ASSUME Placed(Waiting', Arriving', Taken', mine'),
           \A n \in Node : Distinct(tx'[n]) /\ Distinct(took'[n]),
           \A c \in Clusterhead : Over(c)' \/ Distinct(held'[c])
    PROVE  OnceInv'
<1>1. Placed(Waiting, Arriving, Taken, mine)'
  BY DEF Placed
<1>2. \A n \in Node : Distinct(tx[n])' /\ Distinct(took[n])'
  BY DEF Distinct
<1>3. \A c \in Clusterhead : Over(c)' \/ Distinct(held[c])'
  BY DEF Distinct
<1> QED
  BY <1>1, <1>2, <1>3 DEF OnceInv

LEMMA NoData == Data(<<>>) = {} /\ Distinct(<<>>)
  BY DEF Data, Distinct

\* A step that makes no datagram and sends none.
LEMMA OnceStays ==
    ASSUME OnceInv, mine' = mine, took' = took,
           \A n \in Node : tx'[n] = tx[n] \/ tx'[n] = <<>>,
           \A c \in Clusterhead :
               held'[c] = <<>> \/ (held'[c] = held[c] /\ (Over(c) => Over(c)'))
    PROVE  OnceInv'
<1>1. \A n \in Node : Waiting'[n] \subseteq Waiting[n] /\ Taken'[n] \subseteq Taken[n]
  BY NextPlaces, NoData DEF Waiting, Taken
<1>2. \A c \in Clusterhead : Arriving'[c] \subseteq Arriving[c]
  BY NextPlaces, NoData DEF Arriving
<1>3. Placed(Waiting', Arriving', Taken', mine')
  BY <1>1, <1>2, PlacedFewer DEF OnceInv
<1>4. \A n \in Node : Distinct(tx'[n]) /\ Distinct(took'[n])
  BY NoData DEF OnceInv
<1>5. \A c \in Clusterhead : Over(c)' \/ Distinct(held'[c])
  BY NoData DEF OnceInv
<1> QED
  BY <1>3, <1>4, <1>5, OnceNext

\* A frame that n sends comes to the clusterhead above it, or to nobody that
\* still listens.
LEMMA OnceFlush ==
    ASSUME OneUpstream, TypeOK, FlowInv, OnceInv, NEW n \in Node, todo[n] # <<>>, Done(n),
           slot' = slot, took' = took, NEW q, NEW k, NEW Wanted,
           Flushed(n, q, k, Wanted) \/ NotFlushed(n, q, k), After(n, k), Distinct(q),
           NEW W, Placed(W, Arriving, Taken, mine'), W[n] = Data(q),
           \A i \in Node : i # n => W[i] = Waiting[i]
    PROVE  OnceInv'
<1>1. \A c \in Clusterhead : Over(c) => Over(c)'
  BY OverStays DEF FlowInv
<1>2. ASSUME NEW c \in Clusterhead
      PROVE  \/ held'[c] = held[c] \/ held'[c] = <<>>
             \/ /\ Flushed(n, q, k, Wanted) /\ held'[c] = q
                /\ Over(c) \/ (c = Parent[n] /\ Ring[c] < Ring[n])
  <2>1. CASE /\ Flushed(n, q, k, Wanted) /\ held'[c] = q
             /\ InRange(n, c) /\ code[c] = k
    <3>1. Ring[n] <= Ring[c] => Over(c)
      BY <2>1, AfterIsOver
    <3>2. Ring[c] < Ring[n] => c = Parent[n]
      BY <2>1 DEF OneUpstream
    <3>3. Ring[c] \in Nat /\ Ring[n] \in Nat
      BY ClusterheadRing, RingAssumption
    <3> QED
      BY <2>1, <3>1, <3>2, <3>3
  <2> QED
    BY <2>1, Reached, ClusterheadRing
<1>3. \A i \in Node : i # n => tx'[i] = tx[i]
  BY DEF Flushed, NotFlushed, TypeOK
<1>4. /\ Flushed(n, q, k, Wanted) => tx'[n] = <<>>
      /\ tx'[n] = <<>> \/ tx'[n] = q
  BY DEF Flushed, NotFlushed, TypeOK
<1>5. \A i \in Node : i # n => Waiting'[i] = W[i]
  BY <1>3, NextPlaces DEF Waiting
<1>6. /\ Waiting'[n] \subseteq W[n]
      /\ Flushed(n, q, k, Wanted) => Waiting'[n] = {}
  BY <1>4, NextPlaces, NoData
<1>7. Taken' = Taken
  BY NextPlaces DEF Taken
<1>8. Placed(Waiting', Arriving', Taken', mine')
  <2>1. CASE \A c \in Clusterhead : Arriving'[c] \subseteq Arriving[c]
    BY <1>5, <1>6, <1>7, <2>1, PlacedFewer
  <2>2. CASE \E c \in Clusterhead : ~(Arriving'[c] \subseteq Arriving[c])
    <3>1. \A c \in Clusterhead :
            \/ Arriving'[c] \subseteq Arriving[c]
            \/ /\ Flushed(n, q, k, Wanted) /\ Arriving'[c] \subseteq W[n]
               /\ c = Parent[n] /\ Ring[c] < Ring[n]
      BY <1>1, <1>2, NextPlaces, NoData DEF Arriving
    <3>2. PICK p \in Clusterhead : ~(Arriving'[p] \subseteq Arriving[p])
      BY <2>2
    <3>3. /\ Flushed(n, q, k, Wanted) /\ Ring[p] < Ring[n]
          /\ Arriving'[p] \subseteq Arriving[p] \cup W[n]
          /\ \A c \in Clusterhead : c # p => Arriving'[c] \subseteq Arriving[c]
      BY <3>1, <3>2
    <3>4. Waiting'[n] = {} /\ \A i \in Node : i # n => Waiting'[i] \subseteq W[i]
      BY <1>5, <1>6, <3>3
    <3> QED
      BY <1>7, <3>3, <3>4, PlacedMoved
  <2> QED
    BY <2>1, <2>2
<1>9. \A i \in Node : Distinct(tx'[i]) /\ Distinct(took'[i])
  BY <1>3, <1>4, NoData DEF OnceInv
<1>10. \A c \in Clusterhead : Over(c)' \/ Distinct(held'[c])
  BY <1>1, <1>2, NoData DEF OnceInv
<1> QED
  BY <1>8, <1>9, <1>10, OnceNext

\* What becomes of a frame of new datagrams, each of them there once.
LEMMA ReceivedOnce ==
    ASSUME TypeOK, NEW n \in Node, Distinct(held[n]), Distinct(tx[n]), Distinct(took[n]),
           \A m \in Data(held[n]) : m \notin Data(tx[n]) /\ m \notin Data(took[n]),
           NEW s, s = Received(n)[Len(held[n])]
    PROVE  /\ Distinct(s.tx) /\ Data(s.tx) \subseteq Data(tx[n]) \cup Data(held[n])
           /\ Distinct(s.took) /\ Data(s.took) \subseteq Data(took[n]) \cup Data(held[n])
<1> DEFINE N == Len(held[n])
           R == Received(n)
           Read(k) == {held[n][j] : j \in {i \in 1 .. k : held[n][i].type = "Datagram"}}
           OK(k) == /\ R[k].tx \in Seq(Message) /\ R[k].took \in Seq(Message)
                    /\ Distinct(R[k].tx) /\ Data(R[k].tx) \subseteq Data(tx[n]) \cup Read(k)
                    /\ Distinct(R[k].took) /\ Data(R[k].took) \subseteq Data(took[n]) \cup Read(k)
           S == {k \in 0 .. N : OK(k)}
<1>1. /\ N \in Nat /\ DOMAIN held[n] = 1 .. N /\ held[n] \in Seq(Message)
      /\ tx[n] \in Seq(Message) /\ took[n] \in Seq(Message)
  BY DEF TypeOK
<1>2. /\ R[0] = Start(n)
      /\ \A k \in 1 .. N : R[k] = Processed(n, R[k - 1], held[n][k])
  <2>1. IsReading(n, R, N)
    BY <1>1, ReceivedIs
  <2> HIDE DEF N, R
  <2>2. 0 \in 0 .. N /\ \A k \in 1 .. N : k \in 0 .. N /\ k # 0
    BY <1>1
  <2> QED
    BY <2>1, <2>2 DEF IsReading
<1>3. Read(N) = Data(held[n])
  BY <1>1 DEF Data
<1> HIDE DEF N, R
<1>4. 0 \in S
  <2>1. OK(0)
    BY <1>1, <1>2 DEF Start
  <2> HIDE DEF OK
  <2> QED
    BY <1>1, <2>1
<1>5. ASSUME NEW k \in 0 .. N - 1, k \in S  PROVE k + 1 \in S
  <2> DEFINE m == held[n][k + 1]
  <2>1. k + 1 \in 1 .. N /\ k + 1 \in 0 .. N /\ k + 1 - 1 = k /\ k \in Nat
    BY <1>1
  <2>2. R[k + 1] = Processed(n, R[k], m)
    BY <1>2, <2>1
  <2>3. m \in Message
    BY <1>1, <2>1
  <2>4. OK(k)
    BY <1>5
  <2>5. Read(k) \subseteq Read(k + 1) /\ (m.type = "Datagram" => m \in Read(k + 1))
    BY <2>1
  <2>6. CASE m.type # "Datagram"
    <3>1. R[k + 1] = R[k]
      BY <2>2, <2>6 DEF Processed
    <3>2. OK(k + 1)
      <4> HIDE DEF Read, m
      <4> QED
        BY <2>4, <2>5, <3>1
    <3> HIDE DEF OK
    <3> QED
      BY <2>1, <3>2
  <2>7. CASE m.type = "Datagram"
    <3>1. R[k + 1].tx = Queued(R[k].tx, m) /\ R[k + 1].took = Append(R[k].took, m)
      BY <2>2, <2>7 DEF Processed
    <3>2. m \notin Data(tx[n]) /\ m \notin Data(took[n])
      <4>1. m \in Data(held[n])
        BY <1>1, <2>1, <2>7 DEF Data
      <4> QED
        BY <4>1
    <3>3. m \notin Read(k)
      <4> SUFFICES ASSUME NEW j \in 1 .. k, held[n][j] = m PROVE FALSE
        OBVIOUS
      <4>1. j \in DOMAIN held[n] /\ k + 1 \in DOMAIN held[n] /\ j # k + 1
        BY <1>1, <2>1
      <4> QED
        BY <2>7, <4>1 DEF Distinct
    <3> HIDE DEF Read, m
    <3>4. m \notin Data(R[k].tx) /\ m \notin Data(R[k].took)
      BY <2>4, <3>2, <3>3
    <3>5. /\ Queued(R[k].tx, m) \in Seq(Message) /\ Distinct(Queued(R[k].tx, m))
          /\ Data(Queued(R[k].tx, m)) \subseteq Data(R[k].tx) \cup {m}
      <4>1. Queued(R[k].tx, m) \in Seq(Message)
        BY <2>3, <2>4 DEF Queued
      <4> QED
        BY <2>3, <2>4, <3>4, <4>1, DataQueued
    <3>6. /\ Append(R[k].took, m) \in Seq(Message) /\ Distinct(Append(R[k].took, m))
          /\ Data(Append(R[k].took, m)) \subseteq Data(R[k].took) \cup {m}
      <4>1. Append(R[k].took, m) \in Seq(Message)
        BY <2>3, <2>4
      <4> QED
        BY <2>3, <2>4, <3>4, <4>1, DataAppended
    <3>7. OK(k + 1)
      BY <2>4, <2>5, <2>7, <3>1, <3>5, <3>6
    <3> HIDE DEF OK
    <3> QED
      BY <2>1, <3>7
  <2> QED
    BY <2>6, <2>7
<1> HIDE DEF S
<1>6. N \in S
  <2>1. 0 .. N \subseteq S
    BY <1>1, <1>4, <1>5, UpTo
  <2> QED
    BY <1>1, <2>1
<1>7. OK(N)
  BY <1>6 DEF S
<1>8. s = R[N]
  BY DEF R, N
<1> QED
  BY <1>3, <1>7, <1>8

LEMMA ClusterheadSendOnce ==
    ASSUME OneUpstream, TypeOK, FlowInv, OnceInv, NEW n \in Node, ClusterheadSend(n)
    PROVE  OnceInv'
<1>1. /\ todo[n] # <<>> /\ Done(n) /\ n \in Clusterhead /\ slot' = slot
      /\ took' = took /\ mine' = mine
  BY FirstTask DEF ClusterheadSend, Doing, FlowInv
<1>2. CASE slot = ack_slot(n)
  <2>1. PICK nomination \in {n, UNKNOWN_ADDR} :
          LET q == Queued(Queued(tx[n], SendAcks(n)), CloseCluster(n, nomination))
          IN  \/ Flushed(n, q, 0, {f \in Node : parent[f] = n})
              \/ NotFlushed(n, q, 0)
    BY <1>2 DEF ClusterheadSend
  <2> DEFINE q1 == Queued(tx[n], SendAcks(n))
             q == Queued(q1, CloseCluster(n, nomination))
             W == [i \in Node |-> IF i = n THEN Data(q) ELSE Waiting[i]]
  <2>2. /\ SendAcks(n) \in Message /\ SendAcks(n).type # "Datagram"
        /\ CloseCluster(n, nomination) \in Message
        /\ CloseCluster(n, nomination).type # "Datagram"
    BY DEF SendAcks, CloseCluster, Message, TypeOK
  <2>3. tx[n] \in Seq(Message) /\ Len(tx[n]) <= TxCap /\ Distinct(tx[n])
    BY DEF OnceInv, TypeOK
  <2>4. /\ q1 \in Seq(Message) /\ Len(q1) <= TxCap
        /\ Distinct(q1) /\ Data(q1) \subseteq Data(tx[n])
    BY <2>2, <2>3, QueuedType, DataQueued
  <2> HIDE DEF q1
  <2>5. Distinct(q) /\ Data(q) \subseteq Data(q1)
    BY <2>2, <2>4, DataQueued
  <2>6. Flushed(n, q, 0, {f \in Node : parent[f] = n}) \/ NotFlushed(n, q, 0)
    BY <2>1 DEF q1
  <2>7. After(n, 0)
    BY <1>1, <1>2, AckSlotIsAfter
  <2> HIDE DEF q
  <2>8. W[n] = Data(q) /\ \A i \in Node : i # n => W[i] = Waiting[i]
    OBVIOUS
  <2>9. \A i \in Node : W[i] \subseteq Waiting[i]
    BY <2>4, <2>5 DEF Waiting
  <2> HIDE DEF W
  <2>10. Placed(W, Arriving, Taken, mine')
    BY <1>1, <2>9, PlacedFewer DEF OnceInv
  <2> QED
    BY <1>1, <2>5, <2>6, <2>7, <2>8, <2>10, OnceFlush
<1>3. CASE UNCHANGED <<code, tx, held, faulty>>
  <2>1. \A c \in Clusterhead : Over(c) => Over(c)'
    BY <1>1, OverStays DEF FlowInv
  <2> QED
    BY <1>1, <1>3, <2>1, OnceStays
<1> QED
  BY <1>2, <1>3 DEF ClusterheadSend

LEMMA FollowerSendOnce ==
    ASSUME OneUpstream, TypeOK, FlowInv, SendInv, OnceInv, NEW n \in Node, FollowerSend(n)
    PROVE  OnceInv'
<1> DEFINE d == Datagram(n)
           q == Queued(tx[n], d)
           W == [i \in Node |-> IF i = n THEN Data(q) ELSE Waiting[i]]
<1>1. /\ todo[n] # <<>> /\ Done(n) /\ Parent[n] # UNKNOWN_ADDR /\ slot' = slot
      /\ took' = took /\ mine' = [mine EXCEPT ![n] = now]
  BY FirstTask DEF FollowerSend, Doing, FlowInv
<1>2. mine[n] < now
  <2>1. 1 \in Sends(todo[n])
    BY TodoParts DEF FollowerSend, Doing, Sends
  <2> QED
    BY <2>1 DEF SendInv
<1>3. /\ d.src = n /\ d.sequence = now /\ now \in Nat /\ d \in Message
      /\ mine \in [Node -> Nat]
  <2>1. Time \subseteq Nat
    BY DEF Time
  <2> QED
    BY <2>1, NowIsNat, NowInTime DEF Datagram, Message, TypeOK
<1>4. \/ slot = my_slot(n) /\ (Flushed(n, q, Rel[n], {parent[n]}) \/ NotFlushed(n, q, Rel[n]))
      \/ tx' = [tx EXCEPT ![n] = q] /\ UNCHANGED <<code, held, faulty>>
  BY DEF FollowerSend
<1>5. tx[n] \in Seq(Message) /\ Distinct(tx[n])
  BY DEF TypeOK, OnceInv
<1> HIDE DEF d
<1>6. Data(q) \subseteq Data(tx[n]) \cup {d} /\ (d \notin Data(tx[n]) => Distinct(q))
  BY <1>3, <1>5, DataQueued
<1> HIDE DEF q
<1>7. /\ W[n] = Data(q) /\ W[n] \subseteq Waiting[n] \cup {d}
      /\ \A i \in Node : i # n => W[i] = Waiting[i]
  BY <1>6 DEF Waiting
<1> HIDE DEF W
<1>8. Placed(W, Arriving, Taken, mine') /\ d \notin Waiting[n]
  <2>1. Placed(Waiting, Arriving, Taken, mine)
    BY DEF OnceInv
  <2>2. mine' = [mine EXCEPT ![n] = d.sequence]
    BY <1>1, <1>3
  <2>3. d.sequence \in Nat /\ mine[n] < d.sequence /\ mine \in [Node -> Nat] /\ d.src = n
    BY <1>2, <1>3
  <2>4. \A i \in Node : i # n => W[i] \subseteq Waiting[i]
    BY <1>7
  <2>5. W[n] \subseteq Waiting[n] \cup {d}
    BY <1>7
  <2>6. /\ Placed(W, Arriving, Taken, [mine EXCEPT ![n] = d.sequence])
        /\ d \notin Waiting[n]
    BY <2>1, <2>3, <2>4, <2>5, PlacedMade
  <2> QED
    BY <2>2, <2>6
<1>9. Distinct(q)
  BY <1>6, <1>8 DEF Waiting
<1>10. CASE slot = my_slot(n) /\ (Flushed(n, q, Rel[n], {parent[n]}) \/ NotFlushed(n, q, Rel[n]))
  <2>1. After(n, Rel[n])
    BY <1>1, <1>10, MySlotIsAfter
  <2> QED
    BY <1>1, <1>7, <1>8, <1>9, <1>10, <2>1, OnceFlush
<1>11. CASE tx' = [tx EXCEPT ![n] = q] /\ UNCHANGED <<code, held, faulty>>
  <2>1. \A c \in Clusterhead : Over(c) => Over(c)'
    BY <1>1, OverStays DEF FlowInv
  <2>2. tx'[n] = q /\ \A i \in Node : i # n => tx'[i] = tx[i]
    BY <1>11 DEF TypeOK
  <2>3. \A i \in Node : Waiting'[i] \subseteq W[i] /\ Taken'[i] \subseteq Taken[i]
    BY <1>1, <1>7, <2>2, NextPlaces DEF Waiting, Taken
  <2>4. \A c \in Clusterhead : Arriving'[c] \subseteq Arriving[c]
    BY <1>11, <2>1, NextPlaces DEF Arriving
  <2>5. Placed(Waiting', Arriving', Taken', mine')
    BY <1>8, <2>3, <2>4, PlacedFewer
  <2>6. \A i \in Node : Distinct(tx'[i]) /\ Distinct(took'[i])
    BY <1>1, <1>9, <2>2 DEF OnceInv
  <2>7. \A c \in Clusterhead : Over(c)' \/ Distinct(held'[c])
    BY <1>11, <2>1 DEF OnceInv
  <2> QED
    BY <2>5, <2>6, <2>7, OnceNext
<1> QED
  BY <1>4, <1>10, <1>11

LEMMA ClusterheadHearOnce ==
    ASSUME TypeOK, FlowInv, OnceInv, NEW n \in Node, ClusterheadHear(n)
    PROVE  OnceInv'
<1> DEFINE s == Received(n)[Len(held[n])]
<1>1. /\ todo[n] # <<>> /\ n \in Clusterhead /\ slot' = slot /\ Done(n)
      /\ mine' = mine /\ ~Over(n)
  BY FirstTask DEF ClusterheadHear, Doing, FlowInv, Over
<1>2. /\ tx' = [tx EXCEPT ![n] = s.tx]
      /\ took' = [took EXCEPT ![n] = s.took]
      /\ held' = [held EXCEPT ![n] = <<>>]
  BY DEF ClusterheadHear
<1>3. Arriving[n] = Data(held[n]) /\ Distinct(held[n])
  BY <1>1 DEF Arriving, OnceInv
<1>4. /\ Distinct(s.tx) /\ Data(s.tx) \subseteq Data(tx[n]) \cup Data(held[n])
      /\ Distinct(s.took) /\ Data(s.took) \subseteq Data(took[n]) \cup Data(held[n])
  <2>1. \A m \in Data(held[n]) : m \notin Data(tx[n]) /\ m \notin Data(took[n])
    <3>1. Waiting[n] = Data(tx[n]) /\ Taken[n] = Data(took[n])
      BY DEF Waiting, Taken
    <3>2. ~ Ring[n] < Ring[n]
      BY RingAssumption
    <3> QED
      BY <1>1, <1>3, <3>1, <3>2 DEF OnceInv, Placed
  <2> HIDE DEF s
  <2>2. s = Received(n)[Len(held[n])]
    BY DEF s
  <2> QED
    BY <1>3, <2>1, <2>2, ReceivedOnce DEF OnceInv
<1> HIDE DEF s
<1>5. /\ tx'[n] = s.tx /\ took'[n] = s.took /\ held'[n] = <<>>
      /\ \A i \in Node : i # n => tx'[i] = tx[i] /\ took'[i] = took[i] /\ held'[i] = held[i]
  BY <1>2 DEF TypeOK
<1>6. \A c \in Clusterhead : Over(c) => Over(c)'
  BY <1>1, OverStays DEF FlowInv
<1>7. Placed(Waiting', Arriving', Taken', mine')
  <2>1. /\ Waiting'[n] \subseteq Waiting[n] \cup Arriving[n]
        /\ Taken'[n] \subseteq Taken[n] \cup Arriving[n]
        /\ \A i \in Node : i # n => Waiting'[i] \subseteq Waiting[i] /\ Taken'[i] \subseteq Taken[i]
    BY <1>3, <1>4, <1>5, NextPlaces DEF Waiting, Taken
  <2>2. /\ Arriving'[n] = {}
        /\ \A c \in Clusterhead : c # n => Arriving'[c] \subseteq Arriving[c]
    BY <1>1, <1>5, <1>6, NextPlaces, NoData, ClusterheadRing DEF Arriving
  <2> QED
    BY <1>1, <2>1, <2>2, PlacedTaken DEF OnceInv
<1>8. \A i \in Node : Distinct(tx'[i]) /\ Distinct(took'[i])
  BY <1>4, <1>5 DEF OnceInv
<1>9. \A c \in Clusterhead : Over(c)' \/ Distinct(held'[c])
  BY <1>5, <1>6, NoData, ClusterheadRing DEF OnceInv
<1> QED
  BY <1>7, <1>8, <1>9, OnceNext

LEMMA ClusterheadListenOnce ==
    ASSUME TypeOK, FlowInv, OnceInv, NEW n \in Node, ClusterheadListen(n)
    PROVE  OnceInv'
<1> DEFINE relative == slot - downstream_start_slot(Ring[n])
<1>1. /\ todo[n] # <<>> /\ n \in Clusterhead /\ slot' = slot
      /\ took' = took /\ tx' = tx /\ mine' = mine
  BY FirstTask DEF ClusterheadListen, Doing, FlowInv
<1>2. CASE /\ relative \in 1 .. vtdma_window_size - 2
           /\ Listen(n, "clusterhead_hear") /\ code' = [code EXCEPT ![n] = relative]
           /\ \E h \in Retuned(n, relative) : held' = [held EXCEPT ![n] = h]
  <2>1. slot < ack_slot(n) /\ slot \in Int
    BY <1>1, <1>2, ClusterheadRing, Windows DEF TypeOK
  <2>2. ~Over(n)
    BY <1>1, <2>1, ClusterheadRing DEF Over, FlowInv
  <2>3. \A c \in Clusterhead : Over(c) => Over(c)'
    <3>1. \A c \in Node : c # n => todo'[c] = todo[c]
      BY <1>2 DEF Listen, TypeOK
    <3>2. \A c \in Clusterhead : ack_slot(c)' = ack_slot(c)
      BY DEF ack_slot
    <3> QED
      BY <1>1, <2>2, <3>1, <3>2, ClusterheadRing DEF Over, Doing
  <2>4. \A m \in Node : held'[m] = held[m] \/ held'[m] = <<>>
    BY <1>2, HeldOrNothing
  <2> QED
    BY <1>1, <2>3, <2>4, OnceStays, ClusterheadRing
<1>3. CASE Done(n) /\ UNCHANGED <<code, held>>
  <2>1. \A c \in Clusterhead : Over(c) => Over(c)'
    BY <1>1, <1>3, OverStays DEF FlowInv
  <2> QED
    BY <1>1, <1>3, <2>1, OnceStays
<1> QED
  BY <1>2, <1>3 DEF ClusterheadListen

LEMMA FollowerListenOnce ==
    ASSUME TypeOK, FlowInv, OnceInv, NEW n \in Node, FollowerListen(n)
    PROVE  OnceInv'
<1>1. /\ todo[n] # <<>> /\ Parent[n] # UNKNOWN_ADDR /\ slot' = slot
      /\ took' = took /\ tx' = tx /\ mine' = mine
  BY FirstTask DEF FollowerListen, Doing, FlowInv
<1>2. CASE /\ Listen(n, "follower_hear") /\ code' = [code EXCEPT ![n] = 0]
           /\ \E h \in Retuned(n, 0) : held' = [held EXCEPT ![n] = h]
  <2>1. ~Doing(n, "clusterhead_hear")'
    <3>1. "follower_hear" \in Duties
      BY DEF Duties
    <3> QED
      BY <1>1, <1>2, <3>1, ListenDutiful DEF FlowInv
  <2>2. \A c \in Clusterhead : Over(c) => Over(c)'
    <3>1. \A c \in Node : c # n => todo'[c] = todo[c]
      BY <1>2 DEF Listen, TypeOK
    <3>2. \A c \in Clusterhead : ack_slot(c)' = ack_slot(c)
      BY DEF ack_slot
    <3> QED
      BY <1>1, <2>1, <3>1, <3>2, ClusterheadRing DEF Over, Doing
  <2>3. \A m \in Node : held'[m] = held[m] \/ held'[m] = <<>>
    BY <1>2, HeldOrNothing
  <2> QED
    BY <1>1, <2>2, <2>3, OnceStays, ClusterheadRing
<1>3. CASE Done(n) /\ UNCHANGED <<code, held>>
  <2>1. \A c \in Clusterhead : Over(c) => Over(c)'
    BY <1>1, <1>3, OverStays DEF FlowInv
  <2> QED
    BY <1>1, <1>3, <2>1, OnceStays
<1> QED
  BY <1>2, <1>3 DEF FollowerListen

LEMMA FollowerHearOnce ==
    ASSUME TypeOK, FlowInv, OnceInv, NEW n \in Node, FollowerHear(n)
    PROVE  OnceInv'
<1>1. /\ todo[n] # <<>> /\ slot' = slot /\ tx' = tx /\ took' = took /\ mine' = mine
      /\ held' = [held EXCEPT ![n] = <<>>] /\ (Done(n) \/ todo' = todo)
  BY DEF FollowerHear, Doing
<1>2. \A c \in Clusterhead : Over(c) => Over(c)'
  <2>1. CASE Done(n)
    BY <1>1, <2>1, OverStays DEF FlowInv
  <2>2. CASE todo' = todo
    BY <1>1, <2>2 DEF Over, Doing, ack_slot
  <2> QED
    BY <1>1, <2>1, <2>2
<1>3. \A m \in Node : held'[m] = held[m] \/ held'[m] = <<>>
  BY <1>1 DEF TypeOK
<1> QED
  BY <1>1, <1>2, <1>3, OnceStays, ClusterheadRing

LEMMA TimeOutOnce ==
    ASSUME TypeOK, FlowInv, OnceInv, NEW n \in Node, TimeOut(n)
    PROVE  OnceInv'
<1>1. /\ todo[n] # <<>> /\ Done(n)
      /\ UNCHANGED <<frame, slot, parent, code, acks, tx, held, mine, took, faulty>>
  BY DEF TimeOut, Listening, Doing
<1>2. \A c \in Clusterhead : Over(c) => Over(c)'
  BY <1>1, OverStays DEF FlowInv
<1> QED
  BY <1>1, <1>2, OnceStays

LEMMA AdvertiseOnce == OnceInv /\ Advertise => OnceInv'
<1> SUFFICES ASSUME OnceInv, Advertise PROVE OnceInv'
  OBVIOUS
<1>1. mine' = mine /\ took' = took /\ held' = [n \in Node |-> <<>>]
  BY DEF Advertise
<1>2. \A n \in Node : tx'[n] = tx[n] \/ tx'[n] = <<>>
  BY DEF Advertise
<1>3. \A c \in Clusterhead : held'[c] = <<>>
  BY <1>1, ClusterheadRing
<1> QED
  BY <1>1, <1>2, <1>3, OnceStays

\* A node that listens into the next slot did so before.
LEMMA NextSlotListens ==
    ASSUME TypeOK, FlowInv, NextSlot, NEW n \in Node, slot' = slot + 1,
           todo' = [k \in Node |-> Carried(k) \o Plan(k, slot + 1, parent)],
           Doing(n, "clusterhead_hear")'
    PROVE  Doing(n, "clusterhead_hear")
<1> DEFINE p == Plan(n, slot + 1, parent)
<1>1. todo'[n] = Carried(n) \o p
  OBVIOUS
<1>2. p \in Seq([do : Duties, slot : {slot + 1}])
  BY PlanType
<1>3. \A j \in DOMAIN p : p[j].do \notin {"clusterhead_hear", "follower_hear"}
  <2>1. parent[n] # UNKNOWN_ADDR => Parent[n] # UNKNOWN_ADDR
    BY DEF FlowInv
  <2> QED
    BY <2>1, PlanDutiful
<1> HIDE DEF p
<1>4. 1 \in DOMAIN todo'[n] /\ todo'[n][1].do = "clusterhead_hear"
  <2>1. todo'[n] # <<>> /\ Head(todo'[n]).do = "clusterhead_hear"
    BY DEF Doing
  <2>2. todo'[n] \in Seq([do : Duties, slot : {slot', slot' - 1}])
    BY NextSlotType DEF TypeOK
  <2> QED
    BY <2>1, <2>2
<1>5. \/ todo[n] # <<>> /\ todo'[n][1] = todo[n][1]
      \/ \E j \in DOMAIN p : todo'[n][1] = p[j]
  <2>1. 1 \in DOMAIN (Carried(n) \o p)
    BY <1>1, <1>4, Zenon
  <2>2. \/ todo[n] # <<>> /\ (Carried(n) \o p)[1] = todo[n][1]
        \/ \E j \in DOMAIN p : (Carried(n) \o p)[1] = p[j]
    BY <1>2, <2>1, CarriedParts
  <2> QED
    BY <1>1, <2>2, Zenon
<1> QED
  BY <1>3, <1>4, <1>5, TodoParts DEF Doing

\* A window that was over stays over.
LEMMA NextSlotOver ==
    ASSUME TypeOK, FlowInv, NextSlot, NEW c \in Clusterhead, Over(c)
    PROVE  Over(c)'
<1>1. slot # 0 /\ slot \in Int /\ ack_slot(c)' = ack_slot(c)
  BY DEF NextSlot, TypeOK, ack_slot
<1>2. CASE slot' = 0
  BY <1>2 DEF Over
<1>3. CASE /\ slot' = slot + 1
           /\ todo' = [n \in Node |-> Carried(n) \o Plan(n, slot + 1, parent)]
  <2>1. Doing(c, "clusterhead_hear")' => Doing(c, "clusterhead_hear")
    BY <1>3, NextSlotListens, ClusterheadRing
  <2> QED
    BY <1>1, <1>3, <2>1, ClusterheadRing DEF Over
<1> QED
  BY <1>2, <1>3 DEF NextSlot

LEMMA NextSlotOnce == TypeOK /\ FlowInv /\ OnceInv /\ NextSlot => OnceInv'
<1> SUFFICES ASSUME TypeOK, FlowInv, OnceInv, NextSlot PROVE OnceInv'
  OBVIOUS
<1>1. mine' = mine /\ took' = took /\ tx' = tx /\ held' = held
  BY DEF NextSlot
<1>2. \A c \in Clusterhead : Over(c) => Over(c)'
  BY NextSlotOver
<1> QED
  BY <1>1, <1>2, OnceStays

\* What is taken are datagrams.
TookInv == \A n \in Node : took[n] \in Seq({m \in Message : m.type = "Datagram"})

LEMMA NextTook ==
    ASSUME TypeOK, TookInv, [Next]_vars
    PROVE  TookInv'
<1> DEFINE B == {m \in Message : m.type = "Datagram"}
<1>1. ASSUME took' = took PROVE TookInv'
  BY <1>1 DEF TookInv, Message
<1>2. ASSUME NEW n \in Node, ClusterheadHear(n) PROVE TookInv'
  <2> DEFINE s == Received(n)[Len(held[n])]
  <2>1. took' = [took EXCEPT ![n] = s.took]
    BY <1>2 DEF ClusterheadHear
  <2>2. /\ held[n] \in Seq(Message) /\ code[n] \in 0 .. vtdma_window_size - 1
        /\ acks[n] \in [0 .. vtdma_window_size - 1 -> Time]
        /\ tx[n] \in Seq(Message) /\ Len(tx[n]) <= TxCap /\ took \in [Node -> Seq(Message)]
    BY DEF TypeOK, Acks
  <2>3. took[n] \in Seq(B)
    BY DEF TookInv
  <2>4. \A i \in DOMAIN held[n] : held[n][i].type = "Datagram" => held[n][i] \in Message \cap B
    BY <2>2
  <2> HIDE DEF B
  <2>5. s.took \in Seq(B)
    BY <2>2, <2>3, <2>4, ReceivedFrom
  <2> HIDE DEF s
  <2>6. \A k \in Node : took'[k] \in Seq(B)
    BY <2>1, <2>2, <2>5 DEF TookInv, B
  <2> QED
    BY <2>6 DEF TookInv, B, Message
<1>3. CASE UNCHANGED vars
  BY <1>1, <1>3 DEF vars
<1>4. CASE Advertise \/ NextSlot
  BY <1>1, <1>4 DEF Advertise, NextSlot
<1>5. ASSUME NEW n \in Node, Step(n) PROVE TookInv'
  <2>1. took' = took \/ ClusterheadHear(n)
    BY <1>5 DEF Step, ClusterheadListen, ClusterheadSend, FollowerSend, FollowerListen,
                FollowerHear, TimeOut
  <2> QED
    BY <1>1, <1>2, <2>1
<1> QED
  BY <1>3, <1>4, <1>5 DEF Next

LEMMA InitTook == Init => TookInv
<1>1. <<>> \in Seq({m \in Message : m.type = "Datagram"})
  OBVIOUS
<1> QED
  BY <1>1 DEF Init, TookInv

LEMMA InitOnce == Init => OnceInv
<1> SUFFICES ASSUME Init PROVE OnceInv
  OBVIOUS
<1>1. \A n \in Node : tx[n] = <<>> /\ held[n] = <<>> /\ took[n] = <<>>
  BY DEF Init
<1>2. /\ \A n \in Node : Waiting[n] = {} /\ Taken[n] = {}
      /\ \A c \in Clusterhead : Arriving[c] = {}
  BY <1>1, NoData, ClusterheadRing DEF Waiting, Taken, Arriving
<1> QED
  BY <1>1, <1>2, NoData, ClusterheadRing DEF OnceInv, Placed

\* No clusterhead takes a datagram twice where no node reaches two clusterheads
\* nearer to the gateway, whatever is refused and sent again, delayed, left
\* over in a buffer or kept by a driver (flush, link_layer.cpp:273-299, with
\* do_clusterhead_recv).  Where one does, a refused flush is enough: both take
\* its datagram, both keep it for the next superframe, both forward it.
THEOREM ConvergecastAtMostOnce ==
    ASSUME OneUpstream
    PROVE  Spec => []AtMostOnce
<1>1. ASSUME TypeOK, FlowInv, SendInv, OnceInv, [Next]_vars PROVE OnceInv'
  <2>1. CASE UNCHANGED vars
    <3>1. \A c \in Clusterhead : Over(c) => Over(c)'
      BY <2>1 DEF vars, Over, Doing, ack_slot
    <3> QED
      BY <1>1, <2>1, <3>1, OnceStays DEF vars
  <2>2. ASSUME NEW n \in Node, Step(n) PROVE OnceInv'
    BY <1>1, <2>2, ClusterheadListenOnce, ClusterheadHearOnce, ClusterheadSendOnce,
       FollowerSendOnce, FollowerListenOnce, FollowerHearOnce, TimeOutOnce DEF Step
  <2> QED
    BY <1>1, <2>1, <2>2, AdvertiseOnce, NextSlotOnce DEF Next
<1>2. TookInv /\ OnceInv => AtMostOnce
  <2> SUFFICES ASSUME TookInv, OnceInv, NEW n \in Node,
                      NEW i \in DOMAIN took[n], NEW j \in DOMAIN took[n], took[n][i] = took[n][j]
               PROVE  i = j
    BY DEF AtMostOnce
  <2>1. took[n][i].type = "Datagram"
    <3> DEFINE B == {m \in Message : m.type = "Datagram"}
    <3>1. took[n] \in Seq(B) /\ \A m \in B : m.type = "Datagram"
      BY DEF TookInv
    <3> HIDE DEF B
    <3>2. took[n][i] \in B
      BY <3>1
    <3> QED
      BY <3>1, <3>2
  <2> QED
    BY <2>1 DEF OnceInv, Distinct
<1> QED
  BY <1>1, <1>2, InitFlow, InitSend, InitOnce, InitTook, NextFlow, NextSend, NextTook,
     ConvergecastTypeOK, PTL DEF Spec
-----------------------------------------------------------------------------
(* Acknowledgements, where the links are also the tree's in the other       *)
(* direction and the relative slots are leased.  First when a node's turn   *)
(* is: once a superframe, after its own window and before it listens.       *)

\* What a lease gives: a relative slot of the window but the first (the last is
\* also granted), and to each follower of a clusterhead its own.
Leased ==
    /\ \A f \in Node : Parent[f] # UNKNOWN_ADDR => Rel[f] \in 1 .. vtdma_window_size - 1
    /\ \A f, g \in Node :
          Parent[f] # UNKNOWN_ADDR /\ Parent[f] = Parent[g] /\ Rel[f] = Rel[g] => f = g

begun == frame * SUPERFRAME_SLOT_COUNT

LEMMA BegunIs ==
    ASSUME TypeOK
    PROVE  begun \in Nat /\ slot \in Nat /\ now = begun + slot
<1>1. frame \in Nat /\ slot \in Nat /\ SUPERFRAME_SLOT_COUNT \in Nat
  BY Windows, BoundAssumption DEF TypeOK
<1>2. frame * SUPERFRAME_SLOT_COUNT \in Nat
  BY <1>1
<1> QED
  BY <1>1, <1>2 DEF begun, now

LEMMA MineIsNat ==
    ASSUME TypeOK, NEW n \in Node
    PROVE  mine[n] \in Nat
<1>1. Time \subseteq Nat
  BY DEF Time
<1> QED
  BY <1>1 DEF TypeOK

\* A follower's turn is after its own window, and at the latest in the slot in
\* which its clusterhead answers.
LEMMA TurnSlots ==
    ASSUME Leased, NEW f \in Node, Parent[f] # UNKNOWN_ADDR
    PROVE  /\ Parent[f] \in Clusterhead /\ Parent[f] \in Node /\ Ring[Parent[f]] < Ring[f]
           /\ Rel[f] \in Nat /\ Rel[f] # 0 /\ Rel[f] <= vtdma_window_size - 1
           /\ my_slot(f) \in Nat /\ 1 < my_slot(f)
           /\ my_slot(f) = downstream_start_slot(Ring[Parent[f]]) + Rel[f]
           /\ ack_slot(Parent[f]) \in Nat /\ my_slot(f) <= ack_slot(Parent[f])
           /\ f \in Clusterhead => ack_slot(f) < downstream_start_slot(Ring[Parent[f]])
<1>1. Parent[f] \in Clusterhead /\ Parent[f] \in Node /\ Ring[Parent[f]] < Ring[f]
  BY TreeAssumption, RingAssumption
<1>2. Rel[f] \in 1 .. vtdma_window_size - 1 /\ vtdma_window_size \in Nat
  BY Windows DEF Leased
<1>3. downstream_start_slot(Ring[Parent[f]]) \in Nat /\ downstream_start_slot(Ring[Parent[f]]) >= 1
  <2> DEFINE r == Ring[Parent[f]]
             a == REUSE_DISTANCE - 1 - r
  <2>1. r \in Nat /\ r < REUSE_DISTANCE /\ REUSE_DISTANCE \in Nat
    BY <1>1, ClusterheadRing, SlotAssumption
  <2>2. r % REUSE_DISTANCE = r /\ a \in Nat
    BY <2>1
  <2>3. downstream_start_slot(r) = 1 + a * vtdma_window_size
    BY <2>2 DEF downstream_start_slot, ADV_SLOTS
  <2> HIDE DEF a
  <2>4. a * vtdma_window_size \in Nat
    BY <1>2, <2>2
  <2> QED
    BY <2>3, <2>4
<1>4. f \in Clusterhead => ack_slot(f) < downstream_start_slot(Ring[Parent[f]])
  <2> SUFFICES ASSUME f \in Clusterhead
               PROVE  ack_slot(f) < downstream_start_slot(Ring[Parent[f]])
    OBVIOUS
  <2>1. downstream_start_slot(Ring[f]) + vtdma_window_size
          <= downstream_start_slot(Ring[Parent[f]])
    BY <1>1, ClusterheadRing, LaterWindow
  <2> QED
    BY <1>2, <1>3, <2>1, ClusterheadRing
<1> QED
  BY <1>1, <1>2, <1>3, <1>4, ClusterheadRing DEF my_slot

\* Under a lease a node has one task in a slot, but for the follower that sends
\* and listens in the last slot of the window.
LEMMA PlanOne ==
    ASSUME Leased, NEW n \in Node, NEW s \in Nat, NEW p, p[n] # UNKNOWN_ADDR => Parent[n] # UNKNOWN_ADDR
    PROVE  LET relative == s - downstream_start_slot(Ring[n])
               c1 == n \in Clusterhead /\ relative \in 1 .. vtdma_window_size - 2
               c2 == n \in Clusterhead /\ s = ack_slot(n)
               c3 == p[n] # UNKNOWN_ADDR /\ s = my_slot(n)
               c4 == p[n] # UNKNOWN_ADDR /\ s = ack_slot(Parent[n])
           IN  \/ Plan(n, s, p) = <<>> /\ ~c1 /\ ~c2 /\ ~c3 /\ ~c4
               \/ Plan(n, s, p) = <<Task("clusterhead_recv", s)>> /\ c1 /\ ~c2 /\ ~c3 /\ ~c4
               \/ Plan(n, s, p) = <<Task("clusterhead_send", s)>> /\ c2 /\ ~c1 /\ ~c3 /\ ~c4
               \/ Plan(n, s, p) = <<Task("follower_send", s)>> /\ c3 /\ ~c1 /\ ~c2 /\ ~c4
               \/ Plan(n, s, p) = <<Task("follower_recv", s)>> /\ c4 /\ ~c1 /\ ~c2 /\ ~c3
               \/ /\ Plan(n, s, p) = <<Task("follower_send", s)>> \o <<Task("follower_recv", s)>>
                  /\ c3 /\ c4 /\ ~c1 /\ ~c2
<1> DEFINE relative == s - downstream_start_slot(Ring[n])
           c1 == n \in Clusterhead /\ relative \in 1 .. vtdma_window_size - 2
           c2 == n \in Clusterhead /\ s = ack_slot(n)
           c3 == p[n] # UNKNOWN_ADDR /\ s = my_slot(n)
           c4 == p[n] # UNKNOWN_ADDR /\ s = ack_slot(Parent[n])
<1>1. Plan(n, s, p) = (IF c1 THEN <<Task("clusterhead_recv", s)>> ELSE <<>>)
                        \o (IF c2 THEN <<Task("clusterhead_send", s)>> ELSE <<>>)
                        \o (IF c3 THEN <<Task("follower_send", s)>> ELSE <<>>)
                        \o (IF c4 THEN <<Task("follower_recv", s)>> ELSE <<>>)
  BY DEF Plan
<1>2. vtdma_window_size \in Nat
  BY Windows
<1>3. ~(c1 /\ c2)
  BY <1>2, ClusterheadRing
<1>5. c1 \/ c2 => s <= ack_slot(n) /\ n \in Clusterhead /\ ack_slot(n) \in Int
  BY <1>2, ClusterheadRing
<1>6. c3 \/ c4 => Parent[n] # UNKNOWN_ADDR /\ (n \in Clusterhead => ack_slot(n) < s)
  BY <1>2, <1>5, TurnSlots, ClusterheadRing
<1>7. ~((c1 \/ c2) /\ (c3 \/ c4))
  BY <1>5, <1>6
<1> HIDE DEF c1, c2, c3, c4
<1>8. \A t : <<t>> \o <<>> = <<t>> /\ <<>> \o <<t>> = <<t>>
  OBVIOUS
<1>9. <<>> \o <<>> = <<>>
  OBVIOUS
<1>10. \/ Plan(n, s, p) = <<>> /\ ~c1 /\ ~c2 /\ ~c3 /\ ~c4
       \/ Plan(n, s, p) = <<Task("clusterhead_recv", s)>> /\ c1 /\ ~c2 /\ ~c3 /\ ~c4
       \/ Plan(n, s, p) = <<Task("clusterhead_send", s)>> /\ c2 /\ ~c1 /\ ~c3 /\ ~c4
       \/ Plan(n, s, p) = <<Task("follower_send", s)>> /\ c3 /\ ~c1 /\ ~c2 /\ ~c4
       \/ Plan(n, s, p) = <<Task("follower_recv", s)>> /\ c4 /\ ~c1 /\ ~c2 /\ ~c3
       \/ /\ Plan(n, s, p) = <<Task("follower_send", s)>> \o <<Task("follower_recv", s)>>
          /\ c3 /\ c4 /\ ~c1 /\ ~c2
  BY <1>1, <1>3, <1>7, <1>8, <1>9, Zenon
<1> QED
  BY <1>10 DEF c1, c2, c3, c4

-----------------------------------------------------------------------------
(* When a follower's turn is: it sends before it listens.                   *)
Waits(q) ==
    \A i \in DOMAIN q : q[i].do \in {"follower_recv", "follower_hear"} => \E j \in Sends(q) : j < i

\* A node has had its turn in this superframe, or it has heard of no turn yet
\* and its turn comes before it listens for an answer.
Turn(f) ==
    \/ /\ mine[f] > begun /\ Sends(todo[f]) = {} /\ Parent[f] # UNKNOWN_ADDR
       /\ mine[f] = begun + my_slot(f) \/ mine[f] = begun + my_slot(f) + 1
    \/ /\ mine[f] <= begun /\ Waits(todo[f]) /\ (slot # 0 => acks[f][0] = 0)
       /\ slot # 0 /\ parent[f] # UNKNOWN_ADDR /\ my_slot(f) <= slot => Sends(todo[f]) # {}

TurnInv == \A f \in Node : Turn(f)

LEMMA TailWaits ==
    ASSUME NEW S, NEW q \in Seq(S), q # <<>>, Head(q).do # "follower_send"
    PROVE  /\ Sends(Tail(q)) = {} <=> Sends(q) = {}
           /\ Waits(q) => Waits(Tail(q))
<1>1. /\ Len(q) \in Nat /\ DOMAIN q = 1 .. Len(q) /\ DOMAIN Tail(q) = 1 .. Len(q) - 1
      /\ \A i \in DOMAIN Tail(q) : Tail(q)[i] = q[i + 1]
      /\ q[1].do # "follower_send"
  OBVIOUS
<1>2. \A i \in Sends(Tail(q)) : i + 1 \in Sends(q)
  BY <1>1 DEF Sends
<1>3. \A j \in Sends(q) : j - 1 \in Sends(Tail(q)) /\ j \in Nat
  <2> SUFFICES ASSUME NEW j \in Sends(q) PROVE j - 1 \in Sends(Tail(q)) /\ j \in Nat
    OBVIOUS
  <2>1. j \in 1 .. Len(q) /\ q[j].do = "follower_send"
    BY <1>1 DEF Sends
  <2>2. j # 1
    BY <1>1, <2>1
  <2>3. j - 1 \in DOMAIN Tail(q) /\ j - 1 + 1 = j
    BY <1>1, <2>1, <2>2
  <2> QED
    BY <1>1, <2>1, <2>3 DEF Sends
<1>4. ASSUME Waits(q), NEW i \in DOMAIN Tail(q),
             Tail(q)[i].do \in {"follower_recv", "follower_hear"}
      PROVE  \E j \in Sends(Tail(q)) : j < i
  <2>1. i \in Nat /\ i + 1 \in DOMAIN q /\ Tail(q)[i] = q[i + 1]
    BY <1>1
  <2>2. PICK j \in Sends(q) : j < i + 1
    BY <1>4, <2>1 DEF Waits
  <2>3. j - 1 \in Sends(Tail(q)) /\ j - 1 < i
    BY <1>3, <2>1, <2>2
  <2> QED
    BY <2>3
<1> QED
  BY <1>2, <1>3, <1>4 DEF Waits

LEMMA BeginWaits ==
    ASSUME NEW q \in Seq(Task0), q # <<>>, q[1].do # "follower_send",
           NEW d \in Duties, d # "follower_send", d = "follower_hear" => q[1].do = "follower_recv",
           d # "follower_recv"
    PROVE  /\ Sends([q EXCEPT ![1].do = d]) = Sends(q)
           /\ Waits(q) => Waits([q EXCEPT ![1].do = d])
<1> DEFINE r == [q EXCEPT ![1].do = d]
<1>1. 1 \in DOMAIN q /\ q[1] \in Task0
  OBVIOUS
<1>2. DOMAIN r = DOMAIN q /\ r[1].do = d /\ \A i \in DOMAIN q : i # 1 => r[i] = q[i]
  BY <1>1 DEF Task0
<1> HIDE DEF r
<1>3. Sends(r) = Sends(q)
  <2>1. \A i \in DOMAIN q : r[i].do = "follower_send" <=> q[i].do = "follower_send"
    BY <1>2
  <2> QED
    BY <1>2, <2>1 DEF Sends
<1>4. \A i \in DOMAIN q : r[i].do \in {"follower_recv", "follower_hear"}
                            => q[i].do \in {"follower_recv", "follower_hear"}
  BY <1>2
<1>5. Waits(q) => Waits(r)
  BY <1>2, <1>3, <1>4 DEF Waits
<1> QED
  BY <1>3, <1>5 DEF r

LEMMA TurnStays ==
    ASSUME TypeOK, TurnInv, NEW n \in Node, frame' = frame, slot' = slot, mine' = mine,
           \A m \in Node : m # n =>
               todo'[m] = todo[m] /\ acks'[m][0] = acks[m][0] /\ parent'[m] = parent[m],
           Sends(todo'[n]) = {} <=> Sends(todo[n]) = {},
           Waits(todo[n]) => Waits(todo'[n]),
           mine[n] <= begun => acks'[n][0] = acks[n][0] /\ parent'[n] = parent[n]
    PROVE  TurnInv'
<1>1. begun' = begun /\ \A m \in Node : my_slot(m)' = my_slot(m)
  BY DEF begun, my_slot
<1>2. \A m \in Node : Sends(todo[m])' = Sends(todo'[m]) /\ Waits(todo[m])' = Waits(todo'[m])
  BY DEF Sends, Waits
<1> SUFFICES ASSUME NEW m \in Node PROVE Turn(m)'
  BY DEF TurnInv
<1>3. Turn(m)
  BY DEF TurnInv
<1>4. CASE m # n
  BY <1>1, <1>2, <1>3, <1>4 DEF Turn
<1>5. CASE m = n
  BY <1>1, <1>2, <1>3, <1>5 DEF Turn
<1> QED
  BY <1>4, <1>5

LEMMA DoneTurn ==
    ASSUME TypeOK, TurnInv, NEW n \in Node, todo[n] # <<>>, Done(n),
           Head(todo[n]).do # "follower_send",
           frame' = frame, slot' = slot, mine' = mine,
           \A m \in Node : m # n => acks'[m][0] = acks[m][0] /\ parent'[m] = parent[m],
           mine[n] <= begun => acks'[n][0] = acks[n][0] /\ parent'[n] = parent[n]
    PROVE  TurnInv'
<1>1. todo[n] \in Seq(Task0)
  BY TodoParts
<1>2. todo'[n] = Tail(todo[n]) /\ \A m \in Node : m # n => todo'[m] = todo[m]
  BY DEF Done, TypeOK
<1>3. /\ Sends(todo'[n]) = {} <=> Sends(todo[n]) = {}
      /\ Waits(todo[n]) => Waits(todo'[n])
  BY <1>1, <1>2, TailWaits
<1> QED
  BY <1>2, <1>3, TurnStays

LEMMA ListenTurn ==
    ASSUME TypeOK, TurnInv, NEW n \in Node, todo[n] # <<>>, NEW d, Listen(n, d),
           \/ d = "clusterhead_hear" /\ Doing(n, "clusterhead_recv")
           \/ d = "follower_hear" /\ Doing(n, "follower_recv"),
           frame' = frame, slot' = slot, mine' = mine, acks' = acks, parent' = parent
    PROVE  TurnInv'
<1>1. todo[n] \in Seq(Task0) /\ todo[n][1] = Head(todo[n])
  BY TodoParts
<1>2. /\ todo'[n] = [todo[n] EXCEPT ![1].do = d]
      /\ \A m \in Node : m # n => todo'[m] = todo[m]
  BY DEF Listen, TypeOK
<1>3. d \in Duties /\ todo[n][1].do # "follower_send"
  BY <1>1 DEF Doing, Duties
<1>4. d = "follower_hear" => todo[n][1].do = "follower_recv"
  BY <1>1 DEF Doing
<1>5. d # "follower_send" /\ d # "follower_recv"
  OBVIOUS
<1>6. /\ Sends(todo'[n]) = Sends(todo[n])
      /\ Waits(todo[n]) => Waits(todo'[n])
  BY <1>1, <1>2, <1>3, <1>4, <1>5, BeginWaits
<1> QED
  BY <1>2, <1>6, TurnStays

\* A node that listens for its answer has had its turn.
LEMMA HearingHadTurn ==
    ASSUME TypeOK, TurnInv, NEW n \in Node,
           Doing(n, "follower_hear") \/ Doing(n, "follower_recv")
    PROVE  /\ mine[n] > begun /\ Sends(todo[n]) = {} /\ Parent[n] # UNKNOWN_ADDR
           /\ mine[n] = begun + my_slot(n) \/ mine[n] = begun + my_slot(n) + 1
<1>1. /\ todo[n] \in Seq(Task0) /\ 1 \in DOMAIN todo[n]
      /\ todo[n][1].do \in {"follower_recv", "follower_hear"}
  BY TodoParts DEF Doing
<1>2. ~ \E j \in Sends(todo[n]) : j < 1
  BY <1>1 DEF Sends
<1>3. ~ Waits(todo[n])
  BY <1>1, <1>2 DEF Waits
<1> QED
  BY <1>3 DEF TurnInv, Turn

LEMMA FollowerSendTurn ==
    ASSUME TypeOK, FlowInv, SendInv, TurnInv, NEW n \in Node, FollowerSend(n)
    PROVE  TurnInv'
<1>1. /\ todo[n] # <<>> /\ Head(todo[n]).do = "follower_send" /\ Done(n)
      /\ frame' = frame /\ slot' = slot /\ mine' = [mine EXCEPT ![n] = now]
      /\ acks' = acks /\ parent' = parent
  BY DEF FollowerSend, Doing
<1>2. begun' = begun /\ \A m \in Node : my_slot(m)' = my_slot(m)
  BY <1>1 DEF begun, my_slot
<1>3. /\ todo'[n] = Tail(todo[n]) /\ mine'[n] = now
      /\ \A m \in Node : m # n => todo'[m] = todo[m] /\ mine'[m] = mine[m]
  BY <1>1 DEF Done, TypeOK
<1>4. Sends(todo'[n]) = {}
  <2>1. todo[n] \in Seq(Task0) /\ SendsOnce(todo[n])
    BY TodoParts DEF SendInv
  <2> QED
    BY <1>1, <1>3, <2>1, TailSends
<1>5. my_slot(n) = slot \/ my_slot(n) = slot - 1
  <2>1. 1 \in Sends(todo[n]) /\ todo[n][1].slot \in {slot, slot - 1}
    BY <1>1, TodoParts DEF Sends
  <2> QED
    BY <2>1 DEF SendInv
<1>6. Parent[n] # UNKNOWN_ADDR /\ slot # 0
  BY <1>1, FirstTask DEF Doing, FlowInv
<1>7. now > begun /\ (now = begun + my_slot(n) \/ now = begun + my_slot(n) + 1)
  BY <1>5, <1>6, BegunIs
<1>8. \A m \in Node : Sends(todo[m])' = Sends(todo'[m]) /\ Waits(todo[m])' = Waits(todo'[m])
  BY DEF Sends, Waits
<1> SUFFICES ASSUME NEW m \in Node PROVE Turn(m)'
  BY DEF TurnInv
<1>9. CASE m # n
  <2>1. Turn(m)
    BY DEF TurnInv
  <2> QED
    BY <1>1, <1>2, <1>3, <1>8, <1>9, <2>1 DEF Turn
<1>10. CASE m = n
  BY <1>2, <1>3, <1>4, <1>6, <1>7, <1>8, <1>10 DEF Turn
<1> QED
  BY <1>9, <1>10

\* The boundary of a slot: a late node takes one task along.
LEMMA NextTodo ==
    ASSUME TypeOK, NextSlot, NEW n \in Node,
           todo' = [k \in Node |-> Carried(k) \o Plan(k, slot + 1, parent)]
    PROVE  LET p == Plan(n, slot + 1, parent)
           IN  \/ Carried(n) = <<>> /\ todo'[n] = p
               \/ /\ n \in Late /\ todo[n] # <<>> /\ todo[n][1].slot = slot
                  /\ Carried(n) = todo[n] /\ todo[n] = <<todo[n][1]>>
                  /\ todo'[n] = <<todo[n][1]>> \o p
<1> DEFINE p == Plan(n, slot + 1, parent)
<1>1. todo'[n] = Carried(n) \o p
  OBVIOUS
<1>2. p \in Seq([do : Duties, slot : {slot + 1}])
  BY PlanType
<1> HIDE DEF p
<1>3. <<>> \o p = p
  BY <1>2
<1>4. ASSUME n \in Late, todo[n] # <<>>
      PROVE  todo[n] = <<todo[n][1]>> /\ todo[n][1].slot = slot /\ Carried(n) = todo[n]
  <2>1. Len(todo[n]) <= 1 /\ todo[n] \in Seq(Task0) /\ Head(todo[n]).slot = slot
    BY <1>4, TodoParts DEF NextSlot
  <2> QED
    BY <1>4, <2>1 DEF Carried
<1>5. Carried(n) = <<>> \/ (n \in Late /\ todo[n] # <<>>)
  BY DEF Carried
<1>6. \/ Carried(n) = <<>> /\ todo'[n] = p
      \/ /\ n \in Late /\ todo[n] # <<>> /\ todo[n][1].slot = slot
         /\ Carried(n) = todo[n] /\ todo[n] = <<todo[n][1]>>
         /\ todo'[n] = <<todo[n][1]>> \o p
  BY <1>1, <1>3, <1>4, <1>5, Zenon
<1> QED
  BY <1>6 DEF p

\* A turn that has come is not lost at the boundary.
LEMMA TurnCarried ==
    ASSUME Leased, TypeOK, FlowInv, SendInv, TurnInv, NextSlot, NEW n \in Node,
           mine[n] <= begun, parent[n] # UNKNOWN_ADDR, my_slot(n) <= slot
    PROVE  todo[n] # <<>> /\ todo[n][1].do = "follower_send" /\ n \in Late
<1>1. Sends(todo[n]) # {}
  <2>1. slot # 0 /\ mine[n] \in Nat /\ begun \in Nat
    BY BegunIs, MineIsNat DEF NextSlot
  <2> QED
    BY <2>1 DEF TurnInv, Turn
<1>2. PICK j \in Sends(todo[n]) : TRUE
  BY <1>1
<1>3. /\ j \in DOMAIN todo[n] /\ todo[n] \in Seq(Task0) /\ todo[n] # <<>>
      /\ todo[n][j].do = "follower_send" /\ todo[n][j].slot = my_slot(n)
  BY <1>2, TodoParts DEF Sends, SendInv
<1>4. Parent[n] # UNKNOWN_ADDR
  BY DEF FlowInv
<1>5. ~Listening(n)
  <2> SUFFICES ASSUME Listening(n) PROVE FALSE
    OBVIOUS
  <2>1. ~Doing(n, "follower_hear")
    BY BegunIs, HearingHadTurn DEF TypeOK, Time
  <2>2. Doing(n, "clusterhead_hear")
    BY <2>1 DEF Listening
  <2>3. 1 \in DOMAIN todo[n] /\ todo[n][1].do = "clusterhead_hear" /\ todo[n][1].slot = slot
    BY <2>2, TodoParts DEF Doing, NextSlot
  <2>4. n \in Clusterhead /\ slot < ack_slot(n)
    BY <2>3 DEF FlowInv, Dutiful
  <2> QED
    BY <1>4, <2>4, TurnSlots, BegunIs, ClusterheadRing
<1>6. n \in Late /\ Len(todo[n]) <= 1
  BY <1>3, <1>5 DEF NextSlot
<1>7. j = 1
  BY <1>3, <1>6
<1> QED
  BY <1>3, <1>6, <1>7

\* What two tasks make of a queue.
LEMMA TwoTasks ==
    ASSUME NEW u, NEW v
    PROVE  /\ <<u>> \o <<v>> = <<u, v>> /\ <<u>> \o <<>> = <<u>>
           /\ Sends(<<u, v>>) = {} <=> u.do # "follower_send" /\ v.do # "follower_send"
           /\ u.do \notin {"follower_recv", "follower_hear"}
               /\ (v.do \in {"follower_recv", "follower_hear"} => u.do = "follower_send")
                 => Waits(<<u, v>>)
<1> DEFINE q == <<u, v>>
<1>1. DOMAIN q = {1, 2} /\ q[1] = u /\ q[2] = v
  OBVIOUS
<1>2. <<u>> \o <<v>> = q
  <2>1. <<u>> \in Seq({u, v}) /\ <<v>> \in Seq({u, v}) /\ q \in Seq({u, v})
    OBVIOUS
  <2>2. Len(<<u>> \o <<v>>) = 2 /\ <<u>> \o <<v>> \in Seq({u, v}) /\ Len(q) = 2
    BY <2>1
  <2>3. (<<u>> \o <<v>>)[1] = u /\ (<<u>> \o <<v>>)[2] = v
    BY <2>1
  <2>4. \A i \in 1 .. 2 : (<<u>> \o <<v>>)[i] = q[i]
    BY <1>1, <2>3
  <2> HIDE DEF q
  <2> QED
    BY <2>1, <2>2, <2>4
<1>3. <<u>> \o <<>> = <<u>>
  OBVIOUS
<1> HIDE DEF q
<1>4. Sends(q) = {} <=> u.do # "follower_send" /\ v.do # "follower_send"
  BY <1>1 DEF Sends
<1>5. u.do = "follower_send" => 1 \in Sends(q)
  BY <1>1 DEF Sends
<1>6. ASSUME u.do \notin {"follower_recv", "follower_hear"},
             v.do \in {"follower_recv", "follower_hear"} => u.do = "follower_send"
      PROVE  Waits(q)
  <2>1. ASSUME NEW i \in DOMAIN q, q[i].do \in {"follower_recv", "follower_hear"}
        PROVE  \E j \in Sends(q) : j < i
    <3>1. i = 2 /\ u.do = "follower_send"
      BY <1>1, <1>6, <2>1
    <3> QED
      BY <1>5, <3>1
  <2> QED
    BY <2>1 DEF Waits
<1> QED
  BY <1>2, <1>3, <1>4, <1>6 DEF q

\* What a task carried into the last slot of the window makes of its two tasks.
LEMMA ThreeTasks ==
    ASSUME NEW t, t.do \notin {"follower_recv", "follower_hear"},
           NEW u, u.do = "follower_send", NEW v
    PROVE  /\ Sends(<<u>> \o <<v>>) # {} /\ Waits(<<u>> \o <<v>>)
           /\ Sends(<<t>> \o (<<u>> \o <<v>>)) # {} /\ Waits(<<t>> \o (<<u>> \o <<v>>))
<1> DEFINE q == <<t, u, v>>
<1>1. <<u>> \o <<v>> = <<u, v>>
  BY TwoTasks
<1>2. Sends(<<u, v>>) # {} /\ Waits(<<u, v>>)
  <2>1. /\ Sends(<<u, v>>) = {} <=> u.do # "follower_send" /\ v.do # "follower_send"
        /\ u.do \notin {"follower_recv", "follower_hear"}
            /\ (v.do \in {"follower_recv", "follower_hear"} => u.do = "follower_send")
              => Waits(<<u, v>>)
    BY TwoTasks
  <2> QED
    BY <2>1
<1>3. <<t>> \o <<u, v>> = q
  <2>1. <<t>> \in Seq({t, u, v}) /\ <<u, v>> \in Seq({t, u, v}) /\ q \in Seq({t, u, v})
    OBVIOUS
  <2>2. Len(<<t>> \o <<u, v>>) = 3 /\ <<t>> \o <<u, v>> \in Seq({t, u, v}) /\ Len(q) = 3
    BY <2>1
  <2>3. /\ (<<t>> \o <<u, v>>)[1] = t /\ (<<t>> \o <<u, v>>)[2] = u
        /\ (<<t>> \o <<u, v>>)[3] = v
    BY <2>1
  <2>4. \A i \in 1 .. 3 : (<<t>> \o <<u, v>>)[i] = q[i]
    BY <2>3
  <2> HIDE DEF q
  <2> QED
    BY <2>1, <2>2, <2>4
<1>4. DOMAIN q = 1 .. 3 /\ q[1] = t /\ q[2] = u /\ q[3] = v
  OBVIOUS
<1> HIDE DEF q
<1>5. 2 \in Sends(q)
  BY <1>4 DEF Sends
<1>6. ASSUME NEW i \in DOMAIN q, q[i].do \in {"follower_recv", "follower_hear"} PROVE 2 < i
  BY <1>4, <1>6
<1>7. Waits(q)
  BY <1>5, <1>6 DEF Waits
<1> QED
  BY <1>1, <1>2, <1>3, <1>5, <1>7

LEMMA NextSlotTurn == Leased /\ TypeOK /\ FlowInv /\ SendInv /\ TurnInv /\ NextSlot => TurnInv'
<1> SUFFICES ASSUME Leased, TypeOK, FlowInv, SendInv, TurnInv, NextSlot PROVE TurnInv'
  OBVIOUS
<1>1. mine' = mine /\ acks' = acks /\ parent' = parent /\ slot # 0
  BY DEF NextSlot
<1>2. \A m \in Node : Sends(todo[m])' = Sends(todo'[m]) /\ Waits(todo[m])' = Waits(todo'[m])
  BY DEF Sends, Waits
<1>3. \A m \in Node : my_slot(m)' = my_slot(m)
  BY DEF my_slot
<1>4. \A m \in Node : mine[m] \in Nat /\ mine[m] <= begun + slot
  <2> SUFFICES ASSUME NEW m \in Node PROVE mine[m] \in Nat /\ mine[m] <= begun + slot
    OBVIOUS
  <2>1. mine[m] \in Nat
    BY MineIsNat
  <2> QED
    BY <2>1, BegunIs DEF SendInv
<1>5. begun \in Nat /\ slot \in Nat
  BY BegunIs
<1>6. CASE /\ slot' = slot + 1 /\ frame' = frame
           /\ todo' = [n \in Node |-> Carried(n) \o Plan(n, slot + 1, parent)]
  <2> SUFFICES ASSUME NEW n \in Node PROVE Turn(n)'
    BY DEF TurnInv
  <2> DEFINE p == Plan(n, slot + 1, parent)
             t == todo[n][1]
  <2>1. begun' = begun
    BY <1>6 DEF begun
  <2>2. parent[n] # UNKNOWN_ADDR => Parent[n] # UNKNOWN_ADDR
    BY DEF FlowInv
  <2>3. \/ p = <<>> /\ ~(parent[n] # UNKNOWN_ADDR /\ slot + 1 = my_slot(n))
        \/ \E d \in {"clusterhead_recv", "clusterhead_send"} :
              p = <<Task(d, slot + 1)>> /\ ~(parent[n] # UNKNOWN_ADDR /\ slot + 1 = my_slot(n))
        \/ /\ p = <<Task("follower_send", slot + 1)>>
           /\ parent[n] # UNKNOWN_ADDR /\ slot + 1 = my_slot(n)
        \/ /\ p = <<Task("follower_recv", slot + 1)>>
           /\ parent[n] # UNKNOWN_ADDR /\ slot + 1 = ack_slot(Parent[n])
           /\ slot + 1 # my_slot(n)
        \/ /\ p = <<Task("follower_send", slot + 1)>> \o <<Task("follower_recv", slot + 1)>>
           /\ parent[n] # UNKNOWN_ADDR /\ slot + 1 = my_slot(n)
    <3>1. slot + 1 \in Nat
      BY <1>5
    <3> QED
      BY <2>2, <3>1, PlanOne
  <2>4. \/ Carried(n) = <<>> /\ todo'[n] = p
        \/ /\ n \in Late /\ todo[n] # <<>> /\ Carried(n) = todo[n] /\ todo[n] = <<t>>
           /\ todo'[n] = <<t>> \o p
    BY <1>6, NextTodo
  <2> HIDE DEF p, t
  <2>5. /\ Sends(<<>>) = {} /\ Waits(<<>>)
        /\ \A u : /\ Sends(<<u>>) = {} <=> u.do # "follower_send"
                  /\ Waits(<<u>>) <=> u.do \notin {"follower_recv", "follower_hear"}
    <3>1. Sends(<<>>) = {} /\ Waits(<<>>)
      BY DEF Sends, Waits
    <3>2. ASSUME NEW u
          PROVE  /\ Sends(<<u>>) = {} <=> u.do # "follower_send"
                 /\ Waits(<<u>>) <=> u.do \notin {"follower_recv", "follower_hear"}
      <4>1. DOMAIN <<u>> = {1} /\ <<u>>[1] = u
        OBVIOUS
      <4>2. \A j \in Sends(<<u>>) : j = 1
        BY <4>1 DEF Sends
      <4> QED
        BY <4>1, <4>2 DEF Sends, Waits
    <3> QED
      BY <3>1, <3>2
  <2>6. ASSUME NEW u, NEW v
        PROVE  /\ <<u>> \o <<v>> = <<u, v>> /\ <<u>> \o <<>> = <<u>>
               /\ Sends(<<u, v>>) = {} <=> u.do # "follower_send" /\ v.do # "follower_send"
               /\ u.do \notin {"follower_recv", "follower_hear"}
                   /\ (v.do \in {"follower_recv", "follower_hear"} => u.do = "follower_send")
                     => Waits(<<u, v>>)
    BY TwoTasks
  <2>9. ASSUME NEW u, NEW v, NEW w PROVE <<u>> \o <<v>> # <<w>> /\ <<w>> # <<>>
    <3>1. Len(<<u, v>>) = 2 /\ Len(<<w>>) = 1
      OBVIOUS
    <3> QED
      BY <2>6, <3>1
  <2>7. CASE mine[n] > begun
    <3>1. /\ Sends(todo[n]) = {} /\ Parent[n] # UNKNOWN_ADDR
          /\ mine[n] = begun + my_slot(n) \/ mine[n] = begun + my_slot(n) + 1
      BY <1>4, <1>5, <2>7 DEF TurnInv, Turn
    <3>2. my_slot(n) \in Nat
      BY <3>1, TurnSlots
    <3>3. slot + 1 # my_slot(n)
      BY <1>4, <1>5, <3>1, <3>2
    <3>4. Sends(p) = {}
      BY <2>3, <2>5, <3>3 DEF Task
    <3>5. Sends(todo'[n]) = {}
      <4>1. CASE todo'[n] = p
        BY <3>4, <4>1
      <4>2. CASE todo[n] = <<t>> /\ todo'[n] = <<t>> \o p
        <5>1. t.do # "follower_send"
          BY <2>5, <3>1, <4>2
        <5>2. p = <<>> \/ \E u : p = <<u>>
          BY <2>3, <3>3
        <5> QED
          BY <2>5, <2>6, <3>4, <4>2, <5>1, <5>2
      <4> QED
        BY <2>4, <4>1, <4>2
    <3> QED
      BY <1>1, <1>2, <1>3, <2>1, <2>7, <3>1, <3>5 DEF Turn
  <2>8. CASE mine[n] <= begun
    <3>1. parent[n] # UNKNOWN_ADDR /\ my_slot(n) <= slot
            => todo[n] # <<>> /\ t.do = "follower_send" /\ n \in Late
      BY <2>8, TurnCarried DEF t
    <3>2. acks[n][0] = 0
      BY <1>1, <1>4, <1>5, <2>8 DEF TurnInv, Turn
    <3>3. todo[n] # <<>> => t.do \notin {"follower_recv", "follower_hear"}
      <4>1. ~Doing(n, "follower_hear") /\ ~Doing(n, "follower_recv")
        BY <1>4, <1>5, <2>8, HearingHadTurn
      <4> QED
        BY <4>1, TodoParts DEF Doing, t
    <3>4. /\ parent[n] # UNKNOWN_ADDR => my_slot(n) \in Nat /\ my_slot(n) <= ack_slot(Parent[n])
                                          /\ ack_slot(Parent[n]) \in Nat
      BY <2>2, TurnSlots
    <3>5. \/ p = <<>>
          \/ \E u : p = <<u>>
          \/ \E u, v : /\ p = <<u>> \o <<v>> /\ u.do = "follower_send"
                       /\ parent[n] # UNKNOWN_ADDR /\ slot + 1 = my_slot(n)
      <4>1. CASE /\ p = <<Task("follower_send", slot + 1)>> \o <<Task("follower_recv", slot + 1)>>
                 /\ parent[n] # UNKNOWN_ADDR /\ slot + 1 = my_slot(n)
        <5>1. Task("follower_send", slot + 1).do = "follower_send"
          BY DEF Task
        <5> QED
          BY <4>1, <5>1
      <4>2. CASE \E d : p = <<Task(d, slot + 1)>>
        BY <4>2
      <4>3. CASE p = <<>>
        BY <4>3
      <4>4. ~ (/\ p = <<Task("follower_send", slot + 1)>> \o <<Task("follower_recv", slot + 1)>>
               /\ parent[n] # UNKNOWN_ADDR /\ slot + 1 = my_slot(n))
              => p = <<>> \/ \E d : p = <<Task(d, slot + 1)>>
        BY <2>3, Zenon
      <4> QED
        BY <4>1, <4>2, <4>3, <4>4
    <3>6. CASE Carried(n) = <<>> /\ todo'[n] = p
      <4>1. ~(parent[n] # UNKNOWN_ADDR /\ my_slot(n) <= slot)
        BY <3>1, <3>6 DEF Carried
      <4>2. ~(/\ parent[n] # UNKNOWN_ADDR /\ slot + 1 = ack_slot(Parent[n])
              /\ slot + 1 # my_slot(n))
        BY <1>5, <3>4, <4>1
      <4>5. ASSUME NEW u, NEW v, u.do = "follower_send"
            PROVE  Sends(<<u>> \o <<v>>) # {} /\ Waits(<<u>> \o <<v>>)
        <5>1. PICK w : w = u
          OBVIOUS
        <5> QED
          BY <4>5, <5>1, ThreeTasks
      <4>3. Waits(todo'[n])
        BY <2>3, <2>5, <3>6, <4>2, <4>5 DEF Task
      <4>4. parent[n] # UNKNOWN_ADDR /\ my_slot(n) <= slot + 1 => Sends(todo'[n]) # {}
        <5>1. parent[n] # UNKNOWN_ADDR /\ my_slot(n) <= slot + 1 => slot + 1 = my_slot(n)
          BY <1>5, <3>4, <4>1
        <5>2. Task("follower_send", slot + 1).do = "follower_send"
          BY DEF Task
        <5>3. parent[n] # UNKNOWN_ADDR /\ slot + 1 = my_slot(n) =>
                \/ p = <<Task("follower_send", slot + 1)>>
                \/ p = <<Task("follower_send", slot + 1)>> \o <<Task("follower_recv", slot + 1)>>
          BY <2>3
        <5> QED
          BY <2>5, <3>6, <4>5, <5>1, <5>2, <5>3
      <4> QED
        BY <1>1, <1>2, <1>3, <1>6, <2>1, <2>8, <3>2, <4>3, <4>4 DEF Turn
    <3>7. CASE todo[n] # <<>> /\ todo[n] = <<t>> /\ todo'[n] = <<t>> \o p
      <4>1. CASE p = <<>>
        <5>1. todo'[n] = <<t>>
          BY <2>6, <3>7, <4>1
        <5>2. Waits(todo'[n])
          BY <2>5, <3>3, <3>7, <5>1
        <5>3. parent[n] # UNKNOWN_ADDR /\ my_slot(n) <= slot + 1 => Sends(todo'[n]) # {}
          BY <1>5, <2>3, <2>5, <3>1, <3>4, <4>1, <5>1
        <5> QED
          BY <1>1, <1>2, <1>3, <1>6, <2>1, <2>8, <3>2, <5>2, <5>3 DEF Turn
      <4>2. ASSUME NEW u, p = <<u>> PROVE Turn(n)'
        <5>1. todo'[n] = <<t, u>>
          BY <2>6, <3>7, <4>2
        <5>2. u.do \in {"follower_recv", "follower_hear"} => t.do = "follower_send"
          <6>1. u.do \in {"follower_recv", "follower_hear"}
                  => /\ parent[n] # UNKNOWN_ADDR /\ slot + 1 = ack_slot(Parent[n])
                     /\ slot + 1 # my_slot(n)
            BY <2>3, <2>9, <4>2 DEF Task
          <6> QED
            BY <1>5, <3>1, <3>4, <6>1
        <5>3. Waits(todo'[n])
          BY <2>6, <3>3, <3>7, <5>1, <5>2
        <5>4. parent[n] # UNKNOWN_ADDR /\ my_slot(n) <= slot + 1
                => t.do = "follower_send" \/ u.do = "follower_send"
          BY <1>5, <2>3, <2>9, <3>1, <3>4, <4>2 DEF Task
        <5>5. parent[n] # UNKNOWN_ADDR /\ my_slot(n) <= slot + 1 => Sends(todo'[n]) # {}
          BY <2>6, <5>1, <5>4
        <5> QED
          BY <1>1, <1>2, <1>3, <1>6, <2>1, <2>8, <3>2, <5>3, <5>5 DEF Turn
      <4>3. ASSUME NEW u, NEW v, p = <<u>> \o <<v>>, u.do = "follower_send" PROVE Turn(n)'
        <5>1. Sends(todo'[n]) # {} /\ Waits(todo'[n])
          BY <3>3, <3>7, <4>3, ThreeTasks
        <5> QED
          BY <1>1, <1>2, <1>3, <1>6, <2>1, <2>8, <3>2, <5>1 DEF Turn
      <4> QED
        BY <3>5, <4>1, <4>2, <4>3
    <3> QED
      BY <2>4, <3>6, <3>7
  <2> QED
    BY <1>4, <1>5, <2>7, <2>8
<1>7. CASE /\ slot' = 0 /\ frame' = frame + 1 /\ todo' = [n \in Node |-> <<>>]
           /\ ~(slot + 1 < SUPERFRAME_SLOT_COUNT)
  <2> SUFFICES ASSUME NEW n \in Node PROVE Turn(n)'
    BY DEF TurnInv
  <2>1. begun' = begun + SUPERFRAME_SLOT_COUNT /\ slot <= SUPERFRAME_SLOT_COUNT - 1
        /\ SUPERFRAME_SLOT_COUNT \in Nat
    <3>1. frame \in Int /\ SUPERFRAME_SLOT_COUNT \in Nat
      BY Windows DEF TypeOK
    <3>2. (frame + 1) * SUPERFRAME_SLOT_COUNT
            = frame * SUPERFRAME_SLOT_COUNT + SUPERFRAME_SLOT_COUNT
      BY <3>1
    <3> QED
      BY <1>7, <3>1, <3>2 DEF begun, TypeOK
  <2>2. mine[n] <= begun'
    BY <1>4, <1>5, <2>1
  <2>3. todo'[n] = <<>> /\ Waits(<<>>)
    BY <1>7 DEF Waits
  <2> QED
    BY <1>1, <1>2, <1>7, <2>2, <2>3 DEF Turn
<1> QED
  BY <1>6, <1>7 DEF NextSlot

LEMMA AdvertiseTurn == Leased /\ TypeOK /\ FlowInv /\ SendInv /\ Advertise => TurnInv'
<1> SUFFICES ASSUME Leased, TypeOK, FlowInv, SendInv, Advertise, NEW n \in Node PROVE Turn(n)'
  BY DEF TurnInv
<1>1. /\ slot = 0 /\ slot' = 1 /\ frame' = frame /\ mine' = mine
      /\ todo'[n] = Plan(n, 1, parent') /\ acks'[n] = [i \in DOMAIN acks[n] |-> 0]
  BY DEF Advertise, ADV_SLOTS
<1>2. acks'[n][0] = 0
  BY <1>1, Windows DEF TypeOK
<1>3. mine'[n] <= begun'
  <2>1. now = begun /\ begun' = begun
    BY <1>1, BegunIs DEF begun
  <2> QED
    BY <1>1, <2>1 DEF SendInv
<1>4. parent'[n] # UNKNOWN_ADDR => Parent[n] # UNKNOWN_ADDR
  BY AdvertiseFlow DEF FlowInv
<1>5. parent'[n] # UNKNOWN_ADDR
        => my_slot(n) \in Nat /\ 1 < my_slot(n) /\ 1 # ack_slot(Parent[n])
  BY <1>4, TurnSlots
<1>6. \/ todo'[n] = <<>>
      \/ \E d \in {"clusterhead_recv", "clusterhead_send"} : todo'[n] = <<Task(d, 1)>>
  <2> DEFINE p == parent'
  <2>1. p[n] # UNKNOWN_ADDR => Parent[n] # UNKNOWN_ADDR
    BY <1>4
  <2>2. p[n] # UNKNOWN_ADDR => 1 # my_slot(n) /\ 1 # ack_slot(Parent[n])
    BY <1>5
  <2>3. todo'[n] = Plan(n, 1, p)
    BY <1>1
  <2> HIDE DEF p
  <2> QED
    BY <2>1, <2>2, <2>3, PlanOne, ZenonT(60)
<1>7. Waits(todo'[n])
  <2> SUFFICES ASSUME NEW i \in DOMAIN todo'[n],
                      todo'[n][i].do \in {"follower_recv", "follower_hear"}
               PROVE  FALSE
    BY DEF Waits
  <2>1. CASE todo'[n] = <<>>
    BY <2>1
  <2>2. ASSUME NEW d \in {"clusterhead_recv", "clusterhead_send"}, todo'[n] = <<Task(d, 1)>>
        PROVE  FALSE
    BY <2>2 DEF Task
  <2> QED
    BY <1>6, <2>1, <2>2
<1>8. Waits(todo[n])' = Waits(todo'[n]) /\ my_slot(n)' = my_slot(n)
  BY DEF Waits, Sends, my_slot
<1> QED
  BY <1>1, <1>2, <1>3, <1>5, <1>7, <1>8 DEF Turn

LEMMA InitTurn == Init => TurnInv
<1> SUFFICES ASSUME Init, NEW n \in Node PROVE Turn(n)
  BY DEF TurnInv
<1>1. mine[n] = 0 /\ slot = 0 /\ todo[n] = <<>> /\ begun = 0
  BY Windows DEF Init, begun
<1> QED
  BY <1>1 DEF Turn, Waits

LEMMA DataGrows ==
    ASSUME NEW q \in Seq(Message), NEW m \in Message
    PROVE  Data(q) \cup (IF m.type = "Datagram" THEN {m} ELSE {}) \subseteq Data(Append(q, m))
<1>1. /\ \A i \in DOMAIN q : i \in DOMAIN Append(q, m) /\ Append(q, m)[i] = q[i]
      /\ Len(q) + 1 \in DOMAIN Append(q, m) /\ Append(q, m)[Len(q) + 1] = m
  OBVIOUS
<1> QED
  BY <1>1 DEF Data

\* What do_clusterhead_recv makes of the acks: the entry of the code it is tuned
\* to may be that of a datagram it takes, and is that of one it takes last; the
\* others stay.
LEMMA ReceivedNotes ==
    ASSUME TypeOK, NEW n \in Node, NEW s, s = Received(n)[Len(held[n])]
    PROVE  /\ \A k \in 0 .. vtdma_window_size - 1 : k # code[n] => s.acks[k] = acks[n][k]
           /\ \/ s.acks[code[n]] = acks[n][code[n]]
              \/ \E m \in Data(held[n]) : s.acks[code[n]] = m.sequence
           /\ Data(took[n]) \cup Data(held[n]) \subseteq Data(s.took)
           /\ held[n] # <<>> /\ held[n][Len(held[n])].type = "Datagram"
                => s.acks[code[n]] = held[n][Len(held[n])].sequence
<1> DEFINE N == Len(held[n])
           R == Received(n)
           Read(k) == {held[n][j] : j \in {i \in 1 .. k : held[n][i].type = "Datagram"}}
           OK(k) == /\ R[k].acks \in [0 .. vtdma_window_size - 1 -> Time]
                    /\ R[k].took \in Seq(Message)
                    /\ \A i \in 0 .. vtdma_window_size - 1 :
                          i # code[n] => R[k].acks[i] = acks[n][i]
                    /\ \/ R[k].acks[code[n]] = acks[n][code[n]]
                       \/ \E m \in Read(k) : R[k].acks[code[n]] = m.sequence
                    /\ Data(took[n]) \cup Read(k) \subseteq Data(R[k].took)
           S == {k \in 0 .. N : OK(k)}
<1>1. /\ N \in Nat /\ DOMAIN held[n] = 1 .. N /\ held[n] \in Seq(Message)
      /\ acks[n] \in [0 .. vtdma_window_size - 1 -> Time] /\ took[n] \in Seq(Message)
      /\ code[n] \in 0 .. vtdma_window_size - 1
  BY DEF TypeOK
<1>2. /\ R[0] = Start(n)
      /\ \A k \in 1 .. N : R[k] = Processed(n, R[k - 1], held[n][k])
  <2>1. IsReading(n, R, N)
    BY <1>1, ReceivedIs
  <2> HIDE DEF N, R
  <2>2. 0 \in 0 .. N /\ \A k \in 1 .. N : k \in 0 .. N /\ k # 0
    BY <1>1
  <2> QED
    BY <2>1, <2>2 DEF IsReading
<1>3. Read(N) = Data(held[n])
  BY <1>1 DEF Data
<1> HIDE DEF N, R
<1>4. 0 \in S
  <2>1. OK(0)
    BY <1>1, <1>2 DEF Start
  <2> HIDE DEF OK
  <2> QED
    BY <1>1, <2>1
<1>5. ASSUME NEW k \in 0 .. N - 1, k \in S  PROVE k + 1 \in S
  <2> DEFINE m == held[n][k + 1]
  <2>1. k + 1 \in 1 .. N /\ k + 1 \in 0 .. N /\ k + 1 - 1 = k /\ k \in Nat
    BY <1>1
  <2>2. R[k + 1] = Processed(n, R[k], m)
    BY <1>2, <2>1
  <2>3. m \in Message
    BY <1>1, <2>1
  <2>4. OK(k)
    BY <1>5
  <2>5. CASE m.type # "Datagram"
    <3>1. R[k + 1] = R[k]
      BY <2>2, <2>5 DEF Processed
    <3>2. Read(k + 1) = Read(k)
      <4>1. \A j \in 1 .. k + 1 : j = k + 1 \/ j \in 1 .. k
        BY <2>1
      <4>2. \A j \in 1 .. k : j \in 1 .. k + 1
        BY <2>1
      <4> QED
        BY <2>5, <4>1, <4>2
    <3>3. OK(k + 1)
      <4> HIDE DEF Read, m
      <4> QED
        BY <2>4, <3>1, <3>2
    <3> HIDE DEF OK
    <3> QED
      BY <2>1, <3>3
  <2>6. CASE m.type = "Datagram"
    <3>1. /\ R[k + 1].acks = [R[k].acks EXCEPT ![code[n]] = m.sequence]
          /\ R[k + 1].took = Append(R[k].took, m)
      BY <2>2, <2>6 DEF Processed
    <3>2. Read(k + 1) = Read(k) \cup {m}
      <4>1. \A j \in 1 .. k + 1 : j = k + 1 \/ j \in 1 .. k
        BY <2>1
      <4>2. (\A j \in 1 .. k : j \in 1 .. k + 1) /\ k + 1 \in 1 .. k + 1
        BY <2>1
      <4> QED
        BY <2>6, <4>1, <4>2
    <3>3. m.sequence \in Time
      BY <2>3, <2>6 DEF Message
    <3> HIDE DEF Read, m
    <3>4. /\ R[k + 1].acks \in [0 .. vtdma_window_size - 1 -> Time]
          /\ R[k + 1].acks[code[n]] = m.sequence
          /\ \A i \in 0 .. vtdma_window_size - 1 :
                i # code[n] => R[k + 1].acks[i] = acks[n][i]
      BY <1>1, <2>4, <3>1, <3>3
    <3>5. Append(R[k].took, m) \in Seq(Message)
      BY <2>3, <2>4
    <3>6. Data(R[k].took) \cup {m} \subseteq Data(Append(R[k].took, m))
      BY <2>3, <2>4, <2>6, DataGrows
    <3>7. OK(k + 1)
      BY <2>4, <3>1, <3>2, <3>4, <3>5, <3>6
    <3> HIDE DEF OK
    <3> QED
      BY <2>1, <3>7
  <2> QED
    BY <2>5, <2>6
<1> HIDE DEF S
<1>6. 0 .. N \subseteq S
  BY <1>1, <1>4, <1>5, UpTo
<1>7. OK(N)
  <2>1. N \in S
    BY <1>1, <1>6
  <2> QED
    BY <2>1 DEF S
<1>8. s = R[N]
  BY DEF R, N
<1>9. ASSUME held[n] # <<>>, held[n][N].type = "Datagram"
      PROVE  R[N].acks[code[n]] = held[n][N].sequence
  <2>1. N \in 1 .. N /\ N - 1 \in 0 .. N
    BY <1>1, <1>9 DEF N
  <2>2. OK(N - 1)
    <3>1. N - 1 \in S
      BY <1>6, <2>1
    <3> QED
      BY <3>1 DEF S
  <2>3. R[N].acks = [R[N - 1].acks EXCEPT ![code[n]] = held[n][N].sequence]
    <3>1. R[N] = Processed(n, R[N - 1], held[n][N])
      BY <1>2, <2>1
    <3> QED
      BY <1>9, <3>1 DEF Processed
  <2> QED
    BY <1>1, <2>2, <2>3
<1> QED
  BY <1>3, <1>7, <1>8, <1>9 DEF N

LEMMA ClusterheadHearTurn ==
    ASSUME TypeOK, FlowInv, TurnInv, NEW n \in Node, ClusterheadHear(n)
    PROVE  TurnInv'
<1> DEFINE s == Received(n)[Len(held[n])]
<1>1. /\ todo[n] # <<>> /\ Head(todo[n]).do # "follower_send" /\ Done(n)
      /\ frame' = frame /\ slot' = slot /\ mine' = mine /\ parent' = parent
      /\ acks' = [acks EXCEPT ![n] = s.acks]
  BY DEF ClusterheadHear, Doing
<1>2. code[n] # 0
  BY Hearing DEF ClusterheadHear, FlowInv
<1> HIDE DEF s
<1>3. s.acks[0] = acks[n][0]
  <2>1. 0 \in 0 .. vtdma_window_size - 1
    BY Windows
  <2> QED
    BY <1>2, <2>1, ReceivedNotes DEF s
<1>4. acks'[n][0] = acks[n][0] /\ \A m \in Node : m # n => acks'[m] = acks[m]
  BY <1>1, <1>3 DEF TypeOK
<1> QED
  BY <1>1, <1>4, DoneTurn

LEMMA FollowerHearTurn ==
    ASSUME TypeOK, TurnInv, NEW n \in Node, FollowerHear(n)
    PROVE  TurnInv'
<1>1. /\ todo[n] # <<>> /\ Head(todo[n]).do # "follower_send" /\ (Done(n) \/ todo' = todo)
      /\ frame' = frame /\ slot' = slot /\ mine' = mine /\ Doing(n, "follower_hear")
  BY DEF FollowerHear, Doing
<1>2. \A m \in Node : m # n => acks'[m] = acks[m] /\ parent'[m] = parent[m]
  <2>1. \/ acks' = acks
        \/ \E x : acks' = [acks EXCEPT ![n][0] = x]
    BY DEF FollowerHear
  <2>2. \/ parent' = parent
        \/ \E x : parent' = [parent EXCEPT ![n] = x]
    BY DEF FollowerHear
  <2> QED
    BY <2>1, <2>2 DEF TypeOK
<1>3. ~ mine[n] <= begun
  BY <1>1, HearingHadTurn, MineIsNat, BegunIs
<1>4. CASE Done(n)
  BY <1>1, <1>2, <1>3, <1>4, DoneTurn
<1>5. CASE todo' = todo
  BY <1>1, <1>2, <1>3, <1>5, TurnStays
<1> QED
  BY <1>1, <1>4, <1>5

LEMMA NextTurn ==
    ASSUME Leased, TypeOK, FlowInv, SendInv, TurnInv, [Next]_vars
    PROVE  TurnInv'
<1>1. CASE UNCHANGED vars
  BY <1>1 DEF vars, TurnInv, Turn, Waits, Sends, begun, my_slot
<1>2. ASSUME NEW n \in Node, ClusterheadListen(n) PROVE TurnInv'
  BY <1>2, DoneTurn, ListenTurn DEF ClusterheadListen, Doing
<1>3. ASSUME NEW n \in Node, ClusterheadSend(n) PROVE TurnInv'
  BY <1>3, DoneTurn DEF ClusterheadSend, Doing
<1>4. ASSUME NEW n \in Node, FollowerListen(n) PROVE TurnInv'
  BY <1>4, DoneTurn, ListenTurn DEF FollowerListen, Doing
<1>5. ASSUME NEW n \in Node, TimeOut(n) PROVE TurnInv'
  BY <1>5, DoneTurn DEF TimeOut, Listening, Doing
<1>6. ASSUME NEW n \in Node, Step(n) PROVE TurnInv'
  BY <1>2, <1>3, <1>4, <1>5, <1>6, ClusterheadHearTurn, FollowerHearTurn, FollowerSendTurn DEF Step
<1> QED
  BY <1>1, <1>6, AdvertiseTurn, NextSlotTurn DEF Next

-----------------------------------------------------------------------------
(* What an acknowledgement stands for: a datagram that the clusterhead has  *)
(* taken, and if it is one of this superframe, of a follower of its own     *)
(* whose relative slot is no later than the entry's.                        *)

\* A datagram of this superframe was sent in its sender's slot or the next.
Timed(m) ==
    /\ m.sequence <= now
    /\ m.sequence > begun =>
         /\ Parent[m.src] # UNKNOWN_ADDR
         /\ m.sequence = begun + my_slot(m.src) \/ m.sequence = begun + my_slot(m.src) + 1

\* Where c takes from: its followers, and those of clusterheads further out.
Below(c, m) ==
    /\ Parent[m.src] # UNKNOWN_ADDR
    /\ Parent[m.src] = c \/ Ring[c] < Ring[Parent[m.src]]

InSlot(c, k, m) ==
    m.sequence > begun /\ Parent[m.src] = c =>
        m.sequence = begun + my_slot(m.src) /\ Rel[m.src] <= k

Backed(c, a) ==
    \A k \in 1 .. vtdma_window_size - 1 : a[k] # 0 =>
        \E m \in Data(took[c]) : m.sequence = a[k] /\ m.sequence <= now /\ InSlot(c, k, m)

\* What n may send, hold and have taken, and what c may take, tuned to k.
Sendable(n) ==
    {m \in Message :
       /\ m.type = "Datagram" =>
            /\ Timed(m)
            /\ m.src = n => m.sequence <= mine[n] /\ Parent[n] # UNKNOWN_ADDR
            /\ m.src # n => Below(n, m)
       /\ m.type = "SendAcks" => m.src = n /\ n \in Clusterhead /\ Backed(n, m.acks)}
Hearable(n) ==
    {m \in Message : m.type = "SendAcks" =>
       m.src \in Clusterhead /\ InRange(m.src, n) /\ Backed(m.src, m.acks)}
TakenBy(n) == {m \in Message : m.type = "Datagram" /\ Timed(m) /\ Below(n, m)}
Takeable(c, k) ==
    {m \in Message : m.type = "Datagram" => Timed(m) /\ Below(c, m) /\ InSlot(c, k, m)}

AckInv ==
    /\ \A n \in Node : /\ tx[n] \in Seq(Sendable(n)) /\ held[n] \in Seq(Hearable(n))
                       /\ took[n] \in Seq(TakenBy(n))
    /\ \A c \in Clusterhead : /\ Backed(c, acks[c])
                              /\ Over(c) \/ held[c] \in Seq(Takeable(c, code[c]))

\* Time goes on, in this superframe or to the next, and nothing taken is lost.
Onward ==
    /\ now <= now' /\ (begun' = begun \/ now <= begun')
    /\ \A n \in Node : mine[n] <= mine'[n] /\ Data(took[n]) \subseteq Data(took'[n])

LEMMA Times ==
    ASSUME NEW i \in Nat, NEW j \in Nat
    PROVE  i * j \in Nat
  OBVIOUS

LEMMA ClockNext ==
    ASSUME TypeOK'
    PROVE  now' \in Nat /\ begun' \in Nat
<1>1. frame' \in Nat /\ slot' \in Nat /\ SUPERFRAME_SLOT_COUNT \in Nat
  BY Windows, BoundAssumption DEF TypeOK
<1>2. begun' = frame' * SUPERFRAME_SLOT_COUNT /\ now' = begun' + slot'
  BY DEF begun, now
<1>3. begun' \in Nat
  BY <1>1, <1>2, Times
<1>4. \A i, j \in Nat : i + j \in Nat
  OBVIOUS
<1>5. now' \in Nat
  BY <1>1, <1>2, <1>3, <1>4
<1> QED
  BY <1>3, <1>5

LEMMA OnwardKeeps ==
    ASSUME TypeOK, TypeOK', Onward, NEW m \in Message
    PROVE  /\ m.type = "Datagram" /\ Timed(m) => Timed(m)'
           /\ \A c : Below(c, m) => Below(c, m)'
           /\ \A c, k : m.type = "Datagram" /\ m.sequence <= now /\ InSlot(c, k, m) => InSlot(c, k, m)'
<1>1. m.type = "Datagram" => m.sequence \in Nat
  <2>1. Time \subseteq Nat
    BY DEF Time
  <2> QED
    BY <2>1 DEF Message
<1>2. now \in Nat /\ now' \in Nat /\ begun \in Nat /\ begun' \in Nat
  <2>1. now \in Nat /\ begun \in Nat
    BY BegunIs, NowIsNat
  <2>2. now' \in Nat /\ begun' \in Nat
    BY ClockNext
  <2> QED
    BY <2>1, <2>2
<1>3. my_slot(m.src)' = my_slot(m.src)
  BY DEF my_slot
<1>4. m.type = "Datagram" /\ m.sequence <= now /\ m.sequence > begun' => begun' = begun
  BY <1>1, <1>2 DEF Onward
<1>5. m.type = "Datagram" /\ Timed(m) => Timed(m)'
  BY <1>1, <1>2, <1>3, <1>4 DEF Timed, Onward
<1>6. \A c : Below(c, m) => Below(c, m)'
  BY DEF Below
<1>7. \A c, k : m.type = "Datagram" /\ m.sequence <= now /\ InSlot(c, k, m) => InSlot(c, k, m)'
  BY <1>3, <1>4 DEF InSlot
<1> QED
  BY <1>5, <1>6, <1>7

LEMMA BackedStays ==
    ASSUME TypeOK, TypeOK', Onward, TookInv, NEW c \in Clusterhead, NEW a, Backed(c, a)
    PROVE  Backed(c, a)'
<1> SUFFICES ASSUME NEW k \in 1 .. vtdma_window_size - 1, a[k] # 0
             PROVE  \E m \in Data(took'[c]) :
                       m.sequence = a[k] /\ m.sequence <= now' /\ InSlot(c, k, m)'
  BY DEF Backed, Data
<1>1. PICK m \in Data(took[c]) : m.sequence = a[k] /\ m.sequence <= now /\ InSlot(c, k, m)
  BY DEF Backed
<1>2. m \in Message /\ m.type = "Datagram" /\ m \in Data(took'[c])
  <2>1. took[c] \in Seq(Message) /\ c \in Node
    BY ClusterheadRing DEF TypeOK
  <2>2. m \in Message /\ m.type = "Datagram"
    BY <2>1 DEF Data
  <2> QED
    BY <2>1, <2>2 DEF Onward
<1>3. m.sequence <= now'
  <2>1. Time \subseteq Nat
    BY DEF Time
  <2>2. m.sequence \in Nat
    BY <1>2, <2>1 DEF Message
  <2>3. now \in Nat /\ now' \in Nat
    BY NowIsNat, ClockNext
  <2> QED
    BY <1>1, <2>2, <2>3 DEF Onward
<1>4. InSlot(c, k, m)'
  BY <1>1, <1>2, OnwardKeeps
<1> QED
  BY <1>1, <1>2, <1>3, <1>4

\* So whatever could be sent, held or taken still can.
LEMMA OnwardSets ==
    ASSUME TypeOK, TypeOK', Onward, TookInv
    PROVE  /\ \A n \in Node : /\ Sendable(n) \subseteq Sendable(n)'
                              /\ Hearable(n) \subseteq Hearable(n)'
                              /\ TakenBy(n) \subseteq TakenBy(n)'
           /\ \A c, k : Takeable(c, k) \subseteq Takeable(c, k)'
<1>1. Message' = Message
  BY DEF Message
<1>2. \A m \in Message : m.type = "Datagram" => m.sequence \in Nat
  <2>1. Time \subseteq Nat
    BY DEF Time
  <2> QED
    BY <2>1 DEF Message
<1>3. ASSUME NEW n \in Node, NEW m \in Sendable(n) PROVE m \in Sendable(n)'
  <2>1. m \in Message
    BY DEF Sendable
  <2>2. m.type = "Datagram" =>
          /\ Timed(m)'
          /\ m.src = n => m.sequence <= mine'[n] /\ Parent[n] # UNKNOWN_ADDR
          /\ m.src # n => Below(n, m)'
    <3> SUFFICES ASSUME m.type = "Datagram"
                 PROVE  Timed(m)' /\ (m.src = n => m.sequence <= mine'[n] /\ Parent[n] # UNKNOWN_ADDR)
                        /\ (m.src # n => Below(n, m)')
      OBVIOUS
    <3>1. /\ Timed(m)
          /\ m.src = n => m.sequence <= mine[n] /\ Parent[n] # UNKNOWN_ADDR
          /\ m.src # n => Below(n, m)
      BY DEF Sendable
    <3>2. m.sequence \in Nat /\ mine[n] \in Nat /\ mine'[n] \in Nat /\ mine[n] <= mine'[n]
      <4>1. Time \subseteq Nat
        BY DEF Time
      <4> QED
        BY <1>2, <2>1, <4>1 DEF TypeOK, Onward
    <3> QED
      BY <2>1, <3>1, <3>2, OnwardKeeps
  <2>3. m.type = "SendAcks" => m.src = n /\ n \in Clusterhead /\ Backed(n, m.acks)'
    BY BackedStays DEF Sendable
  <2> QED
    BY <1>1, <2>1, <2>2, <2>3 DEF Sendable
<1>4. ASSUME NEW n \in Node, NEW m \in Hearable(n) PROVE m \in Hearable(n)'
  <2>1. m.type = "SendAcks" =>
          m.src \in Clusterhead /\ InRange(m.src, n) /\ Backed(m.src, m.acks)'
    BY BackedStays DEF Hearable
  <2> QED
    BY <1>1, <2>1 DEF Hearable
<1>5. ASSUME NEW n \in Node, NEW m \in TakenBy(n) PROVE m \in TakenBy(n)'
  BY <1>1, OnwardKeeps DEF TakenBy
<1>6. ASSUME NEW c, NEW k, NEW m \in Takeable(c, k) PROVE m \in Takeable(c, k)'
  <2>1. m \in Message /\ (m.type = "Datagram" => m.sequence <= now)
    BY DEF Takeable, Timed
  <2> QED
    BY <1>1, <2>1, OnwardKeeps DEF Takeable
<1> QED
  BY <1>3, <1>4, <1>5, <1>6

LEMMA AckNext ==
    ASSUME \A n \in Node : /\ tx'[n] \in Seq(Sendable(n)') /\ held'[n] \in Seq(Hearable(n)')
                            /\ took'[n] \in Seq(TakenBy(n)'),
           \A c \in Clusterhead : /\ Backed(c, acks[c])'
                                  /\ Over(c)' \/ held'[c] \in Seq(Takeable(c, code[c])')
    PROVE  AckInv'
  BY DEF AckInv

LEMMA BackedMore ==
    ASSUME NEW c, NEW a, NEW b, Backed(c, a)',
           \A k \in 1 .. vtdma_window_size - 1 : b[k] = a[k] \/ b[k] = 0
    PROVE  Backed(c, b)'
  BY DEF Backed

\* Within a slot time stands still.
LEMMA Within ==
    ASSUME TypeOK, frame' = frame, slot' = slot,
           \A n \in Node : mine[n] <= mine'[n] /\ Data(took[n]) \subseteq Data(took'[n])
    PROVE  Onward
<1>1. now' = now /\ begun' = begun
  BY DEF now, begun
<1> QED
  BY <1>1, NowIsNat DEF Onward

LEMMA SameTook ==
    ASSUME TypeOK, took' = took, mine' = mine
    PROVE  \A n \in Node : mine[n] <= mine'[n] /\ Data(took[n]) \subseteq Data(took'[n])
  BY MineIsNat

\* A step that leaves most of it alone.
LEMMA AckStays ==
    ASSUME TypeOK, TypeOK', TookInv, AckInv, Onward,
           \A n \in Node : /\ tx'[n] \in {tx[n], <<>>} \/ tx'[n] \in Seq(Sendable(n)')
                           /\ held'[n] \in {held[n], <<>>}
                           /\ took'[n] = took[n] \/ took'[n] \in Seq(TakenBy(n)'),
           \A c \in Clusterhead :
               \/ \A k \in 1 .. vtdma_window_size - 1 : acks'[c][k] \in {acks[c][k], 0}
               \/ Backed(c, acks[c])',
           \A c \in Clusterhead :
               \/ Over(c)' \/ held'[c] = <<>> \/ (~Over(c) /\ code'[c] = code[c])
               \/ held'[c] \in Seq(Takeable(c, code[c])')
    PROVE  AckInv'
<1>1. ASSUME NEW n \in Node
      PROVE  /\ tx'[n] \in Seq(Sendable(n)') /\ held'[n] \in Seq(Hearable(n)')
             /\ took'[n] \in Seq(TakenBy(n)')
  <2> DEFINE A == Sendable(n)
             B == Hearable(n)
             C == TakenBy(n)
  <2>1. A \subseteq A' /\ B \subseteq B' /\ C \subseteq C'
    BY OnwardSets
  <2>2. tx[n] \in Seq(A) /\ held[n] \in Seq(B) /\ took[n] \in Seq(C)
    BY DEF AckInv
  <2>3. /\ tx'[n] = tx[n] \/ tx'[n] = <<>> \/ tx'[n] \in Seq(A')
        /\ held'[n] = held[n] \/ held'[n] = <<>>
        /\ took'[n] = took[n] \/ took'[n] \in Seq(C')
    OBVIOUS
  <2> HIDE DEF A, B, C
  <2>4. tx[n] \in Seq(A') /\ held[n] \in Seq(B') /\ took[n] \in Seq(C')
    BY <2>1, <2>2, SeqOfMore
  <2>5. <<>> \in Seq(A') /\ <<>> \in Seq(B')
    OBVIOUS
  <2>6. tx'[n] \in Seq(A') /\ held'[n] \in Seq(B') /\ took'[n] \in Seq(C')
    BY <2>3, <2>4, <2>5, Zenon
  <2> QED
    BY <2>6 DEF A, B, C
<1>2. ASSUME NEW c \in Clusterhead PROVE Backed(c, acks[c])'
  <2> SUFFICES ASSUME \A k \in 1 .. vtdma_window_size - 1 : acks'[c][k] \in {acks[c][k], 0}
               PROVE  Backed(c, acks[c])'
    OBVIOUS
  <2>1. PICK a : a = acks[c]
    OBVIOUS
  <2>2. Backed(c, a)'
    <3>1. Backed(c, a)
      BY <2>1 DEF AckInv
    <3> QED
      BY <3>1, BackedStays
  <2>3. \A k \in 1 .. vtdma_window_size - 1 : acks'[c][k] = a[k] \/ acks'[c][k] = 0
    BY <2>1
  <2> QED
    BY <2>2, <2>3, BackedMore
<1>3. ASSUME NEW c \in Clusterhead
      PROVE  Over(c)' \/ held'[c] \in Seq(Takeable(c, code[c])')
  <2>1. CASE held'[c] = <<>>
    BY <2>1
  <2>2. CASE ~Over(c) /\ code'[c] = code[c] /\ held'[c] = held[c]
    <3>1. held[c] \in Seq(Takeable(c, code[c]))
      BY <2>2 DEF AckInv
    <3>2. Takeable(c, code[c]) \subseteq Takeable(c, code[c])'
      BY <2>2, OnwardSets
    <3> QED
      BY <2>2, <3>1, <3>2, SeqOfMore
  <2>3. held'[c] = held[c] \/ held'[c] = <<>>
    BY ClusterheadRing
  <2> QED
    BY <2>1, <2>2, <2>3
<1> QED
  BY <1>1, <1>2, <1>3, AckNext

\* A frame that n sends comes to the clusterhead n follows, in n's slot and on
\* n's code, or to nobody that still listens.
LEMMA AckFlush ==
    ASSUME OneUpstream, TypeOK, TypeOK', FlowInv, TookInv, AckInv, Onward,
           NEW n \in Node, todo[n] # <<>>, Done(n), slot' = slot, took' = took, acks' = acks,
           NEW Q, NEW q \in Seq(Q), Q \subseteq Sendable(n)', NEW k, NEW Wanted,
           Flushed(n, q, k, Wanted) \/ NotFlushed(n, q, k), After(n, k),
           \A m \in Q : m.type = "Datagram" /\ m.src = n /\ m.sequence > begun'
                           => m.sequence = begun' + my_slot(n) /\ Rel[n] <= k
    PROVE  AckInv'
<1>1. ASSUME NEW i \in Node
      PROVE  /\ tx[i] \in Seq(Sendable(i)') /\ held[i] \in Seq(Hearable(i)')
             /\ took[i] \in Seq(TakenBy(i)')
  <2> DEFINE A == Sendable(i)
             B == Hearable(i)
             C == TakenBy(i)
  <2>1. A \subseteq A' /\ B \subseteq B' /\ C \subseteq C'
    BY OnwardSets
  <2>2. tx[i] \in Seq(A) /\ held[i] \in Seq(B) /\ took[i] \in Seq(C)
    BY DEF AckInv
  <2> HIDE DEF A, B, C
  <2>3. tx[i] \in Seq(A') /\ held[i] \in Seq(B') /\ took[i] \in Seq(C')
    BY <2>1, <2>2, SeqOfMore
  <2> QED
    BY <2>3 DEF A, B, C
<1>2. \A i \in Node : tx'[i] \in Seq(Sendable(i)')
  <2>1. q \in Seq(Sendable(n)') /\ <<>> \in Seq(Sendable(n)')
    BY SeqOfMore
  <2>2. tx' = [tx EXCEPT ![n] = <<>>] \/ tx' = [tx EXCEPT ![n] = q]
    BY DEF Flushed, NotFlushed
  <2>3. \A i \in Node : tx'[i] = tx[i] \/ (i = n /\ tx'[i] \in {<<>>, q})
    BY <2>2 DEF TypeOK
  <2> QED
    BY <1>1, <2>1, <2>3
<1>3. ASSUME NEW i \in Node PROVE held'[i] \in Seq(Hearable(i)')
  <2>1. CASE held'[i] = q /\ InRange(n, i)
    <3>1. Q \subseteq Hearable(i)'
      <4> SUFFICES ASSUME NEW m \in Q PROVE m \in Hearable(i)'
        OBVIOUS
      <4>1. /\ m \in Message'
            /\ m.type = "SendAcks" => m.src = n /\ n \in Clusterhead /\ Backed(n, m.acks)'
        BY DEF Sendable
      <4> QED
        BY <2>1, <4>1 DEF Hearable
    <3> QED
      BY <2>1, <3>1, SeqOfMore
  <2>2. \/ held'[i] = held[i] \/ held'[i] = <<>>
        \/ held'[i] = q /\ InRange(n, i)
    BY Reached
  <2>3. CASE held'[i] = held[i]
    BY <1>1, <2>3
  <2>4. CASE held'[i] = <<>>
    BY <2>4
  <2> QED
    BY <2>1, <2>2, <2>3, <2>4
<1>4. \A c \in Clusterhead : Backed(c, acks[c])'
  BY BackedStays DEF AckInv
<1>5. ASSUME NEW c \in Clusterhead
      PROVE  Over(c)' \/ held'[c] \in Seq(Takeable(c, code[c])')
  <2>1. c \in Node /\ Ring[c] \in Nat /\ Ring[n] \in Nat /\ ack_slot(c) \in Int /\ slot \in Int
    BY ClusterheadRing, RingAssumption DEF TypeOK
  <2>2. CASE Over(c)
    BY <2>2, OverStays DEF FlowInv
  <2>3. CASE c = n
    <3>1. ack_slot(n) <= slot
      BY <2>1, <2>3 DEF After
    <3>2. ~Doing(n, "clusterhead_hear")'
      BY DoneDutiful DEF FlowInv
    <3>3. ack_slot(c)' = ack_slot(c)
      BY DEF ack_slot
    <3> QED
      BY <2>3, <3>1, <3>2, <3>3 DEF Over
  <2>4. ASSUME c # n, ~Over(c) PROVE held'[c] \in Seq(Takeable(c, code[c])')
    <3>1. code'[c] = code[c]
      BY <2>1, <2>4 DEF Flushed, NotFlushed, TypeOK
    <3>2. CASE held'[c] = held[c]
      <4>1. held[c] \in Seq(Takeable(c, code[c]))
        BY <2>4 DEF AckInv
      <4>2. Takeable(c, code[c]) \subseteq Takeable(c, code[c])'
        BY <3>1, OnwardSets
      <4> QED
        BY <3>2, <4>1, <4>2, SeqOfMore
    <3>3. CASE held'[c] = <<>>
      BY <3>3
    <3>4. CASE held'[c] = q /\ InRange(n, c) /\ code[c] = k
      <4>1. Ring[c] < Ring[n]
        BY <2>1, <2>4, <3>4, AfterIsOver
      <4>2. c = Parent[n]
        BY <3>4, <4>1 DEF OneUpstream
      <4>3. Q \subseteq Takeable(c, k)'
        <5> SUFFICES ASSUME NEW m \in Q PROVE m \in Takeable(c, k)'
          OBVIOUS
        <5>1. /\ m \in Message'
              /\ m.type = "Datagram" =>
                    /\ Timed(m)' /\ (m.src # n => Below(n, m)')
                    /\ m.src = n => Parent[n] # UNKNOWN_ADDR
          BY DEF Sendable
        <5>2. ASSUME m.type = "Datagram" PROVE Below(c, m)' /\ InSlot(c, k, m)'
          <6>1. CASE m.src = n
            BY <4>2, <5>1, <5>2, <6>1 DEF Below, InSlot, my_slot
          <6>2. CASE m.src # n
            <7>1. Parent[m.src] # UNKNOWN_ADDR /\ m.src \in Node
                  /\ (Parent[m.src] = n \/ Ring[n] < Ring[Parent[m.src]])
              BY <5>1, <5>2, <6>2 DEF Below, Message
            <7>2. Ring[Parent[m.src]] \in Nat
              BY <7>1, TreeAssumption, RingAssumption
            <7>3. Ring[c] < Ring[Parent[m.src]]
              BY <2>1, <4>1, <7>1, <7>2
            <7> QED
              BY <2>1, <7>1, <7>2, <7>3 DEF Below, InSlot
          <6> QED
            BY <6>1, <6>2
        <5> QED
          BY <5>1, <5>2 DEF Takeable
      <4> QED
        BY <3>1, <3>4, <4>3, SeqOfMore
    <3>5. \/ held'[c] = held[c] \/ held'[c] = <<>>
          \/ held'[c] = q /\ InRange(n, c) /\ code[c] = k
      BY <2>1, Reached
    <3> QED
      BY <3>2, <3>3, <3>4, <3>5
  <2> QED
    BY <2>2, <2>3, <2>4
<1> QED
  BY <1>1, <1>2, <1>3, <1>4, <1>5, AckNext

\* A step of a node that has been done with a task.
LEMMA DoneAck ==
    ASSUME TypeOK, TypeOK', FlowInv, TookInv, AckInv, NEW n \in Node, todo[n] # <<>>,
           Done(n) \/ (todo' = todo /\ code' = code),
           frame' = frame, slot' = slot, took' = took, mine' = mine, tx' = tx,
           \A m \in Node : held'[m] = held[m] \/ held'[m] = <<>>,
           \A m \in Node : m # n => code'[m] = code[m], Done(n) => code' = code,
           \A c \in Clusterhead : \A k \in 1 .. vtdma_window_size - 1 : acks'[c][k] = acks[c][k]
    PROVE  AckInv'
<1>1. Onward
  BY SameTook, Within
<1>2. \A c \in Clusterhead : Over(c) => Over(c)'
  <2>1. CASE Done(n)
    BY <2>1, OverStays DEF FlowInv
  <2>2. CASE todo' = todo
    BY <2>2 DEF Over, Doing, ack_slot
  <2> QED
    BY <2>1, <2>2
<1> QED
  BY <1>1, <1>2, AckStays

LEMMA FollowerListenAck ==
    ASSUME Leased, TypeOK, TypeOK', FlowInv, TookInv, AckInv, NEW n \in Node, FollowerListen(n)
    PROVE  AckInv'
<1>1. /\ todo[n] # <<>> /\ Parent[n] # UNKNOWN_ADDR /\ slot' = slot /\ frame' = frame
      /\ took' = took /\ tx' = tx /\ mine' = mine /\ acks' = acks
  BY FirstTask DEF FollowerListen, Doing, FlowInv
<1>2. CASE /\ slot = ack_slot(Parent[n])
           /\ Listen(n, "follower_hear") /\ code' = [code EXCEPT ![n] = 0]
           /\ \E h \in Retuned(n, 0) : held' = [held EXCEPT ![n] = h]
  <2>1. ~Doing(n, "clusterhead_hear")'
    <3>1. "follower_hear" \in Duties
      BY DEF Duties
    <3> QED
      BY <1>1, <1>2, <3>1, ListenDutiful DEF FlowInv
  <2>2. n \in Clusterhead => Over(n)'
    <3>1. n \in Clusterhead => ack_slot(n) <= slot
      BY <1>1, <1>2, TurnSlots, ClusterheadRing
    <3>2. ack_slot(n)' = ack_slot(n)
      BY DEF ack_slot
    <3> QED
      BY <1>1, <2>1, <3>1, <3>2 DEF Over
  <2>3. \A c \in Clusterhead : c # n => (Over(c) => Over(c)') /\ code'[c] = code[c]
    <3>1. \A c \in Node : c # n => todo'[c] = todo[c] /\ code'[c] = code[c]
      BY <1>2 DEF Listen, TypeOK
    <3>2. \A c \in Clusterhead : ack_slot(c)' = ack_slot(c)
      BY DEF ack_slot
    <3> QED
      BY <1>1, <3>1, <3>2, ClusterheadRing DEF Over, Doing
  <2>4. \A m \in Node : held'[m] = held[m] \/ held'[m] = <<>>
    BY <1>2, HeldOrNothing
  <2>5. Onward
    BY <1>1, SameTook, Within
  <2> QED
    BY <1>1, <2>2, <2>3, <2>4, <2>5, AckStays
<1>3. CASE Done(n) /\ UNCHANGED <<code, held>>
  BY <1>1, <1>3, DoneAck
<1> QED
  BY <1>2, <1>3 DEF FollowerListen

LEMMA FollowerHearAck ==
    ASSUME TypeOK, TypeOK', FlowInv, TookInv, AckInv, NEW n \in Node, FollowerHear(n)
    PROVE  AckInv'
<1>1. /\ todo[n] # <<>> /\ slot' = slot /\ frame' = frame /\ tx' = tx /\ took' = took
      /\ mine' = mine /\ code' = code
      /\ held' = [held EXCEPT ![n] = <<>>] /\ (Done(n) \/ todo' = todo)
  BY DEF FollowerHear, Doing
<1>2. \A m \in Node : held'[m] = held[m] \/ held'[m] = <<>>
  BY <1>1 DEF TypeOK
<1>3. \A c \in Clusterhead : \A k \in 1 .. vtdma_window_size - 1 : acks'[c][k] = acks[c][k]
  <2>1. acks' = acks \/ \E x : acks' = [acks EXCEPT ![n][0] = x]
    BY DEF FollowerHear
  <2>2. ASSUME NEW x, acks' = [acks EXCEPT ![n][0] = x], NEW c \in Clusterhead,
               NEW k \in 1 .. vtdma_window_size - 1
        PROVE  acks'[c][k] = acks[c][k]
    <3>1. c \in Node /\ acks \in [Node -> [0 .. vtdma_window_size - 1 -> Time]]
      BY ClusterheadRing DEF TypeOK
    <3>2. k # 0 /\ k \in 0 .. vtdma_window_size - 1
      BY Windows
    <3> QED
      BY <2>2, <3>1, <3>2
  <2> QED
    BY <2>1, <2>2
<1> QED
  BY <1>1, <1>2, <1>3, DoneAck

LEMMA TimeOutAck ==
    ASSUME TypeOK, TypeOK', FlowInv, TookInv, AckInv, NEW n \in Node, TimeOut(n)
    PROVE  AckInv'
<1>1. /\ todo[n] # <<>> /\ Done(n)
      /\ UNCHANGED <<frame, slot, parent, code, acks, tx, held, mine, took, faulty>>
  BY DEF TimeOut, Listening, Doing
<1> QED
  BY <1>1, DoneAck

LEMMA AdvertiseAck ==
    ASSUME TypeOK, TypeOK', TookInv, AckInv, Advertise
    PROVE  AckInv'
<1>1. /\ slot = 0 /\ slot' = 1 /\ frame' = frame /\ mine' = mine /\ took' = took
      /\ held' = [n \in Node |-> <<>>] /\ acks' = [n \in Node |-> [i \in DOMAIN acks[n] |-> 0]]
      /\ \A n \in Node : tx'[n] = tx[n] \/ tx'[n] = <<>>
  BY DEF Advertise, ADV_SLOTS
<1>2. Onward
  <2>1. begun' = begun /\ now' = begun + 1 /\ now = begun
    BY <1>1, BegunIs DEF begun, now
  <2> QED
    BY <1>1, <2>1, SameTook, BegunIs DEF Onward
<1>3. \A c \in Clusterhead : \A k \in 1 .. vtdma_window_size - 1 : acks'[c][k] = 0
  <2> SUFFICES ASSUME NEW c \in Clusterhead, NEW k \in 1 .. vtdma_window_size - 1
               PROVE  acks'[c][k] = 0
    OBVIOUS
  <2>1. c \in Node /\ k \in 0 .. vtdma_window_size - 1
    BY ClusterheadRing, Windows
  <2>2. k \in DOMAIN acks[c]
    BY <2>1 DEF TypeOK
  <2> QED
    BY <1>1, <2>1, <2>2
<1>4. \A n \in Node : held'[n] = <<>>
  BY <1>1
<1> QED
  BY <1>1, <1>2, <1>3, <1>4, AckStays, ClusterheadRing

LEMMA NextSlotAck ==
    ASSUME TypeOK, TypeOK', FlowInv, TookInv, AckInv, NextSlot
    PROVE  AckInv'
<1>1. mine' = mine /\ took' = took /\ tx' = tx /\ held' = held /\ acks' = acks /\ code' = code
  BY DEF NextSlot
<1>2. Onward
  <2>1. now \in Nat /\ begun \in Nat /\ slot \in Nat /\ now = begun + slot
    BY BegunIs
  <2>2. CASE slot' = slot + 1 /\ frame' = frame
    <3>1. begun' = begun /\ now' = begun + (slot + 1)
      BY <2>2 DEF begun, now
    <3> QED
      BY <1>1, <2>1, <3>1, SameTook DEF Onward
  <2>3. CASE slot' = 0 /\ frame' = frame + 1
    <3>1. frame \in Int /\ SUPERFRAME_SLOT_COUNT \in Nat /\ slot <= SUPERFRAME_SLOT_COUNT - 1
      BY Windows DEF TypeOK
    <3>2. (frame + 1) * SUPERFRAME_SLOT_COUNT
            = frame * SUPERFRAME_SLOT_COUNT + SUPERFRAME_SLOT_COUNT
      BY <3>1
    <3>3. begun' = begun + SUPERFRAME_SLOT_COUNT
      BY <2>3, <3>2 DEF begun
    <3>4. now' = begun' + 0
      BY <2>3 DEF begun, now
    <3>5. now <= begun' /\ now <= now'
      BY <2>1, <3>1, <3>3, <3>4
    <3> QED
      BY <1>1, <3>5, SameTook DEF Onward
  <2> QED
    BY <2>2, <2>3 DEF NextSlot
<1>3. \A c \in Clusterhead : Over(c) => Over(c)'
  BY NextSlotOver
<1> QED
  BY <1>1, <1>2, <1>3, AckStays

LEMMA ClusterheadListenAck ==
    ASSUME TypeOK, TypeOK', FlowInv, TookInv, AckInv, NEW n \in Node, ClusterheadListen(n)
    PROVE  AckInv'
<1> DEFINE relative == slot - downstream_start_slot(Ring[n])
<1>1. /\ todo[n] # <<>> /\ n \in Clusterhead /\ slot' = slot /\ frame' = frame
      /\ took' = took /\ tx' = tx /\ mine' = mine /\ acks' = acks
  BY FirstTask DEF ClusterheadListen, Doing, FlowInv
<1>2. CASE /\ relative \in 1 .. vtdma_window_size - 2
           /\ Listen(n, "clusterhead_hear") /\ code' = [code EXCEPT ![n] = relative]
           /\ \E h \in Retuned(n, relative) : held' = [held EXCEPT ![n] = h]
  <2>1. slot < ack_slot(n) /\ slot \in Int
    BY <1>1, <1>2, ClusterheadRing, Windows, SMTT(30) DEF TypeOK
  <2>2. ~Over(n)
    BY <1>1, <2>1, ClusterheadRing DEF Over, FlowInv
  <2>3. \A c \in Clusterhead : c # n => (Over(c) => Over(c)') /\ code'[c] = code[c]
    <3>1. \A c \in Node : c # n => todo'[c] = todo[c] /\ code'[c] = code[c]
      BY <1>2 DEF Listen, TypeOK
    <3>2. \A c \in Clusterhead : ack_slot(c)' = ack_slot(c)
      BY DEF ack_slot
    <3> QED
      BY <1>1, <3>1, <3>2, ClusterheadRing DEF Over, Doing
  <2>4. \A m \in Node : held'[m] \in {held[m], <<>>}
    BY <1>2, HeldOrNothing
  <2>5. Onward
    BY <1>1, SameTook, Within
  <2>6. code'[n] = relative
    BY <1>2 DEF TypeOK
  <2>7. Takeable(n, code[n]) \subseteq Takeable(n, relative)
    <3> SUFFICES ASSUME NEW m \in Takeable(n, code[n]), m.type = "Datagram"
                 PROVE  InSlot(n, relative, m)
      BY DEF Takeable
    <3> HIDE DEF relative
    <3>1. m \in Message /\ Timed(m) /\ InSlot(n, code[n], m)
      BY DEF Takeable
    <3>2. SUFFICES ASSUME m.sequence > begun, Parent[m.src] = n,
                          m.sequence = begun + my_slot(m.src)
                   PROVE  Rel[m.src] <= relative
      BY <3>1 DEF InSlot
    <3>3. /\ m.sequence <= begun + slot /\ begun \in Nat /\ slot \in Nat
          /\ m.src \in Node /\ Rel[m.src] \in Int
      BY <3>1, BegunIs, TreeAssumption, Windows DEF Timed, Message
    <3>4. /\ my_slot(m.src) = downstream_start_slot(Ring[n]) + Rel[m.src]
          /\ downstream_start_slot(Ring[n]) \in Int
      BY <1>1, <3>2, ClusterheadRing DEF my_slot
    <3> QED
      BY <3>2, <3>3, <3>4 DEF relative
  <2>8. held'[n] = <<>> \/ held'[n] \in Seq(Takeable(n, code[n])')
    <3>1. held[n] \in Seq(Takeable(n, code[n]))
      BY <1>1, <2>2 DEF AckInv
    <3>2. PICK k : k = relative
      OBVIOUS
    <3>3. Takeable(n, code[n]) \subseteq Takeable(n, k)'
      BY <2>5, <2>7, <3>2, OnwardSets
    <3>4. Takeable(n, k)' = Takeable(n, code[n])'
      BY <2>6, <3>2
    <3> QED
      BY <2>4, <3>1, <3>3, <3>4, SeqOfMore
  <2> QED
    BY <1>1, <2>3, <2>4, <2>5, <2>8, AckStays
<1>3. CASE Done(n) /\ UNCHANGED <<code, held>>
  BY <1>1, <1>3, DoneAck
<1> QED
  BY <1>2, <1>3 DEF ClusterheadListen

LEMMA ClusterheadHearAck ==
    ASSUME TypeOK, TypeOK', FlowInv, TookInv, AckInv, NEW n \in Node, ClusterheadHear(n)
    PROVE  AckInv'
<1> DEFINE s == Received(n)[Len(held[n])]
           A == Sendable(n)
           B == TakenBy(n)
<1>1. /\ todo[n] # <<>> /\ n \in Clusterhead /\ slot' = slot /\ frame' = frame /\ Done(n)
      /\ mine' = mine /\ code' = code /\ ~Over(n)
  BY FirstTask DEF ClusterheadHear, Doing, FlowInv, Over
<1>2. /\ tx' = [tx EXCEPT ![n] = s.tx]
      /\ took' = [took EXCEPT ![n] = s.took]
      /\ held' = [held EXCEPT ![n] = <<>>]
      /\ acks' = [acks EXCEPT ![n] = s.acks]
  BY DEF ClusterheadHear
<1>3. held[n] \in Seq(Takeable(n, code[n]))
  BY <1>1 DEF AckInv
<1>4. ASSUME NEW i \in DOMAIN held[n], held[n][i].type = "Datagram"
      PROVE  /\ held[n][i] \in A \cap B /\ held[n][i].sequence <= now
             /\ InSlot(n, code[n], held[n][i]) /\ held[n][i] \in Message
  <2>1. held[n][i] \in Takeable(n, code[n])
    BY <1>3
  <2>2. /\ held[n][i] \in Message /\ Timed(held[n][i]) /\ Below(n, held[n][i])
        /\ InSlot(n, code[n], held[n][i])
    BY <1>4, <2>1 DEF Takeable
  <2>3. held[n][i].src # n
    <3>1. Parent[n] # UNKNOWN_ADDR =>
            Parent[n] # n /\ Ring[Parent[n]] < Ring[n] /\ Ring[n] \in Nat /\ Ring[Parent[n]] \in Nat
      BY TreeAssumption, RingAssumption
    <3> QED
      BY <2>2, <3>1 DEF Below
  <2> QED
    BY <1>4, <2>2, <2>3 DEF Sendable, TakenBy, Timed
<1>5. /\ held[n] \in Seq(Message) /\ code[n] \in 0 .. vtdma_window_size - 1
      /\ acks[n] \in [0 .. vtdma_window_size - 1 -> Time] /\ Len(tx[n]) <= TxCap
      /\ took[n] \in Seq(Message)
  BY DEF TypeOK
<1>6. tx[n] \in Seq(A) /\ took[n] \in Seq(B)
  BY DEF AckInv
<1> HIDE DEF A, B
<1>7. s.tx \in Seq(A) /\ s.took \in Seq(B)
  <2>1. \A i \in DOMAIN held[n] : held[n][i].type = "Datagram" => held[n][i] \in A \cap B
    BY <1>4
  <2> QED
    BY <1>5, <1>6, <2>1, ReceivedFrom
<1> HIDE DEF s
<1>8. /\ \A k \in 0 .. vtdma_window_size - 1 : k # code[n] => s.acks[k] = acks[n][k]
      /\ \/ s.acks[code[n]] = acks[n][code[n]]
         \/ \E m \in Data(held[n]) : s.acks[code[n]] = m.sequence
      /\ Data(took[n]) \cup Data(held[n]) \subseteq Data(s.took)
  BY ReceivedNotes DEF s
<1>9. /\ tx'[n] = s.tx /\ took'[n] = s.took /\ held'[n] = <<>> /\ acks'[n] = s.acks
      /\ \A i \in Node : i # n => /\ tx'[i] = tx[i] /\ took'[i] = took[i] /\ held'[i] = held[i]
                                /\ acks'[i] = acks[i]
  BY <1>2 DEF TypeOK
<1>10. Onward
  <2>1. \A m \in Node : mine[m] <= mine'[m]
    BY <1>1, MineIsNat
  <2>2. \A m \in Node : Data(took[m]) \subseteq Data(took'[m])
    BY <1>8, <1>9
  <2> QED
    BY <1>1, <2>1, <2>2, Within
<1>11. tx'[n] \in Seq(Sendable(n)') /\ took'[n] \in Seq(TakenBy(n)')
  <2>1. A \subseteq Sendable(n)' /\ B \subseteq TakenBy(n)'
    BY <1>10, OnwardSets DEF A, B
  <2> QED
    BY <1>7, <1>9, <2>1, SeqOfMore
<1>12. Backed(n, acks[n])'
  <2> SUFFICES ASSUME NEW k \in 1 .. vtdma_window_size - 1, acks'[n][k] # 0
               PROVE  \E m \in Data(took'[n]) :
                         m.sequence = acks'[n][k] /\ m.sequence <= now' /\ InSlot(n, k, m)'
    BY DEF Backed, Data
  <2>1. k \in 0 .. vtdma_window_size - 1
    BY Windows
  <2>2. CASE acks'[n][k] = acks[n][k]
    <3>1. PICK a : a = acks[n]
      OBVIOUS
    <3>2. Backed(n, a)
      BY <1>1, <3>1 DEF AckInv
    <3>3. Backed(n, a)'
      BY <1>1, <1>10, <3>2, BackedStays
    <3>4. a[k] # 0 /\ a[k] = acks'[n][k]
      BY <2>2, <3>1
    <3>5. \E m \in Data(took[n])' : m.sequence = a[k] /\ m.sequence <= now' /\ InSlot(n, k, m)'
      BY <3>3, <3>4 DEF Backed
    <3> QED
      BY <3>4, <3>5 DEF Data
  <2>3. ASSUME k = code[n], NEW m \in Data(held[n]), acks'[n][k] = m.sequence
        PROVE  \E x \in Data(took'[n]) :
                  x.sequence = acks'[n][k] /\ x.sequence <= now' /\ InSlot(n, k, x)'
    <3>1. PICK i \in DOMAIN held[n] : held[n][i] = m /\ m.type = "Datagram"
      BY DEF Data
    <3>2. m.sequence <= now /\ InSlot(n, k, m) /\ m \in Message
      BY <1>4, <2>3, <3>1
    <3>3. InSlot(n, k, m)' /\ now' = now
      BY <1>1, <1>10, <3>1, <3>2, OnwardKeeps DEF now
    <3>4. m \in Data(took'[n])
      BY <1>8, <1>9
    <3> QED
      BY <2>3, <3>2, <3>3, <3>4
  <2> QED
    BY <1>8, <1>9, <2>1, <2>2, <2>3
<1>13. \A c \in Clusterhead : Over(c) => Over(c)'
  BY <1>1, OverStays DEF FlowInv
<1>14. /\ \A i \in Node : /\ tx'[i] \in {tx[i], <<>>} \/ tx'[i] \in Seq(Sendable(i)')
                          /\ held'[i] \in {held[i], <<>>}
                          /\ took'[i] = took[i] \/ took'[i] \in Seq(TakenBy(i)')
       /\ \A c \in Clusterhead :
              \/ \A k \in 1 .. vtdma_window_size - 1 : acks'[c][k] \in {acks[c][k], 0}
              \/ Backed(c, acks[c])'
  BY <1>9, <1>11, <1>12, ClusterheadRing
<1> QED
  BY <1>1, <1>10, <1>13, <1>14, AckStays

\* A clusterhead has had no turn of its own when it answers.
LEMMA ClusterheadSendAck ==
    ASSUME OneUpstream, Leased, TypeOK, TypeOK', FlowInv, SendInv, TookInv, TurnInv, AckInv,
           NEW n \in Node, ClusterheadSend(n)
    PROVE  AckInv'
<1>1. /\ todo[n] # <<>> /\ Done(n) /\ n \in Clusterhead /\ slot' = slot /\ frame' = frame
      /\ took' = took /\ mine' = mine /\ acks' = acks
  BY FirstTask DEF ClusterheadSend, Doing, FlowInv
<1>2. Onward
  BY <1>1, SameTook, Within
<1>3. CASE slot = ack_slot(n)
  <2>1. PICK nomination \in {n, UNKNOWN_ADDR} :
          LET q == Queued(Queued(tx[n], SendAcks(n)), CloseCluster(n, nomination))
          IN  \/ Flushed(n, q, 0, {f \in Node : parent[f] = n})
              \/ NotFlushed(n, q, 0)
    BY <1>3 DEF ClusterheadSend
  <2> DEFINE q1 == Queued(tx[n], SendAcks(n))
             q == Queued(q1, CloseCluster(n, nomination))
             Q == Sendable(n)
  <2>2. tx[n] \in Seq(Q) /\ Len(tx[n]) <= TxCap
    BY DEF AckInv, TypeOK
  <2>3. SendAcks(n) \in Q
    <3>1. SendAcks(n) \in Message /\ SendAcks(n).type = "SendAcks"
          /\ SendAcks(n).src = n /\ SendAcks(n).acks = acks[n]
      BY DEF SendAcks, Message, TypeOK
    <3>2. Backed(n, acks[n])
      BY <1>1 DEF AckInv
    <3> QED
      BY <1>1, <3>1, <3>2 DEF Sendable
  <2>4. CloseCluster(n, nomination) \in Q
    BY DEF CloseCluster, Message, Sendable
  <2>5. ASSUME NEW m \in Q, m.type = "Datagram", m.src = n, m.sequence > begun' PROVE FALSE
    <3>1. m \in Message /\ m.sequence <= mine[n] /\ Parent[n] # UNKNOWN_ADDR
      BY <2>5 DEF Sendable
    <3>2. begun' = begun
      BY <1>1 DEF begun
    <3>3. m.sequence \in Nat /\ mine[n] \in Nat /\ mine[n] <= now /\ begun \in Nat
          /\ slot \in Nat /\ now = begun + slot
      <4>1. Time \subseteq Nat
        BY DEF Time
      <4>2. m.sequence \in Nat
        BY <2>5, <3>1, <4>1 DEF Message
      <4> QED
        BY <4>2, MineIsNat, BegunIs DEF SendInv
    <3>4. mine[n] > begun
      BY <2>5, <3>1, <3>2, <3>3
    <3>5. mine[n] = begun + my_slot(n) \/ mine[n] = begun + my_slot(n) + 1
      BY <3>3, <3>4 DEF TurnInv, Turn
    <3>6. my_slot(n) > slot /\ my_slot(n) \in Nat
      BY <1>1, <1>3, <3>1, TurnSlots, ClusterheadRing
    <3> QED
      BY <3>3, <3>5, <3>6
  <2>6. Q \subseteq Sendable(n)'
    BY <1>2, OnwardSets
  <2> HIDE DEF Q
  <2>7. q1 \in Seq(Q) /\ Len(q1) <= TxCap
    BY <2>2, <2>3, QueuedType
  <2>8. Flushed(n, q, 0, {f \in Node : parent[f] = n}) \/ NotFlushed(n, q, 0)
    BY <2>1
  <2> HIDE DEF q1
  <2>9. q \in Seq(Q)
    BY <2>4, <2>7, QueuedType
  <2> HIDE DEF q
  <2>10. After(n, 0)
    BY <1>1, <1>3, AckSlotIsAfter
  <2>11. \A m \in Q : m.type = "Datagram" /\ m.src = n /\ m.sequence > begun'
                         => m.sequence = begun' + my_slot(n) /\ Rel[n] <= 0
    BY <2>5
  <2> QED
    BY <1>1, <1>2, <2>6, <2>8, <2>9, <2>10, <2>11, AckFlush
<1>4. CASE UNCHANGED <<code, tx, held, faulty>>
  BY <1>1, <1>4, DoneAck
<1> QED
  BY <1>3, <1>4 DEF ClusterheadSend

\* A follower that sends in its slot has made no other datagram in this superframe.
LEMMA FollowerSendAck ==
    ASSUME OneUpstream, TypeOK, TypeOK', FlowInv, SendInv, TookInv, TurnInv, AckInv,
           NEW n \in Node, FollowerSend(n)
    PROVE  AckInv'
<1>0. PICK d : d = Datagram(n)
  OBVIOUS
<1> DEFINE q == Queued(tx[n], d)
           Q == Sendable(n) \cup {d}
<1>1. /\ todo[n] # <<>> /\ Done(n) /\ Parent[n] # UNKNOWN_ADDR /\ slot' = slot /\ frame' = frame
      /\ took' = took /\ acks' = acks /\ mine' = [mine EXCEPT ![n] = now]
  BY FirstTask DEF FollowerSend, Doing, FlowInv
<1>2. 1 \in Sends(todo[n]) /\ todo[n][1].slot \in {slot, slot - 1}
  BY TodoParts DEF FollowerSend, Doing, Sends
<1>3. /\ mine[n] < now /\ (my_slot(n) = slot \/ my_slot(n) = slot - 1)
      /\ mine[n] \in Nat /\ now \in Nat /\ begun \in Nat /\ slot \in Nat /\ now = begun + slot
  BY <1>2, MineIsNat, BegunIs, NowIsNat DEF SendInv
<1>4. mine[n] <= begun
  BY <1>2, <1>3 DEF TurnInv, Turn
<1>5. now' = now /\ begun' = begun /\ mine'[n] = now
  BY <1>1 DEF now, begun, TypeOK
<1>6. Onward
  <2>1. \A m \in Node : mine[m] <= mine'[m]
    <3>1. \A m \in Node : m # n => mine'[m] = mine[m]
      BY <1>1 DEF TypeOK
    <3> QED
      BY <1>3, <1>5, <3>1, MineIsNat
  <2> QED
    BY <1>1, <2>1, Within
<1>7. d \in Message /\ d.type = "Datagram" /\ d.src = n /\ d.sequence = now
  BY <1>0, NowInTime DEF Datagram, Message
<1>8. Q \subseteq Sendable(n)'
  <2>1. my_slot(n)' = my_slot(n)
    BY DEF my_slot
  <2>2. Timed(d)'
    BY <1>1, <1>3, <1>5, <1>7, <2>1 DEF Timed
  <2>3. d \in Sendable(n)'
    BY <1>1, <1>3, <1>5, <1>7, <2>2 DEF Sendable, Message
  <2> QED
    BY <1>6, <2>3, OnwardSets
<1>9. ASSUME NEW m \in Q, m.type = "Datagram", m.src = n, m.sequence > begun' PROVE m = d
  <2> SUFFICES ASSUME m \in Sendable(n) PROVE FALSE
    OBVIOUS
  <2>1. m \in Message /\ m.sequence <= mine[n]
    BY <1>9 DEF Sendable
  <2>2. m.sequence \in Nat
    <3>1. Time \subseteq Nat
      BY DEF Time
    <3> QED
      BY <1>9, <2>1, <3>1 DEF Message
  <2> QED
    BY <1>3, <1>4, <1>5, <1>9, <2>1, <2>2
<1>10. q \in Seq(Q)
  <2>1. tx[n] \in Seq(Sendable(n)) /\ Len(tx[n]) <= TxCap
    BY DEF AckInv, TypeOK
  <2>2. tx[n] \in Seq(Q) /\ d \in Q
    BY <2>1, SeqOfMore
  <2> HIDE DEF Q
  <2> QED
    BY <2>1, <2>2, QueuedType
<1>11. \/ slot = my_slot(n) /\ (Flushed(n, q, Rel[n], {parent[n]}) \/ NotFlushed(n, q, Rel[n]))
       \/ tx' = [tx EXCEPT ![n] = q] /\ UNCHANGED <<code, held, faulty>>
  BY <1>0 DEF FollowerSend
<1> HIDE DEF q, Q
<1>12. CASE slot = my_slot(n) /\ (Flushed(n, q, Rel[n], {parent[n]}) \/ NotFlushed(n, q, Rel[n]))
  <2>1. After(n, Rel[n])
    BY <1>1, <1>12, MySlotIsAfter
  <2>2. Rel[n] <= Rel[n]
    BY TreeAssumption, Windows
  <2>3. \A m \in Q : m.type = "Datagram" /\ m.src = n /\ m.sequence > begun'
                        => m.sequence = begun' + my_slot(n) /\ Rel[n] <= Rel[n]
    BY <1>3, <1>5, <1>7, <1>9, <1>12, <2>2
  <2> QED
    BY <1>1, <1>6, <1>8, <1>10, <1>12, <2>1, <2>3, AckFlush
<1>13. CASE tx' = [tx EXCEPT ![n] = q] /\ UNCHANGED <<code, held, faulty>>
  <2>1. \A c \in Clusterhead : Over(c) => Over(c)'
    BY <1>1, OverStays DEF FlowInv
  <2>2. q \in Seq(Sendable(n)')
    BY <1>8, <1>10, SeqOfMore
  <2>3. \A i \in Node : tx'[i] \in {tx[i], <<>>} \/ tx'[i] \in Seq(Sendable(i)')
    BY <1>13, <2>2 DEF TypeOK
  <2> QED
    BY <1>1, <1>6, <1>13, <2>1, <2>3, AckStays
<1> QED
  BY <1>11, <1>12, <1>13

LEMMA InitAck == Init => AckInv
<1> SUFFICES ASSUME Init PROVE AckInv
  OBVIOUS
<1>1. /\ \A n \in Node : tx[n] = <<>> /\ held[n] = <<>> /\ took[n] = <<>>
      /\ slot = 0 /\ acks = [n \in Node |-> [i \in 0 .. vtdma_window_size - 1 |-> 0]]
  BY DEF Init
<1>2. \A c \in Clusterhead : Backed(c, acks[c]) /\ Over(c)
  BY <1>1, ClusterheadRing, Windows DEF Backed, Over
<1>3. \A S : <<>> \in Seq(S)
  OBVIOUS
<1> QED
  BY <1>1, <1>2, <1>3 DEF AckInv

LEMMA NextAck ==
    ASSUME OneUpstream, Leased, TypeOK, TypeOK', FlowInv, SendInv, TookInv, TurnInv, AckInv,
           [Next]_vars
    PROVE  AckInv'
<1>1. CASE UNCHANGED vars
  <2>1. /\ UNCHANGED <<frame, slot, mine, took, tx, held, acks, code, todo>>
    BY <1>1 DEF vars
  <2>2. Onward
    BY <2>1, SameTook, Within
  <2>3. \A c \in Clusterhead : Over(c)' = Over(c)
    BY <2>1 DEF Over, Doing, ack_slot
  <2> QED
    BY <2>1, <2>2, <2>3, AckStays
<1>2. ASSUME NEW n \in Node, Step(n) PROVE AckInv'
  BY <1>2, ClusterheadListenAck, ClusterheadHearAck, ClusterheadSendAck,
     FollowerSendAck, FollowerListenAck, FollowerHearAck, TimeOutAck DEF Step
<1> QED
  BY <1>1, <1>2, AdvertiseAck, NextSlotAck DEF Next

-----------------------------------------------------------------------------
(* So the answer a follower reads is about its own datagram.                *)

\* A clusterhead of a lower ring that a node hears is the one it follows.
OneDownstream ==
    \A n \in Node, c \in Clusterhead : InRange(c, n) /\ Ring[c] < Ring[n] => c = Parent[n]

\* Slots of different windows are apart, even when a frame is a slot late.
LEMMA TurnApart ==
    ASSUME Leased, NEW f \in Node, NEW g \in Node,
           Parent[f] # UNKNOWN_ADDR, Parent[g] # UNKNOWN_ADDR, Ring[Parent[f]] < Ring[Parent[g]]
    PROVE  my_slot(g) + 1 < my_slot(f)
<1>1. /\ Parent[f] \in Clusterhead /\ Parent[g] \in Clusterhead
      /\ Rel[f] \in Nat /\ Rel[f] # 0 /\ Rel[g] \in Nat /\ Rel[g] <= vtdma_window_size - 1
      /\ my_slot(f) = downstream_start_slot(Ring[Parent[f]]) + Rel[f]
      /\ my_slot(g) = downstream_start_slot(Ring[Parent[g]]) + Rel[g]
  BY TurnSlots
<1>2. downstream_start_slot(Ring[Parent[g]]) + vtdma_window_size
        <= downstream_start_slot(Ring[Parent[f]])
  BY <1>1, ClusterheadRing, LaterWindow
<1>3. /\ downstream_start_slot(Ring[Parent[g]]) \in Int /\ vtdma_window_size \in Nat
      /\ downstream_start_slot(Ring[Parent[f]]) \in Int
  BY <1>1, ClusterheadRing, Windows
<1>4. my_slot(g) + 1 <= downstream_start_slot(Ring[Parent[g]]) + vtdma_window_size
  BY <1>1, <1>3
<1> QED
  BY <1>1, <1>2, <1>3, <1>4

LEMMA AnswerTruthful ==
    ASSUME OneDownstream, Leased, TypeOK, TurnInv, AckInv,
           NEW f \in Node, Doing(f, "follower_hear"), NEW i \in DOMAIN held[f],
           held[f][i].type = "SendAcks", held[f][i].acks[Rel[f]] = mine[f]
    PROVE  \E c \in Clusterhead : \E m \in Data(took[c]) : m.src = f /\ m.sequence = mine[f]
<1> DEFINE c == held[f][i].src
<1>1. /\ c \in Clusterhead /\ InRange(c, f) /\ Backed(c, held[f][i].acks)
  <2>1. held[f][i] \in Hearable(f)
    BY DEF AckInv
  <2> QED
    BY <2>1 DEF Hearable
<1>2. /\ mine[f] > begun /\ Parent[f] # UNKNOWN_ADDR
      /\ mine[f] = begun + my_slot(f) \/ mine[f] = begun + my_slot(f) + 1
      /\ mine[f] \in Nat /\ begun \in Nat
  BY HearingHadTurn, MineIsNat, BegunIs
<1>3. /\ Rel[f] \in 1 .. vtdma_window_size - 1 /\ my_slot(f) \in Nat
      /\ Parent[f] \in Clusterhead /\ Ring[Parent[f]] < Ring[f]
  BY <1>2, TurnSlots, Windows
<1> HIDE DEF c
<1>4. PICK m \in Data(took[c]) : m.sequence = mine[f] /\ InSlot(c, Rel[f], m)
  BY <1>1, <1>2, <1>3 DEF Backed
<1>5. /\ Timed(m) /\ Below(c, m) /\ m.src \in Node /\ c \in Node
  <2>1. took[c] \in Seq(TakenBy(c)) /\ c \in Node
    BY <1>1, ClusterheadRing DEF AckInv
  <2>2. m \in TakenBy(c)
    BY <2>1 DEF Data
  <2> QED
    BY <2>1, <2>2 DEF TakenBy, Message
<1> DEFINE g == m.src
<1>6. /\ Parent[g] # UNKNOWN_ADDR /\ g \in Node
      /\ mine[f] = begun + my_slot(g) \/ mine[f] = begun + my_slot(g) + 1
      /\ Parent[g] = c \/ Ring[c] < Ring[Parent[g]]
      /\ Parent[g] = c => mine[f] = begun + my_slot(g) /\ Rel[g] <= Rel[f]
  BY <1>2, <1>4, <1>5 DEF Timed, Below, InSlot
<1> HIDE DEF g
<1>7. my_slot(g) \in Nat /\ Parent[g] \in Clusterhead /\ Rel[g] \in Nat
  BY <1>6, TurnSlots
<1>8. /\ Ring[Parent[f]] \in Nat /\ Ring[Parent[g]] \in Nat /\ Ring[c] \in Nat /\ Ring[f] \in Nat
  BY <1>1, <1>3, <1>7, ClusterheadRing, RingAssumption
<1>9. ~ Ring[Parent[f]] < Ring[Parent[g]]
  BY <1>2, <1>3, <1>6, <1>7, TurnApart
<1>10. c = Parent[f]
  <2>1. Ring[c] < Ring[f]
    BY <1>3, <1>6, <1>8, <1>9
  <2> QED
    BY <1>1, <2>1 DEF OneDownstream
<1>11. Parent[g] = c
  BY <1>6, <1>9, <1>10
<1>12. Rel[g] = Rel[f]
  <2>1. /\ my_slot(f) = downstream_start_slot(Ring[c]) + Rel[f]
        /\ my_slot(g) = downstream_start_slot(Ring[c]) + Rel[g]
        /\ downstream_start_slot(Ring[c]) \in Int
    BY <1>1, <1>10, <1>11, ClusterheadRing DEF my_slot
  <2> QED
    BY <1>2, <1>3, <1>6, <1>7, <1>11, <2>1
<1>13. g = f
  BY <1>2, <1>6, <1>10, <1>11, <1>12 DEF Leased
<1> QED
  BY <1>1, <1>4, <1>13 DEF g

Answered(f) ==
    mine[f] # 0 /\ acks[f][0] = mine[f] =>
        \E c \in Clusterhead : \E m \in Data(took[c]) : m.src = f /\ m.sequence = mine[f]

LEMMA AnsweredIs == TypeOK /\ TookInv => (AckTruthful <=> \A f \in Node : Answered(f))
<1> SUFFICES ASSUME TypeOK, TookInv, NEW f \in Node, NEW c \in Clusterhead
             PROVE  (\E m \in Data(took[c]) : m.src = f /\ m.sequence = mine[f])
                      <=> \E i \in DOMAIN took[c] :
                             took[c][i].src = f /\ took[c][i].sequence = mine[f]
  BY DEF AckTruthful, Answered
<1>1. \A i \in DOMAIN took[c] : took[c][i].type = "Datagram"
  <2> DEFINE B == {m \in Message : m.type = "Datagram"}
  <2>1. took[c] \in Seq(B) /\ \A m \in B : m.type = "Datagram"
    BY ClusterheadRing DEF TookInv
  <2> HIDE DEF B
  <2> QED
    BY <2>1
<1> QED
  BY <1>1 DEF Data

LEMMA AnsweredStays ==
    ASSUME NEW f \in Node, Answered(f), mine'[f] = mine[f],
           acks'[f][0] = acks[f][0] \/ acks'[f][0] = 0,
           \A c \in Clusterhead : Data(took[c]) \subseteq Data(took'[c])
    PROVE  Answered(f)'
<1>1. \A c \in Clusterhead : Data(took[c])' = Data(took'[c])
  BY DEF Data
<1> QED
  BY <1>1 DEF Answered

LEMMA NextAnswered ==
    ASSUME OneDownstream, Leased, TypeOK, FlowInv, TookInv, TurnInv, AckInv,
           \A f \in Node : Answered(f), [Next]_vars
    PROVE  \A f \in Node : Answered(f)'
<1> SUFFICES ASSUME NEW f \in Node PROVE Answered(f)'
  OBVIOUS
<1>1. ASSUME mine' = mine, acks' = acks, took' = took PROVE Answered(f)'
  BY <1>1, AnsweredStays
<1>2. CASE UNCHANGED vars
  BY <1>1, <1>2 DEF vars
<1>3. CASE Advertise
  <2>1. mine' = mine /\ took' = took /\ acks'[f] = [i \in DOMAIN acks[f] |-> 0]
    BY <1>3 DEF Advertise
  <2>2. acks'[f][0] = 0
    BY <2>1, Windows DEF TypeOK
  <2> QED
    BY <2>1, <2>2, AnsweredStays
<1>4. CASE NextSlot
  BY <1>1, <1>4 DEF NextSlot
<1>5. ASSUME NEW n \in Node, ClusterheadHear(n) PROVE Answered(f)'
  <2> DEFINE s == Received(n)[Len(held[n])]
  <2>1. /\ mine' = mine /\ acks' = [acks EXCEPT ![n] = s.acks]
        /\ took' = [took EXCEPT ![n] = s.took] /\ code[n] # 0
    BY <1>5, Hearing DEF ClusterheadHear, FlowInv
  <2> HIDE DEF s
  <2>2. s.acks[0] = acks[n][0] /\ Data(took[n]) \subseteq Data(s.took)
    <3>1. 0 \in 0 .. vtdma_window_size - 1
      BY Windows
    <3> QED
      BY <2>1, <3>1, ReceivedNotes DEF s
  <2>3. acks'[f][0] = acks[f][0]
    BY <2>1, <2>2 DEF TypeOK
  <2>4. \A c \in Clusterhead : Data(took[c]) \subseteq Data(took'[c])
    <3>1. \A c \in Node : took'[c] = took[c] \/ (c = n /\ took'[c] = s.took)
      BY <2>1 DEF TypeOK
    <3> QED
      BY <2>2, <3>1, ClusterheadRing
  <2> QED
    BY <2>1, <2>3, <2>4, AnsweredStays
<1>6. ASSUME NEW n \in Node, FollowerSend(n) PROVE Answered(f)'
  <2>1. /\ todo[n] # <<>> /\ mine' = [mine EXCEPT ![n] = now] /\ acks' = acks /\ took' = took
    BY <1>6 DEF FollowerSend, Doing
  <2>2. CASE f = n
    <3>1. 1 \in Sends(todo[n]) /\ slot # 0
      BY <1>6, TodoParts DEF FollowerSend, Doing, Sends, FlowInv
    <3>2. acks[n][0] = 0
      BY <3>1 DEF TurnInv, Turn
    <3> QED
      BY <2>1, <2>2, <3>2 DEF Answered
  <2>3. CASE f # n
    <3>1. mine'[f] = mine[f]
      BY <2>1, <2>3 DEF TypeOK
    <3> QED
      BY <2>1, <3>1, AnsweredStays
  <2> QED
    BY <2>2, <2>3
<1>7. ASSUME NEW n \in Node, FollowerHear(n) PROVE Answered(f)'
  <2>1. mine' = mine /\ took' = took /\ Doing(n, "follower_hear")
    BY <1>7 DEF FollowerHear
  <2>2. \/ acks' = acks
        \/ \E i \in LastOf(held[n], "SendAcks") :
              acks' = [acks EXCEPT ![n][0] = held[n][i].acks[Rel[n]]]
    BY <1>7 DEF FollowerHear
  <2>3. ASSUME NEW i \in LastOf(held[n], "SendAcks"),
               acks' = [acks EXCEPT ![n][0] = held[n][i].acks[Rel[n]]]
        PROVE  Answered(f)'
    <3>1. i \in DOMAIN held[n] /\ held[n][i].type = "SendAcks"
      BY DEF LastOf
    <3>2. CASE f # n
      <4>1. acks'[f] = acks[f]
        BY <2>3, <3>2 DEF TypeOK
      <4> QED
        BY <2>1, <4>1, AnsweredStays
    <3>3. CASE f = n
      <4>1. acks'[n][0] = held[n][i].acks[Rel[n]]
        <5>1. 0 \in 0 .. vtdma_window_size - 1
          BY Windows
        <5> QED
          BY <2>3, <5>1 DEF TypeOK
      <4>2. ASSUME held[n][i].acks[Rel[n]] = mine[n] PROVE Answered(n)'
        <5>1. \E c \in Clusterhead : \E m \in Data(took[c]) : m.src = n /\ m.sequence = mine[n]
          BY <2>1, <3>1, <4>2, AnswerTruthful
        <5>2. \A c \in Clusterhead : Data(took[c])' = Data(took[c])
          BY <2>1 DEF Data
        <5> QED
          BY <2>1, <5>1, <5>2 DEF Answered
      <4> QED
        BY <2>1, <3>3, <4>1, <4>2 DEF Answered
    <3> QED
      BY <3>2, <3>3
  <2> QED
    BY <1>1, <2>1, <2>2, <2>3
<1>8. ASSUME NEW n \in Node, Step(n) PROVE Answered(f)'
  <2>1. \/ mine' = mine /\ acks' = acks /\ took' = took
        \/ ClusterheadHear(n) \/ FollowerSend(n) \/ FollowerHear(n)
    BY <1>8 DEF Step, ClusterheadListen, ClusterheadSend, FollowerListen, TimeOut
  <2> QED
    BY <1>1, <1>5, <1>6, <1>7, <2>1
<1> QED
  BY <1>2, <1>3, <1>4, <1>8 DEF Next

\* An acknowledgement tells the truth, whatever was lost, left over in a buffer,
\* flushed a superframe too late or done a slot late: a follower that holds the
\* sequence number of its last datagram as its ack had it taken by a clusterhead
\* (do_clusterhead_recv, emit_ch_messages, do_follower_recv).
THEOREM ConvergecastAckTruthful ==
    ASSUME OneUpstream, OneDownstream, Leased
    PROVE  Spec => []AckTruthful
<1> DEFINE Truthful == \A f \in Node : Answered(f)
           Inv == FlowInv /\ SendInv /\ TookInv /\ TurnInv /\ AckInv /\ Truthful
<1>1. Init => Inv
  <2>1. Init => Truthful
    BY DEF Init, Answered
  <2> QED
    BY <2>1, InitFlow, InitSend, InitTook, InitTurn, InitAck
<1>2. TypeOK /\ TypeOK' /\ Inv /\ [Next]_vars => Inv'
  <2> SUFFICES ASSUME TypeOK, TypeOK', Inv, [Next]_vars PROVE Inv'
    OBVIOUS
  <2>1. FlowInv' /\ SendInv' /\ TookInv' /\ TurnInv' /\ AckInv'
    BY NextFlow, NextSend, NextTook, NextTurn, NextAck
  <2>2. \A f \in Node : Answered(f)'
    BY NextAnswered
  <2> QED
    BY <2>1, <2>2
<1>3. TypeOK /\ Inv => AckTruthful
  BY AnsweredIs
<1> HIDE DEF Inv
<1> QED
  BY <1>1, <1>2, <1>3, ConvergecastTypeOK, PTL DEF Spec
-----------------------------------------------------------------------------
(* A superframe in which nothing goes wrong, where every follower is served: *)
(* its datagram is acknowledged by the end.  First what a node has to do in  *)
(* a slot, and that a step of a node leaves the tasks of the others alone.   *)

\* What it takes to serve every follower: each has a slot of its clusterhead's
\* window in which that one listens, and the two are in reach of each other.
Served ==
    \A f \in Node : Parent[f] # UNKNOWN_ADDR =>
        /\ Rel[f] <= vtdma_window_size - 2 /\ Rel[f] < slots_assigned(Parent[f])
        /\ InRange(f, Parent[f]) /\ InRange(Parent[f], f)

HearDuties == {"clusterhead_recv", "clusterhead_hear"}
HeedDuties == {"follower_recv", "follower_hear"}
HereDuties == {"clusterhead_hear", "follower_hear"}
Due(q, s, D) == \E i \in DOMAIN q : q[i].slot = s /\ q[i].do \in D

start(c) == downstream_start_slot(Ring[c])

\* A node has one task a slot, each in the slot of its kind.
Planned(n) ==
    /\ \A i, j \in DOMAIN todo[n] : todo[n][i].slot = todo[n][j].slot => i = j
    /\ \A i \in DOMAIN todo[n] :
         /\ todo[n][i].do \in HereDuties => i = 1
         /\ todo[n][i].do \in HearDuties
              => todo[n][i].slot - start(n) \in 1 .. vtdma_window_size - 2
         /\ todo[n][i].do = "clusterhead_send" => todo[n][i].slot = ack_slot(n)
         /\ todo[n][i].do = "follower_send" => parent[n] = Parent[n]
         /\ todo[n][i].do \in HeedDuties => todo[n][i].slot = ack_slot(Parent[n])
    /\ slot # 0 /\ mine[n] <= begun => parent[n] \in {UNKNOWN_ADDR, Parent[n]}

PlanInv == \A n \in Node : Planned(n)

\* What a step of a node makes of its tasks.
Moved(q, r) ==
    \/ r = q
    \/ q # <<>> /\ r = Tail(q)
    \/ /\ q # <<>>
       /\ \/ q[1].do = "clusterhead_recv" /\ r = [q EXCEPT ![1].do = "clusterhead_hear"]
          \/ q[1].do = "follower_recv" /\ r = [q EXCEPT ![1].do = "follower_hear"]

LEMMA TailIs ==
    ASSUME NEW S, NEW q \in Seq(S), q # <<>>
    PROVE  /\ \A j \in DOMAIN Tail(q) : j + 1 \in DOMAIN q /\ Tail(q)[j] = q[j + 1] /\ j + 1 # 1
           /\ \A i \in DOMAIN q : i # 1 => i - 1 \in DOMAIN Tail(q) /\ Tail(q)[i - 1] = q[i]
           /\ \A j \in DOMAIN Tail(q) : j \in Nat
           /\ 1 \in DOMAIN q /\ Head(q) = q[1]
  OBVIOUS

LEMMA BeginIs ==
    ASSUME NEW q \in Seq(Task0), q # <<>>, NEW d
    PROVE  /\ DOMAIN [q EXCEPT ![1].do = d] = DOMAIN q
           /\ [q EXCEPT ![1].do = d][1].do = d
           /\ [q EXCEPT ![1].do = d][1].slot = q[1].slot
           /\ \A i \in DOMAIN q : i # 1 => [q EXCEPT ![1].do = d][i] = q[i]
<1>1. 1 \in DOMAIN q /\ q[1] \in Task0
  OBVIOUS
<1>2. [q EXCEPT ![1].do = d][1] = [q[1] EXCEPT !.do = d]
  BY <1>1
<1>3. [q[1] EXCEPT !.do = d].do = d /\ [q[1] EXCEPT !.do = d].slot = q[1].slot
  BY <1>1 DEF Task0
<1> QED
  BY <1>1, <1>2, <1>3

\* Each task that is left was there before, perhaps not yet begun.
LEMMA MovedTask ==
    ASSUME NEW q \in Seq(Task0), NEW r, Moved(q, r)
    PROVE  \A j \in DOMAIN r : \E i \in DOMAIN q :
              /\ IF q # <<>> /\ r = Tail(q) THEN i = j + 1 /\ i # 1 /\ j \in Nat ELSE i = j
              /\ r[j].slot = q[i].slot
              /\ \/ r[j].do = q[i].do
                 \/ i = 1 /\ q[i].do = "clusterhead_recv" /\ r[j].do = "clusterhead_hear"
                 \/ i = 1 /\ q[i].do = "follower_recv" /\ r[j].do = "follower_hear"
<1> SUFFICES ASSUME NEW j \in DOMAIN r
             PROVE  \E i \in DOMAIN q :
              /\ IF q # <<>> /\ r = Tail(q) THEN i = j + 1 /\ i # 1 /\ j \in Nat ELSE i = j
              /\ r[j].slot = q[i].slot
              /\ \/ r[j].do = q[i].do
                 \/ i = 1 /\ q[i].do = "clusterhead_recv" /\ r[j].do = "clusterhead_hear"
                 \/ i = 1 /\ q[i].do = "follower_recv" /\ r[j].do = "follower_hear"
  OBVIOUS
<1>1. CASE q # <<>> /\ r = Tail(q)
  BY <1>1, TailIs
<1>2. CASE r = q /\ ~(q # <<>> /\ r = Tail(q))
  BY <1>2
<1>3. ASSUME NEW d, q # <<>>, r = [q EXCEPT ![1].do = d], ~(q # <<>> /\ r = Tail(q)),
             \/ q[1].do = "clusterhead_recv" /\ d = "clusterhead_hear"
             \/ q[1].do = "follower_recv" /\ d = "follower_hear"
      PROVE  \E i \in DOMAIN q :
              /\ i = j
              /\ r[j].slot = q[i].slot
              /\ \/ r[j].do = q[i].do
                 \/ i = 1 /\ q[i].do = "clusterhead_recv" /\ r[j].do = "clusterhead_hear"
                 \/ i = 1 /\ q[i].do = "follower_recv" /\ r[j].do = "follower_hear"
  <2>1. /\ DOMAIN r = DOMAIN q /\ r[1].do = d /\ r[1].slot = q[1].slot
        /\ \A i \in DOMAIN q : i # 1 => r[i] = q[i]
    BY <1>3, BeginIs
  <2> QED
    BY <1>3, <2>1
<1> QED
  BY <1>1, <1>2, <1>3 DEF Moved

\* Which duties stay due, and which a step may do.
LEMMA MovedDue ==
    ASSUME NEW q \in Seq(Task0), NEW r, Moved(q, r), NEW s,
           NEW D \in {HearDuties, HeedDuties, {"clusterhead_send"}}
    PROVE  /\ Due(r, s, D) => Due(q, s, D)
           /\ Due(q, s, D) => Due(r, s, D) \/ (/\ q # <<>> /\ r = Tail(q) /\ r # q
                                              /\ q[1].slot = s /\ q[1].do \in D)
<1>1. ASSUME Due(r, s, D) PROVE Due(q, s, D)
  <2>1. PICK j \in DOMAIN r : r[j].slot = s /\ r[j].do \in D
    BY <1>1 DEF Due
  <2>2. PICK i \in DOMAIN q :
              /\ r[j].slot = q[i].slot
              /\ \/ r[j].do = q[i].do
                 \/ i = 1 /\ q[i].do = "clusterhead_recv" /\ r[j].do = "clusterhead_hear"
                 \/ i = 1 /\ q[i].do = "follower_recv" /\ r[j].do = "follower_hear"
    BY MovedTask
  <2> QED
    BY <2>1, <2>2 DEF Due, HearDuties, HeedDuties
<1>2. ASSUME NEW i \in DOMAIN q, q[i].slot = s, q[i].do \in D, r # q,
             ~(q # <<>> /\ r = Tail(q) /\ q[1].slot = s /\ q[1].do \in D)
      PROVE  Due(r, s, D)
  <2>1. q # <<>>
    BY <1>2 DEF Moved
  <2>2. CASE r = Tail(q)
    <3>1. i # 1
      BY <1>2, <2>1, <2>2
    <3>2. i - 1 \in DOMAIN r /\ r[i - 1] = q[i]
      BY <2>1, <2>2, <3>1, TailIs
    <3> QED
      BY <1>2, <3>2 DEF Due
  <2>3. ASSUME NEW d, r = [q EXCEPT ![1].do = d],
               \/ q[1].do = "clusterhead_recv" /\ d = "clusterhead_hear"
               \/ q[1].do = "follower_recv" /\ d = "follower_hear"
        PROVE  Due(r, s, D)
    <3>1. /\ DOMAIN r = DOMAIN q /\ r[1].do = d /\ r[1].slot = q[1].slot
          /\ \A k \in DOMAIN q : k # 1 => r[k] = q[k]
      BY <2>1, <2>3, BeginIs
    <3>2. r[i].slot = s /\ r[i].do \in D
      BY <1>2, <2>3, <3>1 DEF HearDuties, HeedDuties
    <3> QED
      BY <3>1, <3>2 DEF Due
  <2> QED
    BY <1>2, <2>1, <2>2, <2>3 DEF Moved
<1> QED
  BY <1>1, <1>2 DEF Due

LEMMA FlushLocal ==
    ASSUME TypeOK, NEW n \in Node, NEW q, NEW k, NEW Wanted,
           Flushed(n, q, k, Wanted) \/ NotFlushed(n, q, k)
    PROVE  \A m \in Node : m # n => code'[m] = code[m]
  BY DEF Flushed, NotFlushed, TypeOK

\* What a step of a node leaves alone.
LEMMA StepIs ==
    ASSUME TypeOK, FlowInv, NEW n \in Node, Step(n)
    PROVE  /\ slot' = slot /\ frame' = frame /\ slot # 0 /\ todo[n] # <<>>
           /\ \A m \in Node : m # n => /\ todo'[m] = todo[m] /\ code'[m] = code[m]
                                       /\ acks'[m] = acks[m] /\ parent'[m] = parent[m]
                                       /\ mine'[m] = mine[m]
           /\ Moved(todo[n], todo'[n])
           /\ mine'[n] = mine[n] \/ FollowerSend(n)
           /\ parent'[n] = parent[n] \/ FollowerHear(n)
<1>1. /\ todo[n] # <<>> => slot # 0
      /\ todo[n] # <<>> => todo[n][1] = Head(todo[n])
  BY TodoParts DEF FlowInv
<1>2. ASSUME Done(n), todo[n] # <<>>
      PROVE  Moved(todo[n], todo'[n]) /\ \A m \in Node : m # n => todo'[m] = todo[m]
  BY <1>2 DEF Done, Moved, TypeOK
<1>3. ASSUME NEW d, Listen(n, d), todo[n] # <<>>,
             \/ d = "clusterhead_hear" /\ Head(todo[n]).do = "clusterhead_recv"
             \/ d = "follower_hear" /\ Head(todo[n]).do = "follower_recv"
      PROVE  Moved(todo[n], todo'[n]) /\ \A m \in Node : m # n => todo'[m] = todo[m]
  BY <1>1, <1>3 DEF Listen, Moved, TypeOK
<1>4. CASE ClusterheadListen(n)
  <2>1. /\ todo[n] # <<>> /\ Head(todo[n]).do = "clusterhead_recv"
        /\ slot' = slot /\ frame' = frame /\ parent' = parent /\ acks' = acks /\ mine' = mine
        /\ Done(n) \/ Listen(n, "clusterhead_hear")
        /\ code' = code \/ code' = [code EXCEPT ![n] = slot - downstream_start_slot(Ring[n])]
    BY <1>4 DEF ClusterheadListen, Doing
  <2> QED
    BY <1>1, <1>2, <1>3, <2>1 DEF TypeOK
<1>5. CASE FollowerListen(n)
  <2>1. /\ todo[n] # <<>> /\ Head(todo[n]).do = "follower_recv"
        /\ slot' = slot /\ frame' = frame /\ parent' = parent /\ acks' = acks /\ mine' = mine
        /\ Done(n) \/ Listen(n, "follower_hear")
        /\ code' = code \/ code' = [code EXCEPT ![n] = 0]
    BY <1>5 DEF FollowerListen, Doing
  <2> QED
    BY <1>1, <1>2, <1>3, <2>1 DEF TypeOK
<1>6. CASE ClusterheadHear(n)
  <2>1. /\ todo[n] # <<>> /\ Done(n) /\ code' = code
        /\ slot' = slot /\ frame' = frame /\ parent' = parent /\ mine' = mine
    BY <1>6 DEF ClusterheadHear, Doing
  <2>2. \A m \in Node : m # n => acks'[m] = acks[m]
    <3>1. acks' = [acks EXCEPT ![n] = Received(n)[Len(held[n])].acks]
      BY <1>6 DEF ClusterheadHear
    <3> QED
      BY <3>1 DEF TypeOK
  <2> QED
    BY <1>1, <1>2, <2>1, <2>2
<1>7. CASE ClusterheadSend(n)
  <2>1. /\ todo[n] # <<>> /\ Done(n) /\ acks' = acks
        /\ slot' = slot /\ frame' = frame /\ parent' = parent /\ mine' = mine
    BY <1>7 DEF ClusterheadSend, Doing
  <2>2. \A m \in Node : m # n => code'[m] = code[m]
    BY <1>7, FlushLocal DEF ClusterheadSend
  <2> QED
    BY <1>1, <1>2, <2>1, <2>2
<1>8. CASE FollowerSend(n)
  <2>1. /\ todo[n] # <<>> /\ Done(n) /\ acks' = acks
        /\ slot' = slot /\ frame' = frame /\ parent' = parent
        /\ \A m \in Node : m # n => mine'[m] = mine[m]
    BY <1>8 DEF FollowerSend, Doing, TypeOK
  <2>2. \A m \in Node : m # n => code'[m] = code[m]
    BY <1>8, FlushLocal DEF FollowerSend
  <2> QED
    BY <1>1, <1>2, <1>8, <2>1, <2>2
<1>9. CASE FollowerHear(n)
  <2>1. /\ (todo[n] # <<>> /\ Done(n)) \/ todo' = todo
        /\ slot' = slot /\ frame' = frame /\ mine' = mine /\ code' = code
        /\ \A m \in Node : m # n => parent'[m] = parent[m] /\ acks'[m] = acks[m]
    BY <1>9 DEF FollowerHear, Doing, TypeOK
  <2>2. todo' = todo => Moved(todo[n], todo'[n])
    BY DEF Moved
  <2>3. todo[n] # <<>>
    BY <1>9 DEF FollowerHear, Doing
  <2> QED
    BY <1>1, <1>2, <1>9, <2>1, <2>2, <2>3
<1>10. CASE TimeOut(n)
  <2>1. /\ todo[n] # <<>> /\ Done(n) /\ acks' = acks /\ code' = code
        /\ slot' = slot /\ frame' = frame /\ parent' = parent /\ mine' = mine
    BY <1>10 DEF TimeOut, Listening, Doing
  <2> QED
    BY <1>1, <1>2, <2>1
<1> QED
  BY <1>4, <1>5, <1>6, <1>7, <1>8, <1>9, <1>10 DEF Step

\* A step of a node keeps its plan.
LEMMA StepPlanned ==
    ASSUME TypeOK, FlowInv, SendInv, TurnInv, NEW n \in Node, Step(n), NEW m \in Node, Planned(m)
    PROVE  Planned(m)'
<1>1. /\ slot' = slot /\ frame' = frame /\ slot # 0 /\ todo[n] # <<>>
      /\ \A k \in Node : k # n => /\ todo'[k] = todo[k] /\ parent'[k] = parent[k]
                                  /\ mine'[k] = mine[k]
      /\ Moved(todo[n], todo'[n])
      /\ mine'[n] = mine[n] \/ FollowerSend(n)
      /\ parent'[n] = parent[n] \/ FollowerHear(n)
  BY StepIs
<1>2. /\ start(m)' = start(m) /\ ack_slot(m)' = ack_slot(m) /\ begun' = begun
      /\ ack_slot(Parent[m])' = ack_slot(Parent[m])
  BY <1>1 DEF start, ack_slot, begun
<1>3. CASE m # n
  BY <1>1, <1>2, <1>3 DEF Planned
<1>4. CASE m = n
  <2>1. \A j \in DOMAIN todo'[n] : \E i \in DOMAIN todo[n] :
              /\ IF todo[n] # <<>> /\ todo'[n] = Tail(todo[n])
                   THEN i = j + 1 /\ i # 1 /\ j \in Nat ELSE i = j
              /\ todo'[n][j].slot = todo[n][i].slot
              /\ \/ todo'[n][j].do = todo[n][i].do
                 \/ i = 1 /\ todo[n][i].do = "clusterhead_recv"
                      /\ todo'[n][j].do = "clusterhead_hear"
                 \/ i = 1 /\ todo[n][i].do = "follower_recv"
                      /\ todo'[n][j].do = "follower_hear"
    <3>1. todo[n] \in Seq(Task0)
      BY TodoParts
    <3> QED
      BY <1>1, <3>1, MovedTask, ZenonT(60)
  <2>2. \A i, j \in DOMAIN todo'[n] : todo'[n][i].slot = todo'[n][j].slot => i = j
    <3> SUFFICES ASSUME NEW i \in DOMAIN todo'[n], NEW j \in DOMAIN todo'[n],
                        todo'[n][i].slot = todo'[n][j].slot
                 PROVE  i = j
      OBVIOUS
    <3>1. PICK k \in DOMAIN todo[n] :
            /\ IF todo[n] # <<>> /\ todo'[n] = Tail(todo[n])
                 THEN k = i + 1 /\ k # 1 /\ i \in Nat ELSE k = i
            /\ todo'[n][i].slot = todo[n][k].slot
      BY <2>1
    <3>2. PICK l \in DOMAIN todo[n] :
            /\ IF todo[n] # <<>> /\ todo'[n] = Tail(todo[n])
                 THEN l = j + 1 /\ l # 1 /\ j \in Nat ELSE l = j
            /\ todo'[n][j].slot = todo[n][l].slot
      BY <2>1
    <3>3. k = l
      BY <1>4, <3>1, <3>2 DEF Planned
    <3> QED
      BY <3>1, <3>2, <3>3
  <2>3. parent'[n] # parent[n] => Sends(todo[n]) = {} /\ mine[n] > begun
    BY <1>1, HearingHadTurn DEF FollowerHear
  <2>4. mine'[n] = mine[n] \/ mine'[n] > begun
    <3>1. FollowerSend(n) => mine'[n] = now
      BY DEF FollowerSend, TypeOK
    <3> QED
      BY <1>1, <3>1, BegunIs
  <2>5. ASSUME NEW j \in DOMAIN todo'[n]
        PROVE  /\ todo'[n][j].do \in HereDuties => j = 1
               /\ todo'[n][j].do \in HearDuties
                    => todo'[n][j].slot - start(n) \in 1 .. vtdma_window_size - 2
               /\ todo'[n][j].do = "clusterhead_send" => todo'[n][j].slot = ack_slot(n)
               /\ todo'[n][j].do = "follower_send" => parent'[n] = Parent[n]
               /\ todo'[n][j].do \in HeedDuties => todo'[n][j].slot = ack_slot(Parent[n])
    <3>1. PICK i \in DOMAIN todo[n] :
              /\ IF todo[n] # <<>> /\ todo'[n] = Tail(todo[n])
                   THEN i = j + 1 /\ i # 1 /\ j \in Nat ELSE i = j
              /\ todo'[n][j].slot = todo[n][i].slot
              /\ \/ todo'[n][j].do = todo[n][i].do
                 \/ i = 1 /\ todo[n][i].do = "clusterhead_recv"
                      /\ todo'[n][j].do = "clusterhead_hear"
                 \/ i = 1 /\ todo[n][i].do = "follower_recv"
                      /\ todo'[n][j].do = "follower_hear"
      BY <2>1
    <3>2. /\ todo[n][i].do \in HereDuties => i = 1
          /\ todo[n][i].do \in HearDuties
               => todo[n][i].slot - start(n) \in 1 .. vtdma_window_size - 2
          /\ todo[n][i].do = "clusterhead_send" => todo[n][i].slot = ack_slot(n)
          /\ todo[n][i].do = "follower_send" => parent[n] = Parent[n]
          /\ todo[n][i].do \in HeedDuties => todo[n][i].slot = ack_slot(Parent[n])
      BY <1>4 DEF Planned
    <3>3. todo'[n][j].do \in HereDuties => j = 1
      BY <3>1, <3>2 DEF HereDuties
    <3>4. todo'[n][j].do = "follower_send" => parent'[n] = Parent[n]
      BY <2>3, <3>1, <3>2 DEF Sends
    <3> QED
      BY <3>1, <3>2, <3>3, <3>4 DEF HearDuties, HeedDuties
  <2>6. slot' # 0 /\ mine'[n] <= begun' => parent'[n] \in {UNKNOWN_ADDR, Parent[n]}
    <3>1. ~(mine[n] <= begun /\ mine[n] > begun) /\ ~(mine'[n] <= begun /\ mine'[n] > begun)
      <4>1. mine[n] \in Nat /\ begun \in Nat
        BY MineIsNat, BegunIs
      <4>2. FollowerSend(n) => mine'[n] = now /\ now \in Nat
        BY NowIsNat DEF FollowerSend, TypeOK
      <4> QED
        BY <1>1, <4>1, <4>2
    <3> QED
      BY <1>1, <1>2, <1>4, <2>3, <2>4, <3>1 DEF Planned
  <2> QED
    BY <1>2, <1>4, <2>2, <2>5, <2>6 DEF Planned
<1> QED
  BY <1>3, <1>4

-----------------------------------------------------------------------------
(* While nothing goes wrong, who listens, and what a frame it holds means.  *)
OnTime(n) ==
    /\ \A i \in DOMAIN todo[n] :
         todo[n][i].slot = slot \/ (i = 1 /\ todo[n][i].do \in HereDuties)
    /\ held[n] # <<>> => Listening(n)
    /\ Doing(n, "clusterhead_hear") =>
         /\ code[n] = todo[n][1].slot - start(n)
         /\ held[n] # <<>> =>
              /\ todo[n][1].slot = slot
              /\ \E g \in Node : Parent[g] = n /\ my_slot(g) = slot /\ mine[g] = now
    /\ Doing(n, "follower_hear") =>
         /\ code[n] = 0
         /\ held[n] # <<>> =>
              /\ slot = ack_slot(Parent[n])
              /\ ~Due(todo[Parent[n]], slot, {"clusterhead_send"})

LEMMA FaultLasts ==
    ASSUME TypeOK, NEW n \in Node, Step(n), ~faulty'
    PROVE  ~faulty
<1>1. ASSUME NEW q, NEW k, NEW W, Flushed(n, q, k, W) \/ NotFlushed(n, q, k) PROVE ~faulty
  <2>1. CASE Flushed(n, q, k, W)
    BY <2>1 DEF Flushed
  <2>2. CASE NotFlushed(n, q, k)
    BY <2>2 DEF NotFlushed
  <2> QED
    BY <1>1, <2>1, <2>2
<1>2. CASE ClusterheadSend(n)
  BY <1>1, <1>2 DEF ClusterheadSend
<1>3. CASE FollowerSend(n)
  BY <1>1, <1>3 DEF FollowerSend
<1>4. CASE UNCHANGED faulty
  BY <1>4
<1> QED
  BY <1>2, <1>3, <1>4 DEF Step, ClusterheadListen, ClusterheadHear, FollowerListen, FollowerHear,
                          TimeOut

\* A frame of which nothing is amiss comes to nodes that listen, and to those it
\* is meant for.
LEMMA Heard ==
    ASSUME TypeOK, NEW n \in Node, NEW q, NEW k, NEW W, Flushed(n, q, k, W), ~faulty',
           NEW m \in Node, m # n
    PROVE  /\ held'[m] # held[m] => /\ held[m] = <<>> /\ held'[m] = q
                                    /\ Listening(m) /\ InRange(n, m) /\ code[m] = k
           /\ m \in W => /\ todo[m] # <<>> => Listening(m) /\ Head(todo[m]).slot = slot
                         /\ held[m] = <<>>
                         /\ todo[m] # <<>> /\ code[m] = k /\ InRange(n, m) => held'[m] = q
           /\ Len(q) # TxCap
<1>1. PICK heard \in SUBSET {i \in Node \ {n} : InRange(n, i) /\ Hears(i, k)}, h \in Retuned(n, k) :
          /\ ~Lossy => heard = {i \in Node \ {n} : InRange(n, i) /\ Hears(i, k)}
          /\ held' = [i \in Node |-> IF i \in heard THEN q ELSE IF i = n THEN h ELSE held[i]]
          /\ faulty' = (faulty \/ Missed(W, heard, k) \/ Len(q) = TxCap)
  BY Zenon DEF Flushed
<1>2. ~Missed(W, heard, k) /\ Len(q) # TxCap
  BY <1>1
<1>3. held'[m] = IF m \in heard THEN q ELSE held[m]
  BY <1>1
<1>4. m \in heard => InRange(n, m) /\ code[m] = k /\ held[m] = <<>> /\ Listening(m)
  BY <1>1, <1>2 DEF Hears, Missed
<1>5. ASSUME m \in W
      PROVE  /\ todo[m] # <<>> => Listening(m) /\ Head(todo[m]).slot = slot
             /\ held[m] = <<>>
             /\ todo[m] # <<>> /\ code[m] = k /\ InRange(n, m) => m \in heard
  BY <1>2, <1>5 DEF Missed, Hears
<1> QED
  BY <1>2, <1>3, <1>4, <1>5

LEMMA NowStays ==
    ASSUME slot' = slot, frame' = frame
    PROVE  /\ now' = now /\ begun' = begun
           /\ \A m \in Node : my_slot(m)' = my_slot(m) /\ start(m)' = start(m)
                              /\ ack_slot(m)' = ack_slot(m)
                              /\ ack_slot(Parent[m])' = ack_slot(Parent[m])
  BY DEF now, begun, my_slot, start, ack_slot

\* The node that takes a step holds no frame after it.
LEMMA StepReads ==
    ASSUME TypeOK, NEW n \in Node, Step(n), OnTime(n), ~faulty'
    PROVE  held'[n] = <<>>
<1>1. Listening(n) \/ held[n] = <<>>
  BY DEF OnTime
<1>2. ASSUME ~Listening(n), NEW k, \E h \in Retuned(n, k) : held' = [held EXCEPT ![n] = h]
      PROVE  held'[n] = <<>>
  BY <1>1, <1>2 DEF Retuned, TypeOK
<1>3. ASSUME ~Listening(n), NEW q, NEW k, NEW W, Flushed(n, q, k, W) \/ NotFlushed(n, q, k)
      PROVE  held'[n] = <<>>
  BY <1>1, <1>3, Reached
<1>4. CASE ClusterheadListen(n)
  <2>1. ~Listening(n)
    BY <1>4 DEF ClusterheadListen, Listening, Doing
  <2> QED
    BY <1>1, <1>2, <1>4, <2>1 DEF ClusterheadListen
<1>5. CASE FollowerListen(n)
  <2>1. ~Listening(n)
    BY <1>5 DEF FollowerListen, Listening, Doing
  <2> QED
    BY <1>1, <1>2, <1>5, <2>1 DEF FollowerListen
<1>6. CASE ClusterheadHear(n) \/ FollowerHear(n) \/ TimeOut(n)
  BY <1>6 DEF ClusterheadHear, FollowerHear, TimeOut, TypeOK
<1>7. CASE ClusterheadSend(n)
  <2>1. ~Listening(n)
    BY <1>7 DEF ClusterheadSend, Listening, Doing
  <2> QED
    BY <1>1, <1>3, <1>7, <2>1 DEF ClusterheadSend
<1>8. CASE FollowerSend(n)
  <2>1. ~Listening(n)
    BY <1>8 DEF FollowerSend, Listening, Doing
  <2> QED
    BY <1>1, <1>3, <1>8, <2>1 DEF FollowerSend
<1> QED
  BY <1>4, <1>5, <1>6, <1>7, <1>8 DEF Step

LEMMA StepOnTime ==
    ASSUME TypeOK, TypeOK', FlowInv, NEW n \in Node, Step(n), Planned(n), OnTime(n), ~faulty'
    PROVE  OnTime(n)'
<1>1. /\ slot' = slot /\ frame' = frame /\ todo[n] # <<>> /\ Moved(todo[n], todo'[n])
  BY StepIs
<1>2. held'[n] = <<>>
  BY StepReads
<1>3. /\ todo[n] \in Seq(Task0) /\ todo[n][1] = Head(todo[n]) /\ 1 \in DOMAIN todo[n]
  BY <1>1, TodoParts
<1>4. \A j \in DOMAIN todo'[n] : \E i \in DOMAIN todo[n] :
          /\ IF todo[n] # <<>> /\ todo'[n] = Tail(todo[n])
               THEN i = j + 1 /\ i # 1 /\ j \in Nat ELSE i = j
          /\ todo'[n][j].slot = todo[n][i].slot
          /\ \/ todo'[n][j].do = todo[n][i].do
             \/ i = 1 /\ todo[n][i].do = "clusterhead_recv" /\ todo'[n][j].do = "clusterhead_hear"
             \/ i = 1 /\ todo[n][i].do = "follower_recv" /\ todo'[n][j].do = "follower_hear"
  BY <1>1, <1>3, MovedTask, ZenonT(60)
<1>5. ASSUME NEW j \in DOMAIN todo'[n]
      PROVE  todo'[n][j].slot = slot \/ (j = 1 /\ todo'[n][j].do \in HereDuties)
  <2>1. PICK i \in DOMAIN todo[n] :
          /\ IF todo[n] # <<>> /\ todo'[n] = Tail(todo[n])
               THEN i = j + 1 /\ i # 1 /\ j \in Nat ELSE i = j
          /\ todo'[n][j].slot = todo[n][i].slot
          /\ \/ todo'[n][j].do = todo[n][i].do
             \/ i = 1 /\ todo[n][i].do = "clusterhead_recv" /\ todo'[n][j].do = "clusterhead_hear"
             \/ i = 1 /\ todo[n][i].do = "follower_recv" /\ todo'[n][j].do = "follower_hear"
    BY <1>4
  <2>2. todo[n][i].slot = slot \/ (i = 1 /\ todo[n][i].do \in HereDuties)
    BY DEF OnTime
  <2> QED
    BY <2>1, <2>2 DEF HereDuties
<1>6. ASSUME NEW d \in HereDuties, Doing(n, d)'
      PROVE  \/ d = "clusterhead_hear" /\ code'[n] = todo'[n][1].slot - start(n)
             \/ d = "follower_hear" /\ code'[n] = 0
  <2>1. todo'[n][1].do = d /\ 1 \in DOMAIN todo'[n]
    <3>1. todo'[n] # <<>> => 1 \in DOMAIN todo'[n] /\ Head(todo'[n]) = todo'[n][1]
      <4>1. todo'[n] \in Seq([do : Duties, slot : {slot', slot' - 1}])
        BY DEF TypeOK
      <4> QED
        BY <4>1
    <3> QED
      BY <1>6, <3>1 DEF Doing
  <2>2. ~Done(n)
    <3> SUFFICES ASSUME Done(n) PROVE FALSE
      OBVIOUS
    <3>1. todo'[n] = Tail(todo[n])
      BY DEF Done, TypeOK
    <3>2. PICK i \in DOMAIN todo[n] : i # 1 /\ todo'[n][1] = todo[n][i]
      BY <1>1, <1>3, <2>1, <3>1, TailIs
    <3> QED
      BY <2>1, <3>2 DEF Planned
  <2>3. CASE ClusterheadListen(n)
    <3>1. /\ Listen(n, "clusterhead_hear") /\ Head(todo[n]).do = "clusterhead_recv"
          /\ code' = [code EXCEPT ![n] = slot - downstream_start_slot(Ring[n])]
      BY <2>2, <2>3 DEF ClusterheadListen, Doing
    <3>2. todo'[n][1].do = "clusterhead_hear" /\ todo'[n][1].slot = todo[n][1].slot
      BY <1>1, <1>3, <3>1, BeginIs DEF Listen, TypeOK
    <3>3. todo[n][1].slot = slot
      BY <1>3, <3>1 DEF OnTime, HereDuties
    <3> QED
      BY <2>1, <3>1, <3>2, <3>3 DEF TypeOK, start
  <2>4. CASE FollowerListen(n)
    <3>1. Listen(n, "follower_hear") /\ code' = [code EXCEPT ![n] = 0]
      BY <2>2, <2>4 DEF FollowerListen
    <3>2. todo'[n][1].do = "follower_hear"
      BY <1>1, <1>3, <3>1, BeginIs DEF Listen, TypeOK
    <3> QED
      BY <2>1, <3>1, <3>2 DEF TypeOK
  <2>5. CASE FollowerHear(n)
    <3>1. todo' = todo /\ code' = code /\ Doing(n, "follower_hear")
      BY <2>2, <2>5 DEF FollowerHear
    <3> QED
      BY <1>3, <2>1, <3>1 DEF OnTime, Doing
  <2> QED
    BY <2>2, <2>3, <2>4, <2>5 DEF Step, ClusterheadHear, ClusterheadSend, FollowerSend, TimeOut
<1>7. start(n)' = start(n)
  BY DEF start
<1>8. /\ Doing(n, "clusterhead_hear")' => code'[n] = todo'[n][1].slot - start(n)
      /\ Doing(n, "follower_hear")' => code'[n] = 0
  BY <1>6 DEF HereDuties
<1> QED
  BY <1>1, <1>2, <1>5, <1>7, <1>8 DEF OnTime

LEMMA SameWindow ==
    ASSUME NEW c \in Clusterhead, NEW d \in Clusterhead, vtdma_window_size > 1,
           start(c) = start(d) \/ start(c) = start(d) + 1
    PROVE  Ring[c] = Ring[d] /\ start(c) = start(d)
<1>1. /\ Ring[c] \in Nat /\ Ring[d] \in Nat /\ start(c) \in Int /\ start(d) \in Int
      /\ Ring[c] < REUSE_DISTANCE /\ Ring[d] < REUSE_DISTANCE /\ vtdma_window_size \in Int
  BY ClusterheadRing, Windows DEF start
<1>2. ~(Ring[c] < Ring[d])
  <2> SUFFICES ASSUME Ring[c] < Ring[d] PROVE FALSE
    OBVIOUS
  <2>1. start(d) + vtdma_window_size <= start(c)
    BY <1>1, LaterWindow DEF start
  <2> QED
    BY <1>1, <2>1
<1>3. ~(Ring[d] < Ring[c])
  <2> SUFFICES ASSUME Ring[d] < Ring[c] PROVE FALSE
    OBVIOUS
  <2>1. start(c) + vtdma_window_size <= start(d)
    BY <1>1, LaterWindow DEF start
  <2> QED
    BY <1>1, <2>1
<1>4. Ring[c] = Ring[d]
  BY <1>1, <1>2, <1>3
<1> QED
  BY <1>4 DEF start

LEMMA ServedSlots ==
    ASSUME Leased, Served, NEW f \in Node, NEW c, c = Parent[f], c # UNKNOWN_ADDR
    PROVE  /\ c \in Clusterhead /\ c \in Node /\ c # f /\ Ring[c] < Ring[f]
           /\ Rel[f] \in 1 .. vtdma_window_size - 2 /\ vtdma_window_size \in Nat
           /\ vtdma_window_size > 2 /\ Rel[f] < slots_assigned(c)
           /\ start(c) \in Int /\ ack_slot(c) \in Int
           /\ my_slot(f) \in Nat /\ my_slot(f) = start(c) + Rel[f] /\ 1 < my_slot(f)
           /\ ack_slot(c) = start(c) + vtdma_window_size - 1 /\ my_slot(f) < ack_slot(c)
           /\ InRange(f, c) /\ InRange(c, f)
<1>1. /\ c \in Clusterhead /\ c \in Node /\ Ring[c] < Ring[f] /\ my_slot(f) \in Nat
      /\ 1 < my_slot(f) /\ my_slot(f) = start(c) + Rel[f]
  BY TurnSlots DEF start
<1>2. /\ Rel[f] \in 1 .. vtdma_window_size - 2 /\ Rel[f] < slots_assigned(c)
      /\ InRange(f, c) /\ InRange(c, f) /\ vtdma_window_size \in Nat
  BY Windows DEF Leased, Served
<1>3. /\ start(c) \in Int /\ ack_slot(c) \in Int
      /\ ack_slot(c) = start(c) + vtdma_window_size - 1
  BY <1>1, ClusterheadRing DEF start
<1>4. c # f
  BY <1>1, RingAssumption
<1> QED
  BY <1>1, <1>2, <1>3, <1>4

\* A follower's frame is taken by its clusterhead, in the follower's slot.
LEMMA SentTo ==
    ASSUME OneUpstream, Leased, Served, TypeOK, FlowInv, NEW n \in Node, Parent[n] # UNKNOWN_ADDR,
           slot = my_slot(n), NEW m \in Node, Planned(m), OnTime(m),
           Listening(m), InRange(n, m), code[m] = Rel[n]
    PROVE  Doing(m, "clusterhead_hear") /\ Parent[n] = m /\ todo[m][1].slot = slot
<1>1. PICK c : c = Parent[n]
  OBVIOUS
<1>2. /\ c \in Clusterhead /\ Ring[c] < Ring[n] /\ Rel[n] \in 1 .. vtdma_window_size - 2
      /\ vtdma_window_size \in Nat /\ vtdma_window_size > 2 /\ start(c) \in Int
      /\ slot = start(c) + Rel[n]
  BY <1>1, ServedSlots
<1>3. Doing(m, "clusterhead_hear")
  BY <1>2 DEF Listening, OnTime
<1>4. m \in Clusterhead /\ todo[m][1].slot \in {slot, slot - 1}
  BY <1>3, FirstTask, TodoParts DEF FlowInv, Doing
<1>5. Rel[n] = todo[m][1].slot - start(m)
  BY <1>3 DEF OnTime
<1>6. start(m) \in Int
  BY <1>4, ClusterheadRing DEF start
<1>7. start(c) = start(m) \/ start(m) = start(c) - 1
  <2>1. CASE todo[m][1].slot = slot
    BY <1>2, <1>5, <1>6, <2>1
  <2>2. CASE todo[m][1].slot = slot - 1
    BY <1>2, <1>5, <1>6, <2>2
  <2> QED
    BY <1>4, <2>1, <2>2
<1>8. Ring[c] = Ring[m] /\ start(c) = start(m)
  <2>1. start(c) = start(m) \/ start(c) = start(m) + 1
    BY <1>2, <1>6, <1>7
  <2> QED
    BY <1>2, <1>4, <2>1, SameWindow
<1>9. m = Parent[n]
  BY <1>2, <1>4, <1>8 DEF OneUpstream
<1>10. todo[m][1].slot = slot
  <2>1. CASE todo[m][1].slot = slot - 1
    BY <1>2, <1>5, <1>6, <1>8, <2>1
  <2> QED
    BY <1>4, <2>1
<1> QED
  BY <1>3, <1>9, <1>10

\* A clusterhead's answer is taken by its own followers, in its last slot.
LEMMA AnsweredTo ==
    ASSUME OneDownstream, Leased, Served, TypeOK, FlowInv, NEW n \in Clusterhead,
           slot = ack_slot(n), NEW m \in Node, Planned(m), OnTime(m),
           Listening(m), InRange(n, m), code[m] = 0
    PROVE  Doing(m, "follower_hear") /\ Parent[m] = n /\ todo[m][1].slot = slot
<1>1. Doing(m, "follower_hear")
  <2>1. ~Doing(m, "clusterhead_hear")
    BY Hearing DEF FlowInv
  <2> QED
    BY <2>1 DEF Listening
<1>2. /\ Parent[m] # UNKNOWN_ADDR /\ todo[m][1].slot \in {slot, slot - 1}
      /\ todo[m][1].slot = ack_slot(Parent[m])
  <2>1. 1 \in DOMAIN todo[m] /\ todo[m][1].do = "follower_hear"
    BY <1>1, TodoParts DEF Doing
  <2>2. todo[m][1].slot = ack_slot(Parent[m])
    BY <2>1 DEF Planned, HeedDuties
  <2> QED
    BY <1>1, <2>1, <2>2, FirstTask, TodoParts DEF FlowInv
<1>3. PICK c : c = Parent[m]
  OBVIOUS
<1>4. /\ c \in Clusterhead /\ Ring[c] < Ring[m] /\ vtdma_window_size \in Nat
      /\ vtdma_window_size > 2 /\ start(c) \in Int
      /\ ack_slot(c) = start(c) + vtdma_window_size - 1
  BY <1>2, <1>3, ServedSlots
<1>5. start(n) \in Int /\ ack_slot(n) = start(n) + vtdma_window_size - 1
  BY ClusterheadRing DEF start
<1>6. start(n) = start(c) \/ start(n) = start(c) + 1
  <2>1. CASE todo[m][1].slot = slot
    BY <1>2, <1>3, <1>4, <1>5, <2>1
  <2>2. CASE todo[m][1].slot = slot - 1
    BY <1>2, <1>3, <1>4, <1>5, <2>2
  <2> QED
    BY <1>2, <2>1, <2>2
<1>7. Ring[n] = Ring[c] /\ start(n) = start(c)
  BY <1>4, <1>6, SameWindow
<1>8. n = c
  BY <1>3, <1>4, <1>7 DEF OneDownstream
<1> QED
  BY <1>1, <1>2, <1>3, <1>8

\* A node has none of the tasks left of the slot of the one it has done.
LEMMA DoneOnce ==
    ASSUME TypeOK, NEW n \in Node, Planned(n), todo[n] # <<>>, todo'[n] = Tail(todo[n])
    PROVE  /\ \A j \in DOMAIN todo'[n] : todo'[n][j].slot # todo[n][1].slot
           /\ \A D : ~Due(todo'[n], todo[n][1].slot, D)
<1>1. todo[n] \in Seq(Task0)
  BY TodoParts
<1>2. ASSUME NEW j \in DOMAIN todo'[n] PROVE todo'[n][j].slot # todo[n][1].slot
  <2>1. j + 1 \in DOMAIN todo[n] /\ todo'[n][j] = todo[n][j + 1] /\ j + 1 # 1 /\ 1 \in DOMAIN todo[n]
    BY <1>1, TailIs
  <2> QED
    BY <2>1 DEF Planned
<1> QED
  BY <1>2 DEF Due

LEMMA StepOthersOnTime ==
    ASSUME OneUpstream, OneDownstream, Leased, Served, TypeOK, FlowInv, SendInv, NEW n \in Node, Step(n),
           NEW m \in Node, m # n, Planned(n), Planned(m), OnTime(n), OnTime(m), ~faulty'
    PROVE  OnTime(m)'
<1>1. /\ slot' = slot /\ frame' = frame /\ todo[n] # <<>> /\ Moved(todo[n], todo'[n])
      /\ todo'[m] = todo[m] /\ code'[m] = code[m]
  BY StepIs
<1>2. /\ now' = now /\ start(m)' = start(m) /\ ack_slot(Parent[m])' = ack_slot(Parent[m])
      /\ \A g \in Node : my_slot(g)' = my_slot(g)
  BY <1>1, NowStays
<1>3. /\ Listening(m)' <=> Listening(m)
      /\ Doing(m, "clusterhead_hear")' <=> Doing(m, "clusterhead_hear")
      /\ Doing(m, "follower_hear")' <=> Doing(m, "follower_hear")
  BY <1>1 DEF Listening, Doing
<1>4. todo[n] \in Seq(Task0) /\ todo[n][1] = Head(todo[n])
  BY <1>1, TodoParts
<1>5. \A g \in Node : mine[g] = now => mine'[g] = now
  <2>1. FollowerSend(n) => mine'[n] = now
    BY DEF FollowerSend, TypeOK
  <2> QED
    BY <2>1, StepIs
<1>6. Doing(m, "follower_hear") => Parent[m] # UNKNOWN_ADDR
  BY FirstTask DEF FlowInv
<1>7. CASE held'[m] = held[m]
  <2>1. Due(todo[Parent[m]], slot, {"clusterhead_send"})'
          <=> Due(todo'[Parent[m]], slot, {"clusterhead_send"})
    BY <1>1 DEF Due
  <2>2. ASSUME Doing(m, "follower_hear"), ~Due(todo[Parent[m]], slot, {"clusterhead_send"})
        PROVE  ~Due(todo'[Parent[m]], slot, {"clusterhead_send"})
    <3>1. Parent[m] \in Node
      BY <1>6, <2>2, TreeAssumption
    <3>2. CASE Parent[m] = n
      BY <1>1, <1>4, <2>2, <3>2, MovedDue
    <3>3. CASE Parent[m] # n
      <4>1. todo'[Parent[m]] = todo[Parent[m]]
        BY <3>1, <3>3, StepIs
      <4> QED
        BY <2>2, <4>1
    <3> QED
      BY <3>2, <3>3
  <2> QED
    BY <1>1, <1>2, <1>3, <1>5, <1>7, <2>1, <2>2 DEF OnTime
<1>8. CASE held'[m] # held[m]
  <2>1. ASSUME NEW q, NEW k, NEW W, Flushed(n, q, k, W)
        PROVE  held[m] = <<>> /\ Listening(m) /\ InRange(n, m) /\ code[m] = k
    BY <1>8, <2>1, Heard
  <2>2. ASSUME NEW q, NEW k, NotFlushed(n, q, k) PROVE FALSE
    BY <2>2 DEF NotFlushed
  <2>3. CASE ClusterheadSend(n)
    <3>1. /\ n \in Clusterhead /\ Done(n) /\ Head(todo[n]).do = "clusterhead_send"
      BY <2>3, FirstTask DEF ClusterheadSend, Doing, FlowInv
    <3>2. slot = ack_slot(n)
      BY <1>8, <2>3 DEF ClusterheadSend
    <3>3. Listening(m) /\ InRange(n, m) /\ code[m] = 0
      BY <2>1, <2>2, <2>3, <3>2 DEF ClusterheadSend
    <3>4. Doing(m, "follower_hear") /\ Parent[m] = n /\ todo[m][1].slot = slot
      BY <3>1, <3>2, <3>3, AnsweredTo
    <3>5. todo'[n] = Tail(todo[n]) /\ todo[n][1].slot = slot
      <4>1. todo'[n] = Tail(todo[n])
        BY <3>1 DEF Done, TypeOK
      <4>2. 1 \in DOMAIN todo[n] /\ todo[n][1].do = "clusterhead_send"
        BY <1>1, <1>4, <3>1, TodoParts
      <4> QED
        BY <3>2, <4>1, <4>2 DEF Planned
    <3>6. ~Due(todo'[Parent[m]], slot, {"clusterhead_send"})
      BY <1>1, <3>4, <3>5, DoneOnce
    <3>7. ~Due(todo[Parent[m]], slot, {"clusterhead_send"})'
      BY <1>1, <3>6 DEF Due
    <3>8. ~Doing(m, "clusterhead_hear")
      BY <3>4 DEF Doing
    <3> QED
      BY <1>1, <1>2, <1>3, <3>2, <3>3, <3>4, <3>7, <3>8 DEF OnTime
  <2>4. CASE FollowerSend(n)
    <3>1. Parent[n] # UNKNOWN_ADDR
      BY <2>4, FirstTask DEF FollowerSend, FlowInv
    <3>2. slot = my_slot(n)
      BY <1>8, <2>4 DEF FollowerSend
    <3>3. Listening(m) /\ InRange(n, m) /\ code[m] = Rel[n]
      BY <2>1, <2>2, <2>4, <3>2 DEF FollowerSend
    <3>4. Doing(m, "clusterhead_hear") /\ Parent[n] = m /\ todo[m][1].slot = slot
      BY <3>1, <3>2, <3>3, SentTo
    <3>5. mine'[n] = now
      BY <2>4 DEF FollowerSend, TypeOK
    <3>6. ~Doing(m, "follower_hear")
      BY <3>4 DEF Doing
    <3> QED
      BY <1>1, <1>2, <1>3, <3>2, <3>3, <3>4, <3>5, <3>6 DEF OnTime
  <2> QED
    <3>1. ClusterheadListen(n) \/ FollowerListen(n) => held'[m] = held[m]
      BY DEF ClusterheadListen, FollowerListen, TypeOK
    <3>2. ClusterheadHear(n) \/ FollowerHear(n) \/ TimeOut(n) => held'[m] = held[m]
      BY DEF ClusterheadHear, FollowerHear, TimeOut, TypeOK
    <3> QED
      BY <1>8, <2>3, <2>4, <3>1, <3>2 DEF Step
<1> QED
  BY <1>7, <1>8

-----------------------------------------------------------------------------
(* What becomes of a datagram and of its acknowledgement.                   *)

\* In a follower's slot its clusterhead is about to hear it.
Ready(f) ==
    slot = my_slot(f) /\ mine[f] <= begun /\ parent[f] # UNKNOWN_ADDR =>
        Due(todo[Parent[f]], slot, HearDuties)

\* The clusterhead holds the datagram as the last of the frame, ...
InFlight(f, c) ==
    /\ parent[f] = c
    /\ Doing(c, "clusterhead_hear") /\ held[c] # <<>> /\ todo[c][1].slot = my_slot(f)
    /\ held[c][Len(held[c])] = [type |-> "Datagram", src |-> f, sequence |-> mine[f]]

\* ... then has noted it and is still to answer, ...
Noted(f, c) ==
    /\ parent[f] = c /\ acks[c][Rel[f]] = mine[f] /\ slot <= ack_slot(c)
    /\ ~Due(todo[c], my_slot(f), HearDuties)
    /\ slot = ack_slot(c) =>
         Due(todo[c], slot, {"clusterhead_send"}) /\ Due(todo[f], slot, HeedDuties)

\* ... then the follower holds the answer, ...
Answering(f) ==
    /\ Doing(f, "follower_hear") /\ LastOf(held[f], "SendAcks") # {}
    /\ \A i \in LastOf(held[f], "SendAcks") : held[f][i].acks[Rel[f]] = mine[f]

\* ... then it has read it and listens no more.
Acked(f, c) ==
    acks[f][0] = mine[f] /\ ack_slot(c) <= slot /\ ~Due(todo[f], ack_slot(c), HeedDuties)

Sent(f) ==
    mine[f] > begun =>
        InFlight(f, Parent[f]) \/ Noted(f, Parent[f]) \/ Answering(f) \/ Acked(f, Parent[f])

TimeInv ==
    /\ PlanInv
    /\ ~faulty => /\ \A n \in Node : OnTime(n)
                  /\ \A f \in Node : Parent[f] # UNKNOWN_ADDR => Ready(f) /\ Sent(f)

\* The task at the head of a queue, told by its duty.
LEMMA DoingIs ==
    ASSUME TypeOK, NEW n \in Node, NEW d
    PROVE  /\ Doing(n, d) <=> todo[n] # <<>> /\ todo[n][1].do = d
           /\ todo[n] # <<>> => 1 \in DOMAIN todo[n]
  BY TodoParts DEF Doing

\* A frame that is held is not disturbed.
LEMMA KeptFrame ==
    ASSUME TypeOK, NEW n \in Node, Step(n), ~faulty', NEW m \in Node, m # n, held[m] # <<>>
    PROVE  held'[m] = held[m]
<1>1. ASSUME NEW q, NEW k, NEW W, Flushed(n, q, k, W) \/ NotFlushed(n, q, k)
      PROVE  held'[m] = held[m]
  <2>1. Flushed(n, q, k, W)
    BY <1>1 DEF NotFlushed
  <2> QED
    BY <2>1, Heard
<1>2. CASE ClusterheadSend(n)
  BY <1>1, <1>2 DEF ClusterheadSend
<1>3. CASE FollowerSend(n)
  BY <1>1, <1>3 DEF FollowerSend
<1>4. ClusterheadListen(n) \/ FollowerListen(n) => held'[m] = held[m]
  BY DEF ClusterheadListen, FollowerListen, TypeOK
<1>5. ClusterheadHear(n) \/ FollowerHear(n) \/ TimeOut(n) => held'[m] = held[m]
  BY DEF ClusterheadHear, FollowerHear, TimeOut, TypeOK
<1> QED
  BY <1>2, <1>3, <1>4, <1>5 DEF Step

\* A node that has sent sends no more in this superframe.
LEMMA HasSent ==
    ASSUME TypeOK, FlowInv, TurnInv, NEW n \in Node, Step(n), NEW f \in Node
    PROVE  /\ mine[f] > begun => mine'[f] = mine[f]
           /\ mine'[f] <= begun => mine[f] <= begun /\ mine'[f] = mine[f] /\ parent'[f] = parent[f]
           /\ mine[f] <= begun /\ mine'[f] > begun => n = f /\ FollowerSend(f)
           /\ FollowerSend(f) => mine[f] <= begun /\ mine'[f] = now /\ now > begun
<1>1. mine[f] \in Nat /\ begun \in Nat /\ now = begun + slot /\ slot \in Nat
  BY MineIsNat, BegunIs
<1>2. /\ slot # 0 /\ f # n => mine'[f] = mine[f] /\ parent'[f] = parent[f]
      /\ mine'[n] = mine[n] \/ FollowerSend(n)
      /\ parent'[n] = parent[n] \/ FollowerHear(n)
      /\ slot # 0
  BY StepIs
<1>3. FollowerSend(f) => mine[f] <= begun
  <2>1. FollowerSend(f) => Sends(todo[f]) # {}
    BY DoingIs DEF FollowerSend, Sends
  <2> QED
    BY <2>1 DEF TurnInv, Turn
<1>4. FollowerSend(f) => mine'[f] = now
  BY DEF FollowerSend, TypeOK
<1>5. FollowerHear(f) => mine[f] > begun /\ mine'[f] = mine[f]
  BY HearingHadTurn DEF FollowerHear
<1> QED
  BY <1>1, <1>2, <1>3, <1>4, <1>5

\* A clusterhead does not give up a slot before its follower has sent.
LEMMA StepReady ==
    ASSUME Leased, Served, TypeOK, FlowInv, TurnInv, NEW n \in Node, Step(n), OnTime(n),
           NEW f \in Node, Parent[f] # UNKNOWN_ADDR, Ready(f)
    PROVE  Ready(f)'
<1>1. PICK c : c = Parent[f]
  OBVIOUS
<1>2. /\ slot' = slot /\ frame' = frame /\ todo[n] # <<>> /\ Moved(todo[n], todo'[n])
      /\ \A k \in Node : k # n => todo'[k] = todo[k]
  BY StepIs
<1>3. my_slot(f)' = my_slot(f) /\ begun' = begun
  BY <1>2, NowStays
<1> SUFFICES ASSUME slot = my_slot(f), mine'[f] <= begun, parent'[f] # UNKNOWN_ADDR
             PROVE  Due(todo'[c], slot, HearDuties)
  BY <1>1, <1>2, <1>3 DEF Ready, Due
<1>4. Due(todo[c], slot, HearDuties)
  BY <1>1, HasSent DEF Ready
<1>5. /\ c \in Node /\ start(c) \in Int /\ my_slot(f) = start(c) + Rel[f]
      /\ Rel[f] \in 1 .. vtdma_window_size - 2 /\ Rel[f] < slots_assigned(c)
  BY <1>1, ServedSlots
<1>6. CASE c # n
  BY <1>2, <1>4, <1>5, <1>6
<1>7. CASE c = n
  <2>1. todo[n] \in Seq(Task0)
    BY TodoParts
  <2>6. Due(todo[n], slot, HearDuties) => Due(todo'[n], slot, HearDuties) \/
          (/\ todo[n] # <<>> /\ todo'[n] = Tail(todo[n]) /\ todo'[n] # todo[n]
           /\ todo[n][1].slot = slot /\ todo[n][1].do \in HearDuties)
    BY <1>2, <2>1, MovedDue, ZenonT(60)
  <2> SUFFICES ASSUME todo'[n] = Tail(todo[n]), todo'[n] # todo[n],
                      todo[n][1].slot = slot, todo[n][1].do \in HearDuties
               PROVE  Due(todo'[n], slot, HearDuties)
    BY <1>4, <1>7, <2>6
  <2>2. Doing(n, "clusterhead_recv") \/ Doing(n, "clusterhead_hear")
    BY <1>2, DoingIs DEF HearDuties
  <2>3. CASE ClusterheadListen(n)
    <3>1. Listen(n, "clusterhead_hear")
      <4>1. slot - downstream_start_slot(Ring[n]) = Rel[f]
        BY <1>5, <1>7 DEF start
      <4> QED
        BY <1>5, <1>7, <2>3, <4>1 DEF ClusterheadListen
    <3>2. todo'[n] = [todo[n] EXCEPT ![1].do = "clusterhead_hear"]
      BY <3>1 DEF Listen, TypeOK
    <3>3. 1 \in DOMAIN todo'[n] /\ todo'[n][1].do = "clusterhead_hear" /\ todo'[n][1].slot = slot
      <4>1. 1 \in DOMAIN todo[n]
        BY <1>2, DoingIs
      <4>2. /\ DOMAIN [todo[n] EXCEPT ![1].do = "clusterhead_hear"] = DOMAIN todo[n]
            /\ [todo[n] EXCEPT ![1].do = "clusterhead_hear"][1].do = "clusterhead_hear"
            /\ [todo[n] EXCEPT ![1].do = "clusterhead_hear"][1].slot = todo[n][1].slot
        BY <1>2, <2>1, BeginIs
      <4> QED
        BY <3>2, <4>1, <4>2
    <3> QED
      BY <3>3 DEF Due, HearDuties
  <2>4. CASE ClusterheadHear(n)
    <3>1. PICK g \in Node : Parent[g] = n /\ my_slot(g) = slot /\ mine[g] = now
      BY <2>4 DEF ClusterheadHear, OnTime
    <3>2. my_slot(g) = start(c) + Rel[g] /\ Rel[g] \in Int
      BY <1>1, <1>7, <3>1, ServedSlots
    <3>3. f = g
      <4>1. Rel[f] = Rel[g]
        BY <1>5, <3>1, <3>2
      <4> QED
        BY <1>1, <1>7, <3>1, <4>1 DEF Leased
    <3>4. now > begun /\ mine[f] <= begun /\ mine[f] \in Nat /\ begun \in Nat /\ now \in Nat
      <4>1. slot # 0
        BY StepIs
      <4> QED
        BY <4>1, HasSent, BegunIs, MineIsNat, NowIsNat
    <3> QED
      BY <3>1, <3>3, <3>4
  <2>5. CASE TimeOut(n)
    BY <1>2, <2>5, BegunIs, TodoParts DEF TimeOut
  <2> QED
    BY <1>2, <2>2, <2>3, <2>4, <2>5, DoingIs
       DEF Step, ClusterheadSend, FollowerSend, FollowerListen, FollowerHear
<1> QED
  BY <1>6, <1>7

\* A full buffer aside, what is queued is at the end of the frame.
LEMMA QueuedAll ==
    ASSUME NEW q \in Seq(Message), Len(q) <= TxCap, NEW m \in Message, Len(Queued(q, m)) # TxCap
    PROVE  Queued(q, m) = Append(q, m)
  BY BoundAssumption DEF Queued

\* A node that has a task of this slot at hand has it as the first.
LEMMA OneTask ==
    ASSUME TypeOK, NEW n \in Node, Planned(n), todo[n] # <<>>, todo[n][1].slot = slot,
           NEW D, Due(todo[n], slot, D)
    PROVE  todo[n][1].do \in D
<1>1. 1 \in DOMAIN todo[n]
  BY TodoParts
<1> QED
  BY <1>1 DEF Due, Planned

\* What a follower sends comes to its clusterhead.
LEMMA StepSends ==
    ASSUME Leased, Served, TypeOK, FlowInv, SendInv, TurnInv,
           NEW f \in Node, FollowerSend(f), NEW c, c = Parent[f],
           Planned(f), Planned(c), OnTime(f), OnTime(c), Ready(f), ~faulty'
    PROVE  c # UNKNOWN_ADDR /\ InFlight(f, c)'
<1>1. Step(f) /\ Doing(f, "follower_send") /\ todo[f] # <<>> /\ todo[f][1].do = "follower_send"
  BY DoingIs DEF Step, FollowerSend
<1>2. c # UNKNOWN_ADDR
  BY <1>1, FirstTask DEF FlowInv
<1>3. /\ c \in Node /\ c # f /\ InRange(f, c) /\ start(c) \in Int
      /\ my_slot(f) = start(c) + Rel[f] /\ Rel[f] \in Int
  BY <1>2, ServedSlots
<1>4. /\ slot' = slot /\ frame' = frame /\ mine[f] <= begun
      /\ todo'[c] = todo[c] /\ parent' = parent
  BY <1>1, <1>3, StepIs, HasSent, ZenonT(60) DEF FollowerSend
<1>5. parent[f] = c /\ slot = my_slot(f)
  <2>1. 1 \in DOMAIN todo[f] /\ 1 \in Sends(todo[f])
    BY <1>1, DoingIs DEF Sends
  <2>2. todo[f][1].slot = my_slot(f)
    BY <2>1 DEF SendInv
  <2>3. todo[f][1].slot = slot
    BY <1>1, <2>1 DEF OnTime, HereDuties
  <2> QED
    BY <1>1, <2>1, <2>2, <2>3 DEF Planned
<1>6. PICK q : q = Queued(tx[f], Datagram(f))
  OBVIOUS
<1>7. Flushed(f, q, Rel[f], {c})
  BY <1>5, <1>6 DEF FollowerSend, NotFlushed
<1>8. Due(todo[c], slot, HearDuties) /\ todo[c] # <<>>
  <2>1. Due(todo[c], slot, HearDuties)
    BY <1>2, <1>4, <1>5 DEF Ready
  <2> QED
    BY <2>1 DEF Due
<1>9. /\ Listening(c) /\ Head(todo[c]).slot = slot
      /\ code[c] = Rel[f] => held'[c] = q
      /\ Len(q) # TxCap
  <2>1. c \in {c}
    OBVIOUS
  <2> QED
    BY <1>3, <1>7, <1>8, <2>1, Heard
<1>10. todo[c][1].slot = slot /\ todo[c][1].do = "clusterhead_hear"
  <2>1. todo[c][1].slot = slot
    BY <1>3, <1>8, <1>9, TodoParts
  <2>2. todo[c][1].do \in HearDuties
    BY <1>3, <1>8, <2>1, OneTask
  <2> QED
    BY <1>3, <1>9, <2>1, <2>2, DoingIs DEF HearDuties, Listening
<1>11. Doing(c, "clusterhead_hear") /\ code[c] = Rel[f]
  <2>1. Doing(c, "clusterhead_hear")
    BY <1>3, <1>8, <1>10, DoingIs
  <2>2. code[c] = todo[c][1].slot - start(c)
    BY <2>1 DEF OnTime
  <2> QED
    BY <1>3, <1>5, <1>10, <2>1, <2>2
<1>12. q # <<>> /\ q[Len(q)] = [type |-> "Datagram", src |-> f, sequence |-> now]
  <2>1. Datagram(f) \in Message /\ tx[f] \in Seq(Message) /\ Len(tx[f]) <= TxCap
    BY NowInTime DEF TypeOK, Datagram, Message
  <2>2. q = Append(tx[f], Datagram(f))
    BY <1>6, <1>9, <2>1, QueuedAll
  <2>3. q # <<>> /\ q[Len(q)] = Datagram(f)
    BY <2>1, <2>2
  <2> QED
    BY <2>3 DEF Datagram
<1>13. mine'[f] = now /\ held'[c] = q
  BY <1>9, <1>11 DEF FollowerSend, TypeOK
<1>14. my_slot(f)' = my_slot(f)
  BY <1>4, NowStays
<1>15. Doing(c, "clusterhead_hear")'
  BY <1>4, <1>11 DEF Doing
<1>16. InFlight(f, c)'
  BY <1>4, <1>5, <1>10, <1>12, <1>13, <1>14, <1>15 DEF InFlight
<1> QED
  BY <1>2, <1>16

\* A datagram in flight is heard in its slot, and noted.
LEMMA StepInFlight ==
    ASSUME Leased, Served, TypeOK, FlowInv, TurnInv, NEW n \in Node, Step(n),
           NEW f \in Node, NEW c, c = Parent[f], c # UNKNOWN_ADDR, mine[f] > begun,
           Planned(c), OnTime(f), OnTime(c), ~faulty', InFlight(f, c)
    PROVE  InFlight(f, c)' \/ Noted(f, c)'
<1>1. /\ c \in Node /\ c # f /\ start(c) \in Int /\ ack_slot(c) \in Int
      /\ my_slot(f) = start(c) + Rel[f] /\ Rel[f] \in Int /\ my_slot(f) < ack_slot(c)
  BY ServedSlots
<1>2. /\ slot' = slot /\ frame' = frame /\ mine'[f] = mine[f]
      /\ \A k \in Node : k # n => todo'[k] = todo[k] /\ parent'[k] = parent[k]
      /\ parent'[n] = parent[n] \/ FollowerHear(n)
  BY StepIs, HasSent
<1>3. /\ Doing(c, "clusterhead_hear") /\ held[c] # <<>> /\ parent[f] = c
      /\ todo[c][1].slot = my_slot(f) /\ todo[c] # <<>> /\ todo[c][1].do = "clusterhead_hear"
      /\ held[c][Len(held[c])] = [type |-> "Datagram", src |-> f, sequence |-> mine[f]]
  BY <1>1, DoingIs DEF InFlight
<1>4. slot = my_slot(f) /\ code[c] = Rel[f]
  BY <1>1, <1>3 DEF OnTime
<1>5. parent'[f] = c
  <2>1. ~FollowerHear(f)
    BY <1>1, <1>4 DEF FollowerHear, OnTime
  <2> QED
    BY <1>2, <1>3, <2>1
<1>6. my_slot(f)' = my_slot(f) /\ ack_slot(c)' = ack_slot(c)
  BY <1>1, <1>2, NowStays
<1>7. CASE c # n
  <2>1. held'[c] = held[c] /\ todo'[c] = todo[c]
    BY <1>1, <1>2, <1>3, <1>7, KeptFrame
  <2>2. Doing(c, "clusterhead_hear")'
    BY <1>3, <2>1 DEF Doing
  <2>3. InFlight(f, c)'
    BY <1>2, <1>3, <1>5, <1>6, <2>1, <2>2 DEF InFlight
  <2> QED
    BY <2>3
<1>8. CASE c = n
  <2>1. ClusterheadHear(c)
    BY <1>1, <1>3, <1>8, DoingIs
       DEF Step, ClusterheadListen, ClusterheadSend, FollowerSend, FollowerListen, FollowerHear, TimeOut
  <2>2. PICK s : s = Received(c)[Len(held[c])]
    OBVIOUS
  <2>3. acks'[c] = s.acks /\ todo'[c] = Tail(todo[c])
    BY <1>1, <2>1, <2>2 DEF ClusterheadHear, Done, TypeOK
  <2>4. s.acks[code[c]] = mine[f]
    BY <1>1, <1>3, <2>2, ReceivedNotes
  <2>5. ~Due(todo'[c], my_slot(f), HearDuties)
    BY <1>1, <1>3, <2>3, DoneOnce
  <2>6. slot \in Int
    BY BegunIs
  <2>7. Noted(f, c)'
    BY <1>1, <1>2, <1>4, <1>5, <1>6, <2>3, <2>4, <2>5, <2>6 DEF Noted, Due
  <2> QED
    BY <2>7
<1> QED
  BY <1>7, <1>8

\* The answer is the last of its kind in the frame it leaves in.
LEMMA AnswerLast ==
    ASSUME NEW q \in Seq(Message), Len(q) <= TxCap, NEW a \in Message, a.type = "SendAcks",
           NEW b \in Message, b.type = "CloseCluster",
           NEW r, r = Queued(Queued(q, a), b), Len(r) # TxCap
    PROVE  LastOf(r, "SendAcks") # {} /\ \A i \in LastOf(r, "SendAcks") : r[i] = a
<1>1. Queued(q, a) \in Seq(Message) /\ Len(Queued(q, a)) <= TxCap
  BY QueuedType
<1>2. r = Append(Queued(q, a), b)
  BY <1>1, QueuedAll
<1>3. Len(Queued(q, a)) # TxCap
  BY <1>1, <1>2, BoundAssumption DEF Queued
<1>4. Queued(q, a) = Append(q, a)
  BY <1>3, QueuedAll
<1> DEFINE k == Len(q) + 1
<1>5. /\ k \in DOMAIN r /\ r[k] = a /\ k \in Nat
      /\ \A i \in DOMAIN r : i \in Nat /\ (i <= k \/ r[i] = b)
  <2>1. r = Append(Append(q, a), b)
    BY <1>2, <1>4
  <2> QED
    BY <2>1
<1> HIDE DEF k
<1>6. k \in LastOf(r, "SendAcks")
  BY <1>5 DEF LastOf
<1>7. ASSUME NEW i \in LastOf(r, "SendAcks") PROVE i = k
  <2>1. i \in DOMAIN r /\ r[i].type = "SendAcks" /\ k <= i
    BY <1>5 DEF LastOf
  <2> QED
    BY <1>5, <2>1
<1> QED
  BY <1>5, <1>6, <1>7

\* The answer reaches the follower, which is about to hear it.
LEMMA NotedAnswers ==
    ASSUME Leased, Served, TypeOK, FlowInv, NEW f \in Node, NEW c, c = Parent[f],
           c # UNKNOWN_ADDR, Planned(f), Planned(c), OnTime(f), ~faulty', Noted(f, c),
           mine'[f] = mine[f], slot = ack_slot(c), ClusterheadSend(c)
    PROVE  Answering(f)'
<1>1. c \in Clusterhead /\ c \in Node /\ c # f /\ InRange(c, f) /\ Rel[f] \in Int
  BY ServedSlots
<1>2. Step(c) /\ parent[f] = c /\ acks[c][Rel[f]] = mine[f] /\ Due(todo[f], slot, HeedDuties)
  BY <1>1 DEF Noted, Step
<1>3. todo'[f] = todo[f] /\ todo[f] # <<>>
  BY <1>1, <1>2, StepIs DEF Due
<1>4. PICK b \in {c, UNKNOWN_ADDR} :
        LET q == Queued(Queued(tx[c], SendAcks(c)), CloseCluster(c, b))
        IN  Flushed(c, q, 0, {g \in Node : parent[g] = c})
  BY DEF ClusterheadSend, NotFlushed
<1>5. PICK q : q = Queued(Queued(tx[c], SendAcks(c)), CloseCluster(c, b))
  OBVIOUS
<1>6. Flushed(c, q, 0, {g \in Node : parent[g] = c})
  BY <1>4, <1>5
<1>7. /\ Listening(f) /\ Head(todo[f]).slot = slot /\ Len(q) # TxCap
      /\ code[f] = 0 => held'[f] = q
  <2>1. f \in {g \in Node : parent[g] = c}
    BY <1>2
  <2> QED
    BY <1>1, <1>3, <1>6, <2>1, Heard
<1>8. todo[f][1].do \in HeedDuties
  <2>1. todo[f][1].slot = slot
    BY <1>3, <1>7, TodoParts
  <2> QED
    BY <1>2, <1>3, <2>1, OneTask
<1>9. Doing(f, "follower_hear")
  BY <1>7, <1>8, DoingIs DEF HeedDuties, Listening
<1>10. held'[f] = q
  BY <1>7, <1>9 DEF OnTime
<1>11. LastOf(q, "SendAcks") # {} /\ \A i \in LastOf(q, "SendAcks") : q[i] = SendAcks(c)
  <2>1. /\ SendAcks(c) \in Message /\ SendAcks(c).type = "SendAcks"
        /\ CloseCluster(c, b) \in Message /\ CloseCluster(c, b).type = "CloseCluster"
        /\ tx[c] \in Seq(Message) /\ Len(tx[c]) <= TxCap
    BY <1>1 DEF TypeOK, SendAcks, CloseCluster, Message
  <2> QED
    BY <1>5, <1>7, <2>1, AnswerLast
<1>12. \A i \in LastOf(q, "SendAcks") : q[i].acks[Rel[f]] = mine[f]
  BY <1>2, <1>11 DEF SendAcks
<1>13. Doing(f, "follower_hear")'
  BY <1>3, <1>9 DEF Doing
<1>14. LastOf(held[f], "SendAcks")' = LastOf(q, "SendAcks")
  BY <1>10 DEF LastOf
<1> QED
  BY <1>10, <1>11, <1>12, <1>13, <1>14 DEF Answering

\* What is noted stays noted until it is answered.
LEMMA StepNoted ==
    ASSUME Leased, Served, TypeOK, FlowInv, TurnInv, NEW n \in Node, Step(n),
           NEW f \in Node, NEW c, c = Parent[f], c # UNKNOWN_ADDR, mine[f] > begun,
           Planned(f), Planned(c), OnTime(f), OnTime(c), ~faulty', Noted(f, c)
    PROVE  Noted(f, c)' \/ Answering(f)'
<1>1. /\ c \in Node /\ c # f /\ start(c) \in Int /\ ack_slot(c) \in Int
      /\ my_slot(f) = start(c) + Rel[f] /\ Rel[f] \in 1 .. vtdma_window_size - 2
      /\ vtdma_window_size \in Nat
  BY ServedSlots
<1>2. /\ slot' = slot /\ frame' = frame /\ mine'[f] = mine[f] /\ todo[n] # <<>>
      /\ \A k \in Node : k # n => todo'[k] = todo[k] /\ parent'[k] = parent[k] /\ acks'[k] = acks[k]
      /\ parent'[n] = parent[n] \/ FollowerHear(n)
      /\ Moved(todo[n], todo'[n])
  BY StepIs, HasSent
<1>3. /\ parent[f] = c /\ acks[c][Rel[f]] = mine[f] /\ slot <= ack_slot(c)
      /\ ~Due(todo[c], my_slot(f), HearDuties)
      /\ slot = ack_slot(c) =>
           Due(todo[c], slot, {"clusterhead_send"}) /\ Due(todo[f], slot, HeedDuties)
  BY DEF Noted
<1>4. ~FollowerHear(f)
  BY <1>3 DEF FollowerHear, OnTime
<1>5. parent'[f] = c
  BY <1>2, <1>3, <1>4
<1>6. acks'[c][Rel[f]] = mine[f]
  <2>1. CASE ClusterheadHear(c)
    <3>1. Doing(c, "clusterhead_hear") /\ held[c] # <<>>
      BY <2>1 DEF ClusterheadHear
    <3>2. /\ 1 \in DOMAIN todo[c] /\ todo[c][1].do = "clusterhead_hear"
          /\ code[c] = todo[c][1].slot - start(c) /\ todo[c][1].slot \in {slot, slot - 1}
      BY <1>1, <3>1, DoingIs, TodoParts DEF OnTime
    <3>3. todo[c][1].slot # my_slot(f)
      BY <1>3, <3>2 DEF Due, HearDuties
    <3>4. Rel[f] # code[c]
      BY <1>1, <3>2, <3>3, BegunIs
    <3>5. PICK s : s = Received(c)[Len(held[c])]
      OBVIOUS
    <3>6. acks'[c] = s.acks
      BY <1>1, <2>1, <3>5 DEF ClusterheadHear, TypeOK
    <3>7. s.acks[Rel[f]] = acks[c][Rel[f]]
      <4>1. Rel[f] \in 0 .. vtdma_window_size - 1
        BY <1>1
      <4> QED
        BY <1>1, <3>4, <3>5, <4>1, ReceivedNotes
    <3> QED
      BY <1>3, <3>6, <3>7
  <2>2. CASE FollowerHear(c)
    <3>1. \/ acks' = acks
          \/ \E i \in LastOf(held[c], "SendAcks") :
                acks' = [acks EXCEPT ![c][0] = held[c][i].acks[Rel[c]]]
      BY <2>2 DEF FollowerHear
    <3>2. ASSUME NEW v, acks' = [acks EXCEPT ![c][0] = v]
          PROVE  acks'[c][Rel[f]] = acks[c][Rel[f]]
      <4>1. acks'[c] = [acks[c] EXCEPT ![0] = v]
        BY <1>1, <3>2 DEF TypeOK
      <4>2. Rel[f] # 0 /\ Rel[f] \in 0 .. vtdma_window_size - 1
        BY <1>1
      <4>3. DOMAIN acks[c] = 0 .. vtdma_window_size - 1
        BY <1>1 DEF TypeOK
      <4> HIDE DEF TypeOK
      <4> QED
        BY <4>1, <4>2, <4>3
    <3> QED
      BY <1>3, <3>1, <3>2
  <2>3. CASE ~ClusterheadHear(c) /\ ~FollowerHear(c)
    <3>1. acks'[c] = acks[c]
      <4>1. CASE c = n
        BY <2>3, <4>1 DEF Step, ClusterheadListen, ClusterheadSend, FollowerSend, FollowerListen, TimeOut
      <4> QED
        BY <1>1, <1>2, <4>1
    <3> QED
      BY <1>3, <3>1
  <2> QED
    BY <2>1, <2>2, <2>3
<1>7. ~Due(todo'[c], my_slot(f), HearDuties)
  <2>1. todo[n] \in Seq(Task0)
    BY TodoParts
  <2>2. Due(todo'[n], my_slot(f), HearDuties) => Due(todo[n], my_slot(f), HearDuties)
    BY <1>2, <2>1, MovedDue
  <2> QED
    BY <1>1, <1>2, <1>3, <2>2
<1>8. my_slot(f)' = my_slot(f) /\ ack_slot(c)' = ack_slot(c)
  BY <1>1, <1>2, NowStays
<1>9. ASSUME slot = ack_slot(c), ~ClusterheadSend(c)
      PROVE  Due(todo'[c], slot, {"clusterhead_send"}) /\ Due(todo'[f], slot, HeedDuties)
  <2>1. todo[n] \in Seq(Task0) /\ slot \in Int
    BY TodoParts, BegunIs
  <2>2. Due(todo'[c], slot, {"clusterhead_send"})
    <3>1. CASE c # n
      BY <1>1, <1>2, <1>3, <1>9, <3>1
    <3>2. CASE c = n
      <4>1. ~Doing(n, "clusterhead_send")
        BY <1>9, <3>2
           DEF Step, ClusterheadListen, ClusterheadHear, FollowerSend, FollowerListen, FollowerHear,
               TimeOut, Listening, Doing
      <4>2. todo[n][1].do # "clusterhead_send"
        BY <1>2, <4>1, DoingIs
      <4> QED
        BY <1>2, <1>3, <1>9, <2>1, <3>2, <4>2, MovedDue
    <3> QED
      BY <3>1, <3>2
  <2>3. Due(todo'[f], slot, HeedDuties)
    <3>1. CASE f # n
      BY <1>2, <1>3, <1>9, <3>1
    <3>2. CASE f = n
      <4>4. Due(todo[n], slot, HeedDuties) => Due(todo'[n], slot, HeedDuties) \/
              (/\ todo[n] # <<>> /\ todo'[n] = Tail(todo[n]) /\ todo'[n] # todo[n]
               /\ todo[n][1].slot = slot /\ todo[n][1].do \in HeedDuties)
        <5>1. PICK q : q = todo[n]
          OBVIOUS
        <5>2. PICK r : r = todo'[n]
          OBVIOUS
        <5>3. q \in Seq(Task0) /\ Moved(q, r)
          BY <1>2, <2>1, <5>1, <5>2
        <5>4. Due(q, slot, HeedDuties) => Due(r, slot, HeedDuties) \/
                (/\ q # <<>> /\ r = Tail(q) /\ r # q /\ q[1].slot = slot /\ q[1].do \in HeedDuties)
          BY <5>3, MovedDue
        <5> QED
          BY <5>1, <5>2, <5>4
      <4> SUFFICES ASSUME todo'[n] = Tail(todo[n]), todo'[n] # todo[n],
                          todo[n][1].slot = slot, todo[n][1].do \in HeedDuties
                   PROVE  FALSE
        BY <1>3, <1>9, <3>2, <4>4
      <4>1. Doing(n, "follower_recv") \/ Doing(n, "follower_hear")
        BY <1>2, DoingIs DEF HeedDuties
      <4>2. CASE FollowerListen(n)
        <5>1. Listen(n, "follower_hear")
          BY <1>9, <3>2, <4>2 DEF FollowerListen
        <5>2. todo'[n] = [todo[n] EXCEPT ![1].do = "follower_hear"]
          BY <5>1 DEF Listen, TypeOK
        <5>3. DOMAIN [todo[n] EXCEPT ![1].do = "follower_hear"] = DOMAIN todo[n]
          BY <1>2, <2>1, BeginIs
        <5>4. Len(todo[n]) \in DOMAIN todo[n] /\ Len(todo[n]) \notin DOMAIN Tail(todo[n])
          BY <1>2, <2>1
        <5> QED
          BY <5>2, <5>3, <5>4
      <4>3. CASE TimeOut(n)
        BY <1>2, <2>1, <4>3, TodoParts DEF TimeOut
      <4> QED
        BY <1>4, <3>2, <4>1, <4>2, <4>3
           DEF Step, ClusterheadListen, ClusterheadHear, ClusterheadSend, FollowerSend, Doing
    <3> QED
      BY <3>1, <3>2
  <2> QED
    BY <2>2, <2>3
<1>10. CASE slot = ack_slot(c) /\ ClusterheadSend(c)
  BY <1>2, <1>10, NotedAnswers
<1>11. CASE ~(slot = ack_slot(c) /\ ClusterheadSend(c))
  <2>1. slot' = ack_slot(c)' =>
          Due(todo[c], slot, {"clusterhead_send"})' /\ Due(todo[f], slot, HeedDuties)'
    BY <1>2, <1>8, <1>9, <1>11 DEF Due
  <2>2. ~Due(todo[c], my_slot(f), HearDuties)'
    BY <1>7, <1>8 DEF Due
  <2>3. Noted(f, c)'
    BY <1>2, <1>3, <1>5, <1>6, <1>8, <2>1, <2>2 DEF Noted
  <2> QED
    BY <2>3
<1> QED
  BY <1>10, <1>11

\* The answer is read.
LEMMA StepAnswering ==
    ASSUME TypeOK, FlowInv, TurnInv, NEW n \in Node, Step(n),
           NEW f \in Node, NEW c, c = Parent[f], c # UNKNOWN_ADDR, mine[f] > begun,
           Planned(f), OnTime(f), ~faulty', Answering(f)
    PROVE  Answering(f)' \/ Acked(f, c)'
<1>1. /\ slot' = slot /\ frame' = frame /\ mine'[f] = mine[f]
      /\ \A k \in Node : k # n => todo'[k] = todo[k]
  BY StepIs, HasSent
<1>2. Doing(f, "follower_hear") /\ LastOf(held[f], "SendAcks") # {}
  BY DEF Answering
<1>3. /\ held[f] # <<>> /\ todo[f] # <<>> /\ 1 \in DOMAIN todo[f]
      /\ todo[f][1].do = "follower_hear"
  <2>1. held[f] # <<>>
    BY <1>2 DEF LastOf
  <2> QED
    BY <1>2, <2>1, DoingIs
<1>4. slot = ack_slot(c) /\ todo[f][1].slot = ack_slot(c) /\ c \in Node /\ ack_slot(c) \in Int
  <2>1. c \in Clusterhead
    BY TreeAssumption
  <2> QED
    BY <1>2, <1>3, <2>1, ClusterheadRing DEF OnTime, Planned, HeedDuties
<1>5. CASE f # n
  <2>1. todo'[f] = todo[f] /\ held'[f] = held[f]
    BY <1>1, <1>3, <1>5, KeptFrame
  <2>2. Doing(f, "follower_hear")' /\ LastOf(held[f], "SendAcks")' = LastOf(held[f], "SendAcks")
    BY <1>2, <2>1 DEF Doing, LastOf
  <2>3. Answering(f)'
    BY <1>1, <2>1, <2>2 DEF Answering
  <2> QED
    BY <2>3
<1>6. CASE f = n
  <2>1. FollowerHear(f)
    BY <1>3, <1>6, DoingIs
       DEF Step, ClusterheadListen, ClusterheadHear, ClusterheadSend, FollowerSend, FollowerListen, TimeOut
  <2>2. PICK i \in LastOf(held[f], "SendAcks") :
          acks' = [acks EXCEPT ![f][0] = held[f][i].acks[Rel[f]]] /\ Done(f)
    BY <1>2, <2>1 DEF FollowerHear
  <2>3. acks'[f][0] = mine[f]
    <3>1. held[f][i].acks[Rel[f]] = mine[f] /\ 0 \in 0 .. vtdma_window_size - 1
      BY Windows DEF Answering
    <3> QED
      BY <2>2, <3>1 DEF TypeOK
  <2>4. todo'[f] = Tail(todo[f])
    BY <2>2 DEF Done, TypeOK
  <2>5. ~Due(todo'[f], ack_slot(c), HeedDuties)
    BY <1>3, <1>4, <2>4, DoneOnce
  <2>6. ack_slot(c)' = ack_slot(c)
    BY <1>1, <1>4, NowStays
  <2>7. Acked(f, c)'
    BY <1>1, <1>4, <2>3, <2>5, <2>6 DEF Acked, Due
  <2> QED
    BY <2>7
<1> QED
  BY <1>5, <1>6

\* What is acknowledged stays so.
LEMMA StepAcked ==
    ASSUME TypeOK, FlowInv, TurnInv, NEW n \in Node, Step(n),
           NEW f \in Node, NEW c, c = Parent[f], c # UNKNOWN_ADDR, mine[f] > begun,
           Planned(f), Acked(f, c)
    PROVE  Acked(f, c)'
<1>1. /\ slot' = slot /\ frame' = frame /\ mine'[f] = mine[f]
      /\ \A k \in Node : k # n => todo'[k] = todo[k] /\ acks'[k] = acks[k]
      /\ Moved(todo[n], todo'[n])
  BY StepIs, HasSent
<1>2. acks[f][0] = mine[f] /\ ack_slot(c) <= slot /\ ~Due(todo[f], ack_slot(c), HeedDuties)
  BY DEF Acked
<1>3. ~Due(todo'[f], ack_slot(c), HeedDuties)
  <2>1. todo[n] \in Seq(Task0)
    BY TodoParts
  <2>2. Due(todo'[n], ack_slot(c), HeedDuties) => Due(todo[n], ack_slot(c), HeedDuties)
    BY <1>1, <2>1, MovedDue
  <2> QED
    BY <1>1, <1>2, <2>2
<1>4. ~FollowerHear(f)
  <2> SUFFICES ASSUME FollowerHear(f) PROVE FALSE
    OBVIOUS
  <2>1. 1 \in DOMAIN todo[f] /\ todo[f][1].do = "follower_hear"
    BY DoingIs DEF FollowerHear
  <2>2. todo[f][1].slot = ack_slot(c)
    BY <2>1 DEF Planned, HeedDuties
  <2> QED
    BY <1>2, <2>1, <2>2 DEF Due, HeedDuties
<1>5. acks'[f][0] = mine[f]
  <2>1. CASE ClusterheadHear(f)
    <3>1. code[f] # 0
      BY <2>1, Hearing DEF ClusterheadHear, FlowInv
    <3>2. PICK s : s = Received(f)[Len(held[f])]
      OBVIOUS
    <3>3. acks'[f] = s.acks
      BY <2>1, <3>2 DEF ClusterheadHear, TypeOK
    <3>4. s.acks[0] = acks[f][0]
      <4>1. 0 \in 0 .. vtdma_window_size - 1
        BY Windows
      <4> QED
        BY <3>1, <3>2, <4>1, ReceivedNotes
    <3> QED
      BY <1>2, <3>3, <3>4
  <2>2. CASE ~ClusterheadHear(f)
    <3>1. acks'[f] = acks[f]
      <4>1. CASE f = n
        BY <1>4, <2>2, <4>1
           DEF Step, ClusterheadListen, ClusterheadSend, FollowerSend, FollowerListen, TimeOut
      <4> QED
        BY <1>1, <4>1
    <3> QED
      BY <1>2, <3>1
  <2> QED
    BY <2>1, <2>2
<1>6. ack_slot(c)' = ack_slot(c)
  BY <1>1 DEF ack_slot
<1> QED
  BY <1>1, <1>2, <1>3, <1>5, <1>6 DEF Acked, Due

LEMMA StepSent ==
    ASSUME Leased, Served, TypeOK, FlowInv, SendInv, TurnInv, PlanInv,
           NEW n \in Node, Step(n), \A m \in Node : OnTime(m), ~faulty',
           NEW f \in Node, Parent[f] # UNKNOWN_ADDR, Ready(f), Sent(f)
    PROVE  Sent(f)'
<1>1. PICK c : c = Parent[f]
  OBVIOUS
<1>2. c \in Node /\ c # UNKNOWN_ADDR /\ begun' = begun
  BY <1>1, ServedSlots, StepIs, NowStays
<1>3. Planned(f) /\ Planned(c) /\ OnTime(f) /\ OnTime(c)
  BY <1>2 DEF PlanInv
<1> SUFFICES ASSUME mine'[f] > begun
             PROVE  InFlight(f, c)' \/ Noted(f, c)' \/ Answering(f)' \/ Acked(f, c)'
  BY <1>1, <1>2 DEF Sent
<1>4. CASE mine[f] > begun
  <2>1. InFlight(f, c) \/ Noted(f, c) \/ Answering(f) \/ Acked(f, c)
    BY <1>1, <1>4 DEF Sent
  <2>2. CASE InFlight(f, c)
    BY <1>1, <1>2, <1>3, <1>4, <2>2, StepInFlight
  <2>3. CASE Noted(f, c)
    BY <1>1, <1>2, <1>3, <1>4, <2>3, StepNoted
  <2>4. CASE Answering(f)
    BY <1>1, <1>2, <1>3, <1>4, <2>4, StepAnswering
  <2>5. CASE Acked(f, c)
    BY <1>1, <1>2, <1>3, <1>4, <2>5, StepAcked
  <2> QED
    BY <2>1, <2>2, <2>3, <2>4, <2>5
<1>5. CASE ~(mine[f] > begun)
  <2>1. FollowerSend(f)
    BY <1>5, HasSent, BegunIs, MineIsNat
  <2>2. InFlight(f, c)'
    BY <1>1, <1>3, <2>1, StepSends
  <2> QED
    BY <2>2
<1> QED
  BY <1>4, <1>5

LEMMA StepTime ==
    ASSUME OneUpstream, OneDownstream, Leased, Served, TypeOK, TypeOK', FlowInv, SendInv, TurnInv,
           TimeInv, NEW n \in Node, Step(n)
    PROVE  TimeInv'
<1>1. PlanInv'
  BY StepPlanned DEF TimeInv, PlanInv
<1> SUFFICES ASSUME ~faulty'
             PROVE  /\ \A m \in Node : OnTime(m)'
                    /\ \A f \in Node : Parent[f] # UNKNOWN_ADDR => Ready(f)' /\ Sent(f)'
  BY <1>1 DEF TimeInv
<1>2. /\ PlanInv /\ \A m \in Node : OnTime(m)
      /\ \A f \in Node : Parent[f] # UNKNOWN_ADDR => Ready(f) /\ Sent(f)
  BY FaultLasts DEF TimeInv
<1>3. ASSUME NEW m \in Node PROVE OnTime(m)'
  <2>1. Planned(n) /\ Planned(m) /\ OnTime(n) /\ OnTime(m)
    BY <1>2 DEF PlanInv
  <2>2. CASE m = n
    BY <2>1, <2>2, StepOnTime
  <2>3. CASE m # n
    BY <2>1, <2>3, StepOthersOnTime
  <2> QED
    BY <2>2, <2>3
<1>4. ASSUME NEW f \in Node, Parent[f] # UNKNOWN_ADDR PROVE Ready(f)' /\ Sent(f)'
  <2>1. Ready(f) /\ Sent(f) /\ OnTime(n)
    BY <1>2, <1>4
  <2>2. Ready(f)'
    BY <1>4, <2>1, StepReady
  <2>3. Sent(f)'
    BY <1>2, <1>4, <2>1, StepSent
  <2> QED
    BY <2>2, <2>3
<1> QED
  BY <1>3, <1>4

-----------------------------------------------------------------------------
(* The boundaries of slots and superframes.                                 *)

\* The duty d falls to n in slot s, if it follows p[n].
Falls(n, d, s, p) ==
    \/ d = "clusterhead_recv" /\ n \in Clusterhead /\ s - start(n) \in 1 .. vtdma_window_size - 2
    \/ d = "clusterhead_send" /\ n \in Clusterhead /\ s = ack_slot(n)
    \/ d = "follower_send" /\ p[n] # UNKNOWN_ADDR /\ s = my_slot(n)
    \/ d = "follower_recv" /\ p[n] # UNKNOWN_ADDR /\ s = ack_slot(Parent[n])

\* A node that is served has at most one task in a slot.
LEMMA PlanServed ==
    ASSUME Leased, Served, NEW n \in Node, NEW s \in Nat, NEW p,
           p[n] # UNKNOWN_ADDR => Parent[n] # UNKNOWN_ADDR
    PROVE  /\ \/ Plan(n, s, p) = <<>>
              \/ \E d : Plan(n, s, p) = <<Task(d, s)>> /\ Falls(n, d, s, p)
           /\ \A d : Falls(n, d, s, p) => Plan(n, s, p) = <<Task(d, s)>>
<1>1. ~(/\ p[n] # UNKNOWN_ADDR /\ s = my_slot(n) /\ s = ack_slot(Parent[n]))
  <2> SUFFICES ASSUME p[n] # UNKNOWN_ADDR, s = my_slot(n), s = ack_slot(Parent[n])
               PROVE  FALSE
    OBVIOUS
  <2>1. PICK c : c = Parent[n]
    OBVIOUS
  <2>2. c # UNKNOWN_ADDR
    BY <2>1
  <2>3. my_slot(n) < ack_slot(c) /\ my_slot(n) \in Nat
    BY <2>1, <2>2, ServedSlots
  <2> QED
    BY <2>1, <2>3
<1> DEFINE c1 == n \in Clusterhead /\ s - start(n) \in 1 .. vtdma_window_size - 2
           c2 == n \in Clusterhead /\ s = ack_slot(n)
           c3 == p[n] # UNKNOWN_ADDR /\ s = my_slot(n)
           c4 == p[n] # UNKNOWN_ADDR /\ s = ack_slot(Parent[n])
<1>2. \/ Plan(n, s, p) = <<>> /\ ~c1 /\ ~c2 /\ ~c3 /\ ~c4
      \/ Plan(n, s, p) = <<Task("clusterhead_recv", s)>> /\ c1 /\ ~c2 /\ ~c3 /\ ~c4
      \/ Plan(n, s, p) = <<Task("clusterhead_send", s)>> /\ c2 /\ ~c1 /\ ~c3 /\ ~c4
      \/ Plan(n, s, p) = <<Task("follower_send", s)>> /\ c3 /\ ~c1 /\ ~c2 /\ ~c4
      \/ Plan(n, s, p) = <<Task("follower_recv", s)>> /\ c4 /\ ~c1 /\ ~c2 /\ ~c3
      \/ c3 /\ c4
  BY PlanOne DEF start
<1>3. ~(c3 /\ c4)
  BY <1>1
<1>4. \A d : Falls(n, d, s, p) <=> \/ d = "clusterhead_recv" /\ c1
                                   \/ d = "clusterhead_send" /\ c2
                                   \/ d = "follower_send" /\ c3
                                   \/ d = "follower_recv" /\ c4
  BY DEF Falls
<1> HIDE DEF c1, c2, c3, c4
<1> QED
  BY <1>2, <1>3, <1>4, Zenon

\* What the plan of the next slot adds.
Added(n, t) == \E d : t = Task(d, slot + 1) /\ Falls(n, d, slot + 1, parent)

\* What a node has to do when the next slot begins.
LEMMA NextTasks ==
    ASSUME Leased, Served, TypeOK, FlowInv, NextSlot, NEW n \in Node,
           todo' = [k \in Node |-> Carried(k) \o Plan(k, slot + 1, parent)]
    PROVE  /\ \A j \in DOMAIN todo'[n] :
                \/ /\ j = 1 /\ n \in Late /\ todo[n] # <<>> /\ todo[n] = <<todo[n][1]>>
                   /\ todo'[n][j] = todo[n][1] /\ todo[n][1].slot = slot
                \/ Added(n, todo'[n][j])
           /\ \A i, j \in DOMAIN todo'[n] : todo'[n][i].slot = todo'[n][j].slot => i = j
           /\ \A d, D : Falls(n, d, slot + 1, parent) /\ d \in D => Due(todo'[n], slot + 1, D)
<1> DEFINE p == Plan(n, slot + 1, parent)
<1>0. PICK t : t = todo[n][1]
  OBVIOUS
<1>1. \/ p = <<>>
      \/ \E d : p = <<Task(d, slot + 1)>> /\ Falls(n, d, slot + 1, parent)
  <2>1. slot + 1 \in Nat /\ (parent[n] # UNKNOWN_ADDR => Parent[n] # UNKNOWN_ADDR)
    BY BegunIs DEF FlowInv
  <2> QED
    BY <2>1, PlanServed
<1>2. \A d : Falls(n, d, slot + 1, parent) => p = <<Task(d, slot + 1)>>
  <2>1. slot + 1 \in Nat /\ (parent[n] # UNKNOWN_ADDR => Parent[n] # UNKNOWN_ADDR)
    BY BegunIs DEF FlowInv
  <2> QED
    BY <2>1, PlanServed
<1>3. \/ todo'[n] = p
      \/ /\ n \in Late /\ todo[n] # <<>> /\ t.slot = slot /\ todo[n] = <<t>>
         /\ todo'[n] = <<t>> \o p
  BY <1>0, NextTodo
<1>4. slot \in Nat /\ \A d : Task(d, slot + 1).slot = slot + 1 /\ Task(d, slot + 1).do = d
  BY BegunIs DEF Task
<1> HIDE DEF p
<1>5. <<t>> \o <<>> = <<t>> /\ DOMAIN <<t>> = {1} /\ <<t>>[1] = t
  OBVIOUS
<1>6. CASE p = <<>>
  <2>1. \A d : ~Falls(n, d, slot + 1, parent)
    BY <1>2, <1>6
  <2>2. CASE todo'[n] = <<>>
    BY <2>1, <2>2
  <2>3. CASE /\ n \in Late /\ todo[n] # <<>> /\ t.slot = slot /\ todo[n] = <<t>>
             /\ todo'[n] = <<t>>
    <3>1. DOMAIN todo'[n] = {1} /\ todo'[n][1] = t
      BY <1>5, <2>3
    <3> QED
      BY <1>0, <2>1, <2>3, <3>1
  <2> QED
    BY <1>3, <1>5, <1>6, <2>2, <2>3
<1>7. ASSUME NEW d, p = <<Task(d, slot + 1)>>, Falls(n, d, slot + 1, parent)
      PROVE  /\ \A j \in DOMAIN todo'[n] :
                  \/ /\ j = 1 /\ n \in Late /\ todo[n] # <<>> /\ todo[n] = <<t>>
                     /\ todo'[n][j] = t /\ t.slot = slot
                  \/ Added(n, todo'[n][j])
             /\ \A i, j \in DOMAIN todo'[n] : todo'[n][i].slot = todo'[n][j].slot => i = j
             /\ \A e, D : Falls(n, e, slot + 1, parent) /\ e \in D => Due(todo'[n], slot + 1, D)
  <2>1. PICK u : u = Task(d, slot + 1)
    OBVIOUS
  <2>2. u.slot = slot + 1 /\ u.do = d /\ Added(n, u)
    BY <1>4, <1>7, <2>1 DEF Added
  <2>3. \A e : Falls(n, e, slot + 1, parent) => e = d
    <3> SUFFICES ASSUME NEW e, Falls(n, e, slot + 1, parent) PROVE e = d
      OBVIOUS
    <3>1. <<Task(e, slot + 1)>> = <<Task(d, slot + 1)>>
      BY <1>2, <1>7
    <3>2. Task(e, slot + 1) = Task(d, slot + 1)
      <4>1. <<Task(e, slot + 1)>>[1] = <<Task(d, slot + 1)>>[1]
        BY <3>1
      <4> QED
        BY <4>1
    <3> QED
      BY <1>4, <3>2
  <2>4. CASE todo'[n] = p
    <3>1. DOMAIN todo'[n] = {1} /\ todo'[n][1] = u
      <4>1. DOMAIN <<u>> = {1} /\ <<u>>[1] = u
        OBVIOUS
      <4> QED
        BY <1>7, <2>1, <2>4, <4>1
    <3> QED
      BY <2>2, <2>3, <3>1 DEF Due
  <2>5. CASE /\ n \in Late /\ todo[n] # <<>> /\ t.slot = slot /\ todo[n] = <<t>>
             /\ todo'[n] = <<t>> \o p
    <3>1. todo'[n] = <<t, u>>
      BY <1>7, <2>1, <2>5, TwoTasks
    <3>2. DOMAIN todo'[n] = {1, 2} /\ todo'[n][1] = t /\ todo'[n][2] = u
      <4>1. DOMAIN <<t, u>> = {1, 2} /\ <<t, u>>[1] = t /\ <<t, u>>[2] = u
        OBVIOUS
      <4> QED
        BY <3>1, <4>1
    <3>3. t.slot # u.slot
      BY <1>4, <2>2, <2>5
    <3>4. \A i \in DOMAIN todo'[n] : (i = 1 /\ todo'[n][i] = t) \/ (i = 2 /\ todo'[n][i] = u)
      BY <3>2
    <3>5. ASSUME NEW i \in DOMAIN todo'[n], NEW j \in DOMAIN todo'[n],
                 todo'[n][i].slot = todo'[n][j].slot
          PROVE  i = j
      BY <3>3, <3>4, <3>5
    <3>6. ASSUME NEW e, NEW D, Falls(n, e, slot + 1, parent), e \in D
          PROVE  Due(todo'[n], slot + 1, D)
      <4>1. 2 \in DOMAIN todo'[n] /\ todo'[n][2].slot = slot + 1 /\ todo'[n][2].do \in D
        BY <2>2, <2>3, <3>2, <3>6
      <4> QED
        BY <4>1 DEF Due
    <3>7. \A j \in DOMAIN todo'[n] :
            \/ /\ j = 1 /\ n \in Late /\ todo[n] # <<>> /\ todo[n] = <<t>>
               /\ todo'[n][j] = t /\ t.slot = slot
            \/ Added(n, todo'[n][j])
      BY <2>2, <2>5, <3>4
    <3> QED
      BY <3>5, <3>6, <3>7
  <2> QED
    BY <1>3, <2>4, <2>5
<1> QED
  BY <1>0, <1>1, <1>6, <1>7

\* A boundary within a superframe.
NextInside ==
    /\ NextSlot /\ slot' = slot + 1 /\ frame' = frame
    /\ todo' = [k \in Node |-> Carried(k) \o Plan(k, slot + 1, parent)]

LEMMA InsideStays ==
    ASSUME TypeOK, NextInside
    PROVE  /\ begun' = begun /\ now' = now + 1 /\ slot \in Nat /\ slot # 0 /\ slot' # 0
           /\ parent' = parent /\ code' = code /\ acks' = acks /\ held' = held /\ mine' = mine
           /\ \A m \in Node : my_slot(m)' = my_slot(m) /\ start(m)' = start(m)
                              /\ ack_slot(m)' = ack_slot(m)
                              /\ ack_slot(Parent[m])' = ack_slot(Parent[m])
<1>1. slot \in Nat /\ begun \in Nat /\ now = begun + slot
  BY BegunIs
<1>2. /\ slot' = slot + 1 /\ frame' = frame /\ slot # 0
      /\ parent' = parent /\ code' = code /\ acks' = acks /\ held' = held /\ mine' = mine
  BY DEF NextInside, NextSlot
<1>3. begun' = begun /\ now' = begun + (slot + 1)
  BY <1>2 DEF begun, now
<1>4. \A m \in Node : my_slot(m)' = my_slot(m) /\ start(m)' = start(m)
                      /\ ack_slot(m)' = ack_slot(m)
                      /\ ack_slot(Parent[m])' = ack_slot(Parent[m])
  BY DEF my_slot, start, ack_slot
<1> QED
  BY <1>1, <1>2, <1>3, <1>4

\* What a duty of the next slot says of its slot.
LEMMA AddedIs ==
    ASSUME NEW n \in Node, NEW t, Added(n, t)
    PROVE  /\ t.slot = slot + 1 /\ t.do \notin HereDuties
           /\ t.do \in HearDuties => t.slot - start(n) \in 1 .. vtdma_window_size - 2
           /\ t.do = "clusterhead_send" => t.slot = ack_slot(n)
           /\ t.do = "follower_send" => parent[n] # UNKNOWN_ADDR /\ t.slot = my_slot(n)
           /\ t.do \in HeedDuties => t.slot = ack_slot(Parent[n])
<1>1. PICK d : t = Task(d, slot + 1) /\ Falls(n, d, slot + 1, parent)
  BY DEF Added
<1>2. PICK s : s = slot + 1
  OBVIOUS
<1>3. t.slot = s /\ t.do = d
  BY <1>1, <1>2 DEF Task
<1>4. \/ d = "clusterhead_recv" /\ s - start(n) \in 1 .. vtdma_window_size - 2
      \/ d = "clusterhead_send" /\ s = ack_slot(n)
      \/ d = "follower_send" /\ parent[n] # UNKNOWN_ADDR /\ s = my_slot(n)
      \/ d = "follower_recv" /\ s = ack_slot(Parent[n])
  <2>1. Falls(n, d, s, parent)
    BY <1>1, <1>2
  <2> QED
    BY <2>1 DEF Falls
<1> QED
  BY <1>2, <1>3, <1>4 DEF HereDuties, HearDuties, HeedDuties

\* A turn that is yet to come has not been had.
LEMMA TurnAhead ==
    ASSUME TypeOK, FlowInv, SendInv, TurnInv, NEW n \in Node,
           my_slot(n) \in Nat, slot < my_slot(n)
    PROVE  mine[n] <= begun
<1>1. mine[n] \in Nat /\ begun \in Nat /\ now = begun + slot /\ slot \in Nat /\ mine[n] <= now
  BY MineIsNat, BegunIs DEF SendInv
<1> QED
  BY <1>1 DEF TurnInv, Turn

LEMMA NextPlanned ==
    ASSUME Leased, Served, TypeOK, FlowInv, SendInv, TurnInv, NextInside,
           NEW n \in Node, Planned(n)
    PROVE  Planned(n)'
<1>1. /\ begun' = begun /\ slot \in Nat /\ slot # 0 /\ slot' # 0
      /\ parent' = parent /\ mine' = mine
      /\ start(n)' = start(n) /\ ack_slot(n)' = ack_slot(n)
      /\ ack_slot(Parent[n])' = ack_slot(Parent[n])
  BY InsideStays
<1>2. /\ \A j \in DOMAIN todo'[n] :
           \/ /\ j = 1 /\ todo[n] # <<>> /\ todo'[n][j] = todo[n][1]
              /\ todo[n][1].slot = slot
           \/ Added(n, todo'[n][j])
      /\ \A i, j \in DOMAIN todo'[n] : todo'[n][i].slot = todo'[n][j].slot => i = j
  BY NextTasks DEF NextInside
<1>3. ASSUME NEW j \in DOMAIN todo'[n]
      PROVE  /\ todo'[n][j].do \in HereDuties => j = 1
             /\ todo'[n][j].do \in HearDuties
                  => todo'[n][j].slot - start(n) \in 1 .. vtdma_window_size - 2
             /\ todo'[n][j].do = "clusterhead_send" => todo'[n][j].slot = ack_slot(n)
             /\ todo'[n][j].do = "follower_send" => parent[n] = Parent[n]
             /\ todo'[n][j].do \in HeedDuties => todo'[n][j].slot = ack_slot(Parent[n])
  <2>1. CASE j = 1 /\ todo[n] # <<>> /\ todo'[n][j] = todo[n][1]
    <3>1. 1 \in DOMAIN todo[n]
      BY <2>1, TodoParts
    <3> QED
      BY <2>1, <3>1 DEF Planned
  <2>2. CASE Added(n, todo'[n][j])
    <3>1. todo'[n][j].do = "follower_send" => parent[n] = Parent[n]
      <4> SUFFICES ASSUME todo'[n][j].do = "follower_send" PROVE parent[n] = Parent[n]
        OBVIOUS
      <4>1. parent[n] # UNKNOWN_ADDR /\ my_slot(n) = slot + 1
        BY <2>2, AddedIs
      <4>2. mine[n] <= begun
        BY <1>1, <4>1, TurnAhead
      <4> QED
        BY <1>1, <4>1, <4>2 DEF Planned
    <3>2. PICK t : t = todo'[n][j]
      OBVIOUS
    <3>3. /\ t.do \notin HereDuties
          /\ t.do \in HearDuties => t.slot - start(n) \in 1 .. vtdma_window_size - 2
          /\ t.do = "clusterhead_send" => t.slot = ack_slot(n)
          /\ t.do \in HeedDuties => t.slot = ack_slot(Parent[n])
      BY <2>2, <3>2, AddedIs
    <3> QED
      BY <3>1, <3>2, <3>3
  <2> QED
    BY <1>2, <2>1, <2>2
<1>4. slot' # 0 /\ mine'[n] <= begun' => parent'[n] \in {UNKNOWN_ADDR, Parent[n]}
  BY <1>1 DEF Planned
<1> QED
  BY <1>1, <1>2, <1>3, <1>4 DEF Planned

\* At a boundary nobody holds a frame.
LEMMA NextSilent ==
    ASSUME NextSlot, NEW n \in Node, OnTime(n)
    PROVE  held[n] = <<>> /\ held'[n] = <<>>
  BY DEF NextSlot, OnTime

LEMMA NextOnTime ==
    ASSUME Leased, Served, TypeOK, FlowInv, NextInside, TypeOK', ~faulty',
           NEW n \in Node, OnTime(n)
    PROVE  OnTime(n)'
<1>1. code' = code /\ start(n)' = start(n) /\ slot' = slot + 1
  BY InsideStays DEF NextInside
<1>2. \A j \in DOMAIN todo'[n] :
           \/ /\ j = 1 /\ n \in Late /\ todo[n] # <<>> /\ todo'[n][j] = todo[n][1]
           \/ Added(n, todo'[n][j])
  BY NextTasks DEF NextInside
<1>3. held'[n] = <<>>
  BY NextSilent DEF NextInside
<1>4. n \in Late /\ todo[n] # <<>> => todo[n][1].do \in HereDuties
  <2>1. n \in Late /\ todo[n] # <<>> => Listening(n)
    <3>1. slot' = slot + 1 /\ slot \in Nat /\ slot # 0
      BY InsideStays DEF NextInside
    <3>2. faulty' = (faulty \/ \E m \in Late : todo[m] # <<>> /\ ~Listening(m))
      BY <3>1 DEF NextInside, NextSlot
    <3> QED
      BY <3>2
  <2> QED
    BY <2>1, DoingIs DEF Listening, HereDuties
<1>5. \A j \in DOMAIN todo'[n] :
        todo'[n][j].slot = slot' \/ (j = 1 /\ todo'[n][j].do \in HereDuties)
  BY <1>1, <1>2, <1>4, AddedIs
<1>6. ASSUME NEW d \in HereDuties, Doing(n, d)'
      PROVE  todo'[n][1] = todo[n][1] /\ Doing(n, d)
  <2>1. 1 \in DOMAIN todo'[n] /\ todo'[n][1].do = d
    <3>1. todo'[n] # <<>> => 1 \in DOMAIN todo'[n] /\ Head(todo'[n]) = todo'[n][1]
      <4>1. todo'[n] \in Seq([do : Duties, slot : {slot', slot' - 1}])
        BY DEF TypeOK
      <4> QED
        BY <4>1
    <3> QED
      BY <1>6, <3>1 DEF Doing
  <2>2. ~Added(n, todo'[n][1])
    BY <1>6, <2>1, AddedIs
  <2>3. todo[n] # <<>> /\ todo'[n][1] = todo[n][1]
    BY <1>2, <2>1, <2>2
  <2> QED
    BY <2>1, <2>3, DoingIs
<1>7. /\ Doing(n, "clusterhead_hear")' => code'[n] = todo'[n][1].slot - start(n)
      /\ Doing(n, "follower_hear")' => code'[n] = 0
  <2>1. "clusterhead_hear" \in HereDuties /\ "follower_hear" \in HereDuties
    BY DEF HereDuties
  <2> QED
    BY <1>1, <1>6, <2>1 DEF OnTime
<1> QED
  BY <1>1, <1>3, <1>5, <1>7 DEF OnTime

LEMMA NextReady ==
    ASSUME Leased, Served, TypeOK, FlowInv, NextInside, NEW f \in Node, Parent[f] # UNKNOWN_ADDR
    PROVE  Ready(f)'
<1>1. PICK c : c = Parent[f]
  OBVIOUS
<1>2. my_slot(f)' = my_slot(f) /\ slot' = slot + 1
  BY InsideStays DEF NextInside
<1> SUFFICES ASSUME slot + 1 = my_slot(f) PROVE Due(todo'[c], slot + 1, HearDuties)
  BY <1>1, <1>2 DEF Ready, Due
<1>3. Falls(c, "clusterhead_recv", slot + 1, parent) /\ c \in Node
  <2>1. /\ c \in Clusterhead /\ c \in Node /\ start(c) \in Int
        /\ my_slot(f) = start(c) + Rel[f] /\ Rel[f] \in 1 .. vtdma_window_size - 2
        /\ Rel[f] \in Int /\ my_slot(f) \in Int
    BY <1>1, ServedSlots
  <2>2. PICK s : s = slot + 1
    OBVIOUS
  <2>3. s - start(c) = Rel[f]
    BY <2>1, <2>2
  <2>4. Falls(c, "clusterhead_recv", s, parent)
    BY <2>1, <2>3 DEF Falls
  <2> QED
    BY <2>1, <2>2, <2>4
<1>4. "clusterhead_recv" \in HearDuties
  BY DEF HearDuties
<1> QED
  BY <1>3, <1>4, NextTasks DEF NextInside

LEMMA NextSent ==
    ASSUME Leased, Served, TypeOK, FlowInv, SendInv, TurnInv, NextInside, PlanInv, ~faulty',
           \A m \in Node : OnTime(m), NEW f \in Node, Parent[f] # UNKNOWN_ADDR, Sent(f)
    PROVE  Sent(f)'
<1>1. PICK c : c = Parent[f]
  OBVIOUS
<1>2. /\ c \in Clusterhead /\ c \in Node /\ c # UNKNOWN_ADDR /\ ack_slot(c) \in Int
      /\ my_slot(f) \in Nat /\ my_slot(f) < ack_slot(c)
  BY <1>1, ServedSlots
<1>3. /\ begun' = begun /\ slot \in Nat /\ slot # 0 /\ slot' = slot + 1
      /\ parent' = parent /\ acks' = acks /\ mine' = mine
      /\ my_slot(f)' = my_slot(f) /\ ack_slot(c)' = ack_slot(c)
  BY <1>2, InsideStays DEF NextInside
<1>4. Planned(f) /\ Planned(c) /\ OnTime(f) /\ OnTime(c) /\ held[f] = <<>> /\ held[c] = <<>>
  BY <1>2, NextSilent DEF PlanInv, NextInside
<1> SUFFICES ASSUME mine[f] > begun PROVE Noted(f, c)' \/ Acked(f, c)'
  BY <1>1, <1>3 DEF Sent
<1>5. my_slot(f) <= slot
  <2>1. ~(slot < my_slot(f))
    <3>1. mine[f] \in Nat /\ begun \in Nat
      BY MineIsNat, BegunIs
    <3> QED
      BY <1>2, <3>1, TurnAhead
  <2> QED
    BY <1>2, <1>3, <2>1
<1>6. InFlight(f, c) \/ Noted(f, c) \/ Answering(f) \/ Acked(f, c)
  BY <1>1 DEF Sent
<1>7. ~InFlight(f, c) /\ ~Answering(f)
  BY <1>4 DEF InFlight, Answering, LastOf
<1>8. ASSUME NEW m \in Node, NEW j \in DOMAIN todo'[m]
      PROVE  \/ /\ j = 1 /\ 1 \in DOMAIN todo[m] /\ todo'[m][j] = todo[m][1]
             \/ Added(m, todo'[m][j]) /\ todo'[m][j].slot = slot + 1
  BY <1>8, NextTasks, AddedIs, TodoParts DEF NextInside
<1>9. CASE Noted(f, c)
  <2>1. /\ parent[f] = c /\ acks[c][Rel[f]] = mine[f] /\ slot <= ack_slot(c)
        /\ ~Due(todo[c], my_slot(f), HearDuties)
        /\ slot = ack_slot(c) => Due(todo[c], slot, {"clusterhead_send"})
    BY <1>9 DEF Noted
  <2>2. slot # ack_slot(c)
    <3> SUFFICES ASSUME slot = ack_slot(c) PROVE FALSE
      OBVIOUS
    <3>1. Due(todo[c], slot, {"clusterhead_send"}) /\ todo[c] # <<>>
      BY <2>1 DEF Due
    <3>2. todo[c][1].slot = slot
      BY <1>2, <3>1, TodoParts DEF NextInside, NextSlot
    <3>3. todo[c][1].do = "clusterhead_send"
      BY <1>2, <1>4, <3>1, <3>2, OneTask
    <3>4. ~Listening(c)
      BY <1>2, <3>3, DoingIs DEF Listening
    <3>5. c \in Late
      BY <1>2, <3>1, <3>4 DEF NextInside, NextSlot
    <3>6. faulty' = (faulty \/ \E m \in Late : todo[m] # <<>> /\ ~Listening(m))
      BY <1>3 DEF NextInside, NextSlot
    <3> QED
      BY <3>1, <3>4, <3>5, <3>6
  <2>3. slot + 1 <= ack_slot(c)
    BY <1>2, <1>3, <2>1, <2>2
  <2>4. ~Due(todo'[c], my_slot(f), HearDuties)
    <3> SUFFICES ASSUME NEW j \in DOMAIN todo'[c], todo'[c][j].slot = my_slot(f),
                        todo'[c][j].do \in HearDuties
                 PROVE  FALSE
      BY DEF Due
    <3>1. todo'[c][j].slot # slot + 1
      BY <1>2, <1>3, <1>5
    <3>2. 1 \in DOMAIN todo[c] /\ todo'[c][j] = todo[c][1]
      BY <1>2, <1>8, <3>1
    <3> QED
      BY <2>1, <3>2 DEF Due
  <2>5. ASSUME slot + 1 = ack_slot(c)
        PROVE  /\ Due(todo'[c], slot + 1, {"clusterhead_send"})
               /\ Due(todo'[f], slot + 1, HeedDuties)
    <3>1. Falls(c, "clusterhead_send", slot + 1, parent)
      BY <1>2, <2>5 DEF Falls
    <3>2. Falls(f, "follower_recv", slot + 1, parent)
      BY <1>1, <1>2, <2>1, <2>5 DEF Falls
    <3>3. "follower_recv" \in HeedDuties
      BY DEF HeedDuties
    <3> QED
      BY <1>2, <3>1, <3>2, <3>3, NextTasks DEF NextInside
  <2>6. slot' = ack_slot(c)' =>
          Due(todo[c], slot, {"clusterhead_send"})' /\ Due(todo[f], slot, HeedDuties)'
    BY <1>3, <2>5 DEF Due
  <2>7. ~Due(todo[c], my_slot(f), HearDuties)'
    BY <1>3, <2>4 DEF Due
  <2>8. Noted(f, c)'
    BY <1>3, <2>1, <2>3, <2>6, <2>7 DEF Noted
  <2> QED
    BY <2>8
<1>10. CASE Acked(f, c)
  <2>1. acks[f][0] = mine[f] /\ ack_slot(c) <= slot /\ ~Due(todo[f], ack_slot(c), HeedDuties)
    BY <1>10 DEF Acked
  <2>2. ~Due(todo'[f], ack_slot(c), HeedDuties)
    <3> SUFFICES ASSUME NEW j \in DOMAIN todo'[f], todo'[f][j].slot = ack_slot(c),
                        todo'[f][j].do \in HeedDuties
                 PROVE  FALSE
      BY DEF Due
    <3>1. todo'[f][j].slot # slot + 1
      BY <1>2, <1>3, <2>1
    <3>2. 1 \in DOMAIN todo[f] /\ todo'[f][j] = todo[f][1]
      BY <1>8, <3>1
    <3> QED
      BY <2>1, <3>2 DEF Due
  <2>3. ~Due(todo[f], ack_slot(c), HeedDuties)'
    BY <1>3, <2>2 DEF Due
  <2>4. ack_slot(c) <= slot + 1
    BY <1>2, <1>3, <2>1
  <2>5. Acked(f, c)'
    BY <1>3, <2>1, <2>3, <2>4 DEF Acked
  <2> QED
    BY <2>5
<1> QED
  BY <1>6, <1>7, <1>9, <1>10

LEMMA NextSlotTime ==
    ASSUME Leased, Served, TypeOK, TypeOK', FlowInv, SendInv, TurnInv, TimeInv, NextSlot
    PROVE  TimeInv'
<1>1. CASE NextInside
  <2>1. PlanInv'
    BY <1>1, NextPlanned DEF TimeInv, PlanInv
  <2> SUFFICES ASSUME ~faulty'
               PROVE  /\ \A m \in Node : OnTime(m)'
                      /\ \A f \in Node : Parent[f] # UNKNOWN_ADDR => Ready(f)' /\ Sent(f)'
    BY <2>1 DEF TimeInv
  <2>2. ~faulty
    BY DEF NextSlot
  <2>3. /\ PlanInv /\ \A m \in Node : OnTime(m)
        /\ \A f \in Node : Parent[f] # UNKNOWN_ADDR => Ready(f) /\ Sent(f)
    BY <2>2 DEF TimeInv
  <2>4. \A m \in Node : OnTime(m)'
    BY <1>1, <2>3, NextOnTime
  <2>5. ASSUME NEW f \in Node, Parent[f] # UNKNOWN_ADDR PROVE Ready(f)' /\ Sent(f)'
    <3>1. Ready(f)'
      BY <1>1, <2>5, NextReady
    <3>2. Sent(f)'
      BY <1>1, <2>3, <2>5, NextSent
    <3> QED
      BY <3>1, <3>2
  <2> QED
    BY <2>4, <2>5
<1>2. CASE slot' = 0 /\ todo' = [n \in Node |-> <<>>] /\ frame' = frame + 1
           /\ ~(slot + 1 < SUPERFRAME_SLOT_COUNT) /\ faulty' = faulty
  <2>1. PlanInv'
    BY <1>2 DEF PlanInv, Planned
  <2>2. \A m \in Node : ~(mine'[m] > begun')
    <3> SUFFICES ASSUME NEW m \in Node PROVE ~(mine'[m] > begun')
      OBVIOUS
    <3>1. /\ mine[m] \in Nat /\ begun \in Nat /\ slot \in Nat /\ now = begun + slot
          /\ mine[m] <= now /\ mine' = mine
      BY MineIsNat, BegunIs DEF SendInv, NextSlot
    <3>2. /\ begun' = begun + SUPERFRAME_SLOT_COUNT /\ slot <= SUPERFRAME_SLOT_COUNT - 1
          /\ SUPERFRAME_SLOT_COUNT \in Nat
      <4>1. frame \in Int /\ SUPERFRAME_SLOT_COUNT \in Nat
        BY Windows DEF TypeOK
      <4>2. (frame + 1) * SUPERFRAME_SLOT_COUNT
              = frame * SUPERFRAME_SLOT_COUNT + SUPERFRAME_SLOT_COUNT
        BY <4>1
      <4> QED
        BY <1>2, <4>1, <4>2 DEF begun, TypeOK
    <3> QED
      BY <3>1, <3>2
  <2> SUFFICES ASSUME ~faulty'
               PROVE  /\ \A m \in Node : OnTime(m)'
                      /\ \A f \in Node : Parent[f] # UNKNOWN_ADDR => Ready(f)' /\ Sent(f)'
    BY <2>1 DEF TimeInv
  <2>3. ASSUME NEW m \in Node PROVE OnTime(m)'
    <3>1. OnTime(m)
      BY <1>2 DEF TimeInv
    <3>2. held'[m] = <<>> /\ todo'[m] = <<>>
      BY <1>2, <3>1, NextSilent
    <3> QED
      BY <3>2 DEF OnTime, Doing
  <2>4. ASSUME NEW f \in Node, Parent[f] # UNKNOWN_ADDR PROVE Ready(f)' /\ Sent(f)'
    <3>1. PICK c : c = Parent[f]
      OBVIOUS
    <3>2. my_slot(f) # 0
      BY <2>4, <3>1, ServedSlots
    <3>3. my_slot(f)' = my_slot(f)
      BY DEF my_slot
    <3> QED
      BY <1>2, <2>2, <3>2, <3>3 DEF Ready, Sent
  <2> QED
    BY <2>3, <2>4
<1> QED
  BY <1>1, <1>2 DEF NextSlot, NextInside

LEMMA AdvertiseTime ==
    ASSUME Leased, Served, TypeOK, FlowInv, SendInv, Advertise
    PROVE  TimeInv'
<1>1. /\ slot = 0 /\ slot' = 1 /\ frame' = frame /\ mine' = mine
      /\ \A n \in Node : todo'[n] = Plan(n, 1, parent') /\ held'[n] = <<>>
  BY DEF Advertise, ADV_SLOTS
<1>2. \A n \in Node : parent'[n] \in {UNKNOWN_ADDR, Parent[n]}
  BY DEF Advertise
<1>3. \A n \in Node : ~(mine'[n] > begun')
  <2> SUFFICES ASSUME NEW n \in Node PROVE ~(mine'[n] > begun')
    OBVIOUS
  <2>1. mine[n] \in Nat /\ begun \in Nat /\ now = begun + slot /\ mine[n] <= now
    BY MineIsNat, BegunIs DEF SendInv
  <2>2. begun' = begun
    BY <1>1 DEF begun
  <2> QED
    BY <1>1, <2>1, <2>2
<1>4. ASSUME NEW n \in Node
      PROVE  /\ start(n)' = start(n) /\ ack_slot(n)' = ack_slot(n) /\ my_slot(n)' = my_slot(n)
             /\ ack_slot(Parent[n])' = ack_slot(Parent[n])
  BY DEF start, ack_slot, my_slot
<1>5. ASSUME NEW n \in Node
      PROVE  \/ todo'[n] = <<>>
             \/ \E d : todo'[n] = <<Task(d, 1)>> /\ Falls(n, d, 1, parent')
  <2>1. PICK p : p = parent'
    OBVIOUS
  <2>2. p[n] # UNKNOWN_ADDR => Parent[n] # UNKNOWN_ADDR
    BY <1>2, <2>1
  <2>3. \/ Plan(n, 1, p) = <<>>
        \/ \E d : Plan(n, 1, p) = <<Task(d, 1)>> /\ Falls(n, d, 1, p)
    BY <2>2, PlanServed
  <2> QED
    BY <1>1, <2>1, <2>3
<1>6. ASSUME NEW n \in Node PROVE Planned(n)' /\ OnTime(n)'
  <2>1. CASE todo'[n] = <<>>
    BY <1>1, <1>2, <2>1 DEF Planned, OnTime, Doing
  <2>2. ASSUME NEW d, todo'[n] = <<Task(d, 1)>>, Falls(n, d, 1, parent')
        PROVE  Planned(n)' /\ OnTime(n)'
    <3>1. PICK u : u = Task(d, 1)
      OBVIOUS
    <3>2. /\ DOMAIN todo'[n] = {1} /\ todo'[n][1] = u /\ Head(todo'[n]) = u
          /\ u.do = d /\ u.slot = 1
      BY <2>2, <3>1 DEF Task
    <3>3. /\ d \notin HereDuties
          /\ d \in HearDuties => 1 - start(n) \in 1 .. vtdma_window_size - 2
          /\ d = "clusterhead_send" => 1 = ack_slot(n)
          /\ d = "follower_send" => parent'[n] # UNKNOWN_ADDR
          /\ d \in HeedDuties => 1 = ack_slot(Parent[n])
      <4>1. \/ d = "clusterhead_recv" /\ 1 - start(n) \in 1 .. vtdma_window_size - 2
            \/ d = "clusterhead_send" /\ 1 = ack_slot(n)
            \/ d = "follower_send" /\ parent'[n] # UNKNOWN_ADDR
            \/ d = "follower_recv" /\ 1 = ack_slot(Parent[n])
        BY <2>2 DEF Falls
      <4> QED
        BY <4>1 DEF HereDuties, HearDuties, HeedDuties
    <3>4. Planned(n)'
      BY <1>1, <1>2, <1>4, <3>2, <3>3 DEF Planned
    <3>5. OnTime(n)'
      BY <1>1, <3>2, <3>3 DEF OnTime, Doing, HereDuties
    <3> QED
      BY <3>4, <3>5
  <2> QED
    BY <1>5, <2>1, <2>2
<1>7. ASSUME NEW f \in Node, Parent[f] # UNKNOWN_ADDR PROVE Ready(f)' /\ Sent(f)'
  <2>1. PICK c : c = Parent[f]
    OBVIOUS
  <2>2. my_slot(f) # 1
    BY <1>7, <2>1, ServedSlots
  <2> QED
    BY <1>1, <1>3, <1>4, <2>2 DEF Ready, Sent
<1> QED
  BY <1>6, <1>7 DEF TimeInv, PlanInv

LEMMA InitTime == Leased /\ Served /\ Init => TimeInv
<1> SUFFICES ASSUME Leased, Served, Init PROVE TimeInv
  OBVIOUS
<1>1. /\ slot = 0 /\ begun = 0
      /\ \A n \in Node : todo[n] = <<>> /\ held[n] = <<>> /\ mine[n] = 0
  BY Windows DEF Init, begun
<1>2. \A n \in Node : Planned(n) /\ OnTime(n)
  BY <1>1 DEF Planned, OnTime, Doing
<1>3. ASSUME NEW f \in Node, Parent[f] # UNKNOWN_ADDR PROVE Ready(f) /\ Sent(f)
  <2>1. PICK c : c = Parent[f]
    OBVIOUS
  <2>2. my_slot(f) # 0
    BY <1>3, <2>1, ServedSlots
  <2> QED
    BY <1>1, <2>2 DEF Ready, Sent
<1> QED
  BY <1>2, <1>3 DEF TimeInv, PlanInv

LEMMA StutterTime == TimeInv /\ UNCHANGED vars => TimeInv'
<1> SUFFICES ASSUME TimeInv, UNCHANGED vars PROVE TimeInv'
  OBVIOUS
<1>1. /\ slot' = slot /\ frame' = frame /\ todo' = todo /\ parent' = parent /\ code' = code
      /\ acks' = acks /\ held' = held /\ mine' = mine /\ faulty' = faulty
  BY DEF vars
<1>2. now' = now /\ begun' = begun
  BY <1>1 DEF now, begun
<1>3. ASSUME NEW n \in Node PROVE Planned(n)' <=> Planned(n)
  BY <1>1, <1>2 DEF Planned, start, ack_slot
<1>4. ASSUME NEW n \in Node PROVE OnTime(n)' <=> OnTime(n)
  BY <1>1, <1>2 DEF OnTime, Listening, Doing, Due, start, ack_slot, my_slot
<1>5. ASSUME NEW f \in Node PROVE (Ready(f)' <=> Ready(f)) /\ (Sent(f)' <=> Sent(f))
  <2>1. Ready(f)' <=> Ready(f)
    BY <1>1, <1>2 DEF Ready, Due, my_slot
  <2>2. PICK c : c = Parent[f]
    OBVIOUS
  <2>3. /\ InFlight(f, c)' <=> InFlight(f, c)
        /\ Noted(f, c)' <=> Noted(f, c)
        /\ Acked(f, c)' <=> Acked(f, c)
    BY <1>1 DEF InFlight, Noted, Acked, Doing, Due, my_slot, ack_slot
  <2>4. Answering(f)' <=> Answering(f)
    BY <1>1 DEF Answering, Doing, LastOf
  <2> QED
    BY <1>1, <1>2, <2>1, <2>2, <2>3, <2>4 DEF Sent
<1> QED
  BY <1>1, <1>3, <1>4, <1>5 DEF TimeInv, PlanInv

\* The windows end with the superframe.
LEMMA WindowFits ==
    ASSUME NEW c \in Clusterhead
    PROVE  ack_slot(c) <= SUPERFRAME_SLOT_COUNT - 1
<1> DEFINE w == vtdma_window_size
           n == SUPERFRAME_SLOT_COUNT - 1
           a == REUSE_DISTANCE - 1 - Ring[c]
<1>1. /\ Ring[c] \in Nat /\ Ring[c] < REUSE_DISTANCE /\ REUSE_DISTANCE \in Nat \ {0}
      /\ n \in Nat /\ w \in Nat /\ a \in Nat
      /\ ack_slot(c) = downstream_start_slot(Ring[c]) + w - 1
  BY ClusterheadRing, SlotAssumption, Windows
<1>2. downstream_start_slot(Ring[c]) = 1 + a * w
  <2>1. Ring[c] % REUSE_DISTANCE = Ring[c]
    BY <1>1
  <2> QED
    BY <2>1 DEF downstream_start_slot, ADV_SLOTS
<1>3. w * REUSE_DISTANCE <= n
  <2>1. w = n \div REUSE_DISTANCE
    BY DEF vtdma_window_size, ADV_SLOTS
  <2> HIDE DEF w, n
  <2> QED
    BY <1>1, <2>1, Z3
<1> DEFINE r == Ring[c]
<1>4. REUSE_DISTANCE = a + 1 + r /\ r \in Nat
  BY <1>1
<1> HIDE DEF a, w, n, r
<1>5. w * REUSE_DISTANCE = a * w + w + r * w /\ r * w \in Nat /\ a * w \in Nat
  BY <1>1, <1>4
<1>6. ack_slot(c) <= n
  BY <1>1, <1>2, <1>3, <1>5
<1> QED
  BY <1>6 DEF n

\* The two ends agree on every slot and code: by the end of a superframe in
\* which nothing was lost, late, refused or failed, every node that sent has its
\* ack, if each follower was granted a slot in which its clusterhead listens
\* (do_follower_send, do_clusterhead_recv, do_clusterhead_send, do_follower_recv).
THEOREM ConvergecastAckedInTime ==
    ASSUME OneUpstream, OneDownstream, Leased, Served
    PROVE  Spec => []AckedInTime
<1> DEFINE Inv == FlowInv /\ SendInv /\ TurnInv /\ TimeInv
<1>1. Init => Inv
  BY InitFlow, InitSend, InitTurn, InitTime
<1>2. TypeOK /\ TypeOK' /\ Inv /\ [Next]_vars => Inv'
  <2> SUFFICES ASSUME TypeOK, TypeOK', Inv, [Next]_vars PROVE Inv'
    OBVIOUS
  <2>1. FlowInv' /\ SendInv' /\ TurnInv'
    BY NextFlow, NextSend, NextTurn
  <2>2. TimeInv'
    BY AdvertiseTime, StepTime, NextSlotTime, StutterTime DEF Next
  <2> QED
    BY <2>1, <2>2
<1>3. TypeOK /\ Inv => AckedInTime
  <2> SUFFICES ASSUME TypeOK, Inv, slot = SUPERFRAME_SLOT_COUNT - 1,
                      \A n \in Node : todo[n] = <<>>, ~faulty,
                      NEW f \in Node, mine[f] > begun
               PROVE  acks[f][0] = mine[f]
    BY DEF AckedInTime, begun
  <2>1. Parent[f] # UNKNOWN_ADDR
    <3>1. mine[f] \in Nat /\ begun \in Nat
      BY MineIsNat, BegunIs
    <3> QED
      BY <3>1 DEF TurnInv, Turn
  <2>2. PICK c : c = Parent[f]
    OBVIOUS
  <2>3. c \in Clusterhead /\ c \in Node /\ ack_slot(c) \in Int
    BY <2>1, <2>2, ServedSlots
  <2>4. InFlight(f, c) \/ Noted(f, c) \/ Answering(f) \/ Acked(f, c)
    BY <2>1, <2>2 DEF TimeInv, Sent
  <2>5. ~InFlight(f, c) /\ ~Answering(f)
    BY <2>3 DEF InFlight, Answering, Doing
  <2>6. ~Noted(f, c)
    <3> SUFFICES ASSUME Noted(f, c) PROVE FALSE
      OBVIOUS
    <3>1. slot = ack_slot(c)
      BY <2>3, WindowFits, Windows DEF Noted
    <3> QED
      BY <2>3, <3>1 DEF Noted, Due
  <2> QED
    BY <2>4, <2>5, <2>6 DEF Acked
<1> HIDE DEF Inv
<1> QED
  BY <1>1, <1>2, <1>3, ConvergecastTypeOK, PTL DEF Spec
=============================================================================
