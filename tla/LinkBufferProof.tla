--------------------------- MODULE LinkBufferProof ---------------------------
(***************************************************************************)
(* Proofs about the link layer's buffers, for every buffer size, header    *)
(* size and mix of messages.                                               *)
(***************************************************************************)
EXTENDS LinkBuffer, SequenceTheorems, TLAPS

-----------------------------------------------------------------------------
(* Arithmetic.                                                             *)

\* A quotient of naturals is a natural.
LEMMA QuotientNat ==
    ASSUME NEW a \in Nat, NEW b \in Nat \ {0}
    PROVE  a \div b \in Nat
  OBVIOUS

\* One more part is one more fragment.
LEMMA NextMultiple ==
    ASSUME NEW p \in Int, NEW m \in Int
    PROVE  (p + 1) * m = p * m + m
  OBVIOUS

\* A fragment is never negative nor larger than what is left.
LEMMA FragmentRange ==
    ASSUME iter.size \in Nat, iter.i \in Nat, iter.i <= iter.size
    PROVE  /\ NextFragment \in Nat /\ iter.i + NextFragment <= iter.size
           /\ max_fragment_bytes \in Nat \ {0}
  BY SizeAssumption, BufferAssumption DEF NextFragment, max_fragment_bytes

\* The acks send_acks means to send stay within the table.
LEMMA AcksInTable ==
    ASSUME tx_bytes_available \in Nat, tx_bytes_available > Header + SendAcks,
           NEW start \in 0 .. slot_count
    PROVE  /\ num_acks(start) \in Nat
           /\ start + num_acks(start) \in 0 .. slot_count
  <1> DEFINE fits == (tx_bytes_available - (Header + SendAcks)) \div ack_t
  <1>1. tx_bytes_available - (Header + SendAcks) \in Nat /\ ack_t \in Nat \ {0}
    BY SizeAssumption
  <1>2. fits \in Nat
    BY <1>1, QuotientNat
  <1> HIDE DEF fits
  <1>3. num_acks(start) =
          LET num == IF fits > 255 - start THEN 255 - start ELSE fits
          IN  IF start + num > slot_count
              THEN (IF start < slot_count THEN slot_count - start ELSE 0)
              ELSE num
    BY DEF num_acks, fits
  <1>4. slot_count \in 1 .. 255
    BY SizeAssumption
  <1> QED
    BY <1>2, <1>3, <1>4

-----------------------------------------------------------------------------
(* Messages that are composed.                                             *)

Contents == [type : MessageType, n : Nat, sz : Nat]
Sound(m) == decode_msg(m) \/ (m.type = "SendAcks" /\ m.n = 0)

\* Headers and bodies have a size.
LEMMA ContentTyped ==
    ASSUME NEW type \in MessageType, NEW n \in Nat, NEW data \in Nat
    PROVE  Content(type, n, data) \in Contents
  <1>1. size(type) \in Nat
    <2>1. type \in DOMAIN Fixed => Fixed[type] \in Nat
      BY FixedAssumption
    <2> QED
      BY <2>1, SizeAssumption DEF size, MessageType
  <1> QED
    BY <1>1 DEF Content, Contents

\* A message of fixed size, or a fragment, is what its receiver expects.
LEMMA OthersSound ==
    ASSUME NEW c, c \in Others \/ c = Content("CloseCluster", 0, 0)
                \/ (\E k \in Nat : c = Content("Datagram", k, k))
    PROVE  c \in Contents /\ Sound(c)
  <1>1. ASSUME NEW type \in DOMAIN Fixed, c = Content(type, 0, 0)
        PROVE  c \in Contents /\ Sound(c)
    <2>1. type \in MessageType
      BY DEF MessageType
    <2>2. c \in Contents
      BY <1>1, <2>1, ContentTyped
    <2>3. c.sz = size(type) + 0 /\ c.type = type /\ c.sz \in Nat
      BY <1>1, <2>2 DEF Content, Contents
    <2>4. size(type) \in Nat
      BY SizeAssumption, FixedAssumption DEF size
    <2> QED
      BY <2>2, <2>3, <2>4 DEF Sound, decode_msg
  <1>2. ASSUME NEW k \in Nat, c = Content("Datagram", k, k)
        PROVE  c \in Contents /\ Sound(c)
    BY <1>2, ContentTyped DEF MessageType, Content, Sound, decode_msg
  <1> QED
    BY <1>1, <1>2, SizeAssumption, FixedAssumption DEF Others

-----------------------------------------------------------------------------
(* The first part of the inductive invariant: the ranges, the room in the  *)
(* buffer and the place of the iterator.  They hold only together: the     *)
(* room keeps the number of acks a natural, and the place of the iterator  *)
(* lets the next fragment end at the next part.                            *)

RangeInv == TypeOK /\ NeverOverflows /\ FragmentNumbered

\* There is room for the frame header alone.
LEMMA InitRange == Init => RangeInv
  <1> SUFFICES ASSUME Init PROVE RangeInv
    OBVIOUS
  <1>1. TypeOK
    <2>1. /\ tx \in Seq(Message) /\ tx_msg_count = Len(tx)
          /\ driver \in Seq([msgs : Seq(Message), intact : BOOLEAN])
      BY DEF Init
    <2>2. /\ rx \in [msgs : Seq(Message), intact : BOOLEAN]
          /\ rx_cursor \in BOOLEAN /\ rx_msg_num \in 0 .. Len(rx.msgs)
      <3>1. <<>> \in Seq(Message) /\ Len(<<>>) = 0
        OBVIOUS
      <3>2. rx.msgs = <<>> /\ rx \in [msgs : Seq(Message), intact : BOOLEAN]
        BY <3>1 DEF Init
      <3>3. Len(rx.msgs) = 0
        BY <3>1, <3>2
      <3>4. rx_msg_num \in 0 .. Len(rx.msgs)
        BY <3>3 DEF Init
      <3>5. rx_cursor \in BOOLEAN
        BY DEF Init
      <3> QED
        BY <3>2, <3>4, <3>5
    <2>3. iter \in [size : Nat, i : Nat, part : Nat] /\ iter.i <= iter.size
      BY DEF Init
    <2> QED
      BY <2>1, <2>2, <2>3, SizeAssumption DEF Init, TypeOK
  <1>2. NeverOverflows
    BY BufferAssumption DEF Init, NeverOverflows, Used
  <1>3. FragmentNumbered
    <2>1. max_fragment_bytes \in Int
      BY SizeAssumption, BufferAssumption DEF max_fragment_bytes
    <2>2. 0 * max_fragment_bytes = 0
      BY <2>1
    <2> QED
      BY <2>2 DEF Init, FragmentNumbered
  <1> QED
    BY <1>1, <1>2, <1>3 DEF RangeInv

\* The part of the type invariant that the queue is about.
QueueOK ==
    /\ tx \in Seq(Message) /\ tx_msg_count = Len(tx)
    /\ tx_bytes_queued \in Nat /\ sent \in Nat

\* A message that sendmsg accepts fits, with its length prefix.
LEMMA WriteFits ==
    ASSUME QueueOK, NeverOverflows, NEW c \in Contents, Accepted(c.sz), Write(c)
    PROVE  QueueOK' /\ NeverOverflows' /\ sent' = sent + 1
  <1>1. /\ [id |-> sent + 1, sz |-> c.sz, type |-> c.type, n |-> c.n] \in Message
        /\ c.sz \in Nat
    BY DEF QueueOK, Message, Contents
  <1>2. tx_msg_count \in Nat /\ Used \in Nat /\ tx_sz \in Nat
    BY BufferAssumption DEF QueueOK, Used
  <1>3. Used + c.sz + 1 <= tx_sz
    BY <1>1, <1>2 DEF Accepted, tx_bytes_available, NeverOverflows
  <1>4. QueueOK'
    BY <1>1, <1>2 DEF QueueOK, Write
  <1>5. NeverOverflows'
    BY <1>1, <1>2, <1>3, BufferAssumption DEF NeverOverflows, Used, Write, QueueOK
  <1> QED
    BY <1>4, <1>5 DEF Write

\* Whatever sendmsg is asked, the queue stays within its buffer.
LEMMA SendmsgFits ==
    ASSUME QueueOK, NeverOverflows, NEW c \in Contents, sendmsg(c)
    PROVE  QueueOK' /\ NeverOverflows' /\ sent' \in {sent, sent + 1}
  <1>1. CASE Accepted(c.sz)
    BY <1>1, WriteFits DEF sendmsg
  <1>2. CASE ~Accepted(c.sz)
    BY <1>2 DEF sendmsg, queue, QueueOK, NeverOverflows, Used
  <1> QED
    BY <1>1, <1>2

\* What remains of the invariant when neither the iterator nor the receiver
\* moves.
LEMMA SenderStep ==
    ASSUME RangeInv, QueueOK', NeverOverflows', UNCHANGED <<iter, driver, receiver>>,
           sent' \in Nat, sent' >= sent,
           emit' \in {"none", "acks", "close", "flush"},
           slots_assigned' \in 1 .. slot_count, ack_start' \in 0 .. slot_count
    PROVE  RangeInv'
  <1>1. TypeOK'
    BY DEF RangeInv, TypeOK, QueueOK, receiver
  <1>2. FragmentNumbered'
    BY DEF RangeInv, FragmentNumbered, max_fragment_bytes
  <1> QED
    BY <1>1, <1>2 DEF RangeInv

\* The acks that are accepted stay within the table, and their message is sound.
LEMMA AcksSound ==
    ASSUME RangeInv, AcksAccepted(ack_start)
    PROVE  /\ ack_start + num_acks(ack_start) \in 0 .. slot_count
           /\ Acks(ack_start) \in Contents /\ Sound(Acks(ack_start))
  <1>1. tx_bytes_available \in Nat /\ tx_bytes_available > Header + SendAcks
    BY BufferAssumption
    DEF AcksAccepted, tx_bytes_available, Used, RangeInv, TypeOK
  <1>2. ack_start \in 0 .. slot_count
    BY DEF RangeInv, TypeOK
  <1>3. /\ num_acks(ack_start) \in Nat
        /\ ack_start + num_acks(ack_start) \in 0 .. slot_count
    BY <1>1, <1>2, AcksInTable
  <1> DEFINE k == num_acks(ack_start)
  <1>4. ack_t * k \in Nat
    BY <1>3, SizeAssumption
  <1>5. Acks(ack_start) = Content("SendAcks", k, ack_t * k)
    BY DEF Acks, AckRange
  <1> HIDE DEF k
  <1>6. Acks(ack_start) \in Contents
    BY <1>3, <1>4, <1>5, ContentTyped DEF MessageType, k
  <1>7. Sound(Acks(ack_start))
    BY <1>3, <1>5 DEF Sound, decode_msg, Content, k
  <1> QED
    BY <1>3, <1>6, <1>7

\* emit_ch_messages sends acks: within the table, and within the buffer.
LEMMA EmitAcksStep == RangeInv /\ EmitAcks => RangeInv'
  <1> SUFFICES ASSUME RangeInv, EmitAcks PROVE RangeInv'
    OBVIOUS
  <1>0. QueueOK /\ NeverOverflows
    BY DEF RangeInv, TypeOK, QueueOK
  <1>1. CASE AcksAccepted(ack_start) /\ Write(Acks(ack_start))
             /\ ack_start' = ack_start + num_acks(ack_start)
             /\ UNCHANGED emit
    <2>1. /\ ack_start + num_acks(ack_start) \in 0 .. slot_count
          /\ Acks(ack_start) \in Contents
      BY <1>1, AcksSound
    <2>2. QueueOK' /\ NeverOverflows' /\ sent' = sent + 1
      BY <1>0, <1>1, <2>1, WriteFits DEF AcksAccepted
    <2>3. sent' \in Nat /\ sent' >= sent
      BY <1>0, <2>2 DEF QueueOK
    <2>4. /\ UNCHANGED <<slots_assigned, iter, driver, receiver>>
          /\ slots_assigned \in 1 .. slot_count
          /\ emit \in {"none", "acks", "close", "flush"}
      BY DEF EmitAcks, RangeInv, TypeOK
    <2> QED
      BY <1>1, <2>1, <2>2, <2>3, <2>4, SenderStep
  <1>2. CASE emit' = "close" /\ UNCHANGED <<queue, ack_start>>
    <2>1. QueueOK' /\ NeverOverflows' /\ sent' \in Nat /\ sent' >= sent
      BY <1>0, <1>2 DEF queue, QueueOK, NeverOverflows, Used
    <2>2. /\ UNCHANGED <<slots_assigned, iter, driver, receiver>>
          /\ slots_assigned \in 1 .. slot_count /\ ack_start \in 0 .. slot_count
      BY DEF EmitAcks, RangeInv, TypeOK
    <2> QED
      BY <1>2, <2>1, <2>2, SenderStep
  <1> QED
    BY <1>1, <1>2 DEF EmitAcks

\* The other steps that queue messages and leave the iterator alone.
LEMMA QueueStep ==
    ASSUME RangeInv,
           (\E c \in Others : Queue(c)) \/ EmitBegin \/ EmitClose
    PROVE  RangeInv'
  <1>0. /\ QueueOK /\ NeverOverflows
        /\ emit \in {"none", "acks", "close", "flush"}
        /\ slots_assigned \in 1 .. slot_count /\ ack_start \in 0 .. slot_count
    BY DEF RangeInv, TypeOK, QueueOK
  <1>1. ASSUME NEW c \in Others, Queue(c) PROVE RangeInv'
    <2>0. c \in Contents
      BY OthersSound
    <2>1. QueueOK' /\ NeverOverflows' /\ sent' \in {sent, sent + 1}
      BY <1>0, <1>1, <2>0, SendmsgFits DEF Queue
    <2>2. sent' \in Nat /\ sent' >= sent
      BY <1>0, <2>1 DEF QueueOK
    <2>3. UNCHANGED <<emit, slots_assigned, ack_start, iter, driver, receiver>>
      BY <1>1 DEF Queue, emission
    <2> QED
      BY <1>0, <2>1, <2>2, <2>3, SenderStep
  <1>2. CASE EmitBegin
    <2>1. QueueOK' /\ NeverOverflows' /\ sent' \in Nat /\ sent' >= sent
      BY <1>0, <1>2 DEF EmitBegin, queue, QueueOK, NeverOverflows, Used
    <2>2. /\ UNCHANGED <<iter, driver, receiver>> /\ emit' = "acks"
          /\ slots_assigned' \in 1 .. slot_count /\ ack_start' \in 0 .. slot_count
      BY <1>2, SizeAssumption DEF EmitBegin
    <2> QED
      BY <2>1, <2>2, SenderStep
  <1>3. CASE EmitClose
    <2>0. Content("CloseCluster", 0, 0) \in Contents
      BY OthersSound
    <2>1. QueueOK' /\ NeverOverflows' /\ sent' \in {sent, sent + 1}
      BY <1>0, <1>3, <2>0, SendmsgFits DEF EmitClose
    <2>2. sent' \in Nat /\ sent' >= sent
      BY <1>0, <2>1 DEF QueueOK
    <2>3. /\ UNCHANGED <<slots_assigned, ack_start, iter, driver, receiver>>
          /\ emit' = "flush"
      BY <1>3 DEF EmitClose
    <2> QED
      BY <1>0, <2>1, <2>2, <2>3, SenderStep
  <1> QED
    BY <1>1, <1>2, <1>3

\* The iterator moves: the fragment it steps over ends where the next part
\* begins, or at the end of the datagram; a rewind undoes the step.
LEMMA IteratorStep ==
    ASSUME RangeInv, SendDatagram \/ (\E sz \in DatagramSizes : NewDatagram(sz))
    PROVE  /\ iter' \in [size : Nat, i : Nat, part : Nat]
           /\ iter'.i <= iter'.size /\ FragmentNumbered'
  <1> DEFINE m == max_fragment_bytes
  <1>0. /\ iter \in [size : Nat, i : Nat, part : Nat] /\ iter.i <= iter.size
        /\ FragmentNumbered
    BY DEF RangeInv, TypeOK
  <1>1. NextFragment \in Nat /\ iter.i + NextFragment <= iter.size /\ m \in Nat \ {0}
    BY <1>0, FragmentRange
  <1>2. m' = m
    BY DEF max_fragment_bytes
  <1>3. /\ iter.part * m \in Nat /\ (iter.part + 1) * m = iter.part * m + m
        /\ 0 * m = 0
    BY <1>0, <1>1, NextMultiple
  <1>4. NextFragment = IF iter.size - iter.i > m THEN m ELSE iter.size - iter.i
    BY DEF NextFragment
  <1> HIDE DEF m
  <1>5. ASSUME NEW sz \in DatagramSizes, NewDatagram(sz)
        PROVE  /\ iter' \in [size : Nat, i : Nat, part : Nat]
               /\ iter'.i <= iter'.size /\ FragmentNumbered'
    <2>1. sz \in Nat /\ iter' = [size |-> sz, i |-> 0, part |-> 0]
      BY <1>5, SizeAssumption DEF NewDatagram
    <2> QED
      BY <2>1, <1>1, <1>2, <1>3 DEF FragmentNumbered, m
  <1>6. /\ Advanced.size = iter.size /\ Advanced.i = iter.i + NextFragment
        /\ Advanced.part = iter.part + 1
        /\ Advanced \in [size : Nat, i : Nat, part : Nat]
    BY <1>0, <1>1 DEF Advanced
  <1>7. CASE iter.i # iter.size /\ iter' = Rewound
    <2>1. /\ iter'.size = iter.size /\ iter'.i = iter.i /\ iter'.part = iter.part
          /\ iter' \in [size : Nat, i : Nat, part : Nat]
      BY <1>0, <1>1, <1>6, <1>7 DEF Rewound
    <2> QED
      BY <1>0, <1>2, <2>1 DEF FragmentNumbered, m
  <1>8. CASE iter.i # iter.size /\ iter' = Advanced
    <2>1. /\ iter'.size = iter.size /\ iter'.i = iter.i + NextFragment
          /\ iter'.part = iter.part + 1
          /\ iter' \in [size : Nat, i : Nat, part : Nat]
      BY <1>8, <1>6
    <2>2. iter.i = iter.part * m /\ iter.i < iter.size
      BY <1>0, <1>3, <1>8 DEF FragmentNumbered, m
    <2>3. iter'.i = IF iter'.part * m < iter'.size THEN iter'.part * m ELSE iter'.size
      BY <1>0, <1>1, <1>3, <1>4, <2>1, <2>2
    <2> QED
      BY <1>0, <1>1, <1>2, <2>1, <2>3 DEF FragmentNumbered, m
  <1> QED
    BY <1>5, <1>7, <1>8 DEF SendDatagram

\* A fragment is queued or refused: the iterator and the buffer both stay sound.
LEMMA DatagramStep ==
    ASSUME RangeInv, SendDatagram \/ (\E sz \in DatagramSizes : NewDatagram(sz))
    PROVE  RangeInv'
  <1>0. QueueOK /\ NeverOverflows /\ TypeOK
    BY DEF RangeInv, TypeOK, QueueOK
  <1>1. /\ iter' \in [size : Nat, i : Nat, part : Nat]
        /\ iter'.i <= iter'.size /\ FragmentNumbered'
    BY IteratorStep
  <1>2. QueueOK' /\ NeverOverflows' /\ sent' \in {sent, sent + 1}
    <2>1. CASE UNCHANGED queue
      BY <1>0, <2>1 DEF queue, QueueOK, NeverOverflows, Used
    <2>2. CASE sendmsg(Content("Datagram", NextFragment, NextFragment))
      <3>1. Content("Datagram", NextFragment, NextFragment) \in Contents
        BY <1>0, FragmentRange, OthersSound DEF TypeOK
      <3> QED
        BY <1>0, <2>2, <3>1, SendmsgFits
    <2> QED
      BY <2>1, <2>2 DEF SendDatagram, NewDatagram
  <1>3. sent' \in Nat /\ sent' >= sent
    BY <1>0, <1>2 DEF QueueOK
  <1>4. UNCHANGED <<emission, driver, receiver>>
    BY DEF SendDatagram, NewDatagram
  <1>5. TypeOK'
    BY <1>0, <1>1, <1>2, <1>3, <1>4 DEF TypeOK, QueueOK, emission, receiver
  <1> QED
    BY <1>1, <1>2, <1>5 DEF RangeInv

\* A frame empties the buffer or leaves it, and reaches the driver whole.
LEMMA FlushStep == RangeInv /\ Flush => RangeInv'
  <1> SUFFICES ASSUME RangeInv, Flush PROVE RangeInv'
    OBVIOUS
  <1>0. TypeOK /\ NeverOverflows /\ FragmentNumbered
    BY DEF RangeInv
  <1>1. /\ emit' = "none" /\ ack_start' = 0
        /\ UNCHANGED <<slots_assigned, iter, receiver>>
    BY DEF Flush
  <1>2. FragmentNumbered'
    BY <1>0, <1>1 DEF FragmentNumbered, max_fragment_bytes
  <1>3. QueueOK' /\ NeverOverflows' /\ sent' = sent
    <2>1. CASE truncate_tx
      <3>1. <<>> \in Seq(Message) /\ Len(<<>>) = 0
        OBVIOUS
      <3> QED
        BY <1>0, <2>1, <3>1, BufferAssumption
        DEF truncate_tx, QueueOK, NeverOverflows, Used, TypeOK
    <2>2. CASE UNCHANGED queue
      BY <1>0, <2>2 DEF queue, QueueOK, NeverOverflows, Used, TypeOK
    <2> QED
      BY <2>1, <2>2 DEF Flush, Sent
  <1>4. driver' \in Seq([msgs : Seq(Message), intact : BOOLEAN])
    <2>1. CASE UNCHANGED driver
      BY <1>0, <2>1 DEF TypeOK
    <2>2. ASSUME NEW fate \in {"lost", "garbled", "intact"},
                 driver' = Append(driver, [msgs |-> tx, intact |-> fate = "intact"])
          PROVE  driver' \in Seq([msgs : Seq(Message), intact : BOOLEAN])
      <3>1. [msgs |-> tx, intact |-> fate = "intact"]
              \in [msgs : Seq(Message), intact : BOOLEAN]
        BY <1>0 DEF TypeOK
      <3> QED
        BY <1>0, <2>2, <3>1 DEF TypeOK
    <2> QED
      BY <2>1, <2>2 DEF Flush, Sent
  <1>5. TypeOK'
    BY <1>0, <1>1, <1>3, <1>4, SizeAssumption DEF TypeOK, QueueOK, receiver
  <1> QED
    BY <1>2, <1>3, <1>5 DEF RangeInv

-----------------------------------------------------------------------------
(* The second part: messages are numbered in the order in which they were  *)
(* sent, all along their way from the queue through the driver to the      *)
(* reader.  Without it getmsg could hand out a message that was sent       *)
(* before, or one that was never sent.                                     *)

Ordered(s) == \A i, j \in 1 .. Len(s) : i < j => s[i].id < s[j].id
Precedes(s, t) == \A i \in 1 .. Len(s), j \in 1 .. Len(t) : s[i].id < t[j].id
Below(n, s) == \A i \in 1 .. Len(s) : n < s[i].id
Numbered(n, s) == \A i \in 1 .. Len(s) : s[i].id \in 1 .. n

QueueOrdered == Ordered(tx) /\ Numbered(sent, tx) /\ Below(handed, tx)

\* A frame f on its way, between the frame read last, r, and the queue, q, with
\* n messages sent so far and the h-th handed out.
Between(f, r, q, n, h) ==
    /\ Ordered(f.msgs) /\ Numbered(n, f.msgs) /\ Below(h, f.msgs)
    /\ Precedes(r.msgs, f.msgs) /\ Precedes(f.msgs, q)

DriverOrdered ==
    /\ \A k \in 1 .. Len(driver) : Between(driver[k], rx, tx, sent, handed)
    /\ \A k, l \in 1 .. Len(driver) :
           k < l => Precedes(driver[k].msgs, driver[l].msgs)

Unread == \A i \in 1 .. Len(rx.msgs) : rx_msg_num < i => handed < rx.msgs[i].id

ReadOrdered ==
    /\ Ordered(rx.msgs) /\ Numbered(sent, rx.msgs) /\ Precedes(rx.msgs, tx)
    /\ rx_cursor = TRUE => rx.intact = TRUE /\ Unread

InOrder == QueueOrdered /\ DriverOrdered /\ ReadOrdered

\* Nothing is queued, held or read.
LEMMA InitOrder == Init => InOrder
  BY DEF Init, InOrder, QueueOrdered, DriverOrdered, ReadOrdered, Unread,
         Ordered, Numbered, Below, Precedes

\* The order does not depend on what else changes.
LEMMA SameOrder ==
    ASSUME InOrder, UNCHANGED <<tx, sent, driver, receiver>>
    PROVE  InOrder'
  BY DEF InOrder, QueueOrdered, DriverOrdered, Between, ReadOrdered,
         Unread, Ordered, Numbered, Below, Precedes, receiver

\* A new message comes last.
LEMMA WriteOrder ==
    ASSUME RangeInv, InOrder, NEW c \in Contents, Write(c), UNCHANGED <<driver, receiver>>
    PROVE  InOrder'
  <1> DEFINE new == [id |-> sent + 1, sz |-> c.sz, type |-> c.type, n |-> c.n]
  <1>0. /\ tx \in Seq(Message) /\ sent \in Nat /\ handed \in 0 .. sent
        /\ driver \in Seq([msgs : Seq(Message), intact : BOOLEAN])
        /\ rx \in [msgs : Seq(Message), intact : BOOLEAN]
    BY DEF RangeInv, TypeOK
  <1>1. /\ tx' = Append(tx, new) /\ sent' = sent + 1
        /\ UNCHANGED <<driver, rx, rx_cursor, rx_msg_num, handed>>
    BY DEF Write, receiver
  <1>2. new \in Message /\ new.id = sent + 1
    BY <1>0 DEF Message, Contents
  <1> HIDE DEF new
  <1>3. /\ Len(tx') = Len(tx) + 1 /\ Len(tx) \in Nat
        /\ \A i \in 1 .. Len(tx) : tx'[i] = tx[i]
        /\ tx'[Len(tx) + 1] = new
    BY <1>0, <1>1, <1>2
  <1>4. ASSUME NEW s \in Seq(Message), Numbered(sent, s), Precedes(s, tx)
        PROVE  Precedes(s, tx') /\ Numbered(sent', s)
    <2>1. ASSUME NEW i \in 1 .. Len(s) PROVE s[i].id \in 1 .. sent /\ s[i].id < sent + 1
      BY <1>0, <1>4 DEF Numbered
    <2>2. Numbered(sent', s)
      BY <1>0, <1>1, <2>1 DEF Numbered
    <2>3. ASSUME NEW i \in 1 .. Len(s), NEW j \in 1 .. Len(tx) + 1
          PROVE  s[i].id < tx'[j].id
      <3>1. CASE j \in 1 .. Len(tx)
        BY <1>3, <1>4, <3>1 DEF Precedes
      <3>2. CASE j = Len(tx) + 1
        BY <1>2, <1>3, <2>1, <3>2
      <3> QED
        BY <1>3, <3>1, <3>2
    <2> QED
      BY <1>3, <2>2, <2>3 DEF Precedes
  <1>5. QueueOrdered'
    <2>1. Ordered(tx) /\ Numbered(sent, tx) /\ Below(handed, tx)
      BY DEF InOrder, QueueOrdered
    <2>2. Ordered(tx')
      <3>1. SUFFICES ASSUME NEW i \in 1 .. Len(tx) + 1, NEW j \in 1 .. Len(tx) + 1,
                            i < j
                     PROVE  tx'[i].id < tx'[j].id
        BY <1>3 DEF Ordered
      <3>2. i \in 1 .. Len(tx) /\ tx'[i] = tx[i] /\ tx[i].id \in 1 .. sent
        BY <1>3, <2>1, <3>1 DEF Numbered
      <3>3. CASE j \in 1 .. Len(tx)
        BY <1>3, <2>1, <3>1, <3>2, <3>3 DEF Ordered
      <3>4. CASE j = Len(tx) + 1
        BY <1>0, <1>2, <1>3, <3>2, <3>4
      <3> QED
        BY <1>3, <3>3, <3>4
    <2>3. Numbered(sent', tx')
      <3>1. ASSUME NEW i \in 1 .. Len(tx) PROVE tx'[i].id \in 1 .. sent + 1
        BY <1>0, <1>3, <2>1 DEF Numbered
      <3>2. tx'[Len(tx) + 1].id \in 1 .. sent + 1
        BY <1>0, <1>2, <1>3
      <3> QED
        BY <1>1, <1>3, <3>1, <3>2 DEF Numbered
    <2>4. Below(handed', tx')
      BY <1>0, <1>1, <1>2, <1>3, <2>1 DEF Below
    <2> QED
      BY <2>2, <2>3, <2>4 DEF QueueOrdered, Ordered, Below
  <1>6. DriverOrdered'
    <2>1. ASSUME NEW k \in 1 .. Len(driver)
          PROVE  Between(driver[k], rx', tx', sent', handed')
      <3>0. driver[k].msgs \in Seq(Message)
        <4>1. driver[k] \in [msgs : Seq(Message), intact : BOOLEAN]
          BY <1>0, ElementOfSeq
        <4> QED
          BY <4>1
      <3>1. Between(driver[k], rx, tx, sent, handed)
        BY DEF InOrder, DriverOrdered
      <3>2. Precedes(driver[k].msgs, tx') /\ Numbered(sent', driver[k].msgs)
        BY <3>0, <3>1, <1>4 DEF Between
      <3> QED
        BY <1>1, <3>1, <3>2 DEF Between
    <2>2. \A k, l \in 1 .. Len(driver) :
              k < l => Precedes(driver[k].msgs, driver[l].msgs)
      BY DEF InOrder, DriverOrdered
    <2> QED
      BY <1>1, <2>1, <2>2 DEF DriverOrdered, Precedes
  <1>7. ReadOrdered'
    <2>1. Precedes(rx.msgs, tx') /\ Numbered(sent', rx.msgs)
      BY <1>0, <1>4 DEF InOrder, ReadOrdered
    <2>2. ReadOrdered
      BY DEF InOrder
    <2> QED
      BY <1>1, <2>1, <2>2 DEF ReadOrdered, Unread
  <1> QED
    BY <1>5, <1>6, <1>7 DEF InOrder

\* The frame that leaves comes after the frames held, and the queue is empty.
LEMMA SentOrder ==
    ASSUME RangeInv, InOrder, NEW fate, Sent(fate), UNCHANGED receiver
    PROVE  InOrder'
  <1> DEFINE new == [msgs |-> tx, intact |-> fate = "intact"]
  <1>0. /\ driver \in Seq([msgs : Seq(Message), intact : BOOLEAN])
        /\ tx \in Seq(Message)
    BY DEF RangeInv, TypeOK
  <1>1. /\ tx' = <<>> /\ Len(tx') = 0 /\ sent' = sent
        /\ UNCHANGED <<rx, rx_cursor, rx_msg_num, handed>>
    BY DEF Sent, truncate_tx, receiver
  <1>2. /\ QueueOrdered /\ ReadOrdered
        /\ \A k \in 1 .. Len(driver) : Between(driver[k], rx, tx, sent, handed)
        /\ \A k, l \in 1 .. Len(driver) :
               k < l => Precedes(driver[k].msgs, driver[l].msgs)
    BY DEF InOrder, DriverOrdered
  <1>3. /\ QueueOrdered' /\ ReadOrdered'
        /\ \A s : Precedes(s, tx')
    BY <1>1, <1>2 DEF QueueOrdered, ReadOrdered, Unread, Ordered, Numbered, Below,
                      Precedes
  <1>4. \A k \in 1 .. Len(driver) : Between(driver[k], rx', tx', sent', handed')
    BY <1>1, <1>2, <1>3 DEF Between
  <1>5. CASE UNCHANGED driver
    BY <1>2, <1>3, <1>4, <1>5 DEF InOrder, DriverOrdered
  <1>6. CASE driver' = Append(driver, new)
    <2>1. new \in [msgs : Seq(Message), intact : BOOLEAN] /\ new.msgs = tx
      BY <1>0
    <2> HIDE DEF new
    <2>2. /\ Len(driver') = Len(driver) + 1 /\ Len(driver) \in Nat
          /\ \A k \in 1 .. Len(driver) : driver'[k] = driver[k]
          /\ driver'[Len(driver) + 1] = new
      BY <1>0, <1>6, <2>1, AppendProperties
    <2>3. /\ Ordered(new.msgs) /\ Numbered(sent', new.msgs)
          /\ Precedes(new.msgs, tx') /\ Precedes(rx'.msgs, new.msgs)
          /\ Below(handed', new.msgs)
      BY <1>1, <1>2, <1>3, <2>1 DEF QueueOrdered, ReadOrdered
    <2>4. ASSUME NEW k \in 1 .. Len(driver')
          PROVE  Between(driver'[k], rx', tx', sent', handed')
      <3>1. CASE k \in 1 .. Len(driver)
        BY <1>4, <2>2, <3>1 DEF Between
      <3>2. CASE k = Len(driver) + 1
        BY <2>2, <2>3, <3>2 DEF Between
      <3> QED
        BY <2>2, <3>1, <3>2
    <2>5. ASSUME NEW k \in 1 .. Len(driver'), NEW l \in 1 .. Len(driver'), k < l
          PROVE  Precedes(driver'[k].msgs, driver'[l].msgs)
      <3>1. k \in 1 .. Len(driver) /\ driver'[k] = driver[k]
        BY <2>2, <2>5
      <3>2. CASE l \in 1 .. Len(driver)
        BY <1>2, <2>2, <2>5, <3>1, <3>2
      <3>3. CASE l = Len(driver) + 1
        BY <1>2, <2>1, <2>2, <3>1, <3>3 DEF Between
      <3> QED
        BY <2>2, <3>2, <3>3
    <2>6. DriverOrdered'
      BY <2>4, <2>5 DEF DriverOrdered
    <2> QED
      BY <1>3, <2>6 DEF InOrder
  <1> QED
    BY <1>5, <1>6 DEF Sent

\* The frame read next comes after the one read before.
LEMMA RecvStep == RangeInv /\ InOrder /\ Recv => RangeInv' /\ InOrder'
  <1> SUFFICES ASSUME RangeInv, InOrder, Recv PROVE RangeInv' /\ InOrder'
    OBVIOUS
  <1>0. /\ TypeOK /\ NeverOverflows /\ FragmentNumbered
        /\ driver \in Seq([msgs : Seq(Message), intact : BOOLEAN]) /\ driver # <<>>
    BY DEF RangeInv, TypeOK, Recv
  <1>1. /\ rx' = driver[1] /\ driver' = Tail(driver) /\ 1 \in 1 .. Len(driver)
        /\ UNCHANGED <<queue, emission, iter, handed>>
    BY <1>0, EmptySeq DEF Recv
  <1>2. /\ Len(driver') = Len(driver) - 1 /\ Len(driver) \in Nat
        /\ \A k \in 1 .. Len(driver') : driver'[k] = driver[k + 1]
        /\ driver' \in Seq([msgs : Seq(Message), intact : BOOLEAN])
    BY <1>0, <1>1, HeadTailProperties
  <1>3. rx' \in [msgs : Seq(Message), intact : BOOLEAN]
    BY <1>0, <1>1, ElementOfSeq
  <1>4. /\ rx_msg_num' = 0 /\ rx_cursor' \in BOOLEAN
        /\ rx_cursor' = TRUE => rx'.intact = TRUE
    BY <1>1 DEF Recv, rewind, truncate_rx, Valid
  <1>5. RangeInv'
    <2>1. rx_msg_num' \in 0 .. Len(rx'.msgs)
      <3>1. rx'.msgs \in Seq(Message)
        BY <1>3
      <3>2. Len(rx'.msgs) \in Nat
        BY <3>1, LenProperties
      <3> QED
        BY <1>4, <3>2
    <2>2. TypeOK'
      BY <1>0, <1>1, <1>2, <1>3, <1>4, <2>1 DEF TypeOK, queue, emission
    <2>3. NeverOverflows' /\ FragmentNumbered'
      BY <1>0, <1>1
      DEF NeverOverflows, FragmentNumbered, Used, max_fragment_bytes, queue
    <2> QED
      BY <2>2, <2>3 DEF RangeInv
  <1>6. UNCHANGED <<tx, sent, handed>>
    BY <1>1 DEF queue
  <1>7. /\ \A k \in 1 .. Len(driver) : Between(driver[k], rx, tx, sent, handed)
        /\ \A k, l \in 1 .. Len(driver) :
               k < l => Precedes(driver[k].msgs, driver[l].msgs)
    BY DEF InOrder, DriverOrdered
  <1>8. QueueOrdered'
    BY <1>6 DEF InOrder, QueueOrdered
  <1>9. ReadOrdered'
    <2>1. Between(driver[1], rx, tx, sent, handed)
      BY <1>1, <1>7
    <2>2. Unread'
      BY <1>1, <1>4, <1>6, <2>1 DEF Unread, Between, Below
    <2> QED
      BY <1>1, <1>4, <1>6, <2>1, <2>2 DEF ReadOrdered, Between
  <1>10. DriverOrdered'
    <2>1. ASSUME NEW k \in 1 .. Len(driver')
          PROVE  Between(driver'[k], rx', tx', sent', handed')
      <3>1. k + 1 \in 1 .. Len(driver) /\ driver'[k] = driver[k + 1]
        BY <1>2
      <3>2. /\ Between(driver[k + 1], rx, tx, sent, handed)
            /\ Precedes(driver[1].msgs, driver[k + 1].msgs)
        BY <1>1, <1>7, <3>1
      <3> QED
        BY <1>1, <1>6, <3>1, <3>2 DEF Between
    <2>2. ASSUME NEW k \in 1 .. Len(driver'), NEW l \in 1 .. Len(driver'), k < l
          PROVE  Precedes(driver'[k].msgs, driver'[l].msgs)
      <3>1. /\ k + 1 \in 1 .. Len(driver) /\ l + 1 \in 1 .. Len(driver) /\ k + 1 < l + 1
            /\ driver'[k] = driver[k + 1] /\ driver'[l] = driver[l + 1]
        BY <1>2, <2>2
      <3> QED
        BY <1>7, <3>1
    <2> QED
      BY <2>1, <2>2 DEF DriverOrdered
  <1> QED
    BY <1>5, <1>8, <1>9, <1>10 DEF InOrder

\* A receive that ends without a frame hands out nothing and keeps the order.
LEMMA RecvNothingStep == RangeInv /\ InOrder /\ RecvNothing => RangeInv' /\ InOrder'
  <1> SUFFICES ASSUME RangeInv, InOrder, RecvNothing PROVE RangeInv' /\ InOrder'
    OBVIOUS
  <1>0. /\ TypeOK /\ NeverOverflows /\ FragmentNumbered
        /\ rx \in [msgs : Seq(Message), intact : BOOLEAN]
    BY DEF RangeInv, TypeOK
  <1>1. /\ UNCHANGED <<queue, emission, iter, driver, rx, handed>>
        /\ \/ rx_cursor' = FALSE /\ rx_msg_num' = 0
           \/ UNCHANGED <<rx_cursor, rx_msg_num>>
    BY DEF RecvNothing, truncate_rx
  <1>2. RangeInv'
    <2>1. rx_cursor' \in BOOLEAN /\ rx_msg_num' \in 0 .. Len(rx'.msgs)
      <3>1. rx.msgs \in Seq(Message)
        BY <1>0
      <3>2. Len(rx.msgs) \in Nat
        BY <3>1, LenProperties
      <3>3. rx_cursor \in BOOLEAN /\ rx_msg_num \in 0 .. Len(rx.msgs)
        BY <1>0 DEF TypeOK
      <3>4. Len(rx'.msgs) = Len(rx.msgs)
        BY <1>1
      <3>5. rx_msg_num' \in 0 .. Len(rx.msgs)
        BY <1>1, <3>2, <3>3
      <3>6. rx_cursor' \in BOOLEAN
        BY <1>1, <3>3
      <3> QED
        BY <3>4, <3>5, <3>6
    <2>2. TypeOK'
      BY <1>0, <1>1, <2>1 DEF TypeOK, queue, emission
    <2>3. NeverOverflows' /\ FragmentNumbered'
      BY <1>0, <1>1
      DEF NeverOverflows, FragmentNumbered, Used, max_fragment_bytes, queue
    <2> QED
      BY <2>2, <2>3 DEF RangeInv
  <1>3. QueueOrdered' /\ DriverOrdered'
    BY <1>1 DEF InOrder, QueueOrdered, DriverOrdered, queue
  <1>4. ReadOrdered'
    BY <1>1 DEF InOrder, ReadOrdered, Unread, queue
  <1> QED
    BY <1>2, <1>3, <1>4 DEF InOrder

\* The message handed out is the first that was not: later than all before it,
\* earlier than all that is still on its way.
LEMMA GetMsgStep ==
    ASSUME RangeInv, InOrder, GetMsg
    PROVE  RangeInv' /\ InOrder' /\ handed' > handed /\ rx.intact
  <1> DEFINE n == rx_msg_num + 1
  <1>0. /\ TypeOK /\ NeverOverflows /\ FragmentNumbered
        /\ rx \in [msgs : Seq(Message), intact : BOOLEAN]
        /\ rx_msg_num \in 0 .. Len(rx.msgs)
        /\ handed \in Nat /\ sent \in Nat
    BY DEF RangeInv, TypeOK
  <1>1. /\ rx_cursor = TRUE /\ rx_msg_num < Len(rx.msgs)
        /\ rx_msg_num' = n /\ handed' = rx.msgs[n].id
        /\ UNCHANGED <<queue, emission, iter, driver, rx, rx_cursor>>
    BY <1>0 DEF GetMsg, TypeOK
  <1>2. Len(rx.msgs) \in Nat
    <2>1. rx.msgs \in Seq(Message)
      BY <1>0
    <2> QED
      BY <2>1, LenProperties
  <1>3. n \in 1 .. Len(rx.msgs) /\ rx_msg_num < n
    BY <1>0, <1>1, <1>2
  <1>4. ReadOrdered /\ QueueOrdered /\ DriverOrdered /\ Unread /\ rx.intact = TRUE
    BY <1>1 DEF InOrder, ReadOrdered
  <1>5. handed' \in 1 .. sent /\ handed' > handed
    <2>1. rx.msgs[n].id \in 1 .. sent /\ handed < rx.msgs[n].id
      BY <1>3, <1>4 DEF ReadOrdered, Numbered, Unread
    <2> QED
      BY <1>0, <1>1, <2>1
  <1>6. RangeInv'
    <2>1. TypeOK'
      <3>1. handed' \in 0 .. sent /\ n \in 0 .. Len(rx.msgs)
        BY <1>0, <1>2, <1>3, <1>5
      <3> HIDE DEF n
      <3> QED
        BY <1>0, <1>1, <3>1 DEF TypeOK, queue, emission
    <2>2. NeverOverflows' /\ FragmentNumbered'
      BY <1>0, <1>1
      DEF NeverOverflows, FragmentNumbered, Used, max_fragment_bytes, queue
    <2> QED
      BY <2>1, <2>2 DEF RangeInv
  <1>7. ASSUME NEW s, Precedes(rx.msgs, s) PROVE Below(handed', s)
    BY <1>1, <1>3, <1>7 DEF Precedes, Below
  <1>8. QueueOrdered'
    BY <1>1, <1>4, <1>7 DEF QueueOrdered, ReadOrdered, queue
  <1>9. DriverOrdered'
    <2>1. ASSUME NEW k \in 1 .. Len(driver)
          PROVE  Between(driver[k], rx', tx', sent', handed')
      <3>1. Between(driver[k], rx, tx, sent, handed)
        BY <1>4 DEF DriverOrdered
      <3> QED
        BY <1>1, <1>7, <3>1 DEF Between, queue
    <2> QED
      BY <1>1, <1>4, <2>1 DEF DriverOrdered
  <1>10. ReadOrdered'
    <2>1. ASSUME NEW i \in 1 .. Len(rx.msgs), n < i PROVE handed' < rx.msgs[i].id
      BY <1>1, <1>3, <1>4, <2>1 DEF ReadOrdered, Ordered
    <2>2. Unread'
      BY <1>1, <2>1 DEF Unread
    <2> QED
      BY <1>1, <1>4, <2>2 DEF ReadOrdered, queue
  <1> QED
    BY <1>4, <1>5, <1>6, <1>8, <1>9, <1>10 DEF InOrder

-----------------------------------------------------------------------------
(* The third part: a message stays what its composer made it.              *)

AllSound(s) == \A i \in 1 .. Len(s) : Sound(s[i])

SoundInv ==
    /\ AllSound(tx) /\ AllSound(rx.msgs)
    /\ \A k \in 1 .. Len(driver) : AllSound(driver[k].msgs)

\* A sound message is added to the queue.
LEMMA WriteSound ==
    ASSUME RangeInv, SoundInv, NEW c \in Contents, Sound(c), Write(c),
           UNCHANGED <<driver, receiver>>
    PROVE  SoundInv'
  <1> DEFINE new == [id |-> sent + 1, sz |-> c.sz, type |-> c.type, n |-> c.n]
  <1>0. tx \in Seq(Message) /\ sent \in Nat /\ tx' = Append(tx, new)
    BY DEF RangeInv, TypeOK, Write
  <1>1. new \in Message /\ Sound(new)
    BY <1>0 DEF Message, Contents, Sound, decode_msg
  <1> HIDE DEF new
  <1>2. /\ Len(tx') = Len(tx) + 1 /\ Len(tx) \in Nat
        /\ \A i \in 1 .. Len(tx) : tx'[i] = tx[i]
        /\ tx'[Len(tx) + 1] = new
    BY <1>0, <1>1
  <1>3. AllSound(tx')
    <2>1. ASSUME NEW i \in 1 .. Len(tx) + 1 PROVE Sound(tx'[i])
      <3>1. CASE i \in 1 .. Len(tx)
        BY <1>2, <3>1 DEF SoundInv, AllSound
      <3>2. CASE i = Len(tx) + 1
        BY <1>1, <1>2, <3>2
      <3> QED
        BY <1>2, <3>1, <3>2
    <2> QED
      BY <1>2, <2>1 DEF AllSound
  <1> QED
    BY <1>3 DEF SoundInv, AllSound, receiver

\* The queue becomes a frame, or is gone.
LEMMA SentSound ==
    ASSUME RangeInv, SoundInv, NEW fate, Sent(fate), UNCHANGED receiver
    PROVE  SoundInv'
  <1> DEFINE new == [msgs |-> tx, intact |-> fate = "intact"]
  <1>0. /\ driver \in Seq([msgs : Seq(Message), intact : BOOLEAN])
        /\ tx \in Seq(Message) /\ tx' = <<>> /\ UNCHANGED rx
    BY DEF RangeInv, TypeOK, Sent, truncate_tx, receiver
  <1>1. AllSound(tx') /\ AllSound(rx'.msgs)
    BY <1>0 DEF SoundInv, AllSound
  <1>2. CASE UNCHANGED driver
    BY <1>1, <1>2 DEF SoundInv
  <1>3. CASE driver' = Append(driver, new)
    <2>1. new \in [msgs : Seq(Message), intact : BOOLEAN] /\ AllSound(new.msgs)
      BY <1>0 DEF SoundInv
    <2> HIDE DEF new
    <2>2. /\ Len(driver') = Len(driver) + 1 /\ Len(driver) \in Nat
          /\ \A k \in 1 .. Len(driver) : driver'[k] = driver[k]
          /\ driver'[Len(driver) + 1] = new
      BY <1>0, <1>3, <2>1, AppendProperties
    <2>3. ASSUME NEW k \in 1 .. Len(driver) + 1 PROVE AllSound(driver'[k].msgs)
      <3>1. CASE k \in 1 .. Len(driver)
        BY <2>2, <3>1 DEF SoundInv
      <3>2. CASE k = Len(driver) + 1
        BY <2>1, <2>2, <3>2
      <3> QED
        BY <2>2, <3>1, <3>2
    <2> QED
      BY <1>1, <2>2, <2>3 DEF SoundInv
  <1> QED
    BY <1>2, <1>3 DEF Sent

\* The frame that is read is one that was held.
LEMMA RecvSound == RangeInv /\ SoundInv /\ Recv => SoundInv'
  <1> SUFFICES ASSUME RangeInv, SoundInv, Recv PROVE SoundInv'
    OBVIOUS
  <1>1. /\ driver \in Seq([msgs : Seq(Message), intact : BOOLEAN]) /\ driver # <<>>
        /\ rx' = driver[1] /\ driver' = Tail(driver) /\ 1 \in 1 .. Len(driver)
        /\ UNCHANGED tx
    BY EmptySeq DEF RangeInv, TypeOK, Recv, queue
  <1>2. /\ Len(driver') = Len(driver) - 1 /\ Len(driver) \in Nat
        /\ \A k \in 1 .. Len(driver') : driver'[k] = driver[k + 1]
    BY <1>1, HeadTailProperties
  <1>3. \A k \in 1 .. Len(driver') : AllSound(driver'[k].msgs)
    BY <1>2 DEF SoundInv
  <1> QED
    BY <1>1, <1>3 DEF SoundInv

-----------------------------------------------------------------------------
(* The inductive invariant and what follows from it.                       *)

IInv == RangeInv /\ InOrder /\ SoundInv

Composing ==
    \/ (\E c \in Others : Queue(c)) \/ EmitBegin \/ EmitAcks \/ EmitClose
    \/ SendDatagram \/ (\E sz \in DatagramSizes : NewDatagram(sz))

\* What a step that composes does to the queue.
LEMMA ComposingWrites ==
    ASSUME RangeInv, Composing
    PROVE  /\ UNCHANGED <<driver, receiver>>
           /\ (\E c \in Contents : Sound(c) /\ Write(c)) \/ UNCHANGED queue
  <1>1. ASSUME NEW c \in Others, Queue(c)
        PROVE  (\E d \in Contents : Sound(d) /\ Write(d)) \/ UNCHANGED queue
    BY <1>1, OthersSound DEF Queue, sendmsg
  <1>2. CASE EmitBegin
    BY <1>2 DEF EmitBegin
  <1>3. CASE EmitAcks
    BY <1>3, AcksSound DEF EmitAcks
  <1>4. CASE EmitClose
    BY <1>4, OthersSound DEF EmitClose, sendmsg
  <1>5. CASE SendDatagram
    <2>1. NextFragment \in Nat
      BY FragmentRange DEF RangeInv, TypeOK
    <2> QED
      BY <1>5, <2>1, OthersSound DEF SendDatagram, sendmsg
  <1>6. CASE \E sz \in DatagramSizes : NewDatagram(sz)
    BY <1>6 DEF NewDatagram
  <1>7. UNCHANGED <<driver, receiver>>
    BY DEF Composing, Queue, EmitBegin, EmitAcks, EmitClose, SendDatagram, NewDatagram
  <1> QED
    BY <1>1, <1>2, <1>3, <1>4, <1>5, <1>6, <1>7 DEF Composing

\* Every step keeps the three parts; only getmsg hands anything out.
LEMMA NextStep ==
    ASSUME IInv, [Next]_vars
    PROVE  IInv' /\ (handed' # handed => handed' > handed /\ rx.intact)
  <1>0. RangeInv /\ InOrder /\ SoundInv
    BY DEF IInv
  <1>1. CASE UNCHANGED vars
    <2>1. RangeInv'
      BY <1>0, <1>1
      DEF RangeInv, TypeOK, NeverOverflows, FragmentNumbered, Used,
          max_fragment_bytes, vars, queue, emission, receiver
    <2>2. InOrder' /\ SoundInv' /\ handed' = handed
      BY <1>0, <1>1, SameOrder DEF vars, queue, receiver, SoundInv
    <2> QED
      BY <2>1, <2>2 DEF IInv
  <1>2. CASE Composing
    <2>1. RangeInv'
      BY <1>0, <1>2, QueueStep, EmitAcksStep, DatagramStep DEF Composing
    <2>2. /\ UNCHANGED <<driver, receiver>>
          /\ (\E c \in Contents : Sound(c) /\ Write(c)) \/ UNCHANGED queue
      BY <1>0, <1>2, ComposingWrites
    <2>3. InOrder'
      BY <1>0, <2>2, SameOrder, WriteOrder DEF queue
    <2>4. SoundInv'
      <3>1. CASE UNCHANGED queue
        BY <1>0, <2>2, <3>1 DEF SoundInv, queue, receiver
      <3> QED
        BY <1>0, <2>2, <3>1, WriteSound
    <2> QED
      BY <2>1, <2>2, <2>3, <2>4 DEF IInv, receiver
  <1>3. CASE Flush
    <2>1. RangeInv' /\ UNCHANGED receiver
      BY <1>0, <1>3, FlushStep DEF Flush
    <2>2. (\E fate \in {"lost", "garbled", "intact"} : Sent(fate))
             \/ UNCHANGED <<queue, driver>>
      BY <1>3 DEF Flush
    <2>3. InOrder'
      BY <1>0, <2>1, <2>2, SameOrder, SentOrder DEF queue
    <2>4. SoundInv'
      <3>1. CASE UNCHANGED <<queue, driver>>
        BY <1>0, <2>1, <3>1 DEF SoundInv, queue, receiver
      <3> QED
        BY <1>0, <2>1, <2>2, <3>1, SentSound
    <2> QED
      BY <2>1, <2>3, <2>4 DEF IInv, receiver
  <1>4. CASE Recv
    <2>1. RangeInv' /\ InOrder' /\ SoundInv' /\ handed' = handed
      BY <1>0, <1>4, RecvStep, RecvSound DEF Recv
    <2> QED
      BY <2>1 DEF IInv
  <1>5. CASE RecvNothing
    <2>1. RangeInv' /\ InOrder' /\ handed' = handed
      BY <1>0, <1>5, RecvNothingStep DEF RecvNothing
    <2>2. SoundInv'
      BY <1>0, <1>5 DEF RecvNothing, SoundInv, queue
    <2> QED
      BY <2>1, <2>2 DEF IInv
  <1>6. CASE GetMsg
    <2>1. RangeInv' /\ InOrder' /\ handed' > handed /\ rx.intact
      BY <1>0, <1>6, GetMsgStep
    <2>2. SoundInv'
      BY <1>0, <1>6 DEF GetMsg, SoundInv, queue
    <2> QED
      BY <2>1, <2>2 DEF IInv
  <1> QED
    BY <1>1, <1>2, <1>3, <1>4, <1>5, <1>6 DEF Next, Composing

\* The inductive invariant holds in every reachable state.
LEMMA IInvHolds == Spec => []IInv
  <1>1. Init => IInv
    BY InitRange, InitOrder DEF IInv, Init, SoundInv, AllSound
  <1>2. IInv /\ [Next]_vars => IInv'
    BY NextStep
  <1> QED
    BY <1>1, <1>2, PTL DEF Spec

\* The buffers' state stays in its ranges, the acks within their table, whatever
\* the sizes of headers, buffers and messages.
THEOREM BufferTypeOK == Spec => []TypeOK
  <1>1. IInv => TypeOK
    BY DEF IInv, RangeInv
  <1> QED
    BY <1>1, IInvHolds, PTL

\* No sequence of sendmsg, send_acks, send_datagram and failed flushes writes
\* past the end of tx_buf.
THEOREM BufferNeverOverflows == Spec => []NeverOverflows
  <1>1. IInv => NeverOverflows
    BY DEF IInv, RangeInv
  <1> QED
    BY <1>1, IInvHolds, PTL

\* Fragments are numbered by their place, however often they are refused.
THEOREM BufferFragmentNumbered == Spec => []FragmentNumbered
  <1>1. IInv => FragmentNumbered
    BY DEF IInv, RangeInv
  <1> QED
    BY <1>1, IInvHolds, PTL

\* Every message on its way has the size its receiver computes from what it
\* announces, whatever room there was when it was composed, for all sizes.
THEOREM BufferDecodable == Spec => []Decodable
  <1>1. IInv => Decodable
    BY DEF IInv, SoundInv, AllSound, Sound, Decodable, InTransit
  <1> QED
    BY <1>1, IInvHolds, PTL

\* getmsg hands out each message at most once, in the order of sending and only
\* from intact frames, however many frames are lost, garbled or sent late.
THEOREM BufferHandsOutOnce == Spec => HandsOutOnce
  <1>1. IInv /\ [Next]_vars => [handed' # handed => handed' > handed /\ rx.intact]_vars
    BY NextStep
  <1> QED
    BY <1>1, IInvHolds, PTL DEF Spec, HandsOutOnce
=============================================================================
