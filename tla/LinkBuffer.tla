------------------------------ MODULE LinkBuffer ------------------------------
(***************************************************************************)
(* The buffers of the link layer (sendmsg, flush, recv and getmsg of       *)
(* lib/net/src/link_layer.cpp), counted in bytes, with what fills them to  *)
(* the brim: the acks of emit_ch_messages and the fragments of             *)
(* send_datagram, and what their receiver makes of their sizes in          *)
(* decode_msg (multihop.cpp, multihop_messages.cpp).                       *)
(*                                                                         *)
(* One node sends and another receives.  Frames are lost, garbled or held  *)
(* by the receiver's driver; either node may be outside its window.  The   *)
(* receiver stops reading a frame when it likes, and reads on after any    *)
(* answer of recv, as the advertising phases do.                           *)
(***************************************************************************)
EXTENDS Integers, Sequences

CONSTANTS
    tx_sz, msg_max_bytes,   \* LinkParams
    FrameHeader, Header, SendAcks, ack_t, Datagram, \* their sizes in bytes
    slot_count,             \* entries of STATE.acks
    Fixed,                  \* the sizes of the other messages' bodies, by type
    DatagramSizes,          \* of the datagrams handed to DatagramIterator
    ForwardedSizes,         \* of the fragments received from followers
    MaxSent,                \* bound: messages queued
    MaxHeld                 \* bound: frames the receiver's driver holds

ASSUME BufferAssumption ==
    /\ tx_sz \in Nat /\ msg_max_bytes \in Nat
    /\ FrameHeader \in Nat /\ FrameHeader <= tx_sz
ASSUME SizeAssumption ==
    /\ Header \in Nat /\ SendAcks \in Nat /\ Datagram \in Nat
    /\ ack_t \in Nat \ {0} /\ slot_count \in 1 .. 255
    /\ DatagramSizes \subseteq Nat /\ ForwardedSizes \subseteq Nat
    /\ Header + Datagram < msg_max_bytes
ASSUME FixedAssumption ==
    /\ Fixed \in [DOMAIN Fixed -> Nat] /\ "CloseCluster" \in DOMAIN Fixed
    /\ "SendAcks" \notin DOMAIN Fixed /\ "Datagram" \notin DOMAIN Fixed

MessageType == DOMAIN Fixed \cup {"SendAcks", "Datagram"}

\* A message is its number and its size, and of what it says its type and the
\* number of acks or of bytes it announces.
Message == [id : Nat, sz : Nat, type : MessageType, n : Nat]

VARIABLES
    tx,              \* the messages written to tx_buf
    tx_msg_count,
    tx_bytes_queued,
    emit,            \* where emit_ch_messages is: "none", "acks", "close", "flush"
    slots_assigned,  \* STATE.slots_assigned
    ack_start,
    iter,            \* the DatagramIterator: its size, offset and part
    driver,          \* the frames the receiver's driver holds
    rx,              \* the frame in rx_buf
    rx_cursor,       \* whether the cursor is in the frame (not nullptr)
    rx_msg_num,
    sent,            \* messages queued so far
    handed           \* the number of the last message getmsg handed out
queue == <<tx, tx_msg_count, tx_bytes_queued, sent>>
emission == <<emit, slots_assigned, ack_start>>
receiver == <<rx, rx_cursor, rx_msg_num, handed>>
vars == <<queue, emission, iter, driver, receiver>>

-----------------------------------------------------------------------------
(* Room in the transmit buffer.                                            *)

Used == FrameHeader + tx_msg_count + tx_bytes_queued

tx_bytes_available == IF Used > tx_sz THEN 0 ELSE tx_sz - Used

\* Message::size, which leaves out the data behind header and body.
size(type) ==
    Header + (IF type = "SendAcks" THEN SendAcks
              ELSE IF type = "Datagram" THEN Datagram ELSE Fixed[type])

\* A message with its data, before sendmsg numbers it.
Content(type, n, data) == [type |-> type, n |-> n, sz |-> size(type) + data]

\* Mutant: the length prefix of the message is forgotten.
Accepted_NoPrefix(sz) == tx_bytes_available >= sz /\ sz <= msg_max_bytes

\* Whether sendmsg takes a message, with its length prefix.
Accepted(sz) == tx_bytes_available >= sz + 1 /\ sz <= msg_max_bytes

\* sendmsg takes it.
Write(c) ==
    /\ tx' = Append(tx, [id |-> sent + 1, sz |-> c.sz, type |-> c.type, n |-> c.n])
    /\ tx_msg_count' = tx_msg_count + 1
    /\ tx_bytes_queued' = tx_bytes_queued + c.sz
    /\ sent' = sent + 1

sendmsg(c) == IF Accepted(c.sz) THEN Write(c) ELSE UNCHANGED queue

\* Mutant: more acks than the table has.
num_acks_Unbounded(start) ==
    LET fits == (tx_bytes_available - (Header + SendAcks)) \div ack_t
    IN  IF fits > 255 - start THEN 255 - start ELSE fits

\* The acks that send_acks means to send from start on.
num_acks(start) ==
    LET fits == (tx_bytes_available - (Header + SendAcks)) \div ack_t
        num == IF fits > 255 - start THEN 255 - start ELSE fits
    IN  IF start + num > slot_count
        THEN (IF start < slot_count THEN slot_count - start ELSE 0)
        ELSE num

\* Mutant: the range is announced as it was before it is cut to the table.
AckRange_Uncut(start) ==
    LET fits == (tx_bytes_available - (Header + SendAcks)) \div ack_t
    IN  IF fits > 255 - start THEN 255 - start ELSE fits

\* *ack_end - start, the range its body announces.
AckRange(start) == num_acks(start)

Acks(start) == Content("SendAcks", AckRange(start), ack_t * num_acks(start))

AcksAccepted(start) ==
    tx_bytes_available > Header + SendAcks /\ Accepted(Acks(start).sz)

\* The size of a fragment: as many bytes as a message holds besides its headers.
max_fragment_bytes == msg_max_bytes - Header - Datagram

NextFragment ==
    LET left == iter.size - iter.i
    IN  IF left > max_fragment_bytes THEN max_fragment_bytes ELSE left

-----------------------------------------------------------------------------
Init ==
    /\ tx = <<>> /\ tx_msg_count = 0 /\ tx_bytes_queued = 0 /\ sent = 0
    /\ emit = "none" /\ slots_assigned \in 1 .. slot_count /\ ack_start = 0
    /\ iter = [size |-> 0, i |-> 0, part |-> 0]
    /\ driver = <<>>
    /\ rx = [msgs |-> <<>>, intact |-> FALSE]
    /\ rx_cursor = FALSE /\ rx_msg_num = 0 /\ handed = 0

Others == {Content(type, 0, 0) : type \in DOMAIN Fixed \ {"CloseCluster"}}
          \cup {Content("Datagram", k, k) : k \in ForwardedSizes}

\* Any other message is queued, or refused: a heartbeat, a forwarded datagram.
Queue(c) ==
    /\ emit = "none" /\ sent < MaxSent
    /\ sendmsg(c)
    /\ UNCHANGED <<emission, iter, driver, receiver>>

\* emit_ch_messages begins.
EmitBegin ==
    /\ emit = "none" /\ sent < MaxSent
    /\ emit' = "acks" /\ ack_start' = 0
    /\ slots_assigned' \in 1 .. slot_count
    /\ UNCHANGED <<queue, iter, driver, receiver>>

\* Mutant: a refusal does not end the loop.
EmitAcks_NoBreak ==
    /\ emit = "acks"
    /\ \/ /\ ack_start < slots_assigned
          /\ IF AcksAccepted(ack_start)
             THEN /\ Write(Acks(ack_start))
                  /\ ack_start' = ack_start + num_acks(ack_start)
             ELSE UNCHANGED <<queue, ack_start>>
          /\ UNCHANGED emit
       \/ /\ ack_start >= slots_assigned
          /\ emit' = "close" /\ UNCHANGED <<queue, ack_start>>
    /\ UNCHANGED <<slots_assigned, iter, driver, receiver>>

\* One round of its loop: send_acks for the acks that fit, until all are sent
\* or a message is refused.
EmitAcks ==
    /\ emit = "acks"
    /\ \/ /\ ack_start < slots_assigned /\ AcksAccepted(ack_start)
          /\ Write(Acks(ack_start))
          /\ ack_start' = ack_start + num_acks(ack_start)
          /\ UNCHANGED emit
       \/ /\ ack_start >= slots_assigned \/ ~AcksAccepted(ack_start)
          /\ emit' = "close" /\ UNCHANGED <<queue, ack_start>>
    /\ UNCHANGED <<slots_assigned, iter, driver, receiver>>

\* close_cluster; flush follows.
EmitClose ==
    /\ emit = "close"
    /\ emit' = "flush"
    /\ sendmsg(Content("CloseCluster", 0, 0))
    /\ UNCHANGED <<slots_assigned, ack_start, iter, driver, receiver>>

\* A datagram is handed to a new iterator.
NewDatagram(sz) ==
    /\ emit = "none" /\ iter.i = iter.size
    /\ iter' = [size |-> sz, i |-> 0, part |-> 0]
    /\ UNCHANGED <<queue, emission, driver, receiver>>

\* next moves the iterator over the fragment it returns.
Advanced ==
    [size |-> iter.size, i |-> iter.i + NextFragment, part |-> iter.part + 1]

\* Mutant: the part is not counted back.
Rewound_KeepsPart ==
    [size |-> iter.size, i |-> Advanced.i - NextFragment, part |-> Advanced.part]

\* rewind after that next.
Rewound ==
    [size |-> iter.size, i |-> Advanced.i - NextFragment, part |-> Advanced.part - 1]

\* send_datagram for the next fragment: the iterator goes back if the fragment
\* alone does not fit, and stays ahead if only its headers do not.
SendDatagram ==
    /\ emit = "none" /\ sent < MaxSent /\ iter.i # iter.size
    /\ \/ /\ NextFragment > tx_bytes_available
          /\ iter' = Rewound /\ UNCHANGED queue
       \/ /\ NextFragment <= tx_bytes_available
          /\ iter' = Advanced
          /\ sendmsg(Content("Datagram", NextFragment, NextFragment))
    /\ UNCHANGED <<emission, driver, receiver>>

-----------------------------------------------------------------------------
(* Frames.                                                                 *)

truncate_tx ==
    tx' = <<>> /\ tx_msg_count' = 0 /\ tx_bytes_queued' = 0 /\ UNCHANGED sent

\* Mutant: the queue survives the frame.
Sent_KeepsQueue(fate) ==
    /\ UNCHANGED queue
    /\ driver' = IF fate = "lost" \/ Len(driver) >= MaxHeld THEN driver
                 ELSE Append(driver, [msgs |-> tx, intact |-> fate = "intact"])

\* The frame leaves: it reaches the receiver's driver intact or so garbled that
\* its checksum tells, if it is not lost.
Sent(fate) ==
    /\ truncate_tx
    /\ driver' = IF fate = "lost" \/ Len(driver) >= MaxHeld THEN driver
                 ELSE Append(driver, [msgs |-> tx, intact |-> fate = "intact"])

\* flush.  Outside the window, with a header that does not cover the buffer or
\* with a radio that refuses, the queue stays as it is.
Flush ==
    /\ emit \in {"none", "flush"}
    /\ \/ Used <= tx_sz /\ \E fate \in {"lost", "garbled", "intact"} : Sent(fate)
       \/ UNCHANGED <<queue, driver>>
    /\ emit' = "none" /\ ack_start' = 0
    /\ UNCHANGED <<slots_assigned, iter, receiver>>

\* What recv takes for a frame: more than a header, with the right checksum.
Valid(frame) == frame.msgs # <<>> /\ frame.intact

truncate_rx == rx_cursor' = FALSE /\ rx_msg_num' = 0
rewind == rx_cursor' = TRUE /\ rx_msg_num' = 0

\* recv, inside the window, with a frame to read.
Recv ==
    /\ driver # <<>>
    /\ driver' = Tail(driver) /\ rx' = Head(driver)
    /\ IF Valid(Head(driver)) THEN rewind ELSE truncate_rx
    /\ UNCHANGED <<queue, emission, iter, handed>>

\* recv ends without a frame: timed out, or (leaving even the cursor where it
\* is) outside the window.
RecvNothing ==
    /\ truncate_rx \/ UNCHANGED <<rx_cursor, rx_msg_num>>
    /\ UNCHANGED <<queue, emission, iter, driver, rx, handed>>

\* The size decode_msg requires of a message.
decode_msg(m) ==
    \/ m.type \in DOMAIN Fixed /\ m.sz = size(m.type)
    \/ m.type = "SendAcks" /\ m.n > 0 /\ m.sz = size(m.type) + ack_t * m.n
    \/ m.type = "Datagram" /\ m.sz = size(m.type) + m.n

\* getmsg, when it has a message.
GetMsg ==
    /\ rx_cursor /\ rx_msg_num < Len(rx.msgs)
    /\ rx_msg_num' = rx_msg_num + 1
    /\ handed' = rx.msgs[rx_msg_num + 1].id
    /\ UNCHANGED <<queue, emission, iter, driver, rx, rx_cursor>>

Emit == EmitAcks \/ EmitClose \/ (emit = "flush" /\ Flush)

Next ==
    \/ \E c \in Others : Queue(c)
    \/ EmitBegin \/ EmitAcks \/ EmitClose
    \/ \E sz \in DatagramSizes : NewDatagram(sz)
    \/ SendDatagram
    \/ Flush \/ Recv \/ RecvNothing \/ GetMsg

\* emit_ch_messages runs to its end without waiting for anything.
Spec == Init /\ [][Next]_vars /\ WF_vars(Emit)

-----------------------------------------------------------------------------
(* Properties.                                                             *)

\* The state stays in its ranges: the counters describe the queue, and the acks
\* sent never reach past the table ("Never read past the actual ack buffer",
\* send_acks).
TypeOK ==
    /\ tx \in Seq(Message) /\ tx_msg_count = Len(tx)
    /\ tx_bytes_queued \in Nat /\ sent \in Nat /\ handed \in 0 .. sent
    /\ emit \in {"none", "acks", "close", "flush"}
    /\ slots_assigned \in 1 .. slot_count /\ ack_start \in 0 .. slot_count
    /\ iter \in [size : Nat, i : Nat, part : Nat] /\ iter.i <= iter.size
    /\ driver \in Seq([msgs : Seq(Message), intact : BOOLEAN])
    /\ rx \in [msgs : Seq(Message), intact : BOOLEAN]
    /\ rx_cursor \in BOOLEAN /\ rx_msg_num \in 0 .. Len(rx.msgs)

\* Whatever sequence of acks, fragments and other messages is queued, and
\* however often a flush is refused, the frame with its header and length
\* prefixes fits tx_buf: sendmsg never writes past its end.
NeverOverflows == Used <= tx_sz

\* "Once a message has been received, it cannot be received again": getmsg hands
\* a message out at most once and in the order of sending, and only from a frame
\* that arrived intact, over refused flushes, lost and garbled frames and a
\* cursor left in an earlier frame.
HandsOutOnce == [][handed' # handed => handed' > handed /\ rx.intact]_vars

\* The part number a fragment carries is its place in the datagram: the offset
\* and the part go forwards and backwards together, over refusals of all kinds.
FragmentNumbered ==
    LET whole == iter.part * max_fragment_bytes
    IN  iter.i = (IF whole < iter.size THEN whole ELSE iter.size)

InTransit ==
    {tx, rx.msgs} \cup {driver[k].msgs : k \in 1 .. Len(driver)}

\* What one node composes the other decodes: whatever the room left made of its
\* acks or its fragment, the size of a message is the size its receiver
\* computes from what it announces, from the queue to the reader.  Only a range
\* of no acks is sent to be dropped (multihop.cpp:135-204, 440-486).
Decodable ==
    \A msgs \in InTransit : \A i \in 1 .. Len(msgs) :
        decode_msg(msgs[i]) \/ (msgs[i].type = "SendAcks" /\ msgs[i].n = 0)

\* emit_ch_messages ends and flushes, though its loop may send an empty range of
\* acks: it ends for lack of room, not because the acks run out.
EmitEnds == emit # "none" ~> emit = "none"
=============================================================================
