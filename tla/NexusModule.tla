----------------------------- MODULE NexusModule -----------------------------
(***************************************************************************)
(* The radio module that LoRaMesher is given on the simulator              *)
(* (loramesh/node/src/LM_NexusModule.cpp), with the tasks around it: the   *)
(* poll task reads packets from the channel file into the one receive      *)
(* buffer and calls LoRaMesher's receive action, whose task then asks for  *)
(* the length and reads the data; the sending task clears the action while *)
(* it transmits.  No lock protects the buffer, and memcpy is not atomic: a *)
(* packet is `size' cells, copied one by one, each holding the packet it   *)
(* is from.                                                                *)
(*                                                                         *)
(* LoRaMesher itself is not part of the repository: its two tasks appear   *)
(* here by the calls of LM_Module they are given to make.                  *)
(***************************************************************************)
EXTENDS Integers, Sequences

CONSTANTS MaxPackets,   \* bound: packets others send
          BufCells      \* cells of rx_buf_

ASSUME BoundAssumption == MaxPackets \in Nat /\ BufCells \in Nat \ {0}

Packet == [id : 1 .. MaxPackets, size : 1 .. BufCells]
NoPacket == [id |-> 0, size |-> 0]

VARIABLES
    channel, sent,              \* packets in the channel file; how many ever
    poll_pc, buf, todo, done,   \* pollTask: its local buf, its memcpy
    rx_len, rx_buf, dio_rx_action, polling_active,    \* the module
    notified,                   \* of the receiving task, by the action
    recv_pc, want, copy, out,   \* the receiving task: numBytes, its readData
    send_pc,                    \* the sending task
    queue, app_pc, app_notified,  \* appRecvTask and the queue it empties
    alone,                      \* the packet in rx_buf_, if no other came near
    muted                       \* whether it came while no action was set

module_vars == <<rx_len, rx_buf, dio_rx_action, polling_active>>
poll_vars == <<poll_pc, buf, todo, done>>
recv_vars == <<recv_pc, want, copy, out>>
app_vars == <<queue, app_pc, app_notified>>
ghosts == <<alone, muted>>
vars == <<channel, sent, poll_vars, module_vars, notified, recv_vars, send_pc,
          app_vars, ghosts>>

Alive == poll_pc # "crashed"

Init ==
    /\ channel = <<>> /\ sent = 0
    /\ poll_pc = "none" /\ buf = NoPacket /\ todo = 0 /\ done = 0
    /\ rx_len = 0 /\ rx_buf = [i \in 1 .. BufCells |-> 0]
    /\ dio_rx_action = FALSE /\ polling_active = FALSE
    /\ notified = FALSE
    /\ recv_pc = "start" /\ want = 0 /\ copy = 0 /\ out = <<>>
    /\ send_pc = "idle"
    /\ queue = <<>> /\ app_pc = "take" /\ app_notified = FALSE
    /\ alone = NoPacket /\ muted = FALSE

\* Another node's packet reaches the channel file.
Arrive ==
    /\ Alive
    /\ sent < MaxPackets
    /\ sent' = sent + 1
    /\ \E k \in 1 .. BufCells : channel' = Append(channel, [id |-> sent', size |-> k])
    /\ UNCHANGED <<poll_vars, module_vars, notified, recv_vars, send_pc, app_vars, ghosts>>

-----------------------------------------------------------------------------
(* What the tasks call.                                                    *)

\* setDioActionForReceiving and startReceive, which creates the poll task
\* the first time.
Listening ==
    /\ dio_rx_action' = TRUE
    /\ polling_active' = TRUE
    /\ poll_pc' = IF polling_active THEN poll_pc ELSE "read"

-----------------------------------------------------------------------------
(* pollTask.                                                               *)

PollRead ==
    /\ poll_pc = "read" /\ polling_active
    /\ channel # <<>>
    /\ buf' = Head(channel)
    /\ channel' = Tail(channel)
    /\ poll_pc' = "store"
    /\ UNCHANGED <<sent, todo, done, module_vars, notified, recv_vars, send_pc, app_vars, ghosts>>

\* Nobody holds, expects or is after a packet.
Free == rx_len = 0 /\ ~notified /\ recv_pc \in {"start", "wait", "deliver", "restart"}

PollStore ==
    /\ poll_pc = "store"
    /\ rx_len' = buf.size
    /\ poll_pc' = "copy"
    /\ alone' = IF Free THEN buf ELSE NoPacket
    /\ muted' = FALSE
    /\ UNCHANGED <<channel, sent, buf, todo, done, rx_buf, dio_rx_action, polling_active,
                   notified, recv_vars, send_pc, app_vars>>

\* memcpy of rx_len_ bytes: the length is read again.
PollCopy ==
    /\ poll_pc = "copy"
    /\ todo' = rx_len
    /\ done' = 0
    /\ poll_pc' = "copying"
    /\ UNCHANGED <<channel, sent, buf, module_vars, notified, recv_vars, send_pc, app_vars, ghosts>>

\* Mutant: one cell too many.
PollCopying_PastEnd ==
    /\ poll_pc = "copying" /\ done <= todo
    /\ rx_buf' = [i \in 1 .. done + 1 |-> IF i = done + 1 THEN buf.id ELSE rx_buf[i]]
    /\ done' = done + 1
    /\ UNCHANGED <<channel, sent, poll_pc, buf, todo, rx_len, dio_rx_action, polling_active,
                   notified, recv_vars, send_pc, app_vars, ghosts>>

PollCopying ==
    /\ poll_pc = "copying" /\ done < todo
    /\ rx_buf' = [rx_buf EXCEPT ![done + 1] = buf.id]
    /\ done' = done + 1
    /\ UNCHANGED <<channel, sent, poll_pc, buf, todo, rx_len, dio_rx_action, polling_active,
                   notified, recv_vars, send_pc, app_vars, ghosts>>

\* Mutant: the action is called while the packet is still being copied.
PollCheck_TooSoon ==
    /\ poll_pc = "copying"
    /\ poll_pc' = IF dio_rx_action THEN "call" ELSE "read"
    /\ muted' = ~dio_rx_action
    /\ UNCHANGED <<channel, sent, buf, todo, done, module_vars, notified, recv_vars, send_pc,
                   app_vars, alone>>

\* Is there an action to call?
PollCheck ==
    /\ poll_pc = "copying" /\ done = todo
    /\ poll_pc' = IF dio_rx_action THEN "call" ELSE "read"
    /\ muted' = ~dio_rx_action
    /\ UNCHANGED <<channel, sent, buf, todo, done, module_vars, notified, recv_vars, send_pc,
                   app_vars, alone>>

\* The pointer is loaded once more, or not, as the compiler has it: if it has
\* been cleared since, the process calls a null pointer.
PollCall ==
    /\ poll_pc = "call"
    /\ \/ /\ poll_pc' = "read"
          /\ notified' = TRUE
       \/ /\ ~dio_rx_action
          /\ poll_pc' = "crashed"
          /\ UNCHANGED notified
    /\ UNCHANGED <<channel, sent, buf, todo, done, module_vars, recv_vars, send_pc, app_vars, ghosts>>

Poll == PollRead \/ PollStore \/ PollCopy \/ PollCopying \/ PollCheck \/ PollCall

-----------------------------------------------------------------------------
(* The receiving task.                                                     *)

\* mainTask: LoRaMesher's start() begins to listen.
Start ==
    /\ Alive /\ recv_pc = "start"
    /\ Listening
    /\ recv_pc' = "wait"
    /\ UNCHANGED <<channel, sent, buf, todo, done, rx_len, rx_buf, notified, want, copy, out,
                   send_pc, app_vars, ghosts>>

RecvTake ==
    /\ Alive /\ recv_pc = "wait"
    /\ notified
    /\ notified' = FALSE
    /\ recv_pc' = "length"
    /\ UNCHANGED <<channel, sent, poll_vars, module_vars, want, copy, out, send_pc, app_vars, ghosts>>

getPacketLength ==
    /\ Alive /\ recv_pc = "length"
    /\ want' = rx_len
    /\ recv_pc' = "check"
    /\ UNCHANGED <<channel, sent, poll_vars, module_vars, notified, copy, out, send_pc, app_vars, ghosts>>

\* readData with numBytes = want: without a packet it fails.
ReadCheck ==
    /\ Alive /\ recv_pc = "check"
    /\ recv_pc' = IF rx_len = 0 THEN "restart" ELSE "compare"
    /\ UNCHANGED <<channel, sent, poll_vars, module_vars, notified, want, copy, out, send_pc,
                   app_vars, ghosts>>

\* copy = (len < rx_len_) ? len : rx_len_, with two loads of rx_len_.
ReadCompare ==
    /\ Alive /\ recv_pc = "compare"
    /\ IF want < rx_len
       THEN copy' = want /\ recv_pc' = "copy"
       ELSE recv_pc' = "other" /\ UNCHANGED copy
    /\ UNCHANGED <<channel, sent, poll_vars, module_vars, notified, want, out, send_pc, app_vars, ghosts>>

ReadOther ==
    /\ Alive /\ recv_pc = "other"
    /\ copy' = rx_len
    /\ recv_pc' = "copy"
    /\ UNCHANGED <<channel, sent, poll_vars, module_vars, notified, want, out, send_pc, app_vars, ghosts>>

ReadCopy ==
    /\ Alive /\ recv_pc = "copy" /\ Len(out) < copy
    /\ out' = Append(out, rx_buf[Len(out) + 1])
    /\ UNCHANGED <<channel, sent, poll_vars, module_vars, notified, recv_pc, want, copy, send_pc,
                   app_vars, ghosts>>

\* Mutant: the packet stays in the buffer.
ReadClear_Kept ==
    /\ Alive /\ recv_pc = "copy" /\ Len(out) = copy
    /\ recv_pc' = "deliver"
    /\ UNCHANGED <<channel, sent, poll_vars, module_vars, notified, want, copy, out, send_pc,
                   app_vars, ghosts>>

ReadClear ==
    /\ Alive /\ recv_pc = "copy" /\ Len(out) = copy
    /\ rx_len' = 0
    /\ recv_pc' = "deliver"
    /\ UNCHANGED <<channel, sent, poll_vars, rx_buf, dio_rx_action, polling_active, notified,
                   want, copy, out, send_pc, app_vars, ghosts>>

\* LoRaMesher queues what it has received and notifies appRecvTask.
Deliver ==
    /\ Alive /\ recv_pc = "deliver"
    /\ queue' = Append(queue, out)
    /\ app_notified' = TRUE
    /\ out' = <<>>
    /\ recv_pc' = "restart"
    /\ UNCHANGED <<channel, sent, poll_vars, module_vars, notified, want, copy, send_pc, app_pc, ghosts>>

RecvRestart ==
    /\ Alive /\ recv_pc = "restart"
    /\ Listening
    /\ recv_pc' = "wait"
    /\ UNCHANGED <<channel, sent, buf, todo, done, rx_len, rx_buf, notified, want, copy, out,
                   send_pc, app_vars, ghosts>>

Receive == RecvTake \/ getPacketLength \/ ReadCheck \/ ReadCompare \/ ReadOther
           \/ ReadCopy \/ ReadClear \/ Deliver \/ RecvRestart

-----------------------------------------------------------------------------
(* The sending task, for dataSendTask among others, and appRecvTask.       *)

clearDioActions ==
    /\ Alive /\ recv_pc # "start" /\ send_pc = "idle"
    /\ dio_rx_action' = FALSE
    /\ send_pc' = "transmit"
    /\ UNCHANGED <<channel, sent, poll_vars, rx_len, rx_buf, polling_active, notified, recv_vars,
                   app_vars, ghosts>>

\* transmit writes the other channel file, whether or not it fails.
transmit ==
    /\ Alive /\ send_pc = "transmit"
    /\ send_pc' = "listen"
    /\ UNCHANGED <<channel, sent, poll_vars, module_vars, notified, recv_vars, app_vars, ghosts>>

SendDone ==
    /\ Alive /\ send_pc = "listen"
    /\ Listening
    /\ send_pc' = "idle"
    /\ UNCHANGED <<channel, sent, buf, todo, done, rx_len, rx_buf, notified, recv_vars, app_vars, ghosts>>

AppTake ==
    /\ Alive /\ app_pc = "take" /\ app_notified
    /\ app_notified' = FALSE
    /\ app_pc' = "drain"
    /\ UNCHANGED <<channel, sent, poll_vars, module_vars, notified, recv_vars, send_pc, queue, ghosts>>

\* Mutant: one packet is taken for each notification.
AppDrain_One ==
    /\ Alive /\ app_pc = "drain"
    /\ queue' = IF queue # <<>> THEN Tail(queue) ELSE queue
    /\ app_pc' = "take"
    /\ UNCHANGED <<channel, sent, poll_vars, module_vars, notified, recv_vars, send_pc,
                   app_notified, ghosts>>

AppDrain ==
    /\ Alive /\ app_pc = "drain"
    /\ IF queue # <<>>
       THEN queue' = Tail(queue) /\ UNCHANGED app_pc
       ELSE app_pc' = "take" /\ UNCHANGED queue
    /\ UNCHANGED <<channel, sent, poll_vars, module_vars, notified, recv_vars, send_pc,
                   app_notified, ghosts>>

App == AppTake \/ AppDrain

Next == Arrive \/ Poll \/ Start \/ Receive \/ clearDioActions \/ transmit \/ SendDone \/ App

\* Each task runs whenever it can: the scheduler is preemptive with time
\* slices.  Nobody has to send.
Fairness ==
    /\ WF_vars(Poll)
    /\ WF_vars(Start \/ Receive)
    /\ WF_vars(transmit \/ SendDone)
    /\ WF_vars(App)

Spec == Init /\ [][Next]_vars /\ Fairness

-----------------------------------------------------------------------------
(* Properties.                                                             *)

Cells == 0 .. MaxPackets

\* The tasks' state stays in its ranges: neither memcpy runs past the receive
\* buffer, however rx_len_ changes under it (LM_NexusModule.cpp:144-145, 162-163).
TypeOK ==
    /\ channel \in Seq(Packet) /\ sent \in 0 .. MaxPackets
    /\ poll_pc \in {"none", "read", "store", "copy", "copying", "call", "crashed"}
    /\ buf \in Packet \cup {NoPacket}
    /\ poll_pc \in {"store", "copy", "copying"} => buf \in Packet
    /\ todo \in 0 .. BufCells /\ done \in 0 .. todo
    /\ rx_len \in 0 .. BufCells
    /\ rx_buf \in [1 .. BufCells -> Cells]
    /\ dio_rx_action \in BOOLEAN /\ polling_active \in BOOLEAN /\ notified \in BOOLEAN
    /\ recv_pc \in {"start", "wait", "length", "check", "compare", "other", "copy",
                    "deliver", "restart"}
    /\ want \in 0 .. BufCells /\ copy \in 0 .. BufCells
    /\ out \in Seq(Cells) /\ (recv_pc = "copy" => Len(out) <= copy)
    /\ recv_pc \notin {"copy", "deliver"} => out = <<>>
    /\ send_pc \in {"idle", "transmit", "listen"}
    /\ queue \in Seq(Seq(Cells)) /\ app_pc \in {"take", "drain"} /\ app_notified \in BOOLEAN
    /\ alone \in Packet \cup {NoPacket}
    /\ muted \in BOOLEAN

\* A packet in rx_buf_ is being brought there, or announced to the receiving
\* task, or read by it - whichever way the tasks interleave: what lies in the
\* buffer without anyone to fetch it came while the action was cleared for a
\* transmission (LM_NexusModule.cpp:141-149, 158-166).
NoPacketForgotten ==
    rx_len # 0 =>
        \/ poll_pc \in {"copy", "copying", "call", "crashed"}
        \/ notified
        \/ recv_pc \in {"length", "check", "compare", "other", "copy"}
        \/ muted

\* A packet that comes while nobody is after another is handed out whole,
\* unmixed and no longer than the caller's buffer, unless one more is stored
\* before it has been read: the order of storing, announcing, copying and
\* clearing protects it without a lock (LM_NexusModule.cpp:141-149, 158-166).
\* Of packets that do meet nothing is promised: one stored while the last is
\* being copied is wiped with it, and a notification left over from a burst
\* reads the last one again while the next is being stored.
IntactWhenAlone ==
    [][ReadClear /\ alone # NoPacket =>
          /\ out = [i \in 1 .. alone.size |-> alone.id]
          /\ Len(out) <= want]_vars

\* What is announced is fetched: a buffer does not stay full, unless the
\* packet came during a transmission (LM_NexusModule.cpp:127-166).
Drained == rx_len # 0 ~> (rx_len = 0 \/ muted \/ ~Alive)

\* appRecvTask empties its queue although notifications coalesce: one that
\* comes while it drains is not lost (main.cpp:35-52).
AppGetsAll == queue # <<>> ~> (queue = <<>> \/ ~Alive)
=============================================================================
