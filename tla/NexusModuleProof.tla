-------------------------- MODULE NexusModuleProof --------------------------
(***************************************************************************)
(* Proofs about the LoRaMesher adapter, for any number of packets and any  *)
(* size of the buffer.  The invariant says of every stage of the poll and  *)
(* the receiving task what the other may be doing.                         *)
(***************************************************************************)
EXTENDS NexusModule, SequenceTheorems, TLAPS

-----------------------------------------------------------------------------
(* Types, by task.                                                         *)

ChannelType == channel \in Seq(Packet) /\ sent \in 0 .. MaxPackets

PollType ==
    /\ poll_pc \in {"none", "read", "store", "copy", "copying", "call", "crashed"}
    /\ buf \in Packet \cup {NoPacket}
    /\ poll_pc \in {"store", "copy", "copying"} => buf \in Packet
    /\ todo \in 0 .. BufCells /\ done \in 0 .. todo

ModuleType ==
    /\ rx_len \in 0 .. BufCells
    /\ rx_buf \in [1 .. BufCells -> Cells]
    /\ dio_rx_action \in BOOLEAN /\ polling_active \in BOOLEAN /\ notified \in BOOLEAN

RecvType ==
    /\ recv_pc \in {"start", "wait", "length", "check", "compare", "other", "copy",
                    "deliver", "restart"}
    /\ want \in 0 .. BufCells /\ copy \in 0 .. BufCells
    /\ out \in Seq(Cells) /\ (recv_pc = "copy" => Len(out) <= copy)
    /\ recv_pc \notin {"copy", "deliver"} => out = <<>>

AppType ==
    queue \in Seq(Seq(Cells)) /\ app_pc \in {"take", "drain"} /\ app_notified \in BOOLEAN

RestType ==
    /\ send_pc \in {"idle", "transmit", "listen"}
    /\ alone \in Packet \cup {NoPacket}
    /\ muted \in BOOLEAN

Types == ChannelType /\ PollType /\ ModuleType /\ RecvType /\ AppType /\ RestType

\* Packets arrive one by one and are read whole.
LEMMA ChannelTypeStep == ASSUME Types, [Next]_vars PROVE ChannelType'
  <1>1. CASE Arrive
    <2>1. sent' = sent + 1 /\ sent < MaxPackets
      BY <1>1 DEF Arrive
    <2>2. sent' \in 1 .. MaxPackets
      BY <2>1, BoundAssumption DEF Types, ChannelType
    <2>3. PICK k \in 1 .. BufCells : channel' = Append(channel, [id |-> sent', size |-> k])
      BY <1>1 DEF Arrive
    <2>4. [id |-> sent', size |-> k] \in Packet
      BY <2>2 DEF Packet
    <2>5. channel' \in Seq(Packet)
      BY <2>3, <2>4, AppendProperties DEF Types, ChannelType
    <2> QED
      BY <2>2, <2>5 DEF ChannelType
  <1>2. CASE PollRead
    BY <1>2
       DEF PollRead, Types, ChannelType, module_vars, poll_vars, recv_vars, app_vars,
           ghosts
  <1>3. CASE PollStore
    BY <1>3
       DEF PollStore, Types, ChannelType, module_vars, poll_vars, recv_vars, app_vars,
           ghosts
  <1>4. CASE PollCopy
    BY <1>4
       DEF PollCopy, Types, ChannelType, module_vars, poll_vars, recv_vars, app_vars,
           ghosts
  <1>5. CASE PollCopying
    BY <1>5
       DEF PollCopying, Types, ChannelType, module_vars, poll_vars, recv_vars,
           app_vars, ghosts
  <1>6. CASE PollCheck
    BY <1>6
       DEF PollCheck, Types, ChannelType, module_vars, poll_vars, recv_vars, app_vars,
           ghosts
  <1>7. CASE PollCall
    BY <1>7
       DEF PollCall, Types, ChannelType, module_vars, poll_vars, recv_vars, app_vars,
           ghosts
  <1>8. CASE Start
    BY <1>8
       DEF Start, Listening, Types, ChannelType, module_vars, poll_vars, recv_vars,
           app_vars, ghosts
  <1>9. CASE RecvTake
    BY <1>9
       DEF RecvTake, Types, ChannelType, module_vars, poll_vars, recv_vars, app_vars,
           ghosts
  <1>10. CASE getPacketLength
    BY <1>10
       DEF getPacketLength, Types, ChannelType, module_vars, poll_vars, recv_vars,
           app_vars, ghosts
  <1>11. CASE ReadCheck
    BY <1>11
       DEF ReadCheck, Types, ChannelType, module_vars, poll_vars, recv_vars, app_vars,
           ghosts
  <1>12. CASE ReadCompare
    BY <1>12
       DEF ReadCompare, Types, ChannelType, module_vars, poll_vars, recv_vars,
           app_vars, ghosts
  <1>13. CASE ReadOther
    BY <1>13
       DEF ReadOther, Types, ChannelType, module_vars, poll_vars, recv_vars, app_vars,
           ghosts
  <1>14. CASE ReadCopy
    BY <1>14
       DEF ReadCopy, Types, ChannelType, module_vars, poll_vars, recv_vars, app_vars,
           ghosts
  <1>15. CASE ReadClear
    BY <1>15
       DEF ReadClear, Types, ChannelType, module_vars, poll_vars, recv_vars, app_vars,
           ghosts
  <1>16. CASE Deliver
    BY <1>16
       DEF Deliver, Types, ChannelType, module_vars, poll_vars, recv_vars, app_vars,
           ghosts
  <1>17. CASE RecvRestart
    BY <1>17
       DEF RecvRestart, Listening, Types, ChannelType, module_vars, poll_vars,
           recv_vars, app_vars, ghosts
  <1>18. CASE clearDioActions
    BY <1>18
       DEF clearDioActions, Types, ChannelType, module_vars, poll_vars, recv_vars,
           app_vars, ghosts
  <1>19. CASE transmit
    BY <1>19
       DEF transmit, Types, ChannelType, module_vars, poll_vars, recv_vars, app_vars,
           ghosts
  <1>20. CASE SendDone
    BY <1>20
       DEF SendDone, Listening, Types, ChannelType, module_vars, poll_vars, recv_vars,
           app_vars, ghosts
  <1>21. CASE AppTake
    BY <1>21
       DEF AppTake, Types, ChannelType, module_vars, poll_vars, recv_vars, app_vars,
           ghosts
  <1>22. CASE AppDrain
    BY <1>22
       DEF AppDrain, Types, ChannelType, module_vars, poll_vars, recv_vars, app_vars,
           ghosts
  <1>23. CASE UNCHANGED vars
    BY <1>23
       DEF vars, Types, ChannelType, module_vars, poll_vars, recv_vars, app_vars, ghosts
  <1> QED
    BY <1>1, <1>2, <1>3, <1>4, <1>5, <1>6, <1>7, <1>8, <1>9, <1>10, <1>11, <1>12, <1>13, <1>14, <1>15, <1>16, <1>17, <1>18, <1>19, <1>20, <1>21, <1>22, <1>23
       DEF Next, Poll, Receive, App

\* The poll task copies what it has just read.
LEMMA PollTypeStep == ASSUME Types, [Next]_vars PROVE PollType'
  <1>1. CASE Arrive
    BY <1>1
       DEF Arrive, Types, PollType, module_vars, poll_vars, recv_vars, app_vars, ghosts
  <1>2. CASE PollRead
    <2>1. channel \in Seq(Packet) /\ channel # <<>>
      BY <1>2 DEF PollRead, Types, ChannelType
    <2>2. Head(channel) \in Packet
      BY <2>1, HeadTailProperties
    <2> QED
      BY <1>2, <2>2 DEF PollRead, Types, PollType
  <1>3. CASE PollStore
    BY <1>3
       DEF PollStore, Types, PollType, module_vars, poll_vars, recv_vars, app_vars,
           ghosts
  <1>4. CASE PollCopy
    BY <1>4
       DEF PollCopy, Types, PollType, ModuleType, module_vars, poll_vars, recv_vars,
           app_vars, ghosts
  <1>5. CASE PollCopying
    BY <1>5
       DEF PollCopying, Types, PollType, module_vars, poll_vars, recv_vars, app_vars,
           ghosts
  <1>6. CASE PollCheck
    BY <1>6
       DEF PollCheck, Types, PollType, module_vars, poll_vars, recv_vars, app_vars,
           ghosts
  <1>7. CASE PollCall
    BY <1>7
       DEF PollCall, Types, PollType, module_vars, poll_vars, recv_vars, app_vars,
           ghosts
  <1>8. CASE Start
    BY <1>8
       DEF Start, Listening, Types, PollType, module_vars, poll_vars, recv_vars,
           app_vars, ghosts
  <1>9. CASE RecvTake
    BY <1>9
       DEF RecvTake, Types, PollType, module_vars, poll_vars, recv_vars, app_vars,
           ghosts
  <1>10. CASE getPacketLength
    BY <1>10
       DEF getPacketLength, Types, PollType, module_vars, poll_vars, recv_vars,
           app_vars, ghosts
  <1>11. CASE ReadCheck
    BY <1>11
       DEF ReadCheck, Types, PollType, module_vars, poll_vars, recv_vars, app_vars,
           ghosts
  <1>12. CASE ReadCompare
    BY <1>12
       DEF ReadCompare, Types, PollType, module_vars, poll_vars, recv_vars, app_vars,
           ghosts
  <1>13. CASE ReadOther
    BY <1>13
       DEF ReadOther, Types, PollType, module_vars, poll_vars, recv_vars, app_vars,
           ghosts
  <1>14. CASE ReadCopy
    BY <1>14
       DEF ReadCopy, Types, PollType, module_vars, poll_vars, recv_vars, app_vars,
           ghosts
  <1>15. CASE ReadClear
    BY <1>15
       DEF ReadClear, Types, PollType, module_vars, poll_vars, recv_vars, app_vars,
           ghosts
  <1>16. CASE Deliver
    BY <1>16
       DEF Deliver, Types, PollType, module_vars, poll_vars, recv_vars, app_vars, ghosts
  <1>17. CASE RecvRestart
    BY <1>17
       DEF RecvRestart, Listening, Types, PollType, module_vars, poll_vars, recv_vars,
           app_vars, ghosts
  <1>18. CASE clearDioActions
    BY <1>18
       DEF clearDioActions, Types, PollType, module_vars, poll_vars, recv_vars,
           app_vars, ghosts
  <1>19. CASE transmit
    BY <1>19
       DEF transmit, Types, PollType, module_vars, poll_vars, recv_vars, app_vars,
           ghosts
  <1>20. CASE SendDone
    BY <1>20
       DEF SendDone, Listening, Types, PollType, module_vars, poll_vars, recv_vars,
           app_vars, ghosts
  <1>21. CASE AppTake
    BY <1>21
       DEF AppTake, Types, PollType, module_vars, poll_vars, recv_vars, app_vars, ghosts
  <1>22. CASE AppDrain
    BY <1>22
       DEF AppDrain, Types, PollType, module_vars, poll_vars, recv_vars, app_vars,
           ghosts
  <1>23. CASE UNCHANGED vars
    BY <1>23
       DEF vars, Types, PollType, module_vars, poll_vars, recv_vars, app_vars, ghosts
  <1> QED
    BY <1>1, <1>2, <1>3, <1>4, <1>5, <1>6, <1>7, <1>8, <1>9, <1>10, <1>11, <1>12, <1>13, <1>14, <1>15, <1>16, <1>17, <1>18, <1>19, <1>20, <1>21, <1>22, <1>23
       DEF Next, Poll, Receive, App

\* The buffer holds cells of packets.
LEMMA ModuleTypeStep == ASSUME Types, [Next]_vars PROVE ModuleType'
  <1>1. CASE Arrive
    BY <1>1
       DEF Arrive, Types, ModuleType, module_vars, poll_vars, recv_vars, app_vars,
           ghosts
  <1>2. CASE PollRead
    BY <1>2
       DEF PollRead, Types, ModuleType, module_vars, poll_vars, recv_vars, app_vars,
           ghosts
  <1>3. CASE PollStore
    BY <1>3, BoundAssumption
       DEF PollStore, Types, ModuleType, PollType, Packet, module_vars, poll_vars,
           recv_vars, app_vars, ghosts
  <1>4. CASE PollCopy
    BY <1>4
       DEF PollCopy, Types, ModuleType, module_vars, poll_vars, recv_vars, app_vars,
           ghosts
  <1>5. CASE PollCopying
    <2>1. buf.id \in Cells /\ done + 1 \in 1 .. BufCells
      <3>1. buf \in Packet /\ done \in 0 .. todo /\ todo \in 0 .. BufCells /\ done < todo
        BY <1>5 DEF PollCopying, Types, PollType
      <3> QED
        BY <3>1, BoundAssumption DEF Packet, Cells
    <2>2. rx_buf' \in [1 .. BufCells -> Cells]
      BY <1>5, <2>1 DEF PollCopying, Types, ModuleType
    <2> QED
      BY <1>5, <2>2 DEF PollCopying, Types, ModuleType
  <1>6. CASE PollCheck
    BY <1>6
       DEF PollCheck, Types, ModuleType, module_vars, poll_vars, recv_vars, app_vars,
           ghosts
  <1>7. CASE PollCall
    BY <1>7
       DEF PollCall, Types, ModuleType, module_vars, poll_vars, recv_vars, app_vars,
           ghosts
  <1>8. CASE Start
    BY <1>8
       DEF Start, Listening, Types, ModuleType, module_vars, poll_vars, recv_vars,
           app_vars, ghosts
  <1>9. CASE RecvTake
    BY <1>9
       DEF RecvTake, Types, ModuleType, module_vars, poll_vars, recv_vars, app_vars,
           ghosts
  <1>10. CASE getPacketLength
    BY <1>10
       DEF getPacketLength, Types, ModuleType, module_vars, poll_vars, recv_vars,
           app_vars, ghosts
  <1>11. CASE ReadCheck
    BY <1>11
       DEF ReadCheck, Types, ModuleType, module_vars, poll_vars, recv_vars, app_vars,
           ghosts
  <1>12. CASE ReadCompare
    BY <1>12
       DEF ReadCompare, Types, ModuleType, module_vars, poll_vars, recv_vars, app_vars,
           ghosts
  <1>13. CASE ReadOther
    BY <1>13
       DEF ReadOther, Types, ModuleType, module_vars, poll_vars, recv_vars, app_vars,
           ghosts
  <1>14. CASE ReadCopy
    BY <1>14
       DEF ReadCopy, Types, ModuleType, module_vars, poll_vars, recv_vars, app_vars,
           ghosts
  <1>15. CASE ReadClear
    BY <1>15, BoundAssumption
       DEF ReadClear, Types, ModuleType, module_vars, poll_vars, recv_vars, app_vars,
           ghosts
  <1>16. CASE Deliver
    BY <1>16
       DEF Deliver, Types, ModuleType, module_vars, poll_vars, recv_vars, app_vars,
           ghosts
  <1>17. CASE RecvRestart
    BY <1>17
       DEF RecvRestart, Listening, Types, ModuleType, module_vars, poll_vars,
           recv_vars, app_vars, ghosts
  <1>18. CASE clearDioActions
    BY <1>18
       DEF clearDioActions, Types, ModuleType, module_vars, poll_vars, recv_vars,
           app_vars, ghosts
  <1>19. CASE transmit
    BY <1>19
       DEF transmit, Types, ModuleType, module_vars, poll_vars, recv_vars, app_vars,
           ghosts
  <1>20. CASE SendDone
    BY <1>20
       DEF SendDone, Listening, Types, ModuleType, module_vars, poll_vars, recv_vars,
           app_vars, ghosts
  <1>21. CASE AppTake
    BY <1>21
       DEF AppTake, Types, ModuleType, module_vars, poll_vars, recv_vars, app_vars,
           ghosts
  <1>22. CASE AppDrain
    BY <1>22
       DEF AppDrain, Types, ModuleType, module_vars, poll_vars, recv_vars, app_vars,
           ghosts
  <1>23. CASE UNCHANGED vars
    BY <1>23
       DEF vars, Types, ModuleType, module_vars, poll_vars, recv_vars, app_vars, ghosts
  <1> QED
    BY <1>1, <1>2, <1>3, <1>4, <1>5, <1>6, <1>7, <1>8, <1>9, <1>10, <1>11, <1>12, <1>13, <1>14, <1>15, <1>16, <1>17, <1>18, <1>19, <1>20, <1>21, <1>22, <1>23
       DEF Next, Poll, Receive, App

\* readData copies no more than it set out to.
LEMMA RecvTypeStep == ASSUME Types, [Next]_vars PROVE RecvType'
  <1>1. CASE Arrive
    BY <1>1
       DEF Arrive, Types, RecvType, module_vars, poll_vars, recv_vars, app_vars, ghosts
  <1>2. CASE PollRead
    BY <1>2
       DEF PollRead, Types, RecvType, module_vars, poll_vars, recv_vars, app_vars,
           ghosts
  <1>3. CASE PollStore
    BY <1>3
       DEF PollStore, Types, RecvType, module_vars, poll_vars, recv_vars, app_vars,
           ghosts
  <1>4. CASE PollCopy
    BY <1>4
       DEF PollCopy, Types, RecvType, module_vars, poll_vars, recv_vars, app_vars,
           ghosts
  <1>5. CASE PollCopying
    BY <1>5
       DEF PollCopying, Types, RecvType, module_vars, poll_vars, recv_vars, app_vars,
           ghosts
  <1>6. CASE PollCheck
    BY <1>6
       DEF PollCheck, Types, RecvType, module_vars, poll_vars, recv_vars, app_vars,
           ghosts
  <1>7. CASE PollCall
    BY <1>7
       DEF PollCall, Types, RecvType, module_vars, poll_vars, recv_vars, app_vars,
           ghosts
  <1>8. CASE Start
    BY <1>8
       DEF Start, Listening, Types, RecvType, module_vars, poll_vars, recv_vars,
           app_vars, ghosts
  <1>9. CASE RecvTake
    BY <1>9
       DEF RecvTake, Types, RecvType, module_vars, poll_vars, recv_vars, app_vars,
           ghosts
  <1>10. CASE getPacketLength
    BY <1>10
       DEF getPacketLength, Types, RecvType, ModuleType, module_vars, poll_vars,
           recv_vars, app_vars, ghosts
  <1>11. CASE ReadCheck
    BY <1>11
       DEF ReadCheck, Types, RecvType, module_vars, poll_vars, recv_vars, app_vars,
           ghosts
  <1>12. CASE ReadCompare
    <2>1. out' = <<>> /\ Len(<<>>) = 0
      BY <1>12 DEF ReadCompare, Types, RecvType
    <2> QED
      BY <1>12, <2>1 DEF ReadCompare, Types, RecvType
  <1>13. CASE ReadOther
    <2>1. out' = <<>> /\ Len(<<>>) = 0
      BY <1>13 DEF ReadOther, Types, RecvType
    <2> QED
      BY <1>13, <2>1 DEF ReadOther, Types, RecvType, ModuleType
  <1>14. CASE ReadCopy
    <2>1. out \in Seq(Cells) /\ Len(out) < copy /\ copy \in 0 .. BufCells
      BY <1>14 DEF ReadCopy, Types, RecvType
    <2>2. Len(out) + 1 \in 1 .. BufCells
      BY <2>1, LenProperties, BoundAssumption
    <2>3. rx_buf[Len(out) + 1] \in Cells
      BY <2>2 DEF Types, ModuleType
    <2>4. out' \in Seq(Cells) /\ Len(out') = Len(out) + 1
      BY <1>14, <2>1, <2>3, AppendProperties DEF ReadCopy
    <2>5. Len(out') <= copy
      BY <2>1, <2>4, LenProperties
    <2> QED
      BY <1>14, <2>4, <2>5 DEF ReadCopy, Types, RecvType
  <1>15. CASE ReadClear
    BY <1>15
       DEF ReadClear, Types, RecvType, module_vars, poll_vars, recv_vars, app_vars,
           ghosts
  <1>16. CASE Deliver
    <2>1. <<>> \in Seq(Cells)
      OBVIOUS
    <2> QED
      BY <1>16, <2>1 DEF Deliver, Types, RecvType
  <1>17. CASE RecvRestart
    BY <1>17
       DEF RecvRestart, Listening, Types, RecvType, module_vars, poll_vars, recv_vars,
           app_vars, ghosts
  <1>18. CASE clearDioActions
    BY <1>18
       DEF clearDioActions, Types, RecvType, module_vars, poll_vars, recv_vars,
           app_vars, ghosts
  <1>19. CASE transmit
    BY <1>19
       DEF transmit, Types, RecvType, module_vars, poll_vars, recv_vars, app_vars,
           ghosts
  <1>20. CASE SendDone
    BY <1>20
       DEF SendDone, Listening, Types, RecvType, module_vars, poll_vars, recv_vars,
           app_vars, ghosts
  <1>21. CASE AppTake
    BY <1>21
       DEF AppTake, Types, RecvType, module_vars, poll_vars, recv_vars, app_vars, ghosts
  <1>22. CASE AppDrain
    BY <1>22
       DEF AppDrain, Types, RecvType, module_vars, poll_vars, recv_vars, app_vars,
           ghosts
  <1>23. CASE UNCHANGED vars
    BY <1>23
       DEF vars, Types, RecvType, module_vars, poll_vars, recv_vars, app_vars, ghosts
  <1> QED
    BY <1>1, <1>2, <1>3, <1>4, <1>5, <1>6, <1>7, <1>8, <1>9, <1>10, <1>11, <1>12, <1>13, <1>14, <1>15, <1>16, <1>17, <1>18, <1>19, <1>20, <1>21, <1>22, <1>23
       DEF Next, Poll, Receive, App

\* appRecvTask's queue.
LEMMA AppTypeStep == ASSUME Types, [Next]_vars PROVE AppType'
  <1>1. CASE Arrive
    BY <1>1
       DEF Arrive, Types, AppType, module_vars, poll_vars, recv_vars, app_vars, ghosts
  <1>2. CASE PollRead
    BY <1>2
       DEF PollRead, Types, AppType, module_vars, poll_vars, recv_vars, app_vars, ghosts
  <1>3. CASE PollStore
    BY <1>3
       DEF PollStore, Types, AppType, module_vars, poll_vars, recv_vars, app_vars,
           ghosts
  <1>4. CASE PollCopy
    BY <1>4
       DEF PollCopy, Types, AppType, module_vars, poll_vars, recv_vars, app_vars, ghosts
  <1>5. CASE PollCopying
    BY <1>5
       DEF PollCopying, Types, AppType, module_vars, poll_vars, recv_vars, app_vars,
           ghosts
  <1>6. CASE PollCheck
    BY <1>6
       DEF PollCheck, Types, AppType, module_vars, poll_vars, recv_vars, app_vars,
           ghosts
  <1>7. CASE PollCall
    BY <1>7
       DEF PollCall, Types, AppType, module_vars, poll_vars, recv_vars, app_vars, ghosts
  <1>8. CASE Start
    BY <1>8
       DEF Start, Listening, Types, AppType, module_vars, poll_vars, recv_vars,
           app_vars, ghosts
  <1>9. CASE RecvTake
    BY <1>9
       DEF RecvTake, Types, AppType, module_vars, poll_vars, recv_vars, app_vars, ghosts
  <1>10. CASE getPacketLength
    BY <1>10
       DEF getPacketLength, Types, AppType, module_vars, poll_vars, recv_vars,
           app_vars, ghosts
  <1>11. CASE ReadCheck
    BY <1>11
       DEF ReadCheck, Types, AppType, module_vars, poll_vars, recv_vars, app_vars,
           ghosts
  <1>12. CASE ReadCompare
    BY <1>12
       DEF ReadCompare, Types, AppType, module_vars, poll_vars, recv_vars, app_vars,
           ghosts
  <1>13. CASE ReadOther
    BY <1>13
       DEF ReadOther, Types, AppType, module_vars, poll_vars, recv_vars, app_vars,
           ghosts
  <1>14. CASE ReadCopy
    BY <1>14
       DEF ReadCopy, Types, AppType, module_vars, poll_vars, recv_vars, app_vars, ghosts
  <1>15. CASE ReadClear
    BY <1>15
       DEF ReadClear, Types, AppType, module_vars, poll_vars, recv_vars, app_vars,
           ghosts
  <1>16. CASE Deliver
    <2>1. queue' \in Seq(Seq(Cells))
      BY <1>16, AppendProperties DEF Deliver, Types, AppType, RecvType
    <2> QED
      BY <1>16, <2>1 DEF Deliver, Types, AppType
  <1>17. CASE RecvRestart
    BY <1>17
       DEF RecvRestart, Listening, Types, AppType, module_vars, poll_vars, recv_vars,
           app_vars, ghosts
  <1>18. CASE clearDioActions
    BY <1>18
       DEF clearDioActions, Types, AppType, module_vars, poll_vars, recv_vars,
           app_vars, ghosts
  <1>19. CASE transmit
    BY <1>19
       DEF transmit, Types, AppType, module_vars, poll_vars, recv_vars, app_vars, ghosts
  <1>20. CASE SendDone
    BY <1>20
       DEF SendDone, Listening, Types, AppType, module_vars, poll_vars, recv_vars,
           app_vars, ghosts
  <1>21. CASE AppTake
    BY <1>21
       DEF AppTake, Types, AppType, module_vars, poll_vars, recv_vars, app_vars, ghosts
  <1>22. CASE AppDrain
    <2>1. queue # <<>> => Tail(queue) \in Seq(Seq(Cells))
      BY HeadTailProperties DEF Types, AppType
    <2> QED
      BY <1>22, <2>1 DEF AppDrain, Types, AppType
  <1>23. CASE UNCHANGED vars
    BY <1>23 DEF vars, Types, AppType, module_vars, poll_vars, recv_vars, app_vars, ghosts
  <1> QED
    BY <1>1, <1>2, <1>3, <1>4, <1>5, <1>6, <1>7, <1>8, <1>9, <1>10, <1>11, <1>12, <1>13, <1>14, <1>15, <1>16, <1>17, <1>18, <1>19, <1>20, <1>21, <1>22, <1>23
       DEF Next, Poll, Receive, App

\* The sending task and the ghosts.
LEMMA RestTypeStep == ASSUME Types, [Next]_vars PROVE RestType'
  <1>1. CASE Arrive
    BY <1>1
       DEF Arrive, Types, RestType, module_vars, poll_vars, recv_vars, app_vars, ghosts
  <1>2. CASE PollRead
    BY <1>2
       DEF PollRead, Types, RestType, module_vars, poll_vars, recv_vars, app_vars,
           ghosts
  <1>3. CASE PollStore
    <2>1. buf \in Packet
      BY <1>3 DEF PollStore, Types, PollType
    <2>2. alone' \in Packet \cup {NoPacket}
      BY <1>3, <2>1 DEF PollStore
    <2>3. send_pc' = send_pc /\ muted' = FALSE
      BY <1>3 DEF PollStore
    <2>4. send_pc' \in {"idle", "transmit", "listen"} /\ muted' \in BOOLEAN
      BY <2>3 DEF Types, RestType
    <2> QED
      BY <2>2, <2>4 DEF RestType
  <1>4. CASE PollCopy
    BY <1>4
       DEF PollCopy, Types, RestType, module_vars, poll_vars, recv_vars, app_vars,
           ghosts
  <1>5. CASE PollCopying
    BY <1>5
       DEF PollCopying, Types, RestType, module_vars, poll_vars, recv_vars, app_vars,
           ghosts
  <1>6. CASE PollCheck
    BY <1>6
       DEF PollCheck, Types, RestType, module_vars, poll_vars, recv_vars, app_vars,
           ghosts
  <1>7. CASE PollCall
    BY <1>7
       DEF PollCall, Types, RestType, module_vars, poll_vars, recv_vars, app_vars,
           ghosts
  <1>8. CASE Start
    BY <1>8
       DEF Start, Listening, Types, RestType, module_vars, poll_vars, recv_vars,
           app_vars, ghosts
  <1>9. CASE RecvTake
    BY <1>9
       DEF RecvTake, Types, RestType, module_vars, poll_vars, recv_vars, app_vars,
           ghosts
  <1>10. CASE getPacketLength
    BY <1>10
       DEF getPacketLength, Types, RestType, module_vars, poll_vars, recv_vars,
           app_vars, ghosts
  <1>11. CASE ReadCheck
    BY <1>11
       DEF ReadCheck, Types, RestType, module_vars, poll_vars, recv_vars, app_vars,
           ghosts
  <1>12. CASE ReadCompare
    BY <1>12
       DEF ReadCompare, Types, RestType, module_vars, poll_vars, recv_vars, app_vars,
           ghosts
  <1>13. CASE ReadOther
    BY <1>13
       DEF ReadOther, Types, RestType, module_vars, poll_vars, recv_vars, app_vars,
           ghosts
  <1>14. CASE ReadCopy
    BY <1>14
       DEF ReadCopy, Types, RestType, module_vars, poll_vars, recv_vars, app_vars,
           ghosts
  <1>15. CASE ReadClear
    BY <1>15
       DEF ReadClear, Types, RestType, module_vars, poll_vars, recv_vars, app_vars,
           ghosts
  <1>16. CASE Deliver
    BY <1>16
       DEF Deliver, Types, RestType, module_vars, poll_vars, recv_vars, app_vars, ghosts
  <1>17. CASE RecvRestart
    BY <1>17
       DEF RecvRestart, Listening, Types, RestType, module_vars, poll_vars, recv_vars,
           app_vars, ghosts
  <1>18. CASE clearDioActions
    BY <1>18
       DEF clearDioActions, Types, RestType, module_vars, poll_vars, recv_vars,
           app_vars, ghosts
  <1>19. CASE transmit
    BY <1>19
       DEF transmit, Types, RestType, module_vars, poll_vars, recv_vars, app_vars,
           ghosts
  <1>20. CASE SendDone
    BY <1>20
       DEF SendDone, Listening, Types, RestType, module_vars, poll_vars, recv_vars,
           app_vars, ghosts
  <1>21. CASE AppTake
    BY <1>21
       DEF AppTake, Types, RestType, module_vars, poll_vars, recv_vars, app_vars, ghosts
  <1>22. CASE AppDrain
    BY <1>22
       DEF AppDrain, Types, RestType, module_vars, poll_vars, recv_vars, app_vars,
           ghosts
  <1>23. CASE UNCHANGED vars
    BY <1>23
       DEF vars, Types, RestType, module_vars, poll_vars, recv_vars, app_vars, ghosts
  <1> QED
    BY <1>1, <1>2, <1>3, <1>4, <1>5, <1>6, <1>7, <1>8, <1>9, <1>10, <1>11, <1>12, <1>13, <1>14, <1>15, <1>16, <1>17, <1>18, <1>19, <1>20, <1>21, <1>22, <1>23
       DEF Next, Poll, Receive, App


-----------------------------------------------------------------------------
(* The inductive invariant.                                                *)

\* startReceive creates one poll task.
PollStarted == polling_active \/ poll_pc = "none"

\* Nobody empties the buffer under the receiving task.
ReadHasPacket == recv_pc \in {"compare", "other", "copy"} => rx_len # 0

\* The receiving task is not after a packet.
Resting == recv_pc \in {"start", "wait", "deliver", "restart"}

\* A packet that came alone: the poll task copies it before anyone is told,
\* and from then on leaves the buffer to the receiving task.
Undisturbed ==
    alone # NoPacket /\ rx_len # 0 =>
        /\ rx_len = alone.size
        /\ poll_pc \in {"copy", "copying"} => buf = alone /\ ~notified /\ Resting
        /\ poll_pc = "copying" => todo = alone.size
        /\ poll_pc # "copy" =>
              \A i \in 1 .. alone.size :
                  (poll_pc = "copying" => i <= done) => rx_buf[i] = alone.id
        /\ recv_pc \in {"check", "compare", "other", "copy"} => want = alone.size
        /\ recv_pc = "copy" =>
              copy = alone.size /\ \A i \in 1 .. Len(out) : out[i] = alone.id

\* A second startReceive finds the task running.
LEMMA StartedStep == ASSUME Types, PollStarted, [Next]_vars PROVE PollStarted'
  <1>1. CASE Arrive
    BY <1>1
       DEF Arrive, Types, PollStarted, module_vars, poll_vars, recv_vars, app_vars,
           ghosts
  <1>2. CASE PollRead
    BY <1>2
       DEF PollRead, Types, PollStarted, module_vars, poll_vars, recv_vars, app_vars,
           ghosts
  <1>3. CASE PollStore
    BY <1>3
       DEF PollStore, Types, PollStarted, module_vars, poll_vars, recv_vars, app_vars,
           ghosts
  <1>4. CASE PollCopy
    BY <1>4
       DEF PollCopy, Types, PollStarted, module_vars, poll_vars, recv_vars, app_vars,
           ghosts
  <1>5. CASE PollCopying
    BY <1>5
       DEF PollCopying, Types, PollStarted, module_vars, poll_vars, recv_vars,
           app_vars, ghosts
  <1>6. CASE PollCheck
    BY <1>6
       DEF PollCheck, Types, PollStarted, module_vars, poll_vars, recv_vars, app_vars,
           ghosts
  <1>7. CASE PollCall
    BY <1>7
       DEF PollCall, Types, PollStarted, module_vars, poll_vars, recv_vars, app_vars,
           ghosts
  <1>8. CASE Start
    BY <1>8
       DEF Start, Listening, Types, PollStarted, module_vars, poll_vars, recv_vars,
           app_vars, ghosts
  <1>9. CASE RecvTake
    BY <1>9
       DEF RecvTake, Types, PollStarted, module_vars, poll_vars, recv_vars, app_vars,
           ghosts
  <1>10. CASE getPacketLength
    BY <1>10
       DEF getPacketLength, Types, PollStarted, module_vars, poll_vars, recv_vars,
           app_vars, ghosts
  <1>11. CASE ReadCheck
    BY <1>11
       DEF ReadCheck, Types, PollStarted, module_vars, poll_vars, recv_vars, app_vars,
           ghosts
  <1>12. CASE ReadCompare
    BY <1>12
       DEF ReadCompare, Types, PollStarted, module_vars, poll_vars, recv_vars,
           app_vars, ghosts
  <1>13. CASE ReadOther
    BY <1>13
       DEF ReadOther, Types, PollStarted, module_vars, poll_vars, recv_vars, app_vars,
           ghosts
  <1>14. CASE ReadCopy
    BY <1>14
       DEF ReadCopy, Types, PollStarted, module_vars, poll_vars, recv_vars, app_vars,
           ghosts
  <1>15. CASE ReadClear
    BY <1>15
       DEF ReadClear, Types, PollStarted, module_vars, poll_vars, recv_vars, app_vars,
           ghosts
  <1>16. CASE Deliver
    BY <1>16
       DEF Deliver, Types, PollStarted, module_vars, poll_vars, recv_vars, app_vars,
           ghosts
  <1>17. CASE RecvRestart
    BY <1>17
       DEF RecvRestart, Listening, Types, PollStarted, module_vars, poll_vars,
           recv_vars, app_vars, ghosts
  <1>18. CASE clearDioActions
    BY <1>18
       DEF clearDioActions, Types, PollStarted, module_vars, poll_vars, recv_vars,
           app_vars, ghosts
  <1>19. CASE transmit
    BY <1>19
       DEF transmit, Types, PollStarted, module_vars, poll_vars, recv_vars, app_vars,
           ghosts
  <1>20. CASE SendDone
    BY <1>20
       DEF SendDone, Listening, Types, PollStarted, module_vars, poll_vars, recv_vars,
           app_vars, ghosts
  <1>21. CASE AppTake
    BY <1>21
       DEF AppTake, Types, PollStarted, module_vars, poll_vars, recv_vars, app_vars,
           ghosts
  <1>22. CASE AppDrain
    BY <1>22
       DEF AppDrain, Types, PollStarted, module_vars, poll_vars, recv_vars, app_vars,
           ghosts
  <1>23. CASE UNCHANGED vars
    BY <1>23
       DEF vars, Types, PollStarted, module_vars, poll_vars, recv_vars, app_vars, ghosts
  <1> QED
    BY <1>1, <1>2, <1>3, <1>4, <1>5, <1>6, <1>7, <1>8, <1>9, <1>10, <1>11, <1>12, <1>13, <1>14, <1>15, <1>16, <1>17, <1>18, <1>19, <1>20, <1>21, <1>22, <1>23
       DEF Next, Poll, Receive, App

\* Only ReadClear empties the buffer.
LEMMA ReadHasStep == ASSUME Types, ReadHasPacket, [Next]_vars PROVE ReadHasPacket'
  <1>1. CASE Arrive
    BY <1>1
       DEF Arrive, Types, ReadHasPacket, module_vars, poll_vars, recv_vars, app_vars,
           ghosts
  <1>2. CASE PollRead
    BY <1>2
       DEF PollRead, Types, ReadHasPacket, module_vars, poll_vars, recv_vars, app_vars,
           ghosts
  <1>3. CASE PollStore
    BY <1>3, BoundAssumption
       DEF PollStore, Types, ReadHasPacket, PollType, Packet, module_vars, poll_vars,
           recv_vars, app_vars, ghosts
  <1>4. CASE PollCopy
    BY <1>4
       DEF PollCopy, Types, ReadHasPacket, module_vars, poll_vars, recv_vars, app_vars,
           ghosts
  <1>5. CASE PollCopying
    BY <1>5
       DEF PollCopying, Types, ReadHasPacket, module_vars, poll_vars, recv_vars,
           app_vars, ghosts
  <1>6. CASE PollCheck
    BY <1>6
       DEF PollCheck, Types, ReadHasPacket, module_vars, poll_vars, recv_vars,
           app_vars, ghosts
  <1>7. CASE PollCall
    BY <1>7
       DEF PollCall, Types, ReadHasPacket, module_vars, poll_vars, recv_vars, app_vars,
           ghosts
  <1>8. CASE Start
    BY <1>8
       DEF Start, Listening, Types, ReadHasPacket, module_vars, poll_vars, recv_vars,
           app_vars, ghosts
  <1>9. CASE RecvTake
    BY <1>9
       DEF RecvTake, Types, ReadHasPacket, module_vars, poll_vars, recv_vars, app_vars,
           ghosts
  <1>10. CASE getPacketLength
    BY <1>10
       DEF getPacketLength, Types, ReadHasPacket, module_vars, poll_vars, recv_vars,
           app_vars, ghosts
  <1>11. CASE ReadCheck
    BY <1>11
       DEF ReadCheck, Types, ReadHasPacket, module_vars, poll_vars, recv_vars,
           app_vars, ghosts
  <1>12. CASE ReadCompare
    BY <1>12
       DEF ReadCompare, Types, ReadHasPacket, module_vars, poll_vars, recv_vars,
           app_vars, ghosts
  <1>13. CASE ReadOther
    BY <1>13
       DEF ReadOther, Types, ReadHasPacket, module_vars, poll_vars, recv_vars,
           app_vars, ghosts
  <1>14. CASE ReadCopy
    BY <1>14
       DEF ReadCopy, Types, ReadHasPacket, module_vars, poll_vars, recv_vars, app_vars,
           ghosts
  <1>15. CASE ReadClear
    BY <1>15
       DEF ReadClear, Types, ReadHasPacket, module_vars, poll_vars, recv_vars,
           app_vars, ghosts
  <1>16. CASE Deliver
    BY <1>16
       DEF Deliver, Types, ReadHasPacket, module_vars, poll_vars, recv_vars, app_vars,
           ghosts
  <1>17. CASE RecvRestart
    BY <1>17
       DEF RecvRestart, Listening, Types, ReadHasPacket, module_vars, poll_vars,
           recv_vars, app_vars, ghosts
  <1>18. CASE clearDioActions
    BY <1>18
       DEF clearDioActions, Types, ReadHasPacket, module_vars, poll_vars, recv_vars,
           app_vars, ghosts
  <1>19. CASE transmit
    BY <1>19
       DEF transmit, Types, ReadHasPacket, module_vars, poll_vars, recv_vars, app_vars,
           ghosts
  <1>20. CASE SendDone
    BY <1>20
       DEF SendDone, Listening, Types, ReadHasPacket, module_vars, poll_vars,
           recv_vars, app_vars, ghosts
  <1>21. CASE AppTake
    BY <1>21
       DEF AppTake, Types, ReadHasPacket, module_vars, poll_vars, recv_vars, app_vars,
           ghosts
  <1>22. CASE AppDrain
    BY <1>22
       DEF AppDrain, Types, ReadHasPacket, module_vars, poll_vars, recv_vars, app_vars,
           ghosts
  <1>23. CASE UNCHANGED vars
    BY <1>23
       DEF vars, Types, ReadHasPacket, module_vars, poll_vars, recv_vars, app_vars,
           ghosts
  <1> QED
    BY <1>1, <1>2, <1>3, <1>4, <1>5, <1>6, <1>7, <1>8, <1>9, <1>10, <1>11, <1>12, <1>13, <1>14, <1>15, <1>16, <1>17, <1>18, <1>19, <1>20, <1>21, <1>22, <1>23
       DEF Next, Poll, Receive, App

\* Every step that stops announcing a packet hands it on.
LEMMA ForgottenStep == ASSUME Types, PollStarted, NoPacketForgotten, [Next]_vars PROVE NoPacketForgotten'
  <1>1. CASE Arrive
    BY <1>1
       DEF Arrive, PollStarted, NoPacketForgotten, module_vars, poll_vars, recv_vars,
           app_vars, ghosts
  <1>2. CASE PollRead
    BY <1>2
       DEF PollRead, PollStarted, NoPacketForgotten, module_vars, poll_vars, recv_vars,
           app_vars, ghosts
  <1>3. CASE PollStore
    BY <1>3
       DEF PollStore, PollStarted, NoPacketForgotten, module_vars, poll_vars,
           recv_vars, app_vars, ghosts
  <1>4. CASE PollCopy
    BY <1>4
       DEF PollCopy, PollStarted, NoPacketForgotten, module_vars, poll_vars, recv_vars,
           app_vars, ghosts
  <1>5. CASE PollCopying
    BY <1>5
       DEF PollCopying, PollStarted, NoPacketForgotten, module_vars, poll_vars,
           recv_vars, app_vars, ghosts
  <1>6. CASE PollCheck
    BY <1>6
       DEF PollCheck, PollStarted, NoPacketForgotten, module_vars, poll_vars,
           recv_vars, app_vars, ghosts
  <1>7. CASE PollCall
    BY <1>7
       DEF PollCall, PollStarted, NoPacketForgotten, module_vars, poll_vars, recv_vars,
           app_vars, ghosts
  <1>8. CASE Start
    BY <1>8
       DEF Start, Listening, PollStarted, NoPacketForgotten, module_vars, poll_vars,
           recv_vars, app_vars, ghosts
  <1>9. CASE RecvTake
    BY <1>9
       DEF RecvTake, PollStarted, NoPacketForgotten, module_vars, poll_vars, recv_vars,
           app_vars, ghosts
  <1>10. CASE getPacketLength
    BY <1>10
       DEF getPacketLength, PollStarted, NoPacketForgotten, module_vars, poll_vars,
           recv_vars, app_vars, ghosts
  <1>11. CASE ReadCheck
    BY <1>11
       DEF ReadCheck, PollStarted, NoPacketForgotten, module_vars, poll_vars,
           recv_vars, app_vars, ghosts
  <1>12. CASE ReadCompare
    BY <1>12
       DEF ReadCompare, PollStarted, NoPacketForgotten, module_vars, poll_vars,
           recv_vars, app_vars, ghosts
  <1>13. CASE ReadOther
    BY <1>13
       DEF ReadOther, PollStarted, NoPacketForgotten, module_vars, poll_vars,
           recv_vars, app_vars, ghosts
  <1>14. CASE ReadCopy
    BY <1>14
       DEF ReadCopy, PollStarted, NoPacketForgotten, module_vars, poll_vars, recv_vars,
           app_vars, ghosts
  <1>15. CASE ReadClear
    BY <1>15
       DEF ReadClear, PollStarted, NoPacketForgotten, module_vars, poll_vars,
           recv_vars, app_vars, ghosts
  <1>16. CASE Deliver
    BY <1>16
       DEF Deliver, PollStarted, NoPacketForgotten, module_vars, poll_vars, recv_vars,
           app_vars, ghosts
  <1>17. CASE RecvRestart
    BY <1>17
       DEF RecvRestart, Listening, PollStarted, NoPacketForgotten, module_vars,
           poll_vars, recv_vars, app_vars, ghosts
  <1>18. CASE clearDioActions
    BY <1>18
       DEF clearDioActions, PollStarted, NoPacketForgotten, module_vars, poll_vars,
           recv_vars, app_vars, ghosts
  <1>19. CASE transmit
    BY <1>19
       DEF transmit, PollStarted, NoPacketForgotten, module_vars, poll_vars, recv_vars,
           app_vars, ghosts
  <1>20. CASE SendDone
    BY <1>20
       DEF SendDone, Listening, PollStarted, NoPacketForgotten, module_vars, poll_vars,
           recv_vars, app_vars, ghosts
  <1>21. CASE AppTake
    BY <1>21
       DEF AppTake, PollStarted, NoPacketForgotten, module_vars, poll_vars, recv_vars,
           app_vars, ghosts
  <1>22. CASE AppDrain
    BY <1>22
       DEF AppDrain, PollStarted, NoPacketForgotten, module_vars, poll_vars, recv_vars,
           app_vars, ghosts
  <1>23. CASE UNCHANGED vars
    BY <1>23
       DEF vars, PollStarted, NoPacketForgotten, module_vars, poll_vars, recv_vars,
           app_vars, ghosts
  <1> QED
    BY <1>1, <1>2, <1>3, <1>4, <1>5, <1>6, <1>7, <1>8, <1>9, <1>10, <1>11, <1>12, <1>13, <1>14, <1>15, <1>16, <1>17, <1>18, <1>19, <1>20, <1>21, <1>22, <1>23
       DEF Next, Poll, Receive, App

\* What came alone stays whole until it is read.
LEMMA UndisturbedStep == ASSUME Types, PollStarted, ReadHasPacket, Undisturbed, [Next]_vars PROVE Undisturbed'
  <1>1. CASE Arrive
    BY <1>1
       DEF Arrive, Undisturbed, Resting, module_vars, poll_vars, recv_vars, app_vars,
           ghosts
  <1>2. CASE PollRead
    BY <1>2
       DEF PollRead, Undisturbed, Resting, module_vars, poll_vars, recv_vars, app_vars,
           ghosts
  <1>3. CASE PollStore
    BY <1>3
       DEF PollStore, Undisturbed, Resting, Free, module_vars, poll_vars, recv_vars,
           app_vars, ghosts
  <1>4. CASE PollCopy
    BY <1>4
       DEF PollCopy, Undisturbed, Resting, module_vars, poll_vars, recv_vars, app_vars,
           ghosts
  <1>5. CASE PollCopying
    <2> SUFFICES ASSUME alone # NoPacket, rx_len # 0 PROVE Undisturbed'
      BY <1>5 DEF PollCopying, Undisturbed, ghosts
    <2>1. /\ rx_len = alone.size /\ todo = alone.size
          /\ buf = alone /\ ~notified /\ Resting
          /\ \A i \in 1 .. alone.size : i <= done => rx_buf[i] = alone.id
      BY <1>5 DEF PollCopying, Undisturbed
    <2>2. ASSUME NEW i \in 1 .. alone.size, i <= done + 1 PROVE rx_buf'[i] = alone.id
      <3>1. /\ done \in 0 .. todo /\ done < todo /\ rx_len \in 0 .. BufCells
            /\ rx_buf \in [1 .. BufCells -> Cells]
        BY <1>5 DEF PollCopying, Types, PollType, ModuleType
      <3>2. rx_buf' = [rx_buf EXCEPT ![done + 1] = alone.id]
        BY <1>5, <2>1 DEF PollCopying
      <3>3. CASE i = done + 1
        BY <2>1, <3>1, <3>2, <3>3, BoundAssumption
      <3>4. CASE i # done + 1
        BY <2>1, <2>2, <3>1, <3>2, <3>4, BoundAssumption
      <3> QED
        BY <3>3, <3>4
    <2> QED
      BY <1>5, <2>1, <2>2 DEF PollCopying, Undisturbed, Resting, recv_vars, ghosts
  <1>6. CASE PollCheck
    BY <1>6
       DEF PollCheck, Undisturbed, Resting, module_vars, poll_vars, recv_vars,
           app_vars, ghosts
  <1>7. CASE PollCall
    BY <1>7
       DEF PollCall, Undisturbed, Resting, module_vars, poll_vars, recv_vars, app_vars,
           ghosts
  <1>8. CASE Start
    BY <1>8
       DEF Start, Listening, Undisturbed, Resting, PollStarted, module_vars, poll_vars,
           recv_vars, app_vars, ghosts
  <1>9. CASE RecvTake
    BY <1>9
       DEF RecvTake, Undisturbed, Resting, module_vars, poll_vars, recv_vars, app_vars,
           ghosts
  <1>10. CASE getPacketLength
    BY <1>10
       DEF getPacketLength, Undisturbed, Resting, module_vars, poll_vars, recv_vars,
           app_vars, ghosts
  <1>11. CASE ReadCheck
    BY <1>11
       DEF ReadCheck, Undisturbed, Resting, module_vars, poll_vars, recv_vars,
           app_vars, ghosts
  <1>12. CASE ReadCompare
    <2>1. alone # NoPacket /\ rx_len # 0 => want = rx_len /\ rx_len \in 0 .. BufCells
      BY <1>12 DEF ReadCompare, Undisturbed, Types, ModuleType
    <2>2. alone # NoPacket /\ rx_len # 0 => recv_pc' = "other"
      BY <1>12, <2>1, BoundAssumption DEF ReadCompare
    <2> QED
      BY <1>12, <2>2 DEF ReadCompare, Undisturbed, Resting, module_vars, poll_vars, ghosts
  <1>13. CASE ReadOther
    <2>1. out' = <<>> /\ Len(<<>>) = 0
      BY <1>13 DEF ReadOther, Types, RecvType
    <2>2. \A i \in 1 .. Len(out') : out'[i] = alone'.id
      BY <2>1
    <2> QED
      BY <1>13, <2>2 DEF ReadOther, Undisturbed, Resting, module_vars, poll_vars, ghosts
  <1>14. CASE ReadCopy
    <2> SUFFICES ASSUME alone # NoPacket, rx_len # 0 PROVE Undisturbed'
      BY <1>14 DEF ReadCopy, Undisturbed, ghosts, module_vars
    <2>1. /\ rx_len = alone.size /\ copy = alone.size
          /\ poll_pc \notin {"copy", "copying"}
          /\ \A i \in 1 .. alone.size : rx_buf[i] = alone.id
          /\ \A i \in 1 .. Len(out) : out[i] = alone.id
      BY <1>14 DEF ReadCopy, Undisturbed, Resting
    <2>2. out \in Seq(Cells) /\ Len(out) < copy /\ Len(out) \in Nat /\ copy \in Nat
      BY <1>14, LenProperties, BoundAssumption DEF ReadCopy, Types, RecvType
    <2>3. rx_buf[Len(out) + 1] = alone.id /\ rx_buf[Len(out) + 1] \in Cells
      <3>1. Len(out) + 1 \in 1 .. alone.size /\ Len(out) + 1 \in 1 .. BufCells
        BY <2>1, <2>2, BoundAssumption DEF Types, RecvType
      <3> QED
        BY <2>1, <3>1 DEF Types, ModuleType
    <2>4. /\ Len(out') = Len(out) + 1
          /\ \A i \in 1 .. Len(out) : out'[i] = out[i]
          /\ out'[Len(out) + 1] = alone.id
      BY <1>14, <2>2, <2>3, AppendProperties DEF ReadCopy
    <2>5. \A i \in 1 .. Len(out') : out'[i] = alone.id
      BY <2>1, <2>2, <2>4
    <2> QED
      BY <1>14, <2>1, <2>5
         DEF ReadCopy, Undisturbed, Resting, module_vars, poll_vars, ghosts
  <1>15. CASE ReadClear
    BY <1>15
       DEF ReadClear, Undisturbed, Resting, module_vars, poll_vars, recv_vars,
           app_vars, ghosts
  <1>16. CASE Deliver
    BY <1>16
       DEF Deliver, Undisturbed, Resting, module_vars, poll_vars, recv_vars, app_vars,
           ghosts
  <1>17. CASE RecvRestart
    BY <1>17
       DEF RecvRestart, Listening, Undisturbed, Resting, PollStarted, module_vars,
           poll_vars, recv_vars, app_vars, ghosts
  <1>18. CASE clearDioActions
    BY <1>18
       DEF clearDioActions, Undisturbed, Resting, module_vars, poll_vars, recv_vars,
           app_vars, ghosts
  <1>19. CASE transmit
    BY <1>19
       DEF transmit, Undisturbed, Resting, module_vars, poll_vars, recv_vars, app_vars,
           ghosts
  <1>20. CASE SendDone
    BY <1>20
       DEF SendDone, Listening, Undisturbed, Resting, PollStarted, module_vars,
           poll_vars, recv_vars, app_vars, ghosts
  <1>21. CASE AppTake
    BY <1>21
       DEF AppTake, Undisturbed, Resting, module_vars, poll_vars, recv_vars, app_vars,
           ghosts
  <1>22. CASE AppDrain
    BY <1>22
       DEF AppDrain, Undisturbed, Resting, module_vars, poll_vars, recv_vars, app_vars,
           ghosts
  <1>23. CASE UNCHANGED vars
    BY <1>23
       DEF vars, Undisturbed, Resting, module_vars, poll_vars, recv_vars, app_vars,
           ghosts
  <1> QED
    BY <1>1, <1>2, <1>3, <1>4, <1>5, <1>6, <1>7, <1>8, <1>9, <1>10, <1>11, <1>12, <1>13, <1>14, <1>15, <1>16, <1>17, <1>18, <1>19, <1>20, <1>21, <1>22, <1>23
       DEF Next, Poll, Receive, App


-----------------------------------------------------------------------------
(* The theorems.                                                           *)

IInv == /\ Types
        /\ PollStarted
        /\ ReadHasPacket
        /\ NoPacketForgotten
        /\ Undisturbed

\* Nothing is received yet.
LEMMA InitIInv == Init => IInv
  <1> SUFFICES ASSUME Init PROVE IInv
    OBVIOUS
  <1>1. ChannelType /\ AppType
    <2>1. <<>> \in Seq(Packet) /\ <<>> \in Seq(Seq(Cells))
      OBVIOUS
    <2>2. 0 \in 0 .. MaxPackets
      BY BoundAssumption
    <2>3. ChannelType
      BY <2>1, <2>2 DEF Init, ChannelType
    <2>4. AppType
      BY <2>1 DEF Init, AppType
    <2> QED
      BY <2>3, <2>4
  <1>2. PollType
    BY BoundAssumption DEF Init, PollType
  <1>3. ModuleType
    <2>1. [i \in 1 .. BufCells |-> 0] \in [1 .. BufCells -> Cells]
      <3>1. 0 \in Cells
        BY BoundAssumption DEF Cells
      <3> QED
        BY <3>1
    <2>2. rx_buf \in [1 .. BufCells -> Cells]
      BY <2>1 DEF Init
    <2>3. rx_len \in 0 .. BufCells
      BY BoundAssumption DEF Init
    <2> QED
      BY <2>2, <2>3 DEF Init, ModuleType
  <1>4. RecvType
    BY BoundAssumption DEF Init, RecvType
  <1>5. RestType
    BY DEF Init, RestType
  <1>6. PollStarted /\ ReadHasPacket /\ NoPacketForgotten /\ Undisturbed
    BY
       DEF Init, PollStarted, ReadHasPacket, NoPacketForgotten, Undisturbed
  <1> QED
    BY <1>1, <1>2, <1>3, <1>4, <1>5, <1>6 DEF IInv, Types

\* Every step keeps every part.
LEMMA StepIInv == IInv /\ [Next]_vars => IInv'
  <1> SUFFICES ASSUME IInv, [Next]_vars PROVE IInv'
    OBVIOUS
  <1>1. Types'
    BY ChannelTypeStep, PollTypeStep, ModuleTypeStep, RecvTypeStep, AppTypeStep, RestTypeStep
       DEF IInv, Types
  <1> QED
    BY <1>1, StartedStep, ReadHasStep, ForgottenStep, UndisturbedStep DEF IInv

\* The invariant holds in every reachable state (LM_NexusModule.cpp:127-238).
THEOREM NexusInvariant == Spec => []IInv
  BY InitIInv, StepIInv, PTL DEF Spec

\* Type correctness of the adapter and of the tasks around it.
THEOREM NexusTypeOK == Spec => []TypeOK
  <1>1. IInv => TypeOK
    BY
       DEF IInv, Types, ChannelType, PollType, ModuleType, RecvType, AppType, RestType,
           TypeOK
  <1> QED
    BY <1>1, NexusInvariant, PTL

\* However the tasks interleave and however many packets come, none is left
\* in the buffer unannounced, but during a transmission
\* (LM_NexusModule.cpp:141-149, 158-166).
THEOREM NexusNoPacketForgotten == Spec => []NoPacketForgotten
  <1>1. IInv => NoPacketForgotten
    BY DEF IInv
  <1> QED
    BY <1>1, NexusInvariant, PTL

\* A packet that comes alone is handed out whole, unmixed and no longer than
\* asked for, whatever the sizes of the packets and of the buffer
\* (LM_NexusModule.cpp:141-166).
THEOREM NexusIntactWhenAlone == Spec => IntactWhenAlone
  <1>1. IInv /\ [Next]_vars =>
          [ReadClear /\ alone # NoPacket =>
              /\ out = [i \in 1 .. alone.size |-> alone.id]
              /\ Len(out) <= want]_vars
    <2> SUFFICES ASSUME IInv, ReadClear, alone # NoPacket
                 PROVE  /\ out = [i \in 1 .. alone.size |-> alone.id]
                        /\ Len(out) <= want
      OBVIOUS
    <2>1. recv_pc = "copy" /\ rx_len # 0 /\ Len(out) = copy
      BY DEF ReadClear, IInv, ReadHasPacket
    <2>2. /\ copy = alone.size /\ want = alone.size
          /\ \A i \in 1 .. Len(out) : out[i] = alone.id
      BY <2>1 DEF IInv, Undisturbed
    <2>3. out \in Seq(Cells) /\ copy \in Nat
      BY BoundAssumption DEF IInv, Types, RecvType
    <2>4. out = [i \in 1 .. Len(out) |-> out[i]]
      BY <2>3
    <2>5. Len(out) <= want
      BY <2>1, <2>2, <2>3
    <2> QED
      BY <2>1, <2>2, <2>4, <2>5
  <1> QED
    BY <1>1, NexusInvariant, PTL DEF Spec, IntactWhenAlone
=============================================================================
