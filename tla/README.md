# Formal models of lora-multihop

TLA+ specifications of the multihop LoRa protocol in `src/lib/net` and of the
node program `src/multihop/node` that drives it, and of the radio module that
`src/loramesh/node` gives to LoRaMesher, with TLC configurations that check them
on small instances and TLAPS proofs for instances of any size.

## The system

A network is a tree rooted at a gateway.  Time is cut into superframes; a
superframe starts at every multiple of `SUPERFRAME_FREQUENCY_S` of the nodes'
real-time clocks and has an active window of `SUPERFRAME_SLOT_COUNT` slots.
Slot 0 is the advertising slot: nodes find their ring (hop distance), some
volunteer as clusterheads, the others join one.  The remaining slots are
divided into `REUSE_DISTANCE` windows, one for the clusterheads of each ring
modulo the reuse distance; in a window the followers of a clusterhead send
their data in one slot each and the clusterhead answers with its acks in the
last.

### Inventory

| Component | State | Operations | Hard behaviour | What makes it correct |
|---|---|---|---|---|
| Superframe clock (`link_layer.cpp`, `net.cpp`, `time_helpers.cpp`) | `MAC_STATE` (start and end of the window), the RTC | `init`, `active_slot`, `current_slot`, `epoch_and_offset`/`slot_time`, `sleep_until`, window refresh in `flush` and `recv`, time sync on an Accept | every step reads the clock again; the window is refreshed lazily; the clock moves backwards | windows stay on the common grid; a node acts only in the grid's slot; an on-time wake finds the planned slot; no sync strands a node |
| Millisecond deadlines (`time_helpers.cpp`) | `MsDeadline` | constructor, `reached`, `millis_until`, the phase loops of `multihop.cpp` | `millis()` wraps; two readings per iteration | phases are not cut short, not overstayed, and end |
| Cluster formation (`do_advertise`, `run_clusterhead_announcement`, `run_clusterhead_joining`) | `STATE` (role, ring, slot table, clusterhead, relative slot), the locals of the phases | volunteer, announce, give way, follow, accept or refuse, join, promote, next round | unsynchronised phases; lost frames; failed sends that leave a message queued; retries over rounds; roles that change within a superframe | the two ends of an assignment agree; a table is a lease; whoever is followed acts as clusterhead; following leads towards the gateway |
| Data slots (`do_clusterhead_recv`, `do_clusterhead_send`, `do_follower_send`, `do_follower_recv`, `loop()`) | `STATE.acks`, clusterhead, CDMA code, transmit buffer | receive data, send acks, send data, receive acks | one buffer shared by forwarding and acks; nodes that wake late; codes reused by other clusters | no datagram taken twice; acks are truthful; data moves only towards the gateway; forwarded data is not lost |
| Link layer (`link_layer.cpp`) | transmit buffer, receive cursor | `sendmsg`, `flush`, `recv`, `getmsg` | failed flush, full buffer, garbled frames, a cursor left in an old frame | the buffer never overflows; what is queued is handed out at most once, in order |
| Ring discovery (`run_neighbor_discovery`, `multihop_state.cpp`) | neighbour list, ring, unstable rounds | gossip, `add_neighbor`, `update_ring_from_neighbors` | hysteresis, counting to infinity, byte wrap | no node believes itself closer to the gateway than it is; it is at most one ring above the nearest neighbour it heard; a ring is only given up after several rounds without a lower neighbour |
| Messages and fragments (`multihop_messages.cpp`) | iterator offset | `decode_msg`, `Message::size`, `DatagramIterator`, sizes of `SendAcks` | sizes with and without headers; acks cut to the room left | a fragment carries the number of its place, whatever was refused before it; what one node composes another decodes |
| Node program (`multihop/node/src/main.cpp`) | position in `loop()`, `STATE` as advertising left it | `setup`, and for each duty of its roles: plan, sleep, call | lateness carried from slot to slot; a clock set back or forward by an Accept; windows of the last superframe; windows in the wrong order | every duty is done in its slot, on its code, in the superframe that assigned it; a node advertises in every superframe it is in time for |
| LoRa radio (`LoraRadio.cpp`) | `INITIALIZED`, `RF95`, `SPREAD` | `init`, `deinit`, `set_spreading_factor`, `send`, `wait_recv` | open and close fail and nobody looks; a receive with timeout 0 | the radio is on the code set last; a receive ends |
| LoRaMesher adapter (`LM_NexusModule.cpp`, `loramesh/node/src/main.cpp`) | one receive buffer, its length, the receive action, the poll task | `pollTask`, `readData`, `getPacketLength`, `startReceive`, `clearDioActions`, `transmit`, `appRecvTask` | four tasks and no lock | what lies in the buffer has somebody to fetch it; a packet that meets no other is read whole; the application's queue is emptied |
| TDMA demo, point-to-point examples, Arduino stubs | see `PROJECT.json` | | | |

How they interact: `loop()` asks the clock for the epoch of its next slot,
sleeps, and calls the protocol function of that slot; the function asks
`active_slot` again and does nothing in any other slot.  Protocol functions
queue messages with `sendmsg`, transmit the whole buffer with `flush` and read
frames message by message with `recv` and `getmsg`.  A receive is meant to block at
most until the deadline of the phase.  Nodes interact only by frames, and by the
clock value an Accept carries.  A node is a single thread: all concurrency is
between nodes.  Only a LoRaMesher node has tasks: the adapter's poll task calls
an action that notifies LoRaMesher's receive task, which reads the packet and
notifies the application's, while another task sends.

The hazards, each at its line and with the properties that would catch it, are
in `PROJECT.json`.

## The modules

| Module | What it is |
|---|---|
| `TdmaClock` | the superframe clock of one node, its main loop's plan / sleep / act, and time synchronisation |
| `LoraRadio` | operators: the radio wrapper's static state |
| `Superframe` | `loop()` of one node with its duties, lateness and radio, on top of `TdmaClock` and `LoraRadio` |
| `PhaseTimer` | `MsDeadline` and a phase loop running on it, with either radio driver |
| `RingDiscovery` | neighbour discovery of all nodes over any number of superframes |
| `SlotLayout` | constants of the superframe's layout, shared by the protocol modules and the loop |
| `SlotLease` | abstract: what a clusterhead promises about its slots |
| `ClusterFormation` | the announcement and joining rounds of all nodes |
| `Convergecast` | the data slots of all nodes on a formed tree |
| `LinkBuffer` | the link layer's buffers, with the acks and fragments that fill them |
| `NexusModule` | the LoRaMesher adapter's receive buffer and the tasks around it |
| `MCClusterFormation`, `MCConvergecast`, `MCRingDiscovery`, `MCLinkBuffer` | topologies and message sizes for TLC |
| `TdmaClockProof`, `SuperframeProof`, `PhaseTimerProof`, `RingDiscoveryProof`, `ClusterFormationProof`, `ConvergecastProof`, `LinkBufferProof`, `NexusModuleProof` | theorems and their proofs |

`PROJECT.json` maps every definition to the lines it models.  Operators whose
name ends in `_Something` and whose comment begins "Mutant:" are wrong variants
of the definition that follows them; putting one in that definition's place
makes the property listed with it fail.

**TdmaClock.**  `window` is `MAC_STATE`, `now` the clock.  `Rolled` is the
refresh every entry point begins with, `current_slot`, `next_time_interval` and
`Offset` are the arithmetic of the functions of that name (`Offset` of
`epoch_and_offset`).  `pc`, `target` and `epoch` are the main loop's position
and locals.  Planning, waking and acting are separate actions because each
reads the clock on its own; `Tick` may come between any two.  `TimeSync` sets
the clock to any value within `MAX_TIME_SYNC_DRIFT_S`, as
`run_clusterhead_joining` does.

**Superframe** and **LoraRadio.**  `Superframe` adds the loop to the clock: every
one of its steps is a step of `TdmaClock` (`LoopUsesClock` is the theorem) and
moves the loop besides.  `Duties` is what `loop()` does with the state that
advertising left: `duty` indexes it, 0 being the advertising slot; a duty's
`base` is the `downstream_start_slot` or `upstream_start_slot` it counts from.  `Plan` is
`epoch_and_offset`, `Wake` the end of `sleep_until`, `Tune`/`Skip` the
`active_slot` a protocol function begins with, `Transmit` and `Listen`/`Heard`
the rest of it; `HeardOther`/`ListenAgain` is the loop of `do_follower_recv`,
which asks for its slot again after a strange frame.  Advertising takes a slot's
length (`left` counts it down); what happens in it appears as far as the clock,
the radio and the state see it: receives and sends that may refresh the window, Accepts
that set the clock to that of a clusterhead which began to advertise in its own
slot 0, a ring of `Rings`, a promotion with some slots assigned.  `lag` is the
time a node loses, awake, in one `loop()`; nothing else takes time.  `frame`
and `missed` are ghost variables.  `LoraRadio` is the simulator's wrapper: its
operators return the set of states a call may leave, since `open` and `close`
may fail and `link_layer.cpp` ignores it.

**PhaseTimer.**  `Continue`/`Finish` are the loop's test, `Ask` its second
reading of `millis()`, `RecvReturns` the receive.  `MODULUS` is 2^32.  `elapsed`
is real time since the start, a ghost variable.  `Blocking` is what
`lora::wait_recv` makes of a timeout: in the simulator's build it blocks that
long; in the RF95's (`WaitsForever`) a timeout of 0 means no limit.

**RingDiscovery.**  `list` is `STATE.neighbors`, reduced to its first ring and
which of its entries count any; `rounds` is `rounds_without_lower`, `info` and
`announced` are the loop's locals.  An iteration is `Recv`, a `Hear` for every
heartbeat in the frame, and `Iterate`, which updates the ring and may announce;
an iteration without a frame is `Iterate` alone, and there may be any number of
them, because a deadline is not reached while the clock equals it and the
receive then returns at once.  Nodes are in the same superframe or in adjacent
ones (`parity`), so a frame a driver holds may be a superframe old.  `nearest`
and `dry` are ghost variables.

**ClusterFormation.**  `phase[n]` counts the phases of `do_advertise`; `DATA` is
everything after it.  Every node has its own phase, at most `MaxSkew` ahead of
any other, since phases end by local deadlines.  `parity` tells two
consecutive superframes apart.  `slots`, `parent`, `rel`, `role`, `ring` are the
fields of `STATE`; `cands`, `bid`, `join` and `isCH` the locals of the phase
functions (`bid` folds `is_clusterhead` and `need_to_announce` of one round).
`tx` is the transmit buffer, a sequence of messages of at most `TxCap`; `inbox`
the frames the driver holds; `rx` what `getmsg` has not handed out of the
current frame.  A flush makes one frame of the whole buffer and delivers it to
any subset of the nodes in range; a failed flush leaves the buffer as it was
and delivers to nobody.  The ring discovery ends in is any of `Rings[n]`.  The
draws of `rand()` are nondeterministic choices.  Clearing the table when a node is promoted
(`prepare_clusterhead`) is in `BeginAnnouncement` and `Join`.

**Convergecast.**  `todo[n]` is what `loop()` still has to do up to the current
slot.  A `Late` node may carry one task into the next slot.  Each protocol
function is one action up to its `recv` and one after it, so other nodes send
in between; `code` is the CDMA code set last and `held` the one frame the driver
holds.  `Received` is the loop over a frame's messages in `do_clusterhead_recv`,
the state after each message computed from the one before.  `Stale` lets an idle radio receive and keep a frame across a retune or
lose it, because drivers differ.  `mine`, `took` and `faulty` are ghost
variables.  The clusters are given: every node of the tree that has joined
follows its `Parent`, and a node that missed its Accept follows nobody.
`Advertise` stands for the advertising slot.

**LinkBuffer.**  One node sends, another receives.  `tx` is the queue of message
numbers and sizes, `tx_msg_count` and `tx_bytes_queued` the counters that every
decision is made by; `rx_cursor` says whether the cursor points into the frame in
`rx_buf`, `rx_msg_num` how far it got.  `EmitAcks` is one round of the loop in
`emit_ch_messages`; `send_acks` computes what fits without the message's length
prefix, so its message may be refused whole, or have an empty range and still
be sent, for `decode_msg` of the receiver to drop.  `size`, `Content` and
`decode_msg` keep of a message its type, its size and the number of acks or
bytes it announces (`n`).  `SendDatagram` is `send_datagram` with
`DatagramIterator`, whose `next` and `rewind` are `Advanced` and `Rewound`; it
rewinds when the fragment alone does not fit, and not when only its headers do
not, so such a fragment is skipped.  A `Flush` is refused, or its frame is lost, garbled or held by the
receiver's driver.  `sent` and `handed`, the numbers of the last message queued
and handed out, are ghost variables.

**NexusModule.**  `rx_len`, `rx_buf`, `dio_rx_action`, `polling_active` are the
module's members; a packet is a number of cells that `memcpy` moves one by one.
The poll task's body is five actions (`PollRead`, `PollStore`,
`PollCopy`/`PollCopying`, `PollCheck`, `PollCall`), `readData`'s four
(`ReadCheck`, `ReadCompare`/`ReadOther`, `ReadCopy`, `ReadClear`): the members are
plain, so what the compiler may load twice is loaded twice.  `PollCall` may find
the action cleared since `PollCheck`, and then the process is gone.  LoRaMesher is
external: its receive task is `RecvTake`, `Deliver` and the calls it is given to
make in between, its sending task clears the action, transmits and starts to
receive again.  `alone` (the packet in the buffer if no other came near it)
and `muted` (it came while no action was set) are ghost variables.

**SlotLease** and the refinement.  `SlotLease` says: within a superframe a slot
once granted stays with its follower, and nobody is granted two.
`ClusterFormation!Lease(n)` instantiates it for every node with `lease` mapped
to the node's table while it acts as a clusterhead, and to no lease at all
otherwise.  `LeasesSlots` is the statement that every node's table implements
`LeaseSpec`, written out as an initial predicate and an action property.

## What the runs check

| Run | Question | Answer |
|---|---|---|
| `Superframe` | one node's `loop()` with the program's own parameters (22 slots of 3 s every 71 s, sync up to 60 s), three superframes, up to two seconds late in each | the clock: windows stay on the grid (`WindowAligned`), a node acts only in the grid's slot (`ActsInGridSlot`), no sync strands it (`NeverStranded`), an on-time wake finds its slot (`OnTimeWakeHitsSlot`). The loop: every duty finds the slot it planned (`DutyInItsSlot`), in the superframe that assigned it (`FreshAssignment`), on its code (`OnItsCode`), and a node advertises in every superframe but those it is late for (`AdvertisesEachSuperframe`) |
| `PhaseTimer` | phases that end before the counter wraps | not cut short, `recv` is never told to block past the end, left within one iteration, and they end |
| `PhaseTimerRadio` | do phases end with the RF95 driver? | no: read exactly at its deadline the clock has not passed it, the time left is 0, and a receive with timeout 0 waits for a frame |
| `Rings` | 0 - 1 - 2, loss, failed sends, frames a superframe old, any number of superframes | rings go up to the unknown ring and settle again; never below the hop count (`RingNotBelowHops`), never more than one above the nearest ring heard (`OneAboveNearest`) |
| `RingDrift` | does a ring only go up after `RING_HYSTERESIS_THRESHOLD` rounds without a lower neighbour? | no: the loop updates the ring in every iteration, and one superframe has many |
| `Chain` | 0 - 1 - 2, two rounds, loss, refused sends, one-message buffers, skew of two phases | `AssignmentAgrees` and `LeasesSlots` hold across superframes, with messages left over from earlier phases |
| `Diamond` | two relays that compete for node 4, and a leaf beside them; windows of three slots, one of which is a follower's and listened in; no loss, timely phases | both ends agree on a slot; whoever is followed acts as clusterhead and is closer to the gateway; a node that a clusterhead reaches is left out only if the clusterhead's slot is taken, or its better candidate gave way and does not answer (`ServedUpToCapacity`) |
| `Converge` | two superframes of data on 0 - 1 - 2 - 3 with loss, refused sends, a late node, stale frames | no duplicate, no false ack, no backflow; every ack arrives when nothing goes wrong |
| `Custody` | is what a relay takes kept until its clusterhead has it? | no, without any fault: it leaves with the relay's own acks, on the followers' code, and the buffer is truncated |
| `LinkBuffer` | acks, fragments and other messages compete for a buffer of 12 bytes, over refused flushes and lost or garbled frames | no overflow (`NeverOverflows`), nothing handed out twice or out of order (`HandsOutOnce`), fragments numbered by their place (`FragmentNumbered`), every message of the size its receiver computes (`Decodable`), and `emit_ch_messages` ends (`EmitEnds`) |
| `NexusModule` | poll task, receive task, sending task and application around one buffer, interleaved between any two steps | what lies in the buffer has somebody on the way to fetch it (`NoPacketForgotten`), and does not stay there (`Drained`), unless it came during a transmission; a packet that meets no other is read whole, and no longer than asked for (`IntactWhenAlone`); the application empties its queue (`AppGetsAll`). Of packets that meet nothing is promised: see below |
| `TwinAcks` | are acks truthful with two clusterheads of one ring in reach? | no: slot, code and sequence numbers coincide and the sender is not compared |

The types of a module's variables (`TypeOK`) are an invariant of one of its
runs, except that those of `TdmaClock` are part of `LoopTypeOK` of `Superframe`
and those of `PhaseTimer` are proved (`PhaseTypeOK`) and in no run.

The runs that end in a counterexample are the disagreements between the code
and its comments listed under "findings"; each quotes the comment.

What the modelling showed besides, in the code:

- `accept` (multihop.cpp:391) grants slots while `slots_assigned` is below the
  window's length, so the last slot, in which the clusterhead sends its acks and
  does not listen, goes to a follower too, although the comments at
  multihop.cpp:211 and main.cpp:28 keep it for the clusterhead.  `TypeOK` of
  `ClusterFormation` has tables of that size; `ServedUpToCapacity` counts the
  slots that are listened in (`Spent`), and holds whether or not the last one is
  granted.
- A candidate that announced itself and then gave way to another clusterhead
  refuses nobody: it does not answer (multihop.cpp:606-611), and a node that asked
  it waits until the round ends, although its second candidate has slots to
  spare.  The same holds of a candidate that does not hear the node.  In
  `ServedUpToCapacity` it is the exception `Mute`, and `Diamond` has it: without
  that disjunct TLC finds node 4 asking the relay that gave way.
- A node that wakes for its advertising slot a second after it has ended rounds
  its stale window up (link_layer.cpp:102-108) and so misses the whole superframe
  (`missed` in `AdvertisesEachSuperframe` counts these).
- A relay whose windows are in the wrong order, promoted in ring 3 or in an
  unknown one (multihop.cpp:219), plans its own data slot in the next superframe,
  wakes there with the window of the last, is told -1 by `active_slot`, and does
  not send.  It listens for acks another superframe later, and advertises again
  in the superframe after that: it has lost two, besides one it may wake late for.
- An announcement whose flush failed stays in the transmit buffer, with the ring
  of its superframe in it, and goes out with the first flush of the next, when
  its sender may have another ring.  The test of multihop.cpp:643, which is to
  rule out a "chain inversion", then compares with a ring that is no longer
  true, and a node may follow a clusterhead of its own ring.  TLC finds this on
  `Chain`'s network with `NUM_ADV_ROUNDS` = 3, `TxCap` = 2, `Rings[1]` = {1, 2}
  and node 2 opted out; the runs that check `FollowsCloser` leave failed flushes
  out, its theorem has the exact condition.
- A burst on a LoRaMesher node loses, repeats or garbles packets, since one
  buffer holds the last (LM_NexusModule.cpp:141-166).  A packet stored while the
  reader copies the one before is wiped with it, unread.  A notification left over
  from a burst makes the reader read while the next packet's length is
  stored and its bytes are not: it hands out the last packet once more, and wipes
  the next.  And the length that `readData` compares may be that of another packet
  than the length it copies, so that the caller's buffer gets more than it asked
  for.  `IntactWhenAlone` says what is left: a packet that meets no other.
- On a LoRaMesher node a transmission that begins between the test of the receive action
  and its call (LM_NexusModule.cpp:147-148) may call a null pointer.

### Bounds, and why they are enough

- `Superframe`: `Horizon` = 220 covers three superframes of 71 s, so refreshes
  happen late, early, before, in and after a window, and a sync crosses every
  boundary.  The clock stops at `Horizon`, hence `CHECK_DEADLOCK FALSE`.
  `Rings` = {1, 2, 255} has windows in the right order and, with the unknown ring,
  in the wrong one.  `MaxLag` = 2 is the most that keeps a duty in its slot of
  3 s.  The theorems depend on none of these.
- `NexusModule`: three packets, so that one may be stored while another is read
  and a third announced; two cells, so that packets differ in size and a copy can
  be of two.
- `PhaseTimer`: the modulus 40 stands for 2^32; start readings, durations and
  lag are such that a phase ends before the wrap.
- `Rings`: three rings and the unknown one, two entries in a list and a
  threshold of two rounds, so that lists shift, drop what is too far, and rings
  count up to the unknown one within the bounds; `TxCap` and `RxCap` of one make
  a leftover heartbeat block the next.  `ChainRange` leaves out the frames to
  the gateway, which ignores them.  `DryBound` bounds the ghost variable `dry`,
  which no property of `Rings` reads.  `RingDrift` has more rings and a threshold
  of three, so that several iterations of one superframe are needed to refute.
- `Chain`: the smallest network with a node that follows and leads at once, and
  two rounds, so that an assignment made in one round is asked for again in the
  other.  `TxCap` = 1 makes a leftover message block the next.
- `Diamond`: two volunteers of one ring in range of each other, a node that
  hears both, and a leaf that hears neither; windows of three slots, of which one
  is a follower's and listened in, so that they fill up and the last slot is
  granted, too.  Of the two relays the one with the lower address gives way, and
  `LowerFirst` makes it the better candidate, so node 4 may ask it in vain.
  A second candidate that accepts after the first has refused needs six nodes,
  and is in no run.
- `Converge`: a relay that follows and leads, a relay above it, and every
  window of the reuse distance in use; two superframes, so what is left in a
  buffer or a driver is seen again.  `Frames` bounds it, hence
  `CHECK_DEADLOCK FALSE` (`Custody` and `TwinAcks` likewise).
- `LinkBuffer`: with one-byte headers and two-byte acks a buffer of 12 bytes
  holds all acks of a table of three, or some, or none, with a byte to spare and
  without; a datagram takes two fragments, the first of which fills the buffer.
  Messages without a length of their own have bodies of one byte, and a relayed
  fragment (`ForwardedSizes`) is of one.
  `MaxSent` = 4 messages fill a buffer and start another; acks are always sent to
  the end.  A driver holds `MaxHeld` = 1 frame.
- `MaxSkew`, `TxCap`, `RxCap` bound what the code bounds by time and bytes; the
  proofs hold for any buffers, and for any skew up to the number of phases.  A
  larger one cannot be: advertising begins in its slot and lasts a slot's length,
  so no node is through with it before all others have begun.

`Timely` (phases begin together and outlast their work) holds in `Diamond` only.
Without it `ServedUpToCapacity` does not hold: a node whose clusterhead is
already a phase ahead may miss its answer.  Nor does it with losses: a request
that is lost is not repeated in its round.  The other properties of `Diamond`
hold on the network of `Chain` without it too; an untimed `Diamond` is too large
to check.

### Fairness

`PhaseTimer`, `LinkBuffer` and `NexusModule` state liveness.  In `NexusModule`
each task runs whenever it can, as FreeRTOS's preemptive scheduler with time
slices (`FreeRTOSConfig.h`) lets it; nobody has to send, and no packet has to
come.  `LinkBuffer` assumes that `emit_ch_messages`, which waits for nothing,
runs on.  `PhaseTimer` assumes that time passes, that the loop runs, and that `recv` returns once it has blocked for its timeout, as the loop
in the simulator's `lora::wait_recv` and RadioHead's `waitAvailableTimeout` do;
a frame need never arrive.  With the RF95 a timeout of 0 is no timeout, so
nothing bounds that wait and `PhaseEnds` fails (`PhaseTimerRadio`): if every
node asks at its deadline, all wait for each other.  Everything else is safety:
with loss, no step of the protocol is bound to succeed.

## What is proved

All theorems hold for every value of the constants under the modules' named
assumptions.

- **`TdmaClockProof`**: `ClockTypeOK`, `ClockAligned`, `ClockNeverStranded`,
  `ClockActsInGridSlot`, `ClockOnTimeWake`.  Assumptions: slots and superframes
  are not empty, the window fits in the period (main.cpp:25), a sync is shorter
  than a period (60 s and 71 s).  The invariant `IInv` adds to the properties
  that the window of a node that is receiving has begun (so a sync moves it back
  by less than a period), what a plan promises about its epoch until it is
  used (`PlanHolds`; neither alignment nor the refresh alone says the window at
  wake-up is the one planned in), and that an uninitialised node has the empty
  window.  The arithmetic (`NextInterval`, `OneStart`, `PlanIsSound`) is in
  lemmas: an interval of a period's length holds one multiple of the period,
  so a refresh anywhere in it finds the same window.
- **`SuperframeProof`**: `LoopUsesClock` (every step of the loop is a step of the
  clock or leaves it alone), and with it `LoopKeepsToGrid`: the clock's theorems
  hold of the loop.  `LoopTypeCorrect` and `LoopOnItsCode` for all slot lengths,
  rings and delays; the latter needs that between tuning and use nothing but an
  activation touches the radio, and that a radio left active holds the file of
  its spreading factor or none.
  `LoopDutyInItsSlot` and `LoopFreshAssignment` follow from `LoopKeepsPace`, an
  invariant on time: at every stage of a duty that comes in the order of the
  slots, the node is in the superframe it advertised in and behind the duty's
  slot by no more than what it has lost in this `loop()`.  That the duties come
  in order is arithmetic of the layout (windows start on a grid of windows,
  `OnGrid`), with one case no run had shown: a node whose two windows are
  the same and whose slot is that of its own acks, out of order by no slot.
  `LoopAdvertisesEachSuperframe` follows from `LoopReturns`, which follows a
  duty that comes too late as well: its slot is past, so the node sleeps a
  superframe for it, wakes with a window that is over, finds itself in no slot
  and goes on without sending (`SendsTooLate`); it then listens another
  superframe later (`ListensTooLate`), and is back for the advertising slot of
  the superframe after.  Assumptions: what a `loop()` loses is less than
  a slot and leaves a slot between window and period (`LagAssumption`), and a
  sync leaves two (`SyncAssumption`); 2, 3, 66, 71 and 60 s in the program.
- **`NexusModuleProof`**: `NexusTypeOK`, `NexusNoPacketForgotten` and
  `NexusIntactWhenAlone`, for any number of packets and
  any buffer, and every interleaving.  `IntactWhenAlone` is the hardest: while
  `alone` names a packet, what the poll task holds, what it has copied, what has been
  announced and how far the reader got all belong to it, step by step.
- **`PhaseTimerProof`**: `PhaseTypeOK`; `PhaseNeverCutShort`, `PhaseEndsPromptly`
  and `PhaseNeverOvershoots` under `NoWrap`, that phase and lag end before the
  counter wraps, and for a driver that honours a timeout of 0;
  `ReachedAcrossWrap` says what `reached` answers past the wrap, reading by
  reading, which is the reason for the first assumption.  The invariant ties the
  counter to the time elapsed and bounds `timeout` by the time left plus the
  lag.
- **`RingDiscoveryProof`**: `RingsTypeOK` and `RingsNotBelowHops`, for every
  network with hop counts that differ by at most one between neighbours, any
  buffers, and whatever is lost, late or repeated.  `DistanceInv` follows a ring
  on its way: what a node has and sends is not below its own distance, so what
  lies in an inbox, in a frame being read and at the start of a list is at most
  one below the distance of the node that holds it.  The list keeps its lowest
  ring in front (`ListOK`), which is what makes `lowest` its first ring.
  `RingsOneAboveNearest`: a list may forget rings, since it has room for few,
  but never the lowest it was told, so `lowest` is not above the nearest ring heard
  (`NearInv`), and what an iteration makes of it is at most one above.
- **`ClusterFormationProof`**: `FormationTypeOK` (so tables never outgrow the
  window), `FormationRoles`, `FormationLeasesSlots` (every node's table
  implements the lease, whatever is lost, delayed, retried or repeated, with
  any skew and any buffers), `LeaseOneSlotEach` (what the abstract specification
  guarantees) and `FormationOneSlotEach` (the same of the tables).  `LeasesSlots` is not inductive: the table is cleared in three
  places, and a step that cleared a table in use would break the lease.
  `RoleInv` excludes it: the gateway's role is fixed, who announced or won a
  round acts as a clusterhead, and one that acts as a clusterhead
  without having announced has granted nothing yet, so clearing its table is
  no step of the lease.
  `FormationAssignmentAgrees` and `FormationFollowedActs`: an Accept left in a
  transmit buffer by a failed flush outlives the table it speaks of, in the next
  superframe or once a promotion has cleared the table.  It does no harm because
  it leaves with the first frame its sender gets out: whoever receives it has
  not heard of the sender in this superframe, so does not ask to join it, and does not
  read it as an answer (`SilentInv` for what is unsent, `OrderInv` for what is
  on its way: a stale Accept comes before anything else of its sender).  This
  needs that superframes do not overlap but at their ends (`SkewAssumption`: at
  most 2 * `NUM_ADV_ROUNDS` phases between two nodes; with more, a node still in
  the last superframe would ask one that has begun the next).
  `FormationFollowsCloser`: what a node knows of a clusterhead's ring, in a frame, as
  a candidate or as a target, is the clusterhead's ring (`CloserInv`), if rings
  do not change (`Settled`) or flushes do not fail.  Where rings change and
  flushes fail it is false, see above.
  `FormationServed` is `ServedUpToCapacity` for every network, every score and
  window, where nothing is lost and phases begin together and outlast their work
  (`Lossless`), and no frame meets a full driver (`Roomy`).  `Diamond` satisfies
  both.  The inductive invariant (`ServingInv`) has two halves.  `PaceInv`: whoever
  reads or speaks, all are in its phase, and a phase ends for nobody before nothing
  is left to read.  `FlowInv` follows a clusterhead that stands: every neighbour
  in its phase still has its announcement to read, or ranks it among its two
  candidates, or holds two that are no worse (`Ranked`, kept by `HeardInv`).  In
  the joining phase the neighbour asks its best candidate, and its second once a
  full one has refused it (`Aims`); what it asks is heeded: its request or the
  answer is on its way, it has joined, or the table is full (`Heeded`, kept by
  `JoinInv`).  At the end of the phase nothing is on its way (`PaceInv`), so a
  node without a slot asked a mute candidate, or full ones only (`LeftOut`).

- **`LinkBufferProof`**: `BufferTypeOK`, `BufferNeverOverflows`,
  `BufferFragmentNumbered`, `BufferDecodable` and `BufferHandsOutOnce`, for all
  sizes with a frame header that fits the buffer, a fragment of at least a byte and at most 255
  slots (a slot number is a byte).  `RangeInv` needs its three parts together:
  the room left keeps the number of acks a natural, and the iterator's place
  lets the next fragment end at the next part.  `InOrder` follows the messages
  from the queue through the driver to the reader: each stage is in the order
  of sending and before the stage behind it, and the unread part of a frame is
  after the last message handed out.  `SoundInv` follows a message's size and
  what it announces the same way.

- **`ConvergecastProof`**: `ConvergecastTypeOK` and `ConvergecastNoBackflow`, for
  every tree that leads to lower rings (`RingAssumption`, which is what
  `FormationFollowsCloser` says of followers) in windows that are in order (`NoWraparound`), any
  buffers, any number of superframes, late nodes, losses, failed flushes and
  drivers that keep frames.  `FlowInv` says where data can be.  What a node
  has to send is of its own ring or a higher one, because it has only sent
  its own and taken what a clusterhead may take.  So a frame that a clusterhead must
  not take is sent in a later window than the clusterhead's, or, if it comes
  from its own ring, with that ring's acks in the last slot and on code 0.
  A driver may keep such a frame for longer than that, but then the
  clusterhead has listened for the last time in this superframe (`Harmless`,
  `Over`), late as it may be, and the next advertising slot empties the driver.
  What becomes of a whole frame is an induction over its messages
  (`ReceivedFrom`).  The library's induction theorem cannot be instantiated here,
  so it is done with a least counterexample (`LeastMember`, `UpTo`), which
  exists because `<` on the naturals is well-founded.

  `ConvergecastAtMostOnce` has a hypothesis more, `OneUpstream`: the only
  clusterhead of a lower ring in a node's range is the one it follows.  The chain
  of `Converge` is such a tree, and so is a tree with branches that do not hear
  each other.  Without it the property is false: on `TwinAcks`' tree, with
  refused flushes, both clusterheads of a follower can take its datagram,
  keep it over a refused flush and forward it.
  Two invariants carry the proof.  `SendInv`: a node makes one datagram a
  superframe, although its slot's duty may be done a slot late, so that its sequence number,
  the superframe, is new.  `OnceInv`: a datagram waits in one buffer, or is on its way to one
  clusterhead that still listens (`Over` ends that), and was taken only by clusterheads
  further from the gateway.  `Placed` says this of any buffers, and the
  lemmas `PlacedMade`, `PlacedMoved` and `PlacedTaken` say it is kept when a
  datagram is made, sent and taken; each action is one of these.  A refused
  flush leaves the datagram where it was, and a driver that keeps a frame leaves
  it on its way.

  `ConvergecastAckTruthful` needs two hypotheses besides.  `OneDownstream` is
  `OneUpstream` in the other direction: the only clusterhead of a lower ring whose
  frames a node hears is the one it follows.  `Leased` is what `SlotLease` gives:
  a follower's relative slot is one of the window but the first, and its
  clusterhead gave it to nobody else.  `Converge`'s chain satisfies all three;
  `TwinAcks`' tree fails the first two, and its counterexample is the reason
  for them.  `TurnInv` says when a node's turn is: once a superframe, before it
  listens for an answer, and until then its own entry of `acks` is 0, so that an ack
  it holds is of this superframe.  `AckInv` says that every entry of a
  clusterhead's `acks`, and of each message that carries them, wherever it is kept, is
  the sequence number of a datagram taken, and, if one of its own followers made
  it in this superframe, of one made on time in that entry's slot or an earlier
  one.  Sequence numbers are times, so a datagram of another node could carry the
  number a follower waits for: not one of a later slot, because `AckInv` excludes it,
  not one of an earlier slot, because the follower does not send before its own, and
  not one of another ring's window, which is more than a slot apart (`TurnApart`).  A follower
  reads the answer of its own clusterhead, because a frame of another in the same
  slot does not reach it.

  `ConvergecastAckedInTime` says that the two ends agree on every slot and code.
  Its hypothesis more, `Served`, is that each follower's slot is one in which its
  clusterhead listens and which its answer covers, and that the two reach
  each other.  The last slot of a window is not such a slot, although `accept`
  grants it: its follower sends while its clusterhead sends the acks.
  `TimeInv` is an induction along a superframe without a fault: nobody is
  late (`OnTime`), a clusterhead is about to listen whenever a follower has the slot
  (`Ready`), and a datagram sent is, one after the other, `InFlight`, `Noted` by the
  clusterhead, on its way back (`Answering`) and `Acked`.  `WindowFits` says that the
  windows end before the superframe does, so that by then it is the last of these.
  The proof corrected the model: what counts as a fault (`faulty`) left out a full
  transmit buffer and a listener that is still at the last slot's receive.  `AckedInTime`
  is false with either on other trees than that of `Converge`, and neither is a
  superframe in which nothing went wrong.

Only model-checked: `PhaseEnds`, `EmitEnds`, `Drained` and `AppGetsAll`
(liveness is outside the prover's reach).  Only proved: that a node whose first
candidate is full gets a slot of its second (`FormationServed`), which no run is large
enough for.

Narrower than the code: phases that meet the wrap of `millis()` are excluded from
every run (`NoWrap`).  A sync by the whole minute the code admits is covered by
`TdmaClockProof`; in `Superframe` a clusterhead advertises while it
answers, so its clock differs by seconds.  No run has rings beyond the reuse
distance sharing a window (main.cpp:176 rules them out), nor a frame of several
messages in cluster formation (`TxCap` = 1 in `Chain` and `Diamond`), so none loses
the rest of a frame after a refusal (multihop.cpp:768); the theorems about
`ClusterFormation` have frames of any length.

## Not modelled

- Discovery inside `ClusterFormation`: there it leaves a node in any of a given
  set of rings.  `RingDiscovery` does not count how often a ring was heard,
  which only `RingList::score` uses.  Nothing but discovery writes a ring:
  `join_cluster` and `reset_ring` are never called.
- Phases that meet the wrap of `millis()`, after 49 days: `reached` then answers
  as `ReachedAcrossWrap` says, and a phase may last another turn of the counter.
- More than `MaxLag` seconds lost in one `loop()`: `LagAssumption` says what the
  program's constants leave, multihop.cpp:952 trusts it.
- The contents of messages in `LinkBuffer` beyond what gives their size, and
  sizes of messages everywhere else, where buffers are counted in messages.  A checksum that is right
  although the frame is garbled (it is a sum), and datagrams of more than 255
  fragments, which `DatagramIterator` refuses.  Reassembly of datagrams: there is
  none in the code.
- A node that misses a whole advertising slot, and time synchronisation inside
  `ClusterFormation` and `Convergecast` (both are in `Superframe`).
- A send that reports failure after the frame went out.  RadioHead's
  `waitPacketSent` has no limit and the simulator's write is whole, so it does
  not occur; were it to, a repeated Accept of the last superframe could make
  a node join on a slot it does not hold.  The lease does not depend on it.
- In `Convergecast`, a clusterhead whose window comes after its own clusterhead's
  (`NoWraparound`, which main.cpp:176 assumes); what its loop does is in
  `Superframe`.
- The wrap of the 32-bit clock of seconds, in 2106.
- LoRaMesher, RadioLib and FreeRTOS, which are not part of the repository, beyond
  the calls they make.  Of the adapter, the retries of `begin` before anything
  runs, the formula of the time on air, setters without effect and the shims
  of `esp32_shims.cpp`.
- The TDMA demo: it keeps no state and uses the clock as `TdmaClock` has it.  The
  Arduino stubs and the point-to-point examples, which are I/O.

## Plan

Written, in this order: the clock, because every slot depends on it; the phase
timer; the slot layout, the lease and cluster formation, the core of the
protocol; the data slots, on what formation provides; ring discovery, which
provides what formation starts from; the link layer's buffers, on which all of
it relies; the loop of the node program over clock and radio, so that its duties are
checked in time; the LoRaMesher adapter.
