------------------------------ MODULE TdmaClock ------------------------------
(***************************************************************************)
(* The superframe clock of the link layer (lib/net/src/link_layer.cpp):    *)
(* how one node turns readings of its real-time clock into slots, how it   *)
(* plans the instant it sleeps until, and how a time synchronisation from  *)
(* a clusterhead moves the clock under it.                                 *)
(*                                                                         *)
(* A superframe starts at every multiple of SUPERFRAME_FREQUENCY_S and its *)
(* active window is SUPERFRAME_SLOT_COUNT slots long.  The node keeps only *)
(* the window it believes current or next (MAC_STATE), and replaces it     *)
(* lazily, whenever it reads the clock at or after the window's end.       *)
(*                                                                         *)
(* The caller is the main loop of multihop/node/src/main.cpp: plan a slot  *)
(* (epoch_and_offset), sleep until its epoch, read the clock again in      *)
(* active_slot and act only if that is the slot planned.  Each of those is *)
(* a separate reading, so seconds may pass between them.                   *)
(***************************************************************************)
EXTENDS Integers

CONSTANTS SUPERFRAME_SLOT_S, GUARD_PERIOD_S, SUPERFRAME_SLOT_COUNT,
          SUPERFRAME_FREQUENCY_S,
          MAX_TIME_SYNC_DRIFT_S,
          Horizon    \* the last second modelled: all arithmetic stays below 2^32

slot_duration == SUPERFRAME_SLOT_S + GUARD_PERIOD_S

window_length == slot_duration * SUPERFRAME_SLOT_COUNT

\* link::init refuses an empty slot and an empty superframe.
ASSUME SlotAssumption ==
    /\ SUPERFRAME_SLOT_S \in Nat \ {0}
    /\ GUARD_PERIOD_S \in Nat
    /\ SUPERFRAME_SLOT_COUNT \in Nat \ {0}

\* main.cpp:25 "frequency must be >= window length": nothing in the code
\* checks it (RC::InvalidDutyCycle is never returned).
ASSUME FrequencyAssumption ==
    /\ SUPERFRAME_FREQUENCY_S \in Nat
    /\ SUPERFRAME_FREQUENCY_S >= window_length

\* A synchronisation moves the clock by less than a superframe (60 s and
\* 71 s in the program).
ASSUME DriftAssumption ==
    /\ MAX_TIME_SYNC_DRIFT_S \in Nat
    /\ MAX_TIME_SYNC_DRIFT_S < SUPERFRAME_FREQUENCY_S

ASSUME HorizonAssumption == Horizon \in Nat

Slots == 0 .. SUPERFRAME_SLOT_COUNT - 1
NoSlot == -1

VARIABLES now,      \* the real-time clock, in whole seconds
          window,   \* MAC_STATE
          pc,       \* where the caller is
          target,   \* the slot it planned
          epoch,    \* the instant it sleeps until
          reply     \* what active_slot returned last
vars == <<now, window, pc, target, epoch, reply>>

-----------------------------------------------------------------------------
(* The timing helpers; each takes one reading `t' of the clock.            *)

\* Mutant: a reading on the boundary waits a whole superframe.
next_time_interval_SkipsBoundary(t, interval) ==
    IF interval = 0 THEN 0 ELSE t - (t % interval) + interval

next_time_interval(t, interval) ==
    IF interval = 0 THEN 0
    ELSE IF t % interval = 0 THEN t
    ELSE t - (t % interval) + interval

MacState(start) == [start |-> start, end |-> start + window_length]

after_window(t, w) == t >= w.end

in_active_window(t, w) == w.start <= t /\ t < w.end

\* Mutant: the window starts when it is refreshed, not on the common grid.
Rolled_Unaligned(t, w) == IF after_window(t, w) THEN MacState(t) ELSE w

\* The window after the refresh every entry point performs first.
Rolled(t, w) ==
    IF after_window(t, w)
    THEN MacState(next_time_interval(t, SUPERFRAME_FREQUENCY_S))
    ELSE w

\* Mutant: the guard period is counted twice in a slot's duration.
current_slot_DoubleGuard(t, w) ==
    IF in_active_window(t, w)
    THEN (t - w.start) \div (slot_duration + GUARD_PERIOD_S + 1) ELSE NoSlot

\* current_slot once the window has been refreshed.
current_slot(t, w) ==
    IF in_active_window(t, w) THEN (t - w.start) \div slot_duration ELSE NoSlot

time_left_in_slot(t, w) == slot_duration - ((t - w.start) % slot_duration)

\* Mutant: counts the slot being left among the full slots to wait.
Offset_ExtraSlot(n, t, w) ==
    LET current == current_slot(t, w)
    IN  IF current = NoSlot \/ n < current
        THEN next_time_interval(t, SUPERFRAME_FREQUENCY_S) - t + n * slot_duration
        ELSE IF n = current THEN 0
        ELSE time_left_in_slot(t, w) + (n - current) * slot_duration

\* epoch_and_offset: seconds until slot n, for the refreshed window w.
Offset(n, t, w) ==
    LET current == current_slot(t, w)
    IN  IF current = NoSlot \/ n < current
        THEN next_time_interval(t, SUPERFRAME_FREQUENCY_S) - t + n * slot_duration
        ELSE IF n = current THEN 0
        ELSE time_left_in_slot(t, w) + (n - current - 1) * slot_duration

-----------------------------------------------------------------------------
\* The clock's state stays in its ranges, and active_slot answers with a slot of
\* the superframe or -1 (link_layer.cpp:108-113, 301).
TypeOK ==
    /\ now \in Nat
    /\ window \in [start : Nat, end : Nat]
    /\ pc \in {"setup", "idle", "receiving", "sleeping", "awake"}
    /\ target \in Slots
    /\ epoch \in Nat
    /\ reply \in Slots \cup {NoSlot}

\* MAC_STATE is the static MacState() until link::init runs.
Init ==
    /\ now \in 0 .. Horizon
    /\ window = [start |-> 0, end |-> 0]
    /\ pc = "setup"
    /\ target = 0
    /\ epoch = 0
    /\ reply = NoSlot

Tick ==
    /\ now < Horizon
    /\ now' = now + 1
    /\ UNCHANGED <<window, pc, target, epoch, reply>>

\* link::init, from setup().
LinkInit ==
    /\ pc = "setup"
    /\ pc' = "idle"
    /\ window' = Rolled(now, window)
    /\ UNCHANGED <<now, target, epoch, reply>>

\* The main loop plans its next activity, in slot n.
EpochAndOffset(n) ==
    /\ pc = "idle"
    /\ pc' = "sleeping"
    /\ window' = Rolled(now, window)
    /\ target' = n
    /\ epoch' = now + Offset(n, now, window')
    /\ reply' = NoSlot
    /\ UNCHANGED now

\* sleep_until returns at the first reading that is not before the epoch.
SleepUntil ==
    /\ pc = "sleeping"
    /\ now >= epoch
    /\ pc' = "awake"
    /\ UNCHANGED <<now, window, target, epoch, reply>>

\* The activity reads the clock once more and acts only in its own slot.
\* The plan's locals go out of scope.
ActiveSlot ==
    /\ pc = "awake"
    /\ pc' = "idle"
    /\ window' = Rolled(now, window)
    /\ reply' = current_slot(now, window')
    /\ target' = 0
    /\ epoch' = 0
    /\ UNCHANGED now

\* link::flush: refreshes the window, transmits or returns NotInWindow.
Flush ==
    /\ pc = "idle"
    /\ window' = Rolled(now, window)
    /\ UNCHANGED <<now, pc, target, epoch, reply>>

\* link::recv: returns NotInWindow outside the window, otherwise waits.
Recv ==
    /\ pc = "idle"
    /\ window' = Rolled(now, window)
    /\ pc' = IF in_active_window(now, window') THEN "receiving" ELSE "idle"
    /\ UNCHANGED <<now, target, epoch, reply>>

RecvReturns ==
    /\ pc = "receiving"
    /\ pc' = "idle"
    /\ UNCHANGED <<now, window, target, epoch, reply>>

\* An Accept was received: run_clusterhead_joining sets the clock to the
\* clusterhead's unless they are too far apart.
TimeSync(remote) ==
    /\ pc = "receiving"
    /\ pc' = "idle"
    /\ remote <= now + MAX_TIME_SYNC_DRIFT_S
    /\ now <= remote + MAX_TIME_SYNC_DRIFT_S
    /\ now' = remote
    /\ UNCHANGED <<window, target, epoch, reply>>

Next ==
    \/ Tick
    \/ LinkInit
    \/ \E n \in Slots : EpochAndOffset(n)
    \/ SleepUntil
    \/ ActiveSlot
    \/ Flush
    \/ Recv
    \/ RecvReturns
    \/ \E remote \in 0 .. Horizon : TimeSync(remote)

Spec == Init /\ [][Next]_vars

-----------------------------------------------------------------------------
(* Properties.                                                             *)

\* The slot a clock reading falls in, on the grid every node shares.
GridSlot(t) ==
    LET offset == t % SUPERFRAME_FREQUENCY_S
    IN  IF offset < window_length THEN offset \div slot_duration ELSE NoSlot

\* However late or out of order its refreshes come, the window of an
\* initialised node is a superframe of the common grid: nodes need no
\* agreement beyond their clocks (link_layer.cpp:102-113, 159-181).
WindowAligned ==
    pc # "setup" =>
        /\ window.start % SUPERFRAME_FREQUENCY_S = 0
        /\ window.end = window.start + window_length

\* The clock may be set back to before the window the node is in, but never
\* so far that a whole superframe passes before the node is in a window
\* again (multihop.cpp:730-738 against link_layer.cpp:102-108).
NeverStranded ==
    pc # "setup" => window.start < now + SUPERFRAME_FREQUENCY_S

\* A node that believes it is in a slot is in that slot of the common grid,
\* so two nodes with equal clocks never act in different slots
\* (link_layer.cpp:102-113).
ActsInGridSlot ==
    [][ActiveSlot => reply' \in {NoSlot, GridSlot(now)}]_vars

\* A caller that wakes at the second it planned for finds itself in the slot
\* it planned, when that slot was still ahead in the window the node was in
\* or about to enter, or was the advertisement slot: neither a clock that was
\* set back nor a lazily refreshed window makes it miss the slot
\* (link_layer.cpp:307-336).
OnTimeWakeHitsSlot ==
    [][ActiveSlot /\ now = epoch
          /\ (target = 0 \/ in_active_window(epoch, window))
       => reply' = target]_vars
=============================================================================
