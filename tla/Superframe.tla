------------------------------ MODULE Superframe ------------------------------
(***************************************************************************)
(* loop() of multihop/node/src/main.cpp: how one node goes through a       *)
(* superframe.  It sleeps until the advertising slot, advertises, and then *)
(* goes through the duties of the roles it has found: as a clusterhead it  *)
(* listens in its followers' slots and sends its acks, as a follower it    *)
(* sends its data and listens for the acks.  For each duty it plans the    *)
(* slot (epoch_and_offset), sleeps, asks for the slot again (active_slot), *)
(* tunes the radio, and then blocks in link::recv or transmits.            *)
(*                                                                         *)
(* Every step is a step of TdmaClock, which this module EXTENDS, and moves *)
(* the loop besides.  Here time is real: a receive blocks for at most its  *)
(* timeout, advertising takes a slot's length, and what a node takes more  *)
(* than that, awake, is at most MaxLag seconds in one loop().              *)
(***************************************************************************)
EXTENDS TdmaClock, LoraRadio, Sequences

CONSTANTS REUSE_DISTANCE,
          Rings,      \* the rings discovery may leave a node in
          MaxLag      \* bound: seconds of delay in one loop()

Layout == INSTANCE SlotLayout

\* Every window has a slot for a follower besides its unused one.
ASSUME LayoutAssumption ==
    /\ REUSE_DISTANCE \in Nat \ {0}
    /\ SUPERFRAME_SLOT_COUNT > 2 * REUSE_DISTANCE
    /\ Rings \subseteq 1 .. Layout!UNKNOWN_RING

\* One loop() is late by less than a slot, and by no more than the superframe
\* leaves after the slot that may follow its window (71 s, 66 s and 3 s in the
\* program): multihop.cpp:952 trusts it blindly.
ASSUME LagAssumption ==
    /\ MaxLag \in Nat
    /\ MaxLag < slot_duration
    /\ window_length + slot_duration + MaxLag <= SUPERFRAME_FREQUENCY_S

\* A clock is not set to that of a clusterhead in another superframe (60 s,
\* 3 s and 71 s in the program).
ASSUME SyncAssumption ==
    MAX_TIME_SYNC_DRIFT_S + 2 * slot_duration + MaxLag < SUPERFRAME_FREQUENCY_S

VARIABLES
    stage,    \* of loop(): see LoopTypes
    state,    \* STATE: ring, role, windows and slots of the node
    duty,     \* the duty loop() is at, an index of Duties; 0 for advertising
    radio,    \* the radio wrapper's static state
    left,     \* seconds the receive or the advertising still takes
    lag,      \* seconds lost in this loop()
    frame,    \* start of the superframe it last advertised in
    missed    \* advertising slots it has been late for since
loop_vars == <<stage, state, duty, radio, left, lag, frame, missed>>

W == Layout!vtdma_window_size
Never == -1

-----------------------------------------------------------------------------
(* The duties.                                                             *)

Duty(do, base, slot) == [do |-> do, base |-> base, slot |-> slot]
Advertising == Duty("advertise", 0, 0)

\* Mutant: the follower's duties come first.
Duties_FollowerFirst(s) ==
    (IF s.joined
       THEN <<Duty("follower_send", s.up, s.up + s.rel), Duty("follower_recv", s.up, s.up + W - 1)>>
       ELSE <<>>)
    \o (IF s.clusterhead
       THEN [i \in 1 .. W - 1 |->
               Duty(IF i = W - 1 THEN "clusterhead_send" ELSE "clusterhead_recv", s.down, s.down + i)]
       ELSE <<>>)

\* What loop() does after advertising.  s.joined stands for clusterhead_addr
\* not being UNKNOWN_ADDR, s.clusterhead for acts_as_clusterhead().
Duties(s) ==
    (IF s.clusterhead
       THEN [i \in 1 .. W - 1 |->
               Duty(IF i = W - 1 THEN "clusterhead_send" ELSE "clusterhead_recv", s.down, s.down + i)]
       ELSE <<>>)
    \o (IF s.joined
       THEN <<Duty("follower_send", s.up, s.up + s.rel), Duty("follower_recv", s.up, s.up + W - 1)>>
       ELSE <<>>)

Now == IF duty = 0 THEN Advertising ELSE Duties(state)[duty]

\* Mutant: loop() goes on past its last duty.
NextDuty_PastLast == IF duty <= Len(Duties(state)) THEN duty + 1 ELSE 0

\* loop() goes on to its next duty, or starts again.
NextDuty == IF duty < Len(Duties(state)) THEN duty + 1 ELSE 0

\* do_clusterhead_recv serves whichever follower's slot it finds itself in, if
\* it is assigned; every other function does nothing outside its own slot.
Serves(d, s) ==
    IF d.do = "clusterhead_recv"
    THEN s - d.base \in 1 .. W - 2 /\ s - d.base < state.slots_assigned
    ELSE s = d.slot

\* The CDMA code set for a duty in slot s.
CodeFor(d, s) ==
    IF d.do \in {"clusterhead_recv", "follower_send"} THEN s - d.base ELSE 0

-----------------------------------------------------------------------------
(* The steps of the loop.                                                  *)

Unjoined(ring) ==
    [ring |-> ring, clusterhead |-> ring = Layout!GATEWAY_RING, joined |-> FALSE,
     down |-> IF ring = Layout!GATEWAY_RING THEN Layout!downstream_start_slot(ring) ELSE 0,
     slots_assigned |-> 1, up |-> 0, rel |-> 0]

LoopInit ==
    /\ Init
    /\ stage = "plan"
    /\ \E ring \in {Layout!GATEWAY_RING, Layout!UNKNOWN_RING} : state = Unjoined(ring)
    /\ duty = 0
    /\ radio = Off
    /\ left = 0
    /\ lag = 0
    /\ frame = Never
    /\ missed = 0

\* setup(): without a radio the node does nothing ever after.
Setup ==
    /\ LinkInit
    /\ radio' \in {r \in Opened(radio) : r.initialized}
    /\ UNCHANGED <<stage, state, duty, left, lag, frame, missed>>

\* A second passes: asleep, blocked, or lost.
TimePasses ==
    /\ Tick
    /\ \/ /\ pc = "setup" \/ (pc = "sleeping" /\ now < epoch)
          /\ UNCHANGED <<left, lag>>
       \/ /\ left > 0
          /\ left' = left - 1
          /\ UNCHANGED lag
       \/ /\ pc # "setup" /\ ~(pc = "sleeping" /\ now < epoch) /\ left = 0
          /\ lag < MaxLag
          /\ lag' = lag + 1
          /\ UNCHANGED left
    /\ UNCHANGED <<stage, state, duty, radio, frame, missed>>

Plan ==
    /\ stage = "plan"
    /\ EpochAndOffset(Now.slot)
    /\ stage' = "wait"
    /\ UNCHANGED <<state, duty, radio, left, lag, frame, missed>>

Wake ==
    /\ SleepUntil
    /\ UNCHANGED loop_vars

\* do_advertise in its slot: the roles of the last superframe are forgotten,
\* and discovery finds a ring.
BeginAdvertise ==
    /\ stage = "wait" /\ Now = Advertising
    /\ ActiveSlot
    /\ Serves(Now, reply')
    /\ stage' = "advertise"
    /\ \E ring \in IF state.ring = Layout!GATEWAY_RING THEN {state.ring} ELSE Rings :
         state' = Unjoined(ring)
    /\ radio' \in set_cdma_code(radio, CodeFor(Now, reply'))
    /\ left' = slot_duration
    /\ lag' = 0
    /\ frame' = window'.start
    /\ missed' = 0
    /\ UNCHANGED duty

\* A data slot's function in a slot it serves.
Tune ==
    /\ stage = "wait" /\ Now # Advertising
    /\ ActiveSlot
    /\ Serves(Now, reply')
    /\ stage' = "tuned"
    /\ radio' \in set_cdma_code(radio, CodeFor(Now, reply'))
    /\ UNCHANGED <<state, duty, left, lag, frame, missed>>

\* do_advertise in another slot: loop() returns, and begins anew.
SkipAdvertise ==
    /\ stage = "wait" /\ Now = Advertising
    /\ ActiveSlot
    /\ ~Serves(Now, reply')
    /\ stage' = "plan"
    /\ lag' = 0
    /\ missed' = missed + 1
    /\ UNCHANGED <<state, duty, radio, left, frame>>

\* A data slot's function in a slot it does not serve: loop() goes on.
Skip ==
    /\ stage = "wait" /\ Now # Advertising
    /\ ActiveSlot
    /\ ~Serves(Now, reply')
    /\ stage' = "plan"
    /\ duty' = NextDuty
    /\ UNCHANGED <<state, radio, left, lag, frame, missed>>

-----------------------------------------------------------------------------
(* The advertising slot, as far as the clock and the radio see it.         *)

\* link::recv or link::flush: the radio is opened if it is not.
AdvertiseRadio ==
    /\ stage = "advertise" /\ left > 0
    /\ Recv \/ Flush
    /\ radio' \in IF in_active_window(now, window') THEN Activated(radio) ELSE {radio}
    /\ UNCHANGED <<stage, state, duty, left, lag, frame, missed>>

AdvertiseRecvReturns ==
    /\ stage = "advertise"
    /\ RecvReturns
    /\ UNCHANGED loop_vars

\* An Accept from a clusterhead in ring c.  The clock is set to that of the
\* clusterhead, which began to advertise in its own advertising slot and has
\* as long to go, unless the two are too far apart.
Join(c, rel) ==
    /\ stage = "advertise" /\ left > 0
    /\ state.ring # Layout!GATEWAY_RING
    /\ c < state.ring \/ state.ring = Layout!UNKNOWN_RING
    /\ \/ \E remote \in 0 .. Horizon :
            /\ (remote % SUPERFRAME_FREQUENCY_S) + left < 2 * slot_duration
            /\ TimeSync(remote)
       \/ RecvReturns
    /\ state' = [state EXCEPT !.joined = TRUE, !.rel = rel,
                              !.up = Layout!downstream_start_slot(c)]
    /\ UNCHANGED <<stage, duty, radio, left, lag, frame, missed>>

\* The node may have been promoted, with some of its slots assigned.
EndAdvertise ==
    /\ stage = "advertise" /\ pc = "idle" /\ left = 0
    /\ \/ \E n \in 1 .. W :
            state' = [state EXCEPT !.clusterhead = TRUE, !.slots_assigned = n,
                                   !.down = Layout!downstream_start_slot(state.ring)]
       \/ /\ state.ring # Layout!GATEWAY_RING
          /\ UNCHANGED state
    /\ stage' = "plan"
    /\ duty' = IF Len(Duties(state')) > 0 THEN 1 ELSE 0
    /\ UNCHANGED <<vars, radio, left, lag, frame, missed>>

-----------------------------------------------------------------------------
(* The data slots.                                                         *)

\* do_clusterhead_send and do_follower_send: link::flush.
Transmit ==
    /\ stage = "tuned" /\ Now.do \in {"clusterhead_send", "follower_send"}
    /\ Flush
    /\ radio' \in IF in_active_window(now, window') THEN Activated(radio) ELSE {radio}
    /\ stage' = "plan"
    /\ duty' = NextDuty
    /\ UNCHANGED <<state, left, lag, frame, missed>>

\* Mutant: a clusterhead listens for two slots.
ListenTime_Double == 2 * slot_duration

\* slot_duration_ms, from whenever the receive begins.
ListenTime == slot_duration

\* do_clusterhead_recv and do_follower_recv: link::recv of a slot's length.
Listen ==
    /\ stage = "tuned" /\ Now.do \in {"clusterhead_recv", "follower_recv"}
    /\ Recv
    /\ IF in_active_window(now, window')
       THEN /\ radio' \in Activated(radio)
            /\ left' = IF radio'.initialized THEN ListenTime ELSE 0
            /\ stage' = "listen"
            /\ UNCHANGED duty
       ELSE /\ stage' = "plan"
            /\ duty' = NextDuty
            /\ UNCHANGED <<radio, left>>
    /\ UNCHANGED <<state, lag, frame, missed>>

\* The receive ends with a frame, an error or its timeout.
Heard ==
    /\ stage = "listen"
    /\ RecvReturns
    /\ stage' = "plan"
    /\ duty' = NextDuty
    /\ left' = 0
    /\ UNCHANGED <<state, radio, lag, frame, missed>>

\* do_follower_recv got a frame that is not its clusterhead's.
HeardOther ==
    /\ stage = "listen" /\ Now.do = "follower_recv"
    /\ RecvReturns
    /\ stage' = "heard"
    /\ left' = 0
    /\ UNCHANGED <<state, duty, radio, lag, frame, missed>>

\* It asks for the slot once more, which refreshes the window, and listens
\* again, for another slot's length, if it still is the ack slot.
ListenAgain ==
    /\ stage = "heard"
    /\ pc = "idle"
    /\ window' = Rolled(now, window)
    /\ IF current_slot(now, window') = Now.slot
       THEN stage' = "tuned" /\ UNCHANGED duty
       ELSE stage' = "plan" /\ duty' = NextDuty
    /\ UNCHANGED <<now, pc, target, epoch, reply, state, radio, left, lag, frame, missed>>

LoopNext ==
    \/ Setup
    \/ TimePasses
    \/ Plan
    \/ Wake
    \/ BeginAdvertise
    \/ Tune
    \/ SkipAdvertise
    \/ Skip
    \/ AdvertiseRadio
    \/ AdvertiseRecvReturns
    \/ \E c \in Rings \cup {Layout!GATEWAY_RING}, rel \in 1 .. W - 1 : Join(c, rel)
    \/ EndAdvertise
    \/ Transmit
    \/ Listen
    \/ Heard
    \/ HeardOther
    \/ ListenAgain

LoopSpec == LoopInit /\ [][LoopNext]_<<vars, loop_vars>>

-----------------------------------------------------------------------------
(* Properties.                                                             *)

LoopTypes ==
    /\ stage \in {"plan", "wait", "advertise", "tuned", "listen", "heard"}
    /\ state \in [ring : {Layout!GATEWAY_RING, Layout!UNKNOWN_RING} \cup Rings,
                  clusterhead : BOOLEAN, joined : BOOLEAN,
                  down : 0 .. SUPERFRAME_SLOT_COUNT - W, slots_assigned : 1 .. W,
                  up : 0 .. SUPERFRAME_SLOT_COUNT - W, rel : 0 .. W - 1]
    /\ duty \in 0 .. Len(Duties(state))
    /\ radio \in [initialized : BOOLEAN, file : SpreadingFactors \cup {NoFile},
                  spread : SpreadingFactors]
    /\ left \in 0 .. slot_duration
    /\ lag \in 0 .. MaxLag
    /\ frame \in Nat \cup {Never}
    /\ missed \in Nat

\* loop() keeps clock, duties and radio in their ranges: every duty is one it
\* has, in a slot of the superframe (main.cpp:121-246).
LoopTypeOK == TypeOK /\ LoopTypes

\* main.cpp:176, "no wraparound assumed": the downstream window comes before
\* the upstream one.
Ordered(s) == s.clusterhead /\ s.joined => s.down < s.up

\* A node works in a data slot only in the superframe whose advertising slot
\* gave it that slot, unless its windows are in the wrong order: otherwise it
\* would speak in a slot that by now is another's (main.cpp:184-242).
FreshAssignment ==
    stage \in {"tuned", "listen"} /\ (Ordered(state) \/ Now.do \in {"clusterhead_recv", "clusterhead_send"})
        => window.start = frame

\* A node advertises in every superframe but those whose advertising slot it
\* woke late for; with windows in the wrong order it loses two more or none.
\* Neither does a clock that is set back make it advertise twice, nor one that
\* is set forward, or a receive that ends late, miss a superframe
\* (main.cpp:128-158, multihop.cpp:730-738).
AdvertisesEachSuperframe ==
    [][BeginAdvertise /\ frame # Never =>
         (window'.start - frame) \div SUPERFRAME_FREQUENCY_S
             \in IF Ordered(state) THEN {1 + missed} ELSE {1 + missed, 3 + missed}
      ]_<<vars, loop_vars>>

\* A node finds itself in the slot it planned whenever it comes to work in one,
\* and with windows in the right order whenever it comes to one at all: it
\* sleeps through no slot, and do_clusterhead_recv, which listens in whatever
\* slot it finds itself in, listens to each follower once
\* (multihop.cpp:937-955, main.cpp:186-197).
DutyInItsSlot ==
    [][Tune \/ (Skip /\ Ordered(state)) => reply' = Now.slot]_<<vars, loop_vars>>

\* A radio that could be opened is on the code of the slot it is used in,
\* whatever open or close failed before (link_layer.cpp:376-380).
OnItsCode ==
    stage \in {"tuned", "listen"} /\ radio.file # NoFile =>
        radio.file = hash_cdma_code(CodeFor(Now, reply))
=============================================================================
