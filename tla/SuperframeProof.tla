--------------------------- MODULE SuperframeProof ---------------------------
(***************************************************************************)
(* Proofs about the loop of a node, for every layout of the superframe     *)
(* that satisfies the assumptions: the loop is a caller of the superframe  *)
(* clock like any other, so what TdmaClockProof shows of the clock holds   *)
(* for the node.  No duty that comes in the order of the slots begins      *)
(* later than the time the node has lost (LoopKeepsPace), so every one     *)
(* finds its slot; and whatever comes out of order, the node is back for   *)
(* an advertising slot (LoopReturns).                                      *)
(***************************************************************************)
EXTENDS Superframe, TdmaClockProof, SequenceTheorems

-----------------------------------------------------------------------------
(* The layout.                                                             *)

\* The windows fit between the advertising slot and the end.
LEMMA Windows ==
    /\ W \in Nat /\ W >= 2
    /\ REUSE_DISTANCE * W < SUPERFRAME_SLOT_COUNT
  <1> DEFINE c == SUPERFRAME_SLOT_COUNT - 1
             r == REUSE_DISTANCE
  <1>1. c \in Nat /\ r \in Nat \ {0} /\ c >= 2 * r
    BY SlotAssumption, LayoutAssumption
  <1>2. W = c \div r
    BY DEF W, Layout!vtdma_window_size, Layout!ADV_SLOTS
  <1> HIDE DEF c, r
  <1>3. /\ c = r * (c \div r) + (c % r)
        /\ c \div r \in Nat /\ c % r \in 0 .. r - 1
    BY <1>1, Division
  <1>4. c \div r >= 2
    <2>1. ASSUME c \div r = 0 \/ c \div r = 1 PROVE FALSE
      BY <1>1, <1>3, <2>1
    <2> QED
      BY <1>3, <2>1
  <1>5. r * (c \div r) <= c
    BY <1>1, <1>3
  <1>6. SUPERFRAME_SLOT_COUNT = c + 1
    BY SlotAssumption DEF c
  <1> QED
    BY <1>1, <1>2, <1>3, <1>4, <1>5, <1>6 DEF r

\* Every downstream window lies in the superframe, after the advertising slot.
LEMMA WindowStart ==
    ASSUME NEW ring \in Nat
    PROVE  /\ Layout!downstream_start_slot(ring) \in 1 .. SUPERFRAME_SLOT_COUNT - W
           /\ Layout!downstream_start_slot(ring) \in Nat
  <1> DEFINE r == REUSE_DISTANCE
             q == r - 1 - (ring % r)
             w == W
  <1>1. r \in Nat \ {0} /\ ring % r \in 0 .. r - 1
    BY LayoutAssumption, Division
  <1>2. q \in 0 .. r - 1
    BY <1>1
  <1>3. Layout!downstream_start_slot(ring) = 1 + q * w
    BY DEF W, Layout!downstream_start_slot, Layout!ADV_SLOTS
  <1>4. w \in Nat /\ w >= 2 /\ r * w < SUPERFRAME_SLOT_COUNT
    BY Windows
  <1> HIDE DEF q, w, r
  <1>5. PICK m \in Nat : r = q + 1 + m
    <2>1. r - q - 1 \in Nat /\ r = q + 1 + (r - q - 1)
      BY <1>1, <1>2
    <2> QED
      BY <2>1
  <1>6. r * w = q * w + w + m * w /\ m * w \in Nat /\ q * w \in Nat
    BY <1>2, <1>4, <1>5
  <1> QED
    BY <1>3, <1>4, <1>6, SlotAssumption DEF w

-----------------------------------------------------------------------------
(* The duties.                                                             *)

Starts == 0 .. SUPERFRAME_SLOT_COUNT - W

NodeStates ==
    [ring : {Layout!GATEWAY_RING, Layout!UNKNOWN_RING} \cup Rings,
     clusterhead : BOOLEAN, joined : BOOLEAN,
     down : Starts, slots_assigned : 1 .. W, up : Starts, rel : 0 .. W - 1]

\* The duties of a clusterhead, and those of a follower.
Below(s) ==
    IF s.clusterhead
    THEN [i \in 1 .. W - 1 |->
            Duty(IF i = W - 1 THEN "clusterhead_send" ELSE "clusterhead_recv", s.down, s.down + i)]
    ELSE <<>>
Above(s) ==
    IF s.joined
    THEN <<Duty("follower_send", s.up, s.up + s.rel), Duty("follower_recv", s.up, s.up + W - 1)>>
    ELSE <<>>

DutyRecord ==
    [do : {"clusterhead_recv", "clusterhead_send", "follower_send", "follower_recv"},
     base : Starts, slot : Slots]

LEMMA HalvesType ==
    ASSUME NEW s \in NodeStates
    PROVE  Below(s) \in Seq(DutyRecord) /\ Above(s) \in Seq(DutyRecord)
  <1>1. /\ s.down \in Starts /\ s.up \in Starts /\ s.rel \in 0 .. W - 1
        /\ s.clusterhead \in BOOLEAN /\ s.joined \in BOOLEAN
    BY DEF NodeStates
  <1>2. W \in Nat /\ W >= 2 /\ SUPERFRAME_SLOT_COUNT \in Nat
    BY Windows, SlotAssumption
  <1>3. ASSUME NEW b \in Starts, NEW i \in 0 .. W - 1,
               NEW do \in {"clusterhead_recv", "clusterhead_send", "follower_send", "follower_recv"}
        PROVE  Duty(do, b, b + i) \in DutyRecord
    BY <1>2, <1>3 DEF Duty, DutyRecord, Starts, Slots
  <1>4. Below(s) \in Seq(DutyRecord)
    <2>1. CASE s.clusterhead
      <3>1. \A i \in 1 .. W - 1 :
              Duty(IF i = W - 1 THEN "clusterhead_send" ELSE "clusterhead_recv", s.down, s.down + i)
                \in DutyRecord
        BY <1>1, <1>2, <1>3
      <3>2. Below(s) \in [1 .. W - 1 -> DutyRecord] /\ W - 1 \in Nat
        BY <1>2, <2>1, <3>1 DEF Below
      <3> QED
        BY <3>2, SeqDef
    <2>2. CASE ~s.clusterhead
      BY <2>2 DEF Below
    <2> QED
      BY <1>1, <2>1, <2>2
  <1>5. Above(s) \in Seq(DutyRecord)
    <2>1. W - 1 \in 0 .. W - 1
      BY <1>2
    <2>2. /\ Duty("follower_send", s.up, s.up + s.rel) \in DutyRecord
          /\ Duty("follower_recv", s.up, s.up + (W - 1)) \in DutyRecord
      BY <1>1, <1>3, <2>1
    <2>3. s.up + (W - 1) = s.up + W - 1
      BY <1>1, <1>2 DEF Starts
    <2>4. Duty("follower_recv", s.up, s.up + W - 1) \in DutyRecord
      BY <2>2, <2>3
    <2> QED
      BY <2>2, <2>4 DEF Above
  <1> QED
    BY <1>4, <1>5

\* A duty lies in a slot of the superframe.
LEMMA DutiesType ==
    ASSUME NEW s \in NodeStates
    PROVE  Duties(s) \in Seq(DutyRecord) /\ Len(Duties(s)) \in Nat
  <1>1. Duties(s) = Below(s) \o Above(s)
    BY DEF Duties, Below, Above
  <1> QED
    BY <1>1, HalvesType, ConcatProperties, LenProperties

\* A follower's slot is in its clusterhead's window.
LEMMA FollowerSlot ==
    ASSUME NEW s \in NodeStates, NEW d \in 1 .. Len(Duties(s)), Duties(s)[d].do = "follower_send"
    PROVE  Duties(s)[d].slot - Duties(s)[d].base \in Nat
  <1>1. Duties(s) = Below(s) \o Above(s)
    BY DEF Duties, Below, Above
  <1>2. Below(s) \in Seq(DutyRecord) /\ Above(s) \in Seq(DutyRecord)
    BY HalvesType
  <1>3. CASE d <= Len(Below(s))
    <2>1. d \in 1 .. Len(Below(s)) /\ Duties(s)[d] = Below(s)[d]
      BY <1>1, <1>2, <1>3, ConcatProperties, LenProperties
    <2>2. Below(s)[d].do # "follower_send"
      BY <2>1, Windows DEF Below, Duty
    <2> QED
      BY <2>1, <2>2
  <1>4. CASE d > Len(Below(s))
    <2> DEFINE e == d - Len(Below(s))
    <2>1. e \in 1 .. Len(Above(s)) /\ Duties(s)[d] = Above(s)[e]
      BY <1>1, <1>2, <1>4, ConcatProperties, LenProperties
    <2>2. s.joined
      BY <2>1 DEF Above
    <2>3. e = 1 \/ e = 2
      BY <2>1, <2>2 DEF Above
    <2>4. e = 1
      BY <2>1, <2>2, <2>3 DEF Above, Duty
    <2>5. Duties(s)[d] = Duty("follower_send", s.up, s.up + s.rel)
      BY <2>1, <2>2, <2>4 DEF Above
    <2>6. s.up \in Nat /\ s.rel \in Nat
      BY Windows, SlotAssumption DEF NodeStates, Starts
    <2> QED
      BY <2>5, <2>6 DEF Duty
  <1> QED
    BY <1>2, <1>3, <1>4, LenProperties

-----------------------------------------------------------------------------
(* The type invariant of the loop.                                         *)

\* Which stages belong to the advertising slot.
StageOfDuty ==
    /\ stage = "advertise" => duty = 0
    /\ stage \in {"tuned", "listen", "heard"} => duty # 0

Radios == [initialized : BOOLEAN, file : SpreadingFactors \cup {NoFile}, spread : SpreadingFactors]

\* Where a code has been set it is the slot's, and a radio that is open is open
\* on the code set last.
CodeIsSet ==
    /\ stage \in {"tuned", "listen", "heard"} =>
         radio.spread = hash_cdma_code(CodeFor(Now, reply))
    /\ radio.file \in {NoFile, radio.spread}

LInv == LoopTypes /\ StageOfDuty /\ CodeIsSet

\* The duty a node is at is one of its duties.
LEMMA NowType ==
    ASSUME LoopTypes
    PROVE  /\ state \in NodeStates
           /\ Now.slot \in Slots
           /\ duty # 0 => Now \in DutyRecord /\ duty \in 1 .. Len(Duties(state))
           /\ duty = 0 => Now = Advertising
           /\ NextDuty \in 0 .. Len(Duties(state))
  <1>1. state \in NodeStates
    BY DEF LoopTypes, NodeStates, Starts
  <1>2. Duties(state) \in Seq(DutyRecord) /\ Len(Duties(state)) \in Nat
    BY <1>1, DutiesType
  <1>3. duty \in 0 .. Len(Duties(state))
    BY DEF LoopTypes
  <1>4. duty # 0 => Now \in DutyRecord /\ duty \in 1 .. Len(Duties(state))
    <2>1. duty # 0 => duty \in 1 .. Len(Duties(state))
      BY <1>2, <1>3
    <2> QED
      BY <1>2, <2>1, ElementOfSeq DEF Now
  <1>5. duty = 0 => Now = Advertising
    BY DEF Now
  <1>6. Now.slot \in Slots
    <2>1. 0 \in Slots /\ Advertising.slot = 0
      BY SlotAssumption DEF Slots, Advertising, Duty
    <2> QED
      BY <1>4, <1>5, <2>1 DEF DutyRecord
  <1>7. NextDuty \in 0 .. Len(Duties(state))
    BY <1>2, <1>3 DEF NextDuty
  <1> QED
    BY <1>1, <1>4, <1>5, <1>6, <1>7

\* The code a function sets is one of the radio's.
LEMMA CodeType ==
    ASSUME LoopTypes, NEW s \in Slots \cup {NoSlot}, Serves(Now, s)
    PROVE  hash_cdma_code(CodeFor(Now, s)) \in SpreadingFactors
  <1>1. CodeFor(Now, s) \in Nat
    <2>1. CASE duty = 0
      BY <2>1, NowType DEF CodeFor, Advertising, Duty
    <2>2. CASE duty # 0
      <3>1. Now \in DutyRecord /\ Now = Duties(state)[duty] /\ duty \in 1 .. Len(Duties(state))
        BY <2>2, NowType DEF Now
      <3>2. CASE Now.do = "clusterhead_recv"
        <4>1. s - Now.base \in 1 .. W - 2
          BY <3>2 DEF Serves
        <4> QED
          BY <3>2, <4>1, Windows DEF CodeFor
      <3>3. CASE Now.do = "follower_send"
        <4>1. s = Now.slot /\ CodeFor(Now, s) = Now.slot - Now.base
          BY <3>3 DEF Serves, CodeFor
        <4>2. Now.slot - Now.base \in Nat
          BY <3>1, <3>3, NowType, FollowerSlot
        <4> QED
          BY <4>1, <4>2
      <3>4. CASE Now.do \notin {"clusterhead_recv", "follower_send"}
        BY <3>4 DEF CodeFor
      <3> QED
        BY <3>2, <3>3, <3>4
    <2> QED
      BY <2>1, <2>2
  <1> QED
    BY <1>1 DEF hash_cdma_code, SpreadingFactors

\* The wrapper opens the radio on the spreading factor set last, or not at all.
LEMMA RadioSteps ==
    ASSUME NEW r \in Radios
    PROVE  /\ \A n \in Opened(r) :
                n \in Radios /\ n.spread = r.spread /\ n.file \in {NoFile, n.spread}
           /\ \A n \in Activated(r) :
                /\ n \in Radios /\ n.spread = r.spread
                /\ r.file \in {NoFile, r.spread} => n.file \in {NoFile, n.spread}
           /\ \A sf \in SpreadingFactors : \A n \in set_spreading_factor(r, sf) :
                n \in Radios /\ n.spread = sf /\ n.file \in {NoFile, sf}
  <1>1. ASSUME NEW q \in Radios, NEW n \in Opened(q)
        PROVE  n \in Radios /\ n.spread = q.spread /\ n.file \in {NoFile, n.spread}
    <2>1. CASE n = [initialized |-> TRUE, file |-> q.spread, spread |-> q.spread]
      BY <2>1 DEF Radios
    <2>2. CASE n = [q EXCEPT !.file = NoFile]
      BY <2>2 DEF Radios
    <2> QED
      BY <1>1, <2>1, <2>2 DEF Opened
  <1>2. ASSUME NEW n \in Activated(r)
        PROVE  /\ n \in Radios /\ n.spread = r.spread
               /\ r.file \in {NoFile, r.spread} => n.file \in {NoFile, n.spread}
    <2>1. n = r \/ n \in Opened(r)
      BY <1>2 DEF Activated
    <2> QED
      BY <1>1, <2>1
  <1>3. ASSUME NEW sf \in SpreadingFactors, NEW n \in set_spreading_factor(r, sf)
        PROVE  n \in Radios /\ n.spread = sf /\ n.file \in {NoFile, sf}
    <2>1. PICK c \in IF r.initialized THEN Closed(r) ELSE {r} :
            n \in Opened([c EXCEPT !.spread = sf])
      BY <1>3 DEF set_spreading_factor
    <2>2. c \in Radios
      BY <2>1 DEF Closed, Radios
    <2>3. [c EXCEPT !.spread = sf] \in Radios /\ [c EXCEPT !.spread = sf].spread = sf
      BY <2>2 DEF Radios
    <2> QED
      BY <1>1, <2>1, <2>3
  <1> QED
    BY <1>1, <1>2, <1>3

\* A node that has just advertised has no window but the gateway's.
LEMMA UnjoinedType ==
    ASSUME NEW ring \in {Layout!GATEWAY_RING, Layout!UNKNOWN_RING} \cup Rings
    PROVE  Unjoined(ring) \in NodeStates
  <1>1. ring \in Nat
    BY LayoutAssumption DEF Layout!GATEWAY_RING, Layout!UNKNOWN_RING
  <1>2. /\ W \in Nat /\ W >= 2 /\ SUPERFRAME_SLOT_COUNT \in Nat
        /\ Layout!downstream_start_slot(ring) \in 1 .. SUPERFRAME_SLOT_COUNT - W
    BY <1>1, Windows, WindowStart, SlotAssumption
  <1>3. 0 \in Starts /\ Layout!downstream_start_slot(ring) \in Starts
    BY <1>2 DEF Starts
  <1>4. 1 \in 1 .. W /\ 0 \in 0 .. W - 1
    BY <1>2
  <1> QED
    BY <1>3, <1>4 DEF Unjoined, NodeStates

LEMMA LInvInit == LoopInit => LInv
  <1> SUFFICES ASSUME LoopInit PROVE LInv
    OBVIOUS
  <1>1. state \in NodeStates
    BY UnjoinedType DEF LoopInit
  <1>2. Len(Duties(state)) \in Nat
    BY <1>1, DutiesType
  <1>3. radio \in Radios /\ radio.file = NoFile
    BY DEF LoopInit, Off, Radios, NoFile, DefaultSpread, SpreadingFactors
  <1>4. slot_duration \in Nat /\ MaxLag \in Nat
    BY Durations, LagAssumption
  <1>5. LoopTypes
    BY <1>1, <1>2, <1>3, <1>4 DEF LoopInit, LoopTypes, NodeStates, Starts, Radios
  <1>6. StageOfDuty /\ CodeIsSet
    BY <1>3 DEF LoopInit, StageOfDuty, CodeIsSet
  <1> QED
    BY <1>5, <1>6 DEF LInv

-----------------------------------------------------------------------------
(* The loop is a caller of the clock.                                      *)

\* Every step of the loop is a step of the clock, or one it takes no part in.
LEMMA LoopStepIsClockStep ==
    LInv /\ [LoopNext]_<<vars, loop_vars>> => [Next]_vars
  <1> SUFFICES ASSUME LInv, LoopNext PROVE [Next]_vars
    BY DEF vars
  <1>1. CASE Setup
    BY <1>1 DEF Setup, Next
  <1>2. CASE TimePasses
    BY <1>2 DEF TimePasses, Next
  <1>3. CASE Plan
    BY <1>3, NowType DEF Plan, Next, LInv
  <1>4. CASE Wake
    BY <1>4 DEF Wake, Next
  <1>5. CASE BeginAdvertise \/ Tune \/ SkipAdvertise \/ Skip
    BY <1>5 DEF BeginAdvertise, Tune, SkipAdvertise, Skip, Next
  <1>6. CASE AdvertiseRadio
    BY <1>6 DEF AdvertiseRadio, Next
  <1>7. CASE AdvertiseRecvReturns \/ Heard \/ HeardOther
    BY <1>7 DEF AdvertiseRecvReturns, Heard, HeardOther, Next
  <1>8. ASSUME NEW c \in Rings \cup {Layout!GATEWAY_RING}, NEW rel \in 1 .. W - 1, Join(c, rel)
        PROVE  [Next]_vars
    BY <1>8 DEF Join, Next
  <1>9. CASE EndAdvertise
    BY <1>9 DEF EndAdvertise
  <1>10. CASE Transmit
    BY <1>10 DEF Transmit, Next
  <1>11. CASE Listen
    BY <1>11 DEF Listen, Next
  <1>12. CASE ListenAgain
    BY <1>12 DEF ListenAgain, Next, Flush
  <1> QED
    BY <1>1, <1>2, <1>3, <1>4, <1>5, <1>6, <1>7, <1>8, <1>9, <1>10, <1>11, <1>12 DEF LoopNext

-----------------------------------------------------------------------------
(* The invariant is inductive, together with the clock's.                  *)

\* A node that joins a cluster.
LEMMA JoinedType ==
    ASSUME NEW s \in NodeStates, NEW rel \in 1 .. W - 1, NEW u \in Starts
    PROVE  [s EXCEPT !.joined = TRUE, !.rel = rel, !.up = u] \in NodeStates
  <1> DEFINE j == [s EXCEPT !.joined = TRUE]
             k == [j EXCEPT !.rel = rel]
  <1>1. j \in NodeStates
    BY DEF NodeStates
  <1>2. k \in NodeStates
    <2>1. rel \in 0 .. W - 1
      BY Windows
    <2> HIDE DEF j
    <2> QED
      BY <1>1, <2>1 DEF NodeStates
  <1>3. [k EXCEPT !.up = u] \in NodeStates
    <2> HIDE DEF k
    <2> QED
      BY <1>2 DEF NodeStates
  <1> QED
    BY <1>3, Zenon

\* A node that is promoted.
LEMMA PromotedType ==
    ASSUME NEW s \in NodeStates, NEW n \in 1 .. W, NEW d \in Starts
    PROVE  [s EXCEPT !.clusterhead = TRUE, !.slots_assigned = n, !.down = d] \in NodeStates
  <1> DEFINE j == [s EXCEPT !.clusterhead = TRUE]
             k == [j EXCEPT !.slots_assigned = n]
  <1>1. j \in NodeStates
    BY DEF NodeStates
  <1>2. k \in NodeStates
    <2> HIDE DEF j
    <2> QED
      BY <1>1 DEF NodeStates
  <1>3. [k EXCEPT !.down = d] \in NodeStates
    <2> HIDE DEF k
    <2> QED
      BY <1>2 DEF NodeStates
  <1> QED
    BY <1>3, Zenon

LEMMA LInvNext ==
    LInv /\ TypeOK' /\ [LoopNext]_<<vars, loop_vars>> => LInv'
  <1> SUFFICES ASSUME LInv, TypeOK', [LoopNext]_<<vars, loop_vars>> PROVE LInv'
    OBVIOUS
  <1> DEFINE Fields ==
        /\ stage' \in {"plan", "wait", "advertise", "tuned", "listen", "heard"}
        /\ state' \in NodeStates
        /\ duty' \in 0 .. Len(Duties(state'))
        /\ radio' \in Radios
        /\ left' \in 0 .. slot_duration
        /\ lag' \in 0 .. MaxLag
        /\ frame' \in Nat \cup {Never}
        /\ missed' \in Nat
  <1>a. Fields /\ StageOfDuty' /\ CodeIsSet' => LInv'
    BY DEF LInv, LoopTypes, NodeStates, Starts, Radios
  <1>b. /\ stage \in {"plan", "wait", "advertise", "tuned", "listen", "heard"}
        /\ state \in NodeStates
        /\ duty \in 0 .. Len(Duties(state))
        /\ radio \in Radios
        /\ left \in 0 .. slot_duration
        /\ lag \in 0 .. MaxLag
        /\ frame \in Nat \cup {Never}
        /\ missed \in Nat
    BY DEF LInv, LoopTypes, NodeStates, Starts, Radios
  <1>c. LoopTypes /\ StageOfDuty /\ CodeIsSet
    BY DEF LInv
  <1>d. slot_duration \in Nat /\ MaxLag \in Nat
    BY Durations, LagAssumption
  <1>e. reply' \in Slots \cup {NoSlot} /\ window'.start \in Nat
    BY DEF TypeOK
  <1>f. Len(Duties(state)) \in Nat /\ NextDuty \in 0 .. Len(Duties(state))
    BY <1>b, <1>c, DutiesType, NowType
  <1>g. state' = state /\ duty' = duty => Now' = Now
    BY DEF Now
  <1>h. /\ Now = Advertising <=> duty = 0
        /\ Layout!UNKNOWN_RING \in Nat /\ Layout!GATEWAY_RING \in Nat
    <2>1. duty # 0 => Now # Advertising
      BY <1>c, NowType DEF DutyRecord, Advertising, Duty
    <2> QED
      BY <1>c, <2>1, NowType DEF Layout!UNKNOWN_RING, Layout!GATEWAY_RING
  <1>i. radio.file \in {NoFile, radio.spread}
    BY <1>c DEF CodeIsSet
  <1>j. ASSUME NEW r \in {Layout!GATEWAY_RING, Layout!UNKNOWN_RING} \cup Rings
        PROVE  Layout!downstream_start_slot(r) \in Starts
    <2>1. W \in Nat /\ SUPERFRAME_SLOT_COUNT \in Nat
      BY Windows, SlotAssumption
    <2>2. r \in Nat
      BY LayoutAssumption DEF Layout!GATEWAY_RING, Layout!UNKNOWN_RING
    <2>3. Layout!downstream_start_slot(r) \in 1 .. SUPERFRAME_SLOT_COUNT - W
      BY <2>2, WindowStart
    <2> QED
      BY <2>1, <2>3 DEF Starts
  <1> HIDE DEF Fields
  <1>0. CASE UNCHANGED <<vars, loop_vars>>
    BY <1>0 DEF vars, loop_vars, LInv, LoopTypes, StageOfDuty, CodeIsSet, Now
  <1>1. CASE Setup
    <2>1. radio' \in Radios /\ radio'.file \in {NoFile, radio'.spread} /\ radio'.spread = radio.spread
      BY <1>1, <1>b, RadioSteps DEF Setup
    <2>2. /\ reply' = reply
          /\ UNCHANGED <<stage, state, duty, left, lag, frame, missed>>
      BY <1>1 DEF Setup, LinkInit
    <2>3. Fields
      BY <1>b, <2>1, <2>2 DEF Fields
    <2>4. StageOfDuty' /\ CodeIsSet'
      BY <1>c, <1>g, <2>1, <2>2 DEF StageOfDuty, CodeIsSet
    <2> QED
      BY <1>a, <2>3, <2>4
  <1>2. CASE TimePasses
    <2>1. /\ reply' = reply
          /\ UNCHANGED <<stage, state, duty, radio, frame, missed>>
          /\ left' \in 0 .. slot_duration /\ lag' \in 0 .. MaxLag
      BY <1>2, <1>b, <1>d DEF TimePasses, Tick
    <2>2. Fields
      BY <1>b, <2>1 DEF Fields
    <2>3. StageOfDuty' /\ CodeIsSet'
      BY <1>c, <1>g, <2>1 DEF StageOfDuty, CodeIsSet
    <2> QED
      BY <1>a, <2>2, <2>3
  <1>3. CASE Plan
    <2>1. stage' = "wait" /\ UNCHANGED <<state, duty, radio, left, lag, frame, missed>>
      BY <1>3 DEF Plan
    <2>2. Fields
      BY <1>b, <2>1 DEF Fields
    <2>3. StageOfDuty' /\ CodeIsSet'
      BY <1>i, <2>1 DEF StageOfDuty, CodeIsSet
    <2> QED
      BY <1>a, <2>2, <2>3
  <1>4. CASE Wake
    <2>1. reply' = reply /\ UNCHANGED loop_vars
      BY <1>4 DEF Wake, SleepUntil
    <2> QED
      BY <2>1 DEF loop_vars, LInv, LoopTypes, StageOfDuty, CodeIsSet, Now
  <1>5. CASE BeginAdvertise
    <2>1. /\ Serves(Now, reply') /\ stage' = "advertise" /\ duty' = 0
          /\ left' = slot_duration /\ lag' = 0 /\ frame' = window'.start /\ missed' = 0
          /\ radio' \in set_spreading_factor(radio, hash_cdma_code(CodeFor(Now, reply')))
      BY <1>5, <1>h DEF BeginAdvertise, set_cdma_code
    <2>2. state' \in NodeStates
      <3>1. PICK ring \in IF state.ring = Layout!GATEWAY_RING THEN {state.ring} ELSE Rings :
              state' = Unjoined(ring)
        BY <1>5 DEF BeginAdvertise
      <3>2. ring \in {Layout!GATEWAY_RING, Layout!UNKNOWN_RING} \cup Rings
        BY <3>1
      <3> QED
        BY <3>1, <3>2, UnjoinedType
    <2>3. hash_cdma_code(CodeFor(Now, reply')) \in SpreadingFactors
      BY <1>c, <1>e, <2>1, CodeType
    <2>4. radio' \in Radios /\ radio'.file \in {NoFile, radio'.spread}
      BY <1>b, <2>1, <2>3, RadioSteps
    <2>5. Len(Duties(state')) \in Nat
      BY <2>2, DutiesType
    <2>6. Fields
      BY <1>d, <1>e, <2>1, <2>2, <2>4, <2>5 DEF Fields
    <2>7. StageOfDuty' /\ CodeIsSet'
      BY <2>1, <2>4 DEF StageOfDuty, CodeIsSet
    <2> QED
      BY <1>a, <2>6, <2>7
  <1>6. CASE Tune
    <2>1. /\ Serves(Now, reply') /\ stage' = "tuned" /\ Now # Advertising
          /\ radio' \in set_spreading_factor(radio, hash_cdma_code(CodeFor(Now, reply')))
          /\ UNCHANGED <<state, duty, left, lag, frame, missed>>
      BY <1>6 DEF Tune, set_cdma_code
    <2>2. hash_cdma_code(CodeFor(Now, reply')) \in SpreadingFactors
      BY <1>c, <1>e, <2>1, CodeType
    <2>3. /\ radio' \in Radios /\ radio'.file \in {NoFile, radio'.spread}
          /\ radio'.spread = hash_cdma_code(CodeFor(Now, reply'))
      BY <1>b, <2>1, <2>2, RadioSteps
    <2>4. Fields
      BY <1>b, <2>1, <2>3 DEF Fields
    <2>5. CodeFor(Now', reply') = CodeFor(Now, reply')
      BY <1>g, <2>1
    <2>6. StageOfDuty' /\ CodeIsSet'
      BY <1>h, <2>1, <2>3, <2>5 DEF StageOfDuty, CodeIsSet
    <2> QED
      BY <1>a, <2>4, <2>6
  <1>7. CASE SkipAdvertise
    <2>1. /\ stage' = "plan" /\ lag' = 0 /\ missed' = missed + 1
          /\ UNCHANGED <<state, duty, radio, left, frame>>
      BY <1>7 DEF SkipAdvertise
    <2>2. Fields
      BY <1>b, <1>d, <2>1 DEF Fields
    <2>3. StageOfDuty' /\ CodeIsSet'
      BY <1>i, <2>1 DEF StageOfDuty, CodeIsSet
    <2> QED
      BY <1>a, <2>2, <2>3
  <1>8. CASE Skip
    <2>1. /\ stage' = "plan" /\ duty' = NextDuty
          /\ UNCHANGED <<state, radio, left, lag, frame, missed>>
      BY <1>8 DEF Skip
    <2>2. Fields
      BY <1>b, <1>f, <2>1 DEF Fields
    <2>3. StageOfDuty' /\ CodeIsSet'
      BY <1>i, <2>1 DEF StageOfDuty, CodeIsSet
    <2> QED
      BY <1>a, <2>2, <2>3
  <1>9. CASE AdvertiseRadio
    <2>1. /\ stage = "advertise"
          /\ radio' \in IF in_active_window(now, window') THEN Activated(radio) ELSE {radio}
          /\ UNCHANGED <<stage, state, duty, left, lag, frame, missed>>
      BY <1>9 DEF AdvertiseRadio
    <2>2. radio' \in Radios /\ radio'.file \in {NoFile, radio'.spread}
      BY <1>b, <1>i, <2>1, RadioSteps
    <2>3. Fields
      BY <1>b, <2>1, <2>2 DEF Fields
    <2>4. StageOfDuty' /\ CodeIsSet'
      BY <1>c, <2>1, <2>2 DEF StageOfDuty, CodeIsSet
    <2> QED
      BY <1>a, <2>3, <2>4
  <1>10. CASE AdvertiseRecvReturns
    <2>1. reply' = reply /\ UNCHANGED loop_vars
      BY <1>10 DEF AdvertiseRecvReturns, RecvReturns
    <2> QED
      BY <2>1 DEF loop_vars, LInv, LoopTypes, StageOfDuty, CodeIsSet, Now
  <1>11. ASSUME NEW c \in Rings \cup {Layout!GATEWAY_RING}, NEW rel \in 1 .. W - 1, Join(c, rel)
         PROVE  LInv'
    <2>1. /\ stage = "advertise"
          /\ state' = [state EXCEPT !.joined = TRUE, !.rel = rel,
                                    !.up = Layout!downstream_start_slot(c)]
          /\ UNCHANGED <<stage, duty, radio, left, lag, frame, missed>>
      BY <1>11, Zenon DEF Join
    <2>2. Layout!downstream_start_slot(c) \in Starts
      BY <1>j
    <2>3. state' \in NodeStates
      BY <1>b, <2>1, <2>2, JoinedType, Zenon
    <2>4. duty = 0 /\ Len(Duties(state')) \in Nat
      BY <1>c, <2>1, <2>3, DutiesType DEF StageOfDuty
    <2>5. duty' \in 0 .. Len(Duties(state'))
      <3>1. duty' = 0
        BY <2>1, <2>4, Zenon
      <3> QED
        BY <2>4, <3>1
    <2>6. UNCHANGED <<stage, duty, radio, left, lag, frame, missed>>
      BY <2>1, Zenon
    <2>7. Fields
      BY <1>b, <2>3, <2>5, <2>6 DEF Fields
    <2>8. stage = "advertise"
      BY <2>1, Zenon
    <2>9. StageOfDuty' /\ CodeIsSet'
      BY <1>c, <2>4, <2>6, <2>8 DEF StageOfDuty, CodeIsSet
    <2> QED
      BY <1>a, <2>7, <2>9
  <1>12. CASE EndAdvertise
    <2>1. /\ stage' = "plan"
          /\ duty' = IF Len(Duties(state')) > 0 THEN 1 ELSE 0
          /\ UNCHANGED <<radio, left, lag, frame, missed>>
      BY <1>12, Zenon DEF EndAdvertise
    <2>2. state' \in NodeStates
      <3>0. Layout!downstream_start_slot(state.ring) \in Starts
        <4>1. state.ring \in {Layout!GATEWAY_RING, Layout!UNKNOWN_RING} \cup Rings
          BY <1>b DEF NodeStates
        <4> QED
          BY <1>j, <4>1
      <3>1. CASE UNCHANGED state
        BY <1>b, <3>1
      <3>2. ASSUME NEW n \in 1 .. W,
                   state' = [state EXCEPT !.clusterhead = TRUE, !.slots_assigned = n,
                                          !.down = Layout!downstream_start_slot(state.ring)]
            PROVE  state' \in NodeStates
        BY <1>b, <3>0, <3>2, PromotedType, Zenon
      <3> QED
        BY <1>12, <3>1, <3>2, Zenon DEF EndAdvertise
    <2>3. Len(Duties(state')) \in Nat
      BY <2>2, DutiesType
    <2>4. Fields
      BY <1>b, <2>1, <2>2, <2>3 DEF Fields
    <2>5. StageOfDuty' /\ CodeIsSet'
      BY <1>i, <2>1 DEF StageOfDuty, CodeIsSet
    <2> QED
      BY <1>a, <2>4, <2>5
  <1>13. CASE Transmit
    <2>1. /\ stage' = "plan" /\ duty' = NextDuty
          /\ radio' \in IF in_active_window(now, window') THEN Activated(radio) ELSE {radio}
          /\ UNCHANGED <<state, left, lag, frame, missed>>
      BY <1>13 DEF Transmit
    <2>2. radio' \in Radios /\ radio'.file \in {NoFile, radio'.spread}
      BY <1>b, <1>i, <2>1, RadioSteps
    <2>3. Fields
      BY <1>b, <1>f, <2>1, <2>2 DEF Fields
    <2>4. StageOfDuty' /\ CodeIsSet'
      BY <2>1, <2>2 DEF StageOfDuty, CodeIsSet
    <2> QED
      BY <1>a, <2>3, <2>4
  <1>14. CASE Listen
    <2>1. stage = "tuned" /\ reply' = reply /\ UNCHANGED <<state, lag, frame, missed>>
      BY <1>14 DEF Listen, Recv
    <2>2. CASE in_active_window(now, window')
      <3>1. /\ radio' \in Activated(radio) /\ left' \in {ListenTime, 0}
            /\ stage' = "listen" /\ duty' = duty
        BY <1>14, <2>2 DEF Listen
      <3>2. /\ radio' \in Radios /\ radio'.file \in {NoFile, radio'.spread}
            /\ radio'.spread = radio.spread
        BY <1>b, <1>i, <3>1, RadioSteps
      <3>3. Fields
        BY <1>b, <1>d, <2>1, <3>1, <3>2 DEF Fields, ListenTime
      <3>4. StageOfDuty' /\ CodeIsSet'
        BY <1>c, <1>g, <2>1, <3>1, <3>2 DEF StageOfDuty, CodeIsSet
      <3> QED
        BY <1>a, <3>3, <3>4
    <2>3. CASE ~in_active_window(now, window')
      <3>1. stage' = "plan" /\ duty' = NextDuty /\ UNCHANGED <<radio, left>>
        BY <1>14, <2>3 DEF Listen
      <3>2. Fields
        BY <1>b, <1>f, <2>1, <3>1 DEF Fields
      <3>3. StageOfDuty' /\ CodeIsSet'
        BY <1>i, <3>1 DEF StageOfDuty, CodeIsSet
      <3> QED
        BY <1>a, <3>2, <3>3
    <2> QED
      BY <2>2, <2>3
  <1>15. CASE Heard
    <2>1. /\ stage' = "plan" /\ duty' = NextDuty /\ left' = 0
          /\ UNCHANGED <<state, radio, lag, frame, missed>>
      BY <1>15 DEF Heard
    <2>2. Fields
      BY <1>b, <1>d, <1>f, <2>1 DEF Fields
    <2>3. StageOfDuty' /\ CodeIsSet'
      BY <1>i, <2>1 DEF StageOfDuty, CodeIsSet
    <2> QED
      BY <1>a, <2>2, <2>3
  <1>16. CASE HeardOther
    <2>1. /\ stage = "listen" /\ stage' = "heard" /\ left' = 0 /\ reply' = reply
          /\ UNCHANGED <<state, duty, radio, lag, frame, missed>>
      BY <1>16 DEF HeardOther, RecvReturns
    <2>2. Fields
      BY <1>b, <1>d, <2>1 DEF Fields
    <2>3. StageOfDuty' /\ CodeIsSet'
      BY <1>c, <1>g, <2>1 DEF StageOfDuty, CodeIsSet
    <2> QED
      BY <1>a, <2>2, <2>3
  <1>17. CASE ListenAgain
    <2>1. /\ stage = "heard" /\ reply' = reply
          /\ UNCHANGED <<state, radio, left, lag, frame, missed>>
          /\ \/ stage' = "tuned" /\ duty' = duty
             \/ stage' = "plan" /\ duty' = NextDuty
      BY <1>17 DEF ListenAgain
    <2>2. Fields
      BY <1>b, <1>f, <2>1 DEF Fields
    <2>3. StageOfDuty' /\ CodeIsSet'
      BY <1>c, <1>g, <1>i, <2>1 DEF StageOfDuty, CodeIsSet
    <2> QED
      BY <1>a, <2>2, <2>3
  <1> QED
    BY <1>0, <1>1, <1>2, <1>3, <1>4, <1>5, <1>6, <1>7, <1>8, <1>9, <1>10, <1>11, <1>12,
       <1>13, <1>14, <1>15, <1>16, <1>17 DEF LoopNext

-----------------------------------------------------------------------------
(* What holds of a node that runs the loop.                                *)

\* The invariant of the clock and that of the loop hold together: each step of
\* the loop keeps the clock's because it is a step of the clock.
THEOREM LoopInvariant == LoopSpec => [](IInv /\ LInv)
  <1>1. LoopInit => IInv /\ LInv
    BY IInvInit, LInvInit DEF LoopInit
  <1>2. IInv /\ LInv /\ [LoopNext]_<<vars, loop_vars>> => IInv' /\ LInv'
    <2> SUFFICES ASSUME IInv, LInv, [LoopNext]_<<vars, loop_vars>> PROVE IInv' /\ LInv'
      OBVIOUS
    <2>1. IInv'
      BY LoopStepIsClockStep, IInvNext
    <2>2. TypeOK'
      BY <2>1 DEF IInv
    <2> QED
      BY <2>1, <2>2, LInvNext
  <1> QED
    BY <1>1, <1>2, PTL DEF LoopSpec

\* A node that runs the loop uses its clock as TdmaClock lets any caller, so
\* every theorem about the clock holds of the node.
THEOREM LoopUsesClock == LoopSpec => Spec
  <1>1. LoopInit => Init
    BY DEF LoopInit
  <1>2. LInv /\ [LoopNext]_<<vars, loop_vars>> => [Next]_vars
    BY LoopStepIsClockStep
  <1> QED
    BY <1>1, <1>2, LoopInvariant, PTL DEF LoopSpec, Spec

\* The loop keeps its state in its ranges: every duty lies in a slot of the
\* superframe and loop() never goes on past the last.
THEOREM LoopTypeCorrect == LoopSpec => []LoopTypeOK
  <1>1. IInv /\ LInv => LoopTypeOK
    BY DEF IInv, LInv, LoopTypeOK
  <1> QED
    BY <1>1, LoopInvariant, PTL

\* Whatever open or close has failed, a radio that is open in a data slot is on
\* the code of that slot.
THEOREM LoopOnItsCode == LoopSpec => []OnItsCode
  <1>1. LInv => OnItsCode
    BY DEF LInv, CodeIsSet, OnItsCode
  <1> QED
    BY <1>1, LoopInvariant, PTL

\* In whatever order the loop reads its clock, and however often a clusterhead
\* sets it, the node keeps to the grid it shares with the others.
THEOREM LoopKeepsToGrid ==
    LoopSpec => []WindowAligned /\ []NeverStranded /\ ActsInGridSlot /\ OnTimeWakeHitsSlot
  BY LoopUsesClock, ClockAligned, ClockNeverStranded, ClockActsInGridSlot, ClockOnTimeWake, PTL

-----------------------------------------------------------------------------
(* The duties in the order of their slots.                                 *)

\* Where the windows of a node may start, and where a follower's slot may be.
OnGrid(s) ==
    /\ s.clusterhead => \E k \in Nat : s.down = 1 + k * W
    /\ s.joined => s.rel >= 1 /\ \E k \in Nat : s.up = 1 + k * W

\* Both windows of the node are one, and it sends in the slot of its own acks:
\* in the wrong order, but by no slot.
Tight(s) == s.up = s.down /\ s.rel = W - 1

\* Whether a node in state s comes to a duty in the order of the slots.
InOrder(s, d) ==
    Ordered(s) \/ Tight(s) \/ d.do \in {"clusterhead_recv", "clusterhead_send"}

\* Every downstream window starts on the grid of the windows.
LEMMA StartOnGrid ==
    ASSUME NEW ring \in Nat
    PROVE  \E k \in Nat : Layout!downstream_start_slot(ring) = 1 + k * W
  <1> DEFINE q == REUSE_DISTANCE - 1 - (ring % REUSE_DISTANCE)
  <1>1. REUSE_DISTANCE \in Nat \ {0} /\ ring % REUSE_DISTANCE \in 0 .. REUSE_DISTANCE - 1
    BY LayoutAssumption, Division
  <1>2. q \in Nat
    BY <1>1
  <1>3. Layout!downstream_start_slot(ring) = 1 + q * W
    BY DEF W, Layout!downstream_start_slot, Layout!ADV_SLOTS
  <1> QED
    BY <1>2, <1>3

\* Windows on the grid that are not the same do not overlap.
LEMMA WindowsApart ==
    ASSUME NEW k \in Nat, NEW l \in Nat, 1 + k * W < 1 + l * W
    PROVE  1 + k * W + W <= 1 + l * W
  <1> DEFINE w == W
  <1>1. w \in Nat
    BY Windows
  <1>2. k * w < l * w
    BY <1>1
  <1> HIDE DEF w
  <1>3. k < l
    <2>1. ASSUME l <= k PROVE FALSE
      <3>1. PICK m \in Nat : k = l + m
        <4>1. k - l \in Nat /\ k = l + (k - l)
          BY <2>1
        <4> QED
          BY <4>1
      <3>2. k * w = l * w + m * w /\ m * w \in Nat /\ l * w \in Nat
        BY <1>1, <3>1
      <3> QED
        BY <1>2, <3>2
    <2> QED
      BY <2>1
  <1>4. PICK m \in Nat : l = k + 1 + m
    <2>1. l - k - 1 \in Nat /\ l = k + 1 + (l - k - 1)
      BY <1>3
    <2> QED
      BY <2>1
  <1>5. l * w = k * w + w + m * w /\ m * w \in Nat /\ k * w \in Nat
    BY <1>1, <1>4
  <1> QED
    BY <1>1, <1>5 DEF w

\* The duties one by one.
LEMMA DutyAt ==
    ASSUME NEW s \in NodeStates, NEW d \in 1 .. Len(Duties(s))
    PROVE  LET n == IF s.clusterhead THEN W - 1 ELSE 0
           IN  /\ n \in Nat
               /\ Len(Duties(s)) = n + (IF s.joined THEN 2 ELSE 0)
               /\ \/ /\ s.clusterhead /\ d <= W - 1
                     /\ Duties(s)[d] = Duty(IF d = W - 1 THEN "clusterhead_send"
                                            ELSE "clusterhead_recv", s.down, s.down + d)
                  \/ /\ s.joined /\ d = n + 1
                     /\ Duties(s)[d] = Duty("follower_send", s.up, s.up + s.rel)
                  \/ /\ s.joined /\ d = n + 2
                     /\ Duties(s)[d] = Duty("follower_recv", s.up, s.up + W - 1)
  <1> DEFINE n == IF s.clusterhead THEN W - 1 ELSE 0
  <1>1. Duties(s) = Below(s) \o Above(s)
    BY DEF Duties, Below, Above
  <1>2. Below(s) \in Seq(DutyRecord) /\ Above(s) \in Seq(DutyRecord)
    BY HalvesType
  <1>3. W \in Nat /\ W >= 2
    BY Windows
  <1>4. n \in Nat /\ Len(Below(s)) = n
    BY <1>3 DEF Below
  <1>5. Len(Above(s)) = IF s.joined THEN 2 ELSE 0
    BY DEF Above
  <1>6. Len(Duties(s)) = n + (IF s.joined THEN 2 ELSE 0)
    <2>1. Len(Below(s) \o Above(s)) = Len(Below(s)) + Len(Above(s))
      BY <1>2, ConcatProperties
    <2> HIDE DEF n
    <2> QED
      BY <1>1, <1>4, <1>5, <2>1
  <1>7. d \in Nat /\ d >= 1
    <2>1. Len(Duties(s)) \in Nat
      BY DutiesType
    <2> QED
      BY <2>1
  <1>8. CASE d <= n
    <2>1. d \in 1 .. Len(Below(s)) /\ Duties(s)[d] = Below(s)[d]
      BY <1>1, <1>2, <1>4, <1>7, <1>8, ConcatProperties
    <2>2. s.clusterhead /\ d \in 1 .. W - 1
      BY <1>3, <1>7, <1>8
    <2>3. Below(s)[d] = Duty(IF d = W - 1 THEN "clusterhead_send" ELSE "clusterhead_recv",
                             s.down, s.down + d)
      BY <2>2 DEF Below
    <2> QED
      BY <1>3, <1>4, <1>6, <2>1, <2>2, <2>3
  <1>9. CASE d > n
    <2> DEFINE e == d - n
    <2>1. e \in 1 .. Len(Above(s)) /\ Duties(s)[d] = Above(s)[e]
      BY <1>1, <1>2, <1>4, <1>5, <1>6, <1>7, <1>9, ConcatProperties
    <2>2. s.joined
      BY <1>5, <2>1
    <2>3. e = 1 \/ e = 2
      BY <1>5, <2>1, <2>2
    <2>4. /\ e = 1 => Duties(s)[d] = Duty("follower_send", s.up, s.up + s.rel)
          /\ e = 2 => Duties(s)[d] = Duty("follower_recv", s.up, s.up + W - 1)
      BY <2>1, <2>2 DEF Above
    <2>5. (e = 1 => d = n + 1) /\ (e = 2 => d = n + 2)
      BY <1>4, <1>7
    <2> QED
      BY <1>4, <1>6, <2>2, <2>3, <2>4, <2>5
  <1> QED
    BY <1>4, <1>7, <1>8, <1>9

\* Every duty comes after the slot that follows the advertising slot.
LEMMA DutiesAfterAdvertising ==
    ASSUME NEW s \in NodeStates, OnGrid(s), NEW d \in 1 .. Len(Duties(s))
    PROVE  Duties(s)[d].slot >= 2
  <1>2. W \in Nat /\ W >= 2 /\ d \in Nat /\ d >= 1
    <2>1. Len(Duties(s)) \in Nat
      BY DutiesType
    <2> QED
      BY <2>1, Windows
  <1>3. \A k \in Nat : 1 + k * W \in Nat /\ 1 + k * W >= 1
    <2>1. \A w \in Nat : \A k \in Nat : 1 + k * w \in Nat /\ 1 + k * w >= 1
      <3>1. ASSUME NEW w \in Nat, NEW k \in Nat PROVE k * w \in Nat
        OBVIOUS
      <3> QED
        BY <3>1
    <2> QED
      BY <1>2, <2>1
  <1>4. s.clusterhead => s.down \in Nat /\ s.down >= 1
    BY <1>3, Zenon DEF OnGrid
  <1>5. s.joined => s.rel \in Nat /\ s.rel >= 1 /\ s.up \in Nat /\ s.up >= 1
    <2>1. s.joined => s.rel >= 1 /\ s.up \in Nat /\ s.up >= 1
      BY <1>3, Zenon DEF OnGrid
    <2>2. s.rel \in 0 .. W - 1
      BY DEF NodeStates
    <2> QED
      BY <1>2, <2>1, <2>2
  <1>6. \/ /\ s.clusterhead
           /\ Duties(s)[d] = Duty(IF d = W - 1 THEN "clusterhead_send" ELSE "clusterhead_recv",
                                  s.down, s.down + d)
        \/ s.joined /\ Duties(s)[d] = Duty("follower_send", s.up, s.up + s.rel)
        \/ s.joined /\ Duties(s)[d] = Duty("follower_recv", s.up, s.up + W - 1)
    BY DutyAt
  <1> QED
    BY <1>2, <1>4, <1>5, <1>6 DEF Duty

\* The first duty is in order: a clusterhead comes to its own window first.
LEMMA FirstInOrder ==
    ASSUME NEW s \in NodeStates, Len(Duties(s)) > 0
    PROVE  1 \in 1 .. Len(Duties(s)) /\ InOrder(s, Duties(s)[1])
  <1>1. 1 \in 1 .. Len(Duties(s)) /\ W \in Nat /\ W >= 2
    BY DutiesType, Windows
  <1>2. CASE s.clusterhead
    <2>1. s.clusterhead => 1 # (W - 1) + 1 /\ 1 # (W - 1) + 2
      BY <1>1
    <2>2. Duties(s)[1] = Duty(IF 1 = W - 1 THEN "clusterhead_send" ELSE "clusterhead_recv",
                              s.down, s.down + 1)
      BY <1>1, <1>2, <2>1, DutyAt
    <2> QED
      BY <1>1, <2>2 DEF Duty, InOrder
  <1>3. CASE ~s.clusterhead
    BY <1>1, <1>3 DEF InOrder, Ordered
  <1> QED
    BY <1>2, <1>3

\* A node that comes to its next duty in order came to the one before in order,
\* and the next one's slot is not before it, nor is it the slot that a
\* clusterhead has just listened in.
LEMMA NextInOrder ==
    ASSUME NEW s \in NodeStates, OnGrid(s),
           NEW d \in 1 .. Len(Duties(s)), d + 1 \in 1 .. Len(Duties(s)),
           InOrder(s, Duties(s)[d + 1])
    PROVE  /\ InOrder(s, Duties(s)[d])
           /\ Duties(s)[d].do # "follower_recv"
           /\ Duties(s)[d].slot <= Duties(s)[d + 1].slot
           /\ Duties(s)[d].do = "clusterhead_recv"
                => Duties(s)[d].slot + 1 <= Duties(s)[d + 1].slot
  <1> DEFINE n == IF s.clusterhead THEN W - 1 ELSE 0
  <1>1. W \in Nat /\ W >= 2 /\ d \in Nat /\ n \in Nat
    <2>1. Len(Duties(s)) \in Nat
      BY DutiesType
    <2> QED
      BY <2>1, Windows
  <1>2. s.down \in Nat /\ s.up \in Nat /\ s.rel \in 0 .. W - 1
    BY Windows, SlotAssumption DEF NodeStates, Starts
  <1>3. \/ /\ s.clusterhead /\ d <= W - 1
           /\ Duties(s)[d] = Duty(IF d = W - 1 THEN "clusterhead_send"
                                  ELSE "clusterhead_recv", s.down, s.down + d)
        \/ /\ s.joined /\ d = n + 1
           /\ Duties(s)[d] = Duty("follower_send", s.up, s.up + s.rel)
        \/ /\ s.joined /\ d = n + 2 /\ Len(Duties(s)) = n + 2
           /\ Duties(s)[d] = Duty("follower_recv", s.up, s.up + W - 1)
    BY DutyAt
  <1>4. \/ /\ s.clusterhead /\ d + 1 <= W - 1
           /\ Duties(s)[d + 1] = Duty(IF d + 1 = W - 1 THEN "clusterhead_send"
                                      ELSE "clusterhead_recv", s.down, s.down + (d + 1))
        \/ /\ s.joined /\ d + 1 = n + 1
           /\ Duties(s)[d + 1] = Duty("follower_send", s.up, s.up + s.rel)
        \/ /\ s.joined /\ d + 1 = n + 2
           /\ Duties(s)[d + 1] = Duty("follower_recv", s.up, s.up + W - 1)
    BY DutyAt
  <1>5. CASE s.clusterhead /\ d + 1 <= W - 1
    <2>1. Duties(s)[d] = Duty("clusterhead_recv", s.down, s.down + d)
      BY <1>1, <1>3, <1>5
    <2>2. Duties(s)[d + 1].slot = s.down + (d + 1)
      BY <1>1, <1>4, <1>5 DEF Duty
    <2> QED
      BY <1>1, <1>2, <2>1, <2>2 DEF Duty, InOrder
  <1>6. CASE s.joined /\ d + 1 = n + 1
    <2>1. s.clusterhead /\ d = W - 1
      BY <1>1, <1>6
    <2>2. Duties(s)[d] = Duty("clusterhead_send", s.down, s.down + (W - 1))
      BY <1>1, <1>3, <2>1
    <2>3. Duties(s)[d + 1] = Duty("follower_send", s.up, s.up + s.rel)
      BY <1>1, <1>4, <1>6, <2>1
    <2>4. Ordered(s) \/ Tight(s)
      BY <2>3 DEF InOrder, Duty
    <2>5. CASE Ordered(s)
      <3>1. s.down < s.up
        BY <1>6, <2>1, <2>5 DEF Ordered
      <3>2. s.down + W <= s.up
        BY <1>6, <2>1, <3>1, WindowsApart DEF OnGrid
      <3> QED
        BY <1>1, <1>2, <2>2, <2>3, <3>2 DEF Duty, InOrder
    <2>6. CASE Tight(s)
      BY <1>1, <1>2, <2>2, <2>3, <2>6 DEF Duty, InOrder, Tight
    <2> QED
      BY <2>4, <2>5, <2>6
  <1>7. CASE s.joined /\ d + 1 = n + 2
    <2>1. Duties(s)[d] = Duty("follower_send", s.up, s.up + s.rel)
      BY <1>1, <1>3, <1>7
    <2>2. Duties(s)[d + 1] = Duty("follower_recv", s.up, s.up + W - 1)
      BY <1>1, <1>4, <1>7
    <2>3. Ordered(s) \/ Tight(s)
      BY <2>2 DEF InOrder, Duty
    <2> QED
      BY <1>1, <1>2, <2>1, <2>2, <2>3 DEF Duty, InOrder
  <1> QED
    BY <1>4, <1>5, <1>6, <1>7

\* A node comes to a duty out of order from its acks, which are due after what
\* it sends as a follower; or from what it sent so, and then it listens.
LEMMA NextOutOfOrder ==
    ASSUME NEW s \in NodeStates, OnGrid(s),
           NEW d \in 1 .. Len(Duties(s)), d + 1 \in 1 .. Len(Duties(s)),
           ~InOrder(s, Duties(s)[d + 1])
    PROVE  \/ /\ Duties(s)[d].do = "clusterhead_send" /\ Duties(s)[d + 1].do = "follower_send"
              /\ Duties(s)[d + 1].slot + 1 <= Duties(s)[d].slot
           \/ /\ ~InOrder(s, Duties(s)[d])
              /\ Duties(s)[d].do = "follower_send" /\ Duties(s)[d + 1].do = "follower_recv"
  <1> DEFINE n == IF s.clusterhead THEN W - 1 ELSE 0
  <1>1. W \in Nat /\ W >= 2 /\ d \in Nat /\ d >= 1 /\ n \in Nat
    <2>1. Len(Duties(s)) \in Nat
      BY DutiesType
    <2> QED
      BY <2>1, Windows
  <1>2. s.down \in Nat /\ s.up \in Nat /\ s.rel \in 0 .. W - 1
    BY Windows, SlotAssumption DEF NodeStates, Starts
  <1>3. s.clusterhead /\ s.joined /\ ~(s.down < s.up) /\ ~Tight(s)
    BY DEF InOrder, Ordered
  <1>4. \/ /\ d <= W - 1
           /\ Duties(s)[d] = Duty(IF d = W - 1 THEN "clusterhead_send"
                                  ELSE "clusterhead_recv", s.down, s.down + d)
        \/ /\ d = W
           /\ Duties(s)[d] = Duty("follower_send", s.up, s.up + s.rel)
        \/ d = W + 1 /\ Len(Duties(s)) = W + 1
    BY <1>1, <1>3, DutyAt
  <1>5. \/ /\ d + 1 <= W - 1
           /\ Duties(s)[d + 1] = Duty(IF d + 1 = W - 1 THEN "clusterhead_send"
                                      ELSE "clusterhead_recv", s.down, s.down + (d + 1))
        \/ /\ d + 1 = W
           /\ Duties(s)[d + 1] = Duty("follower_send", s.up, s.up + s.rel)
        \/ /\ d + 1 = W + 1
           /\ Duties(s)[d + 1] = Duty("follower_recv", s.up, s.up + W - 1)
    BY <1>1, <1>3, DutyAt
  <1>6. CASE d + 1 <= W - 1
    <2>1. Duties(s)[d + 1].do \in {"clusterhead_recv", "clusterhead_send"}
      BY <1>1, <1>5, <1>6 DEF Duty
    <2> QED
      BY <2>1 DEF InOrder
  <1>7. CASE d + 1 = W
    <2>1. Duties(s)[d] = Duty("clusterhead_send", s.down, s.down + (W - 1))
      BY <1>1, <1>4, <1>7
    <2>2. Duties(s)[d + 1] = Duty("follower_send", s.up, s.up + s.rel)
      BY <1>1, <1>5, <1>7
    <2>3. s.up + s.rel + 1 <= s.down + (W - 1)
      <3>1. CASE s.up = s.down
        BY <1>1, <1>2, <1>3, <3>1 DEF Tight
      <3>2. CASE s.up # s.down
        <4>1. s.up < s.down
          BY <1>2, <1>3, <3>2
        <4>2. s.up + W <= s.down
          BY <1>3, <4>1, WindowsApart DEF OnGrid
        <4> QED
          BY <1>1, <1>2, <4>2
      <3> QED
        BY <3>1, <3>2
    <2> QED
      BY <2>1, <2>2, <2>3 DEF Duty
  <1>8. CASE d + 1 = W + 1
    <2>1. Duties(s)[d] = Duty("follower_send", s.up, s.up + s.rel)
      BY <1>1, <1>4, <1>8
    <2>2. Duties(s)[d + 1] = Duty("follower_recv", s.up, s.up + W - 1)
      BY <1>1, <1>5, <1>8
    <2> QED
      BY <1>3, <2>1, <2>2 DEF Duty, InOrder, Ordered
  <1> QED
    BY <1>5, <1>6, <1>7, <1>8

\* Sending is never the last of the duties.
LEMMA SendIsNotLast ==
    ASSUME NEW s \in NodeStates, NEW d \in 1 .. Len(Duties(s)),
           Duties(s)[d].do = "follower_send"
    PROVE  d < Len(Duties(s))
  <1> DEFINE n == IF s.clusterhead THEN W - 1 ELSE 0
  <1>1. n \in Nat /\ s.joined /\ d = n + 1 /\ Len(Duties(s)) = n + 2
    <2>1. /\ n \in Nat
          /\ Len(Duties(s)) = n + (IF s.joined THEN 2 ELSE 0)
          /\ \/ Duties(s)[d] = Duty(IF d = W - 1 THEN "clusterhead_send"
                                     ELSE "clusterhead_recv", s.down, s.down + d)
             \/ s.joined /\ d = n + 1
             \/ Duties(s)[d] = Duty("follower_recv", s.up, s.up + W - 1)
      BY DutyAt
    <2> HIDE DEF n
    <2>2. s.joined /\ d = n + 1
      BY <2>1 DEF Duty
    <2> QED
      BY <2>1, <2>2
  <1> QED
    BY <1>1

-----------------------------------------------------------------------------
(* The clock of a node that is in time.                                    *)

\* The windows of an initialised node.
Windowed(w) ==
    /\ w \in [start : Nat, end : Nat]
    /\ w.start % SUPERFRAME_FREQUENCY_S = 0
    /\ w.end = w.start + window_length

\* Before a slot of its window ends, a node's window stays, and it finds itself
\* in that slot or an earlier one.
LEMMA BeforeSlotEnds ==
    ASSUME NEW w, Windowed(w), NEW n \in Slots, NEW t \in Nat,
           w.start <= t, t < w.start + n * slot_duration + slot_duration
    PROVE  /\ Rolled(t, w) = w
           /\ in_active_window(t, w)
           /\ current_slot(t, w) = (t - w.start) \div slot_duration
           /\ current_slot(t, w) \in 0 .. n
  <1> DEFINE sd == slot_duration
             x == t - w.start
             c == x \div sd
             m == n * slot_duration
  <1>1. sd \in Nat \ {0} /\ n \in Nat /\ m \in Nat /\ m + sd <= window_length
    BY SlotFits, Durations DEF Slots
  <1>2. w.start \in Nat /\ w.end = w.start + window_length /\ window_length \in Nat
    BY Durations DEF Windowed
  <1>3. t < w.end /\ x \in Nat /\ x < m + sd
    BY <1>1, <1>2
  <1>4. in_active_window(t, w) /\ ~after_window(t, w)
    BY <1>2, <1>3 DEF in_active_window, after_window
  <1>5. x = sd * c + (x % sd) /\ c \in Nat /\ x % sd \in 0 .. sd - 1
    BY <1>1, <1>3, Division
  <1>6. m = n * sd
    OBVIOUS
  <1>7. c <= n
    <2> HIDE DEF c, x, sd, m
    <2>1. ASSUME c > n PROVE FALSE
      <3>1. PICK j \in Nat : c = n + 1 + j
        <4>1. c - n - 1 \in Nat /\ c = n + 1 + (c - n - 1)
          BY <1>1, <1>5, <2>1
        <4> QED
          BY <4>1
      <3>2. sd * c = n * sd + sd + sd * j /\ sd * j \in Nat
        BY <1>1, <3>1
      <3> QED
        BY <1>1, <1>3, <1>5, <1>6, <3>2
    <2> QED
      BY <1>1, <1>5, <2>1
  <1> QED
    BY <1>1, <1>4, <1>5, <1>7 DEF Rolled, current_slot

\* In a slot of its window, a node finds itself in it.
LEMMA InSlot ==
    ASSUME NEW w, Windowed(w), NEW n \in Slots, NEW t \in Nat,
           w.start + n * slot_duration <= t, t < w.start + n * slot_duration + slot_duration
    PROVE  Rolled(t, w) = w /\ current_slot(t, w) = n
  <1> DEFINE sd == slot_duration
             r == t - w.start - n * slot_duration
  <1>1. sd \in Nat \ {0} /\ n \in Nat /\ n * slot_duration \in Nat /\ w.start \in Nat
    BY SlotFits, Durations DEF Slots, Windowed
  <1>2. r \in 0 .. sd - 1 /\ t - w.start = n * sd + r /\ w.start <= t
    BY <1>1
  <1>3. (n * sd + r) \div sd = n
    BY <1>1, <1>2, DivisionUnique
  <1>4. Rolled(t, w) = w /\ current_slot(t, w) = (t - w.start) \div slot_duration
    BY <1>2, BeforeSlotEnds
  <1> QED
    BY <1>2, <1>3, <1>4

\* A node that plans a slot of its window before it is over sleeps until it
\* begins, and not at all if it has begun.
LEMMA PlanAhead ==
    ASSUME NEW w, Windowed(w), NEW n \in Slots, NEW t \in Nat, NEW l \in Nat,
           l < slot_duration, w.start <= t, t <= w.start + n * slot_duration + l
    PROVE  /\ Rolled(t, w) = w
           /\ t + Offset(n, t, w) \in
                w.start + n * slot_duration .. w.start + n * slot_duration + l
           /\ t <= t + Offset(n, t, w)
  <1> DEFINE sd == slot_duration
             x == t - w.start
             c == x \div sd
             m == n * slot_duration
  <1>1. sd \in Nat \ {0} /\ n \in Nat /\ m \in Nat /\ w.start \in Nat
    BY SlotFits, Durations DEF Slots, Windowed
  <1>2. t < w.start + n * slot_duration + slot_duration
    BY <1>1
  <1>3. /\ Rolled(t, w) = w
        /\ current_slot(t, w) = c /\ c \in 0 .. n
    BY <1>2, BeforeSlotEnds
  <1>4. x \in Nat
    BY <1>1
  <1>5. x = sd * c + (x % sd) /\ c \in Nat /\ x % sd \in 0 .. sd - 1
    BY <1>1, <1>4, Division
  <1>6. c # NoSlot /\ ~(n < c)
    BY <1>1, <1>3 DEF NoSlot
  <1>7. CASE n = c
    <2>1. Offset(n, t, w) = 0
      BY <1>3, <1>6, <1>7 DEF Offset
    <2>2. sd * c = m
      BY <1>1, <1>7
    <2>3. w.start + m <= t
      <3> HIDE DEF c, m, sd
      <3> QED
        BY <1>1, <1>5, <2>2
    <2> QED
      BY <1>1, <1>3, <2>1, <2>3
  <1>8. CASE n # c
    <2>1. Offset(n, t, w) = sd - (x % sd) + (n - c - 1) * sd
      BY <1>3, <1>6, <1>8 DEF Offset, time_left_in_slot
    <2>2. PICK j \in Nat : n = c + 1 + j
      <3>1. n - c - 1 \in Nat /\ n = c + 1 + (n - c - 1)
        BY <1>1, <1>3, <1>8
      <3> QED
        BY <3>1
    <2>3. (n - c - 1) * sd = j * sd /\ j * sd \in Nat
      <3>1. n - c - 1 = j
        BY <1>5, <2>2
      <3> QED
        BY <1>1, <3>1
    <2>4. m = sd * c + sd + j * sd /\ sd * c \in Nat
      BY <1>1, <1>5, <2>2
    <2>5. t + Offset(n, t, w) = w.start + m /\ Offset(n, t, w) \in Nat
      <3> DEFINE p == sd * c
                 q == j * sd
                 e == x % sd
      <3>1. Offset(n, t, w) = sd - e + q
        BY <2>1, <2>3
      <3>2. p \in Nat /\ q \in Nat /\ e \in 0 .. sd - 1 /\ x = p + e /\ m = p + sd + q
        BY <1>5, <2>3, <2>4
      <3> HIDE DEF p, q, e, m, sd
      <3> QED
        BY <1>1, <1>4, <3>1, <3>2
    <2> QED
      BY <1>1, <1>3, <2>5
  <1> QED
    BY <1>7, <1>8

\* Until the next superframe begins, a refresh leaves a node in its window or
\* outside any.
LEMMA BeforeNextSuperframe ==
    ASSUME NEW w, Windowed(w), NEW t \in Nat,
           w.start <= t, t < w.start + SUPERFRAME_FREQUENCY_S
    PROVE  \/ Rolled(t, w) = w
           \/ ~in_active_window(t, Rolled(t, w))
  <1> DEFINE F == SUPERFRAME_FREQUENCY_S
             s == w.start + F
  <1>1. /\ F \in Nat \ {0} /\ w.start \in Nat /\ w.start % F = 0
        /\ w.end = w.start + window_length /\ window_length \in Nat \ {0}
    BY Durations DEF Windowed
  <1>2. CASE after_window(t, w)
    <2>1. t > w.start
      BY <1>1, <1>2 DEF after_window
    <2>2. s \in Nat /\ t <= s /\ s < t + F
      BY <1>1, <2>1
    <2>3. s % F = 0
      <3> DEFINE k == w.start \div F
      <3>0. w.start = F * k + (w.start % F) /\ k \in Nat
        <4>1. F \in Nat \ {0} /\ w.start \in Nat
          BY <1>1
        <4> HIDE DEF F
        <4> QED
          BY <4>1, Division
      <3>1. w.start = F * k /\ k \in Nat
        <4> HIDE DEF F, k
        <4> QED
          BY <1>1, <3>0
      <3> HIDE DEF k
      <3>2. s = (k + 1) * F + 0 /\ k + 1 \in Nat /\ 0 \in 0 .. F - 1
        BY <1>1, <3>1
      <3>3. ((k + 1) * F + 0) % F = 0
        BY <1>1, <3>2, DivisionUnique
      <3> QED
        BY <3>2, <3>3
    <2>4. next_time_interval(t, F) = s
      BY <2>2, <2>3, OneStart
    <2>5. Rolled(t, w).start = s
      BY <1>2, <2>4 DEF Rolled, MacState
    <2> QED
      BY <2>2, <2>5 DEF in_active_window
  <1>3. CASE ~after_window(t, w)
    BY <1>3 DEF Rolled
  <1> QED
    BY <1>2, <1>3

-----------------------------------------------------------------------------
(* When a node comes to its duties.                                        *)

\* Where the caller of the clock is in each stage of the loop, and when it is
\* blocked.
StagePc ==
    /\ pc = "setup" => stage = "plan" /\ duty = 0
    /\ stage = "plan" => pc \in {"setup", "idle"}
    /\ stage = "wait" => pc \in {"sleeping", "awake"}
    /\ stage = "advertise" => pc \in {"idle", "receiving"}
    /\ stage \in {"tuned", "heard"} => pc = "idle"
    /\ stage = "listen" => pc = "receiving" /\ Now.do \in {"clusterhead_recv", "follower_recv"}
    /\ stage = "heard" => Now.do = "follower_recv"
    /\ left > 0 => stage \in {"advertise", "listen"}

\* The duty the node is at comes in the order of the slots.
Timely == duty # 0 /\ InOrder(state, Now)

\* The second the duty's slot begins, in the superframe of the last
\* advertising, and how much of the slot may be over when the duty begins to
\* listen: a follower may listen again, up to the slot's end.
Due == frame + Now.slot * slot_duration
Slack == IF Now.do = "follower_recv" THEN slot_duration - 1 ELSE 0

InFrame == window.start = frame /\ frame <= now

\* Advertising takes a slot's length from whenever in its slot it began.
AdvertisingEnds ==
    stage = "advertise" =>
        /\ InFrame
        /\ now + left <= frame + 2 * slot_duration - 1 + lag
        /\ left > 0 => lag = 0

\* The node is never later than the time it has lost in this loop().
PlannedInTime ==
    Timely /\ stage \in {"plan", "wait"} => InFrame /\ now <= Due + lag
SleepsUntilDue ==
    Timely /\ stage = "wait" =>
        /\ Due <= epoch /\ epoch <= Due + lag
        /\ pc = "awake" => epoch <= now
TunedInTime ==
    Timely /\ stage = "tuned" => InFrame /\ now <= Due + Slack + lag
HeardInTime ==
    Timely /\ stage \in {"listen", "heard"} =>
        InFrame /\ now + left <= Due + slot_duration + Slack + lag

OnTime ==
    /\ AdvertisingEnds
    /\ PlannedInTime
    /\ SleepsUntilDue
    /\ TunedInTime
    /\ HeardInTime

\* Where a node's windows are comes from the layout.
LEMMA OnGridNext ==
    LInv /\ OnGrid(state) /\ [LoopNext]_<<vars, loop_vars>> => OnGrid(state')
  <1> SUFFICES ASSUME LInv, OnGrid(state), [LoopNext]_<<vars, loop_vars>> PROVE OnGrid(state')
    OBVIOUS
  <1>1. state \in NodeStates
    BY DEF LInv, LoopTypes, NodeStates, Starts
  <1>2. ASSUME NEW r \in {Layout!GATEWAY_RING, Layout!UNKNOWN_RING} \cup Rings
        PROVE  r \in Nat /\ \E k \in Nat : Layout!downstream_start_slot(r) = 1 + k * W
    <2>1. r \in Nat
      BY LayoutAssumption DEF Layout!GATEWAY_RING, Layout!UNKNOWN_RING
    <2> QED
      BY <2>1, StartOnGrid
  <1>3. CASE UNCHANGED state
    BY <1>3
  <1>4. CASE BeginAdvertise
    <2>1. PICK r \in IF state.ring = Layout!GATEWAY_RING THEN {state.ring} ELSE Rings :
            state' = Unjoined(r)
      BY <1>4 DEF BeginAdvertise
    <2>2. r \in {Layout!GATEWAY_RING, Layout!UNKNOWN_RING} \cup Rings
      BY <2>1
    <2> QED
      BY <1>2, <2>1, <2>2 DEF Unjoined, OnGrid
  <1>5. ASSUME NEW c \in Rings \cup {Layout!GATEWAY_RING}, NEW rel \in 1 .. W - 1, Join(c, rel)
        PROVE  OnGrid(state')
    <2>1. state' = [state EXCEPT !.joined = TRUE, !.rel = rel,
                                 !.up = Layout!downstream_start_slot(c)]
      BY <1>5, Zenon DEF Join
    <2>2. /\ state'.clusterhead = state.clusterhead /\ state'.down = state.down
          /\ state'.rel = rel /\ state'.up = Layout!downstream_start_slot(c)
      <3> HIDE DEF Layout!downstream_start_slot
      <3> QED
        BY <1>1, <2>1 DEF NodeStates
    <2>3. rel >= 1
      BY Windows
    <2>4. \E k \in Nat : Layout!downstream_start_slot(c) = 1 + k * W
      BY <1>2
    <2> QED
      BY <2>2, <2>3, <2>4, Zenon DEF OnGrid
  <1>6. CASE EndAdvertise
    <2>1. ASSUME NEW n \in 1 .. W,
                 state' = [state EXCEPT !.clusterhead = TRUE, !.slots_assigned = n,
                                        !.down = Layout!downstream_start_slot(state.ring)]
          PROVE  OnGrid(state')
      <3>1. /\ state'.down = Layout!downstream_start_slot(state.ring)
            /\ state'.joined = state.joined /\ state'.rel = state.rel /\ state'.up = state.up
        BY <1>1, <2>1 DEF NodeStates
      <3>2. \E k \in Nat : Layout!downstream_start_slot(state.ring) = 1 + k * W
        <4>1. state.ring \in {Layout!GATEWAY_RING, Layout!UNKNOWN_RING} \cup Rings
          BY <1>1 DEF NodeStates
        <4> QED
          BY <1>2, <4>1
      <3> QED
        BY <3>1, <3>2, Zenon DEF OnGrid
    <2> QED
      BY <1>3, <1>6, <2>1, Zenon DEF EndAdvertise
  <1> QED
    BY <1>3, <1>4, <1>5, <1>6
       DEF LoopNext, loop_vars, Setup, TimePasses, Plan, Wake, Tune, SkipAdvertise, Skip,
           AdvertiseRadio, AdvertiseRecvReturns, Transmit, Listen, Heard, HeardOther, ListenAgain

\* The loop and the clock keep step.
LEMMA StagePcNext ==
    LInv /\ StagePc /\ [LoopNext]_<<vars, loop_vars>> => StagePc'
  <1> SUFFICES ASSUME LInv, StagePc, [LoopNext]_<<vars, loop_vars>> PROVE StagePc'
    OBVIOUS
  <1>a. state' = state /\ duty' = duty => Now' = Now
    BY DEF Now
  <1>b. left \in 0 .. slot_duration /\ slot_duration \in Nat
    BY Durations DEF LInv, LoopTypes
  <1>c. /\ stage = "advertise" => duty = 0
        /\ stage \in {"tuned", "listen", "heard"} => duty # 0
        /\ Now = Advertising => duty = 0
    <2>1. duty # 0 => Now # Advertising
      BY NowType DEF DutyRecord, Advertising, Duty, LInv
    <2> QED
      BY <2>1 DEF LInv, StageOfDuty
  <1>0. CASE UNCHANGED <<vars, loop_vars>>
    BY <1>0 DEF vars, loop_vars, StagePc, Now
  <1>1. CASE Setup
    BY <1>1, <1>a DEF Setup, LinkInit, StagePc
  <1>2. CASE TimePasses
    <2>1. pc' = pc /\ UNCHANGED <<stage, state, duty>> /\ (left' > 0 => left > 0)
      BY <1>2, <1>b DEF TimePasses, Tick
    <2> QED
      BY <1>a, <2>1 DEF StagePc
  <1>3. CASE Plan
    BY <1>3, <1>a DEF Plan, EpochAndOffset, StagePc
  <1>4. CASE Wake
    BY <1>4, <1>a DEF Wake, SleepUntil, loop_vars, StagePc
  <1>5. CASE BeginAdvertise
    BY <1>5 DEF BeginAdvertise, ActiveSlot, StagePc
  <1>6. CASE Tune \/ SkipAdvertise \/ Skip
    <2>1. stage = "wait" /\ pc' = "idle" /\ left' = left /\ stage' \in {"tuned", "plan"}
      BY <1>6 DEF Tune, SkipAdvertise, Skip, ActiveSlot
    <2> QED
      BY <2>1 DEF StagePc
  <1>7. CASE AdvertiseRadio
    BY <1>7, <1>a DEF AdvertiseRadio, Recv, Flush, StagePc
  <1>8. CASE AdvertiseRecvReturns
    BY <1>8, <1>a DEF AdvertiseRecvReturns, RecvReturns, loop_vars, StagePc
  <1>9. ASSUME NEW c \in Rings \cup {Layout!GATEWAY_RING}, NEW rel \in 1 .. W - 1, Join(c, rel)
        PROVE  StagePc'
    <2>1. stage = "advertise" /\ stage' = stage /\ left' = left
      BY <1>9, Zenon DEF Join
    <2>2. pc' = "idle"
      BY <1>9, Zenon DEF Join, TimeSync, RecvReturns
    <2> QED
      BY <2>1, <2>2 DEF StagePc
  <1>10. CASE EndAdvertise
    <2>1. stage' = "plan" /\ pc = "idle" /\ left = 0 /\ left' = left /\ pc' = pc
      BY <1>10, Zenon DEF EndAdvertise, vars
    <2> QED
      BY <2>1 DEF StagePc
  <1>11. CASE Transmit
    BY <1>11 DEF Transmit, Flush, StagePc
  <1>12. CASE Listen
    <2>1. /\ stage = "tuned" /\ Now.do \in {"clusterhead_recv", "follower_recv"} /\ state' = state
          /\ \/ pc' = "receiving" /\ stage' = "listen" /\ duty' = duty
             \/ pc' = "idle" /\ stage' = "plan" /\ left' = left
      BY <1>12 DEF Listen, Recv
    <2> QED
      BY <1>a, <2>1 DEF StagePc
  <1>13. CASE Heard
    BY <1>13 DEF Heard, RecvReturns, StagePc
  <1>14. CASE HeardOther
    <2>1. /\ stage' = "heard" /\ pc' = "idle" /\ left' = 0 /\ Now.do = "follower_recv"
          /\ UNCHANGED <<state, duty>>
      BY <1>14 DEF HeardOther, RecvReturns
    <2> QED
      BY <1>a, <2>1 DEF StagePc
  <1>15. CASE ListenAgain
    <2>1. stage = "heard" /\ stage' \in {"tuned", "plan"} /\ pc = "idle" /\ pc' = pc /\ left' = left
      BY <1>15 DEF ListenAgain
    <2> QED
      BY <2>1 DEF StagePc
  <1> QED
    BY <1>0, <1>1, <1>2, <1>3, <1>4, <1>5, <1>6, <1>7, <1>8, <1>9, <1>10, <1>11, <1>12,
       <1>13, <1>14, <1>15 DEF LoopNext

\* What the arithmetic of a node that is in time rests on.
LEMMA Times ==
    ASSUME IInv, LInv
    PROVE  /\ slot_duration \in Nat \ {0} /\ MaxLag \in Nat /\ MaxLag < slot_duration
           /\ SUPERFRAME_FREQUENCY_S \in Nat /\ window_length \in Nat
           /\ window_length + slot_duration + MaxLag <= SUPERFRAME_FREQUENCY_S
           /\ now \in Nat /\ lag \in 0 .. MaxLag /\ left \in 0 .. slot_duration
           /\ frame \in Nat \cup {Never}
           /\ Now.slot \in Slots
           /\ Now.slot * slot_duration \in Nat
           /\ Now.slot * slot_duration + slot_duration <= window_length
           /\ Slack \in 0 .. slot_duration - 1
           /\ InFrame => frame \in Nat /\ Due \in Nat
           /\ pc # "setup" => Windowed(window)
  <1>1. /\ slot_duration \in Nat \ {0} /\ MaxLag \in Nat /\ MaxLag < slot_duration
        /\ SUPERFRAME_FREQUENCY_S \in Nat /\ window_length \in Nat
        /\ window_length + slot_duration + MaxLag <= SUPERFRAME_FREQUENCY_S
    BY Durations, LagAssumption
  <1>2. /\ now \in Nat /\ lag \in 0 .. MaxLag /\ left \in 0 .. slot_duration
        /\ frame \in Nat \cup {Never}
    BY DEF IInv, TypeOK, LInv, LoopTypes
  <1>3. /\ Now.slot \in Slots
        /\ Now.slot * slot_duration \in Nat
        /\ Now.slot * slot_duration + slot_duration <= window_length
    BY NowType, SlotFits DEF LInv
  <1>4. Slack \in 0 .. slot_duration - 1
    BY <1>1 DEF Slack
  <1>5. InFrame => frame \in Nat /\ Due \in Nat
    <2>1. window.start \in Nat
      BY DEF IInv, TypeOK
    <2> QED
      BY <1>3, <2>1 DEF InFrame, Due
  <1>6. pc # "setup" => Windowed(window)
    BY DEF IInv, TypeOK, WindowAligned, Windowed
  <1> QED
    BY <1>1, <1>2, <1>3, <1>4, <1>5, <1>6

\* A node that came to its last duty in order is not behind at the next.
LEMMA NextInTime ==
    ASSUME IInv, LInv, OnGrid(state), duty # 0,
           state' = state, frame' = frame, duty' = NextDuty, Timely'
    PROVE  /\ Timely /\ Now.do # "follower_recv" /\ Slack = 0
           /\ InFrame => Due <= Due' /\ Due' \in Nat
           /\ InFrame /\ Now.do = "clusterhead_recv" => Due + slot_duration <= Due'
  <1>1. state \in NodeStates /\ duty \in 1 .. Len(Duties(state)) /\ Len(Duties(state)) \in Nat
    <2>1. state \in NodeStates /\ duty \in 1 .. Len(Duties(state))
      BY NowType DEF LInv
    <2> QED
      BY <2>1, DutiesType
  <1>2. duty < Len(Duties(state)) /\ duty' = duty + 1 /\ duty + 1 \in 1 .. Len(Duties(state))
    BY <1>1 DEF NextDuty, Timely
  <1>3. Now = Duties(state)[duty] /\ Now' = Duties(state)[duty + 1]
    BY <1>1, <1>2 DEF Now
  <1>4. InOrder(state, Duties(state)[duty + 1])
    BY <1>3 DEF Timely, InOrder, Ordered
  <1>5. /\ InOrder(state, Now) /\ Now.do # "follower_recv"
        /\ Now.slot <= Now'.slot
        /\ Now.do = "clusterhead_recv" => Now.slot + 1 <= Now'.slot
    BY <1>1, <1>2, <1>3, <1>4, NextInOrder
  <1>6. Now'.slot \in Slots
    <2>1. Now' \in DutyRecord
      BY <1>1, <1>2, <1>3, DutiesType, ElementOfSeq
    <2> QED
      BY <2>1 DEF DutyRecord
  <1>7. /\ slot_duration \in Nat \ {0} /\ Now.slot \in Nat /\ Now'.slot \in Nat
        /\ InFrame => frame \in Nat
    BY <1>6, Times DEF Slots
  <1>8. \A a, b, c \in Nat : a <= b => a * c <= b * c
    <2>1. ASSUME NEW a \in Nat, NEW b \in Nat, NEW c \in Nat, a <= b PROVE a * c <= b * c
      <3>1. PICK m \in Nat : b = a + m
        <4>1. b - a \in Nat /\ b = a + (b - a)
          BY <2>1
        <4> QED
          BY <4>1
      <3>2. b * c = a * c + m * c /\ m * c \in Nat /\ a * c \in Nat
        BY <3>1
      <3> QED
        BY <3>2
    <2> QED
      BY <2>1
  <1>9. ASSUME InFrame PROVE Due <= Due' /\ Due' \in Nat
    <2> DEFINE p == Now.slot * slot_duration
               q == Now'.slot * slot_duration
    <2>1. p <= q
      BY <1>5, <1>7, <1>8
    <2>2. p \in Nat /\ q \in Nat
      BY <1>7
    <2>3. Due = frame + p /\ Due' = frame + q
      BY DEF Due
    <2> HIDE DEF p, q
    <2> QED
      BY <1>7, <1>9, <2>1, <2>2, <2>3
  <1>10. ASSUME InFrame, Now.do = "clusterhead_recv" PROVE Due + slot_duration <= Due'
    <2> DEFINE p == Now.slot * slot_duration
               q == Now'.slot * slot_duration
    <2>1. (Now.slot + 1) * slot_duration <= q
      BY <1>5, <1>7, <1>8, <1>10
    <2>2. p \in Nat /\ q \in Nat /\ (Now.slot + 1) * slot_duration = p + slot_duration
      BY <1>7
    <2>3. Due = frame + p /\ Due' = frame + q
      BY DEF Due
    <2> HIDE DEF p, q
    <2> QED
      BY <1>7, <1>10, <2>1, <2>2, <2>3
  <1> QED
    BY <1>5, <1>9, <1>10 DEF Timely, Slack

\* A node that wakes for a duty in order is in the slot of the duty.
LEMMA WakesInSlot ==
    ASSUME IInv, LInv, StagePc, OnTime, Timely, stage = "wait", ActiveSlot
    PROVE  window' = window /\ reply' = Now.slot
  <1>1. InFrame /\ now <= Due + lag /\ Due <= now
    <2>1. Due <= epoch /\ epoch <= now
      BY DEF OnTime, SleepsUntilDue, ActiveSlot
    <2>2. InFrame /\ now <= Due + lag
      BY DEF OnTime, PlannedInTime
    <2>3. epoch \in Nat
      BY DEF IInv, TypeOK
    <2> QED
      BY <2>1, <2>2, <2>3, Times
  <1>2. /\ window.start + Now.slot * slot_duration <= now
        /\ now < window.start + Now.slot * slot_duration + slot_duration
    BY <1>1, Times DEF InFrame, Due
  <1>3. Windowed(window) /\ now \in Nat /\ Now.slot \in Slots
    BY Times DEF ActiveSlot
  <1>4. Rolled(now, window) = window /\ current_slot(now, window) = Now.slot
    BY <1>2, <1>3, InSlot
  <1> QED
    BY <1>4 DEF ActiveSlot

\* Advertising keeps a node in the superframe it began to advertise in, though
\* a clusterhead may set its clock.
LEMMA SyncStaysInFrame ==
    ASSUME IInv, LInv, StagePc, OnTime, stage = "advertise", left > 0,
           NEW remote \in Nat,
           (remote % SUPERFRAME_FREQUENCY_S) + left < 2 * slot_duration,
           TimeSync(remote)
    PROVE  frame <= remote /\ remote + left <= frame + 2 * slot_duration - 1
  <1> DEFINE F == SUPERFRAME_FREQUENCY_S
             sd == slot_duration
             k == remote \div F
             j == frame \div F
             r == remote % F
  <1>1. /\ F \in Nat \ {0} /\ sd \in Nat \ {0} /\ MaxLag \in Nat
        /\ MAX_TIME_SYNC_DRIFT_S \in Nat /\ MAX_TIME_SYNC_DRIFT_S + 2 * sd + MaxLag < F
    BY Durations, LagAssumption, DriftAssumption, SyncAssumption
  <1>2. /\ now \in Nat /\ frame \in Nat /\ left \in Nat
        /\ frame <= now /\ now + left <= frame + 2 * sd - 1
    BY Times DEF OnTime, AdvertisingEnds, InFrame
  <1>3. /\ remote <= now + MAX_TIME_SYNC_DRIFT_S
        /\ now <= remote + MAX_TIME_SYNC_DRIFT_S
    BY DEF TimeSync
  <1>4. /\ remote = F * k + r /\ k \in Nat /\ r \in 0 .. F - 1
    BY <1>1, Division
  <1>5. frame = F * j /\ j \in Nat
    <2>1. frame % F = 0
      BY Times DEF OnTime, AdvertisingEnds, InFrame, Windowed, TimeSync
    <2>2. frame = F * j + (frame % F) /\ j \in Nat
      BY <1>1, <1>2, Division
    <2> HIDE DEF F, j
    <2> QED
      BY <1>1, <2>1, <2>2
  <1>6. r + left < 2 * sd
    OBVIOUS
  <1> HIDE DEF F, sd, k, j, r
  <1>7. k = j
    <2>1. ASSUME k > j PROVE FALSE
      <3>1. PICK m \in Nat : k = j + 1 + m
        <4>1. k - j - 1 \in Nat /\ k = j + 1 + (k - j - 1)
          BY <1>4, <1>5, <2>1
        <4> QED
          BY <4>1
      <3>2. F * k = F * j + F + F * m /\ F * m \in Nat /\ F * j \in Nat
        BY <1>1, <1>5, <3>1
      <3> QED
        BY <1>1, <1>2, <1>3, <1>4, <1>5, <3>2
    <2>2. ASSUME j > k PROVE FALSE
      <3>1. PICK m \in Nat : j = k + 1 + m
        <4>1. j - k - 1 \in Nat /\ j = k + 1 + (j - k - 1)
          BY <1>4, <1>5, <2>2
        <4> QED
          BY <4>1
      <3>2. F * j = F * k + F + F * m /\ F * m \in Nat /\ F * k \in Nat
        BY <1>1, <1>4, <3>1
      <3> QED
        BY <1>1, <1>2, <1>3, <1>4, <1>5, <1>6, <3>2
    <2> QED
      BY <1>4, <1>5, <2>1, <2>2
  <1>8. remote = frame + r
    <2>1. F * k \in Nat /\ F * k = F * j
      BY <1>1, <1>4, <1>7
    <2> QED
      BY <1>4, <1>5, <2>1
  <1> QED
    BY <1>1, <1>2, <1>4, <1>6, <1>8 DEF sd

\* No step makes a node later than the time it loses.
LEMMA OnTimeNext ==
    IInv /\ LInv /\ OnGrid(state) /\ StagePc /\ OnTime
      /\ IInv' /\ LInv' /\ OnGrid(state') /\ [LoopNext]_<<vars, loop_vars>>
    => OnTime'
  <1> SUFFICES ASSUME IInv, LInv, OnGrid(state), StagePc, OnTime, IInv', LInv', OnGrid(state'),
                      [LoopNext]_<<vars, loop_vars>>
               PROVE  OnTime'
    OBVIOUS
  <1> DEFINE sd == slot_duration
  <1>a. /\ sd \in Nat \ {0} /\ MaxLag \in Nat /\ MaxLag < sd
        /\ SUPERFRAME_FREQUENCY_S \in Nat /\ window_length \in Nat
        /\ window_length + sd + MaxLag <= SUPERFRAME_FREQUENCY_S
        /\ now \in Nat /\ lag \in 0 .. MaxLag /\ left \in 0 .. sd
        /\ frame \in Nat \cup {Never} /\ Now.slot \in Slots
        /\ Slack \in 0 .. sd - 1
        /\ InFrame => frame \in Nat /\ Due \in Nat
    BY Times
  <1>b. pc # "setup" => Windowed(window)
    BY Times
  <1>c. UNCHANGED <<state, duty, frame>> =>
          /\ Now' = Now /\ Due' = Due /\ Slack' = Slack /\ (Timely' <=> Timely)
    <2> SUFFICES ASSUME UNCHANGED <<state, duty, frame>>
                 PROVE  Now' = Now /\ Due' = Due /\ Slack' = Slack /\ (Timely' <=> Timely)
      OBVIOUS
    <2>1. Now' = Now
      BY DEF Now
    <2> QED
      BY <2>1 DEF Due, Slack, Timely, InOrder, Ordered
  <1>d. /\ stage = "advertise" => duty = 0
        /\ stage \in {"tuned", "listen", "heard"} => duty # 0
        /\ Now = Advertising <=> duty = 0
    <2>1. duty # 0 => Now # Advertising
      BY NowType DEF DutyRecord, Advertising, Duty, LInv
    <2>2. duty = 0 => Now = Advertising
      BY NowType DEF LInv
    <2> QED
      BY <2>1, <2>2 DEF LInv, StageOfDuty
  <1>e. InFrame => Due = frame + Now.slot * sd /\ Due + sd <= frame + window_length
    <2>1. /\ Now.slot * sd \in Nat
          /\ Now.slot * sd + sd <= window_length
      BY Times
    <2> QED
      BY <1>a, <2>1 DEF Due
  \* A step to planning has one thing to show, and only of a duty in order.
  <1>f. ASSUME stage' = "plan",
               Timely' => InFrame' /\ now' <= Due' + lag'
        PROVE  OnTime'
    BY <1>f DEF OnTime, AdvertisingEnds, PlannedInTime, SleepsUntilDue, TunedInTime, HeardInTime
  <1>0. CASE UNCHANGED <<vars, loop_vars>>
    <2>1. UNCHANGED <<state, duty, frame, now, left, lag, window, stage, pc, epoch>>
      BY <1>0 DEF vars, loop_vars
    <2> QED
      BY <1>c, <2>1
         DEF OnTime, AdvertisingEnds, PlannedInTime, SleepsUntilDue, TunedInTime, HeardInTime,
             InFrame
  <1>1. CASE Setup
    <2>1. pc = "setup" /\ UNCHANGED <<stage, duty>>
      BY <1>1 DEF Setup, LinkInit
    <2>2. stage' = "plan" /\ ~Timely'
      BY <2>1 DEF StagePc, Timely
    <2> QED
      BY <1>f, <2>2
  <1>2. CASE TimePasses
    <2>1. /\ now' = now + 1
          /\ UNCHANGED <<state, duty, frame, window, stage, pc, epoch>>
      BY <1>2 DEF TimePasses, Tick
    <2>2. \/ (pc = "setup" \/ (pc = "sleeping" /\ now < epoch)) /\ left' = left /\ lag' = lag
          \/ left > 0 /\ left' = left - 1 /\ lag' = lag
          \/ /\ left = 0 /\ left' = left /\ lag' = lag + 1
             /\ ~(pc = "sleeping" /\ now < epoch)
      BY <1>2, <1>a DEF TimePasses
    <2>3. Due' = Due /\ Slack' = Slack /\ (Timely' <=> Timely)
      BY <1>c, <2>1
    <2>4. InFrame => InFrame'
      BY <1>a, <2>1 DEF InFrame
    <2>5. now' + left' <= now + left + (lag' - lag) \/ (pc \in {"setup", "sleeping"} /\ lag' = lag)
      BY <1>a, <2>1, <2>2
    <2>6. AdvertisingEnds'
      <3> SUFFICES ASSUME stage' = "advertise"
                   PROVE  /\ InFrame'
                          /\ now' + left' <= frame' + 2 * sd - 1 + lag'
                          /\ left' > 0 => lag' = 0
        BY DEF AdvertisingEnds
      <3>1. /\ stage = "advertise" /\ pc \in {"idle", "receiving"}
            /\ InFrame /\ now + left <= frame + 2 * sd - 1 + lag /\ (left > 0 => lag = 0)
        BY <2>1 DEF StagePc, OnTime, AdvertisingEnds
      <3> QED
        BY <1>a, <2>1, <2>2, <2>4, <3>1
    <2>7. PlannedInTime' /\ SleepsUntilDue'
      <3> SUFFICES ASSUME Timely', stage' \in {"plan", "wait"}
                   PROVE  /\ InFrame' /\ now' <= Due' + lag'
                          /\ stage' = "wait" =>
                               /\ Due' <= epoch' /\ epoch' <= Due' + lag'
                               /\ pc' = "awake" => epoch' <= now'
        BY DEF PlannedInTime, SleepsUntilDue
      <3>1. /\ Timely /\ stage = stage' /\ InFrame /\ now <= Due + lag
            /\ stage = "wait" => /\ Due <= epoch /\ epoch <= Due + lag
                                 /\ pc = "awake" => epoch <= now
        BY <2>1, <2>3 DEF OnTime, PlannedInTime, SleepsUntilDue
      <3>2. left = 0 /\ pc # "setup" /\ epoch \in Nat /\ (pc = "sleeping" => stage = "wait")
        BY <1>a, <2>1, <3>1 DEF StagePc, Timely, IInv, TypeOK
      <3> QED
        BY <1>a, <2>1, <2>2, <2>3, <2>4, <3>1, <3>2
    <2>8. TunedInTime' /\ HeardInTime'
      <3> SUFFICES ASSUME Timely', stage' \in {"tuned", "listen", "heard"}
                   PROVE  /\ stage' = "tuned" => InFrame' /\ now' <= Due' + Slack' + lag'
                          /\ stage' \in {"listen", "heard"} =>
                               InFrame' /\ now' + left' <= Due' + sd + Slack' + lag'
        BY DEF TunedInTime, HeardInTime
      <3>1. /\ Timely /\ stage = stage' /\ pc \notin {"setup", "sleeping"}
            /\ stage = "tuned" => InFrame /\ now <= Due + Slack + lag /\ left = 0
            /\ stage \in {"listen", "heard"} =>
                 InFrame /\ now + left <= Due + sd + Slack + lag
        BY <1>a, <2>1, <2>3 DEF OnTime, TunedInTime, HeardInTime, StagePc
      <3> QED
        BY <1>a, <2>1, <2>2, <2>3, <2>4, <3>1
    <2> QED
      BY <2>6, <2>7, <2>8 DEF OnTime
  <1>3. CASE Plan
    <2>1. /\ stage = "plan" /\ stage' = "wait" /\ pc = "idle" /\ pc' = "sleeping" /\ now' = now
          /\ window' = Rolled(now, window)
          /\ epoch' = now + Offset(Now.slot, now, window')
          /\ UNCHANGED <<state, duty, frame, left, lag>>
      BY <1>3 DEF Plan, EpochAndOffset
    <2>2. Due' = Due /\ (Timely' <=> Timely)
      BY <1>c, <2>1
    <2>3. ASSUME Timely
          PROVE  InFrame' /\ now' <= Due' + lag' /\ Due' <= epoch' /\ epoch' <= Due' + lag'
      <3>1. InFrame /\ now <= Due + lag
        BY <2>1, <2>3 DEF OnTime, PlannedInTime
      <3>2. /\ window.start <= now /\ now <= window.start + Now.slot * sd + lag
            /\ Due = window.start + Now.slot * sd
        BY <1>a, <1>e, <3>1 DEF InFrame
      <3>3. Windowed(window) /\ lag \in Nat /\ lag < slot_duration
        BY <1>a, <1>b, <2>1
      <3>4. /\ Rolled(now, window) = window
            /\ now + Offset(Now.slot, now, window) \in Due .. Due + lag
        BY <1>a, <3>2, <3>3, PlanAhead
      <3> QED
        BY <1>a, <2>1, <2>2, <3>1, <3>4 DEF InFrame
    <2> QED
      BY <2>1, <2>2, <2>3
         DEF OnTime, AdvertisingEnds, PlannedInTime, SleepsUntilDue, TunedInTime, HeardInTime
  <1>4. CASE Wake
    <2>1. /\ pc' = "awake" /\ now >= epoch
          /\ UNCHANGED <<state, duty, frame, now, left, lag, window, stage, epoch>>
      BY <1>4 DEF Wake, SleepUntil, loop_vars
    <2>2. epoch \in Nat
      BY DEF IInv, TypeOK
    <2> QED
      BY <1>a, <1>c, <2>1, <2>2
         DEF OnTime, AdvertisingEnds, PlannedInTime, SleepsUntilDue, TunedInTime, HeardInTime,
             InFrame
  <1>5. CASE BeginAdvertise
    <2>1. /\ stage' = "advertise" /\ now' = now /\ lag' = 0 /\ left' = sd
          /\ frame' = window'.start /\ duty' = duty /\ duty = 0
          /\ window' = Rolled(now, window) /\ reply' = current_slot(now, window')
          /\ Serves(Now, reply')
      BY <1>5, <1>d DEF BeginAdvertise, ActiveSlot
    <2>2. current_slot(now, window') = 0
      BY <1>d, <2>1 DEF Serves, Advertising, Duty
    <2>3. Current(window', now)
      BY <2>1, RefreshOfInv
    <2>4. window'.start <= now /\ 0 = (now - window'.start) \div sd /\ window'.start \in Nat
      BY <1>a, <2>2, <2>3, CurrentSlotOnGrid DEF NoSlot, Current
    <2>5. now - window'.start < sd
      <3> DEFINE x == now - window'.start
      <3>1. x \in Nat
        BY <1>a, <2>4
      <3>2. x = sd * (x \div sd) + (x % sd) /\ x % sd \in 0 .. sd - 1
        BY <1>a, <3>1, Division
      <3>3. x \div sd = 0
        BY <2>4
      <3>4. x = x % sd
        <4> HIDE DEF x, sd
        <4> QED
          BY <1>a, <3>1, <3>2, <3>3
      <3>5. x < sd
        <4> HIDE DEF x, sd
        <4> QED
          BY <1>a, <3>2, <3>4
      <3> QED
        BY <3>5
    <2>6. now' + left' <= frame' + 2 * sd - 1 + lag' /\ frame' <= now'
      BY <1>a, <2>1, <2>4, <2>5
    <2> QED
      BY <2>1, <2>6
         DEF OnTime, AdvertisingEnds, PlannedInTime, SleepsUntilDue, TunedInTime, HeardInTime,
             InFrame
  <1>6. CASE Tune
    <2>1. /\ stage = "wait" /\ stage' = "tuned" /\ now' = now /\ ActiveSlot
          /\ UNCHANGED <<state, duty, left, lag, frame>>
      BY <1>6 DEF Tune, ActiveSlot
    <2>2. Timely => window' = window /\ InFrame /\ now <= Due + lag
      BY <2>1, WakesInSlot DEF OnTime, PlannedInTime
    <2>3. Timely' => InFrame' /\ now' <= Due' + Slack' + lag'
      BY <1>a, <1>c, <2>1, <2>2 DEF InFrame
    <2> QED
      BY <2>1, <2>3
         DEF OnTime, AdvertisingEnds, PlannedInTime, SleepsUntilDue, TunedInTime, HeardInTime
  <1>7. CASE SkipAdvertise
    <2>1. stage' = "plan" /\ duty' = 0
      BY <1>7, <1>d DEF SkipAdvertise
    <2> QED
      BY <1>f, <2>1 DEF Timely
  <1>8. CASE Skip
    <2>1. /\ stage = "wait" /\ stage' = "plan" /\ duty' = NextDuty /\ duty # 0
          /\ now' = now /\ ActiveSlot
          /\ UNCHANGED <<state, left, lag, frame>>
      BY <1>8, <1>d DEF Skip, ActiveSlot
    <2>2. ASSUME Timely' PROVE InFrame' /\ now' <= Due' + lag'
      <3>1. Timely
        BY <2>1, <2>2, NextInTime
      <3>2. InFrame /\ now <= Due + lag /\ window' = window
        BY <2>1, <3>1, WakesInSlot DEF OnTime, PlannedInTime
      <3>3. Due <= Due' /\ Due' \in Nat
        BY <2>1, <2>2, <3>2, NextInTime
      <3>4. InFrame' /\ now \in Nat /\ lag \in Nat /\ left \in Nat /\ Due \in Nat
        BY <1>a, <2>1, <3>2 DEF InFrame
      <3>5. now <= Due' + lag
        <4> DEFINE d == Due
                   e == Due'
        <4>1. now <= d + lag /\ d <= e /\ d \in Nat /\ e \in Nat
          BY <3>2, <3>3, <3>4
        <4> HIDE DEF d, e
        <4>2. now <= e + lag
          BY <3>4, <4>1
        <4> QED
          BY <4>2 DEF e
      <3>6. now' = now /\ lag' = lag
        BY <2>1
      <3> QED
        BY <3>4, <3>5, <3>6
    <2> QED
      BY <1>f, <2>1, <2>2
  <1>9. CASE AdvertiseRadio
    <2>1. /\ stage = "advertise" /\ stage' = stage /\ now' = now
          /\ window' = Rolled(now, window)
          /\ UNCHANGED <<duty, left, lag, frame>>
      BY <1>9 DEF AdvertiseRadio, Recv, Flush
    <2>2. /\ InFrame /\ now + left <= frame + 2 * sd - 1 + lag /\ (left > 0 => lag = 0)
      BY <2>1 DEF OnTime, AdvertisingEnds
    <2>3. window' = window
      <3>1. Windowed(window) /\ 2 \in Slots
        BY <1>b, <2>1, SlotAssumption, LayoutAssumption DEF StagePc, Slots
      <3>2. window.start <= now /\ now < window.start + 2 * slot_duration + slot_duration
        BY <1>a, <2>2 DEF InFrame
      <3> QED
        BY <1>a, <2>1, <3>1, <3>2, BeforeSlotEnds
    <2> QED
      BY <2>1, <2>2, <2>3
         DEF OnTime, AdvertisingEnds, PlannedInTime, SleepsUntilDue, TunedInTime, HeardInTime,
             InFrame
  <1>10. CASE AdvertiseRecvReturns
    <2>1. /\ stage = "advertise"
          /\ UNCHANGED <<stage, now, window, duty, left, lag, frame>>
      BY <1>10 DEF AdvertiseRecvReturns, RecvReturns, loop_vars
    <2> QED
      BY <2>1
         DEF OnTime, AdvertisingEnds, PlannedInTime, SleepsUntilDue, TunedInTime, HeardInTime,
             InFrame
  <1>11. ASSUME NEW c \in Rings \cup {Layout!GATEWAY_RING}, NEW rel \in 1 .. W - 1, Join(c, rel)
         PROVE  OnTime'
    <2>1. /\ stage = "advertise" /\ left > 0 /\ window' = window
          /\ UNCHANGED <<stage, duty, left, lag, frame>>
      <3>1. window' = window
        BY <1>11, Zenon DEF Join, TimeSync, RecvReturns
      <3> QED
        BY <1>11, <3>1, Zenon DEF Join
    <2>2. InFrame /\ now + left <= frame + 2 * sd - 1 + lag /\ lag = 0
      BY <2>1 DEF OnTime, AdvertisingEnds
    <2>3. frame <= now' /\ now' + left <= frame + 2 * sd - 1
      <3>1. CASE RecvReturns
        BY <1>a, <2>2, <3>1 DEF RecvReturns, InFrame
      <3>2. ASSUME NEW remote \in 0 .. Horizon,
                   (remote % SUPERFRAME_FREQUENCY_S) + left < 2 * slot_duration,
                   TimeSync(remote)
            PROVE  frame <= now' /\ now' + left <= frame + 2 * sd - 1
        <4>1. remote \in Nat
          BY HorizonAssumption
        <4>2. frame <= remote /\ remote + left <= frame + 2 * slot_duration - 1
          BY <2>1, <3>2, <4>1, SyncStaysInFrame
        <4> QED
          BY <3>2, <4>2 DEF TimeSync
      <3> QED
        BY <1>11, <3>1, <3>2, Zenon DEF Join
    <2>4. stage' = "advertise" /\ InFrame'
          /\ now' + left' <= frame' + 2 * sd - 1 + lag' /\ (left' > 0 => lag' = 0)
      BY <1>a, <2>1, <2>2, <2>3 DEF InFrame
    <2> QED
      BY <2>4
         DEF OnTime, AdvertisingEnds, PlannedInTime, SleepsUntilDue, TunedInTime, HeardInTime
  <1>12. CASE EndAdvertise
    <2>1. /\ stage = "advertise" /\ left = 0 /\ stage' = "plan"
          /\ duty' = IF Len(Duties(state')) > 0 THEN 1 ELSE 0
          /\ UNCHANGED <<now, window, left, lag, frame>>
      BY <1>12, Zenon DEF EndAdvertise, vars
    <2>2. InFrame /\ now <= frame + 2 * sd - 1 + lag
      BY <1>a, <2>1 DEF OnTime, AdvertisingEnds
    <2>3. ASSUME Timely' PROVE InFrame' /\ now' <= Due' + lag'
      <3>1. state' \in NodeStates
        BY DEF LInv, LoopTypes, NodeStates, Starts
      <3>2. Len(Duties(state')) > 0 /\ duty' = 1
        BY <2>1, <2>3 DEF Timely
      <3>3. Now' = Duties(state')[1] /\ 1 \in 1 .. Len(Duties(state'))
        <4>1. Len(Duties(state')) \in Nat
          BY <3>1, DutiesType
        <4> QED
          BY <3>2, <4>1 DEF Now
      <3>4. Now'.slot >= 2 /\ Now'.slot \in Slots
        <4>1. Duties(state')[1].slot >= 2
          BY <3>1, <3>3, DutiesAfterAdvertising
        <4>2. Duties(state')[1] \in DutyRecord
          BY <3>1, <3>3, DutiesType, ElementOfSeq
        <4> QED
          BY <3>3, <4>1, <4>2 DEF DutyRecord
      <3>5. Now'.slot * sd >= 2 * sd /\ Now'.slot * sd \in Nat
        <4> DEFINE n == Now'.slot
        <4>1. n \in Nat /\ n >= 2
          BY <3>4 DEF Slots
        <4>2. PICK m \in Nat : n = m + 2
          <5>1. n - 2 \in Nat /\ n = (n - 2) + 2
            BY <4>1
          <5> QED
            BY <5>1
        <4> HIDE DEF n, sd
        <4>3. n * sd = m * sd + 2 * sd /\ m * sd \in Nat
          BY <1>a, <4>2
        <4>4. n * sd >= 2 * sd /\ n * sd \in Nat
          BY <1>a, <4>3
        <4> QED
          BY <4>4 DEF n
      <3>6. Due' = frame + Now'.slot * sd
        BY <2>1 DEF Due
      <3> QED
        <4> DEFINE q == Now'.slot * sd
        <4>1. q >= 2 * sd /\ q \in Nat /\ Due' = frame + q
          BY <3>5, <3>6
        <4> HIDE DEF q
        <4> QED
          BY <1>a, <2>1, <2>2, <4>1 DEF InFrame
    <2> QED
      BY <1>f, <2>1, <2>3
  <1>13. CASE Transmit
    <2>1. /\ stage = "tuned" /\ stage' = "plan" /\ duty' = NextDuty /\ duty # 0
          /\ Now.do # "follower_recv"
          /\ now' = now /\ window' = Rolled(now, window) /\ pc = "idle"
          /\ UNCHANGED <<state, left, lag, frame>>
      BY <1>13, <1>d DEF Transmit, Flush
    <2>2. ASSUME Timely' PROVE InFrame' /\ now' <= Due' + lag'
      <3>1. Timely /\ Slack = 0
        BY <2>1, <2>2, NextInTime
      <3>2. InFrame /\ now <= Due + lag
        BY <1>a, <2>1, <3>1 DEF OnTime, TunedInTime
      <3>3. window' = window
        <4>1. /\ window.start <= now
              /\ now < window.start + Now.slot * slot_duration + slot_duration
          BY <1>a, <1>e, <3>2 DEF InFrame
        <4> QED
          BY <1>a, <1>b, <2>1, <4>1, BeforeSlotEnds
      <3>4. Due <= Due' /\ Due' \in Nat
        BY <2>1, <2>2, <3>2, NextInTime
      <3>5. InFrame' /\ now \in Nat /\ lag \in Nat /\ Due \in Nat
        BY <1>a, <2>1, <3>2, <3>3 DEF InFrame
      <3>6. now <= Due' + lag
        <4> DEFINE d == Due
                   e == Due'
        <4>1. now <= d + lag /\ d <= e /\ d \in Nat /\ e \in Nat
          BY <3>2, <3>4, <3>5
        <4> HIDE DEF d, e
        <4>2. now <= e + lag
          BY <3>5, <4>1
        <4> QED
          BY <4>2 DEF e
      <3>7. now' = now /\ lag' = lag
        BY <2>1
      <3> QED
        BY <3>5, <3>6, <3>7
    <2> QED
      BY <1>f, <2>1, <2>2
  <1>14. CASE Listen
    <2>1. /\ stage = "tuned" /\ duty # 0 /\ pc = "idle"
          /\ now' = now /\ window' = Rolled(now, window)
          /\ UNCHANGED <<state, lag, frame>>
      BY <1>14, <1>d DEF Listen, Recv
    <2>2. CASE in_active_window(now, window')
      <3>1. stage' = "listen" /\ duty' = duty /\ left' \in {sd, 0}
        BY <1>14, <2>2 DEF Listen, ListenTime
      <3>2. ASSUME Timely'
            PROVE  InFrame' /\ now' + left' <= Due' + sd + Slack' + lag'
        <4>1. Timely /\ Due' = Due /\ Slack' = Slack
          BY <1>c, <2>1, <3>1, <3>2
        <4>2. InFrame /\ now <= Due + Slack + lag
          BY <2>1, <4>1 DEF OnTime, TunedInTime
        <4>3. window' = window
          <5>1. window.start <= now /\ now < window.start + SUPERFRAME_FREQUENCY_S
            BY <1>a, <1>e, <4>2 DEF InFrame
          <5> QED
            BY <1>a, <1>b, <2>1, <2>2, <5>1, BeforeNextSuperframe
        <4> QED
          BY <1>a, <2>1, <3>1, <4>1, <4>2, <4>3 DEF InFrame
      <3> QED
        BY <3>1, <3>2
           DEF OnTime, AdvertisingEnds, PlannedInTime, SleepsUntilDue, TunedInTime, HeardInTime
    <2>3. CASE ~in_active_window(now, window')
      <3>1. stage' = "plan" /\ duty' = NextDuty /\ left' = left
        BY <1>14, <2>3 DEF Listen
      \* Only a follower that listens again may find the window closed.
      <3>2. ASSUME Timely' PROVE FALSE
        <4>1. Timely /\ Slack = 0
          BY <2>1, <3>1, <3>2, NextInTime
        <4>2. InFrame /\ now <= Due + lag
          BY <1>a, <2>1, <4>1 DEF OnTime, TunedInTime
        <4>3. /\ window.start <= now
              /\ now < window.start + Now.slot * slot_duration + slot_duration
          BY <1>a, <1>e, <4>2 DEF InFrame
        <4>4. window' = window /\ in_active_window(now, window)
          BY <1>a, <1>b, <2>1, <4>3, BeforeSlotEnds
        <4> QED
          BY <2>3, <4>4
      <3> QED
        BY <1>f, <3>1, <3>2
    <2> QED
      BY <2>2, <2>3
  <1>15. CASE Heard
    <2>1. /\ stage = "listen" /\ stage' = "plan" /\ duty' = NextDuty /\ duty # 0
          /\ Now.do \in {"clusterhead_recv", "follower_recv"}
          /\ now' = now /\ window' = window
          /\ UNCHANGED <<state, lag, frame>>
      BY <1>15, <1>d DEF Heard, RecvReturns, StagePc
    <2>2. ASSUME Timely' PROVE InFrame' /\ now' <= Due' + lag'
      <3>1. Timely /\ Slack = 0 /\ Now.do = "clusterhead_recv"
        BY <2>1, <2>2, NextInTime
      <3>2. InFrame /\ now + left <= Due + sd + lag
        BY <1>a, <2>1, <3>1 DEF OnTime, HeardInTime
      <3>3. Due + sd <= Due' /\ Due' \in Nat
        BY <2>1, <2>2, <3>1, <3>2, NextInTime
      <3>4. InFrame' /\ now \in Nat /\ lag \in Nat /\ left \in Nat /\ Due \in Nat
        BY <1>a, <2>1, <3>2 DEF InFrame
      <3>5. now <= Due' + lag
        <4> DEFINE d == Due + sd
                   e == Due'
        <4>1. now <= d + lag /\ d <= e /\ d \in Nat /\ e \in Nat
          BY <1>a, <3>2, <3>3, <3>4
        <4> HIDE DEF d, e
        <4>2. now <= e + lag
          BY <3>4, <4>1
        <4> QED
          BY <4>2 DEF e
      <3>6. now' = now /\ lag' = lag
        BY <2>1
      <3> QED
        BY <3>4, <3>5, <3>6
    <2> QED
      BY <1>f, <2>1, <2>2
  <1>16. CASE HeardOther
    <2>1. /\ stage = "listen" /\ stage' = "heard" /\ left' = 0
          /\ UNCHANGED <<now, window, state, duty, lag, frame>>
      BY <1>16 DEF HeardOther, RecvReturns
    <2>2. ASSUME Timely'
          PROVE  InFrame' /\ now' + left' <= Due' + sd + Slack' + lag'
      <3>1. Timely /\ Due' = Due /\ Slack' = Slack
        BY <1>c, <2>1, <2>2
      <3>2. InFrame /\ now + left <= Due + sd + Slack + lag
        BY <2>1, <3>1 DEF OnTime, HeardInTime
      <3> QED
        BY <1>a, <2>1, <3>1, <3>2 DEF InFrame
    <2> QED
      BY <2>1, <2>2
         DEF OnTime, AdvertisingEnds, PlannedInTime, SleepsUntilDue, TunedInTime, HeardInTime
  <1>17. CASE ListenAgain
    <2>1. /\ stage = "heard" /\ duty # 0 /\ pc = "idle" /\ Now.do = "follower_recv"
          /\ now' = now /\ window' = Rolled(now, window)
          /\ UNCHANGED <<state, left, lag, frame>>
      BY <1>17, <1>d DEF ListenAgain, StagePc
    <2>2. CASE current_slot(now, window') = Now.slot
      <3>1. stage' = "tuned" /\ duty' = duty
        BY <1>17, <2>2 DEF ListenAgain
      <3>2. ASSUME Timely' PROVE InFrame' /\ now' <= Due' + Slack' + lag'
        <4>1. Timely /\ Due' = Due /\ Slack' = Slack
          BY <1>c, <2>1, <3>1, <3>2
        <4>2. InFrame /\ now + left <= Due + sd + Slack + lag
          BY <2>1, <4>1 DEF OnTime, HeardInTime
        <4>3. window.start <= now /\ now < window.start + SUPERFRAME_FREQUENCY_S
          BY <1>a, <1>e, <4>2 DEF InFrame
        <4>4. in_active_window(now, window')
          BY <2>2, <1>a DEF current_slot, NoSlot, Slots
        <4>5. window' = window
          BY <1>a, <1>b, <2>1, <4>3, <4>4, BeforeNextSuperframe
        <4>6. now <= Due + Slack
          <5> DEFINE x == now - window.start
          <5>1. x \in Nat /\ Now.slot = x \div sd
            <6>1. in_active_window(now, window)
              BY <4>4, <4>5
            <6>2. current_slot(now, window) = Now.slot
              BY <2>2, <4>5
            <6>3. Now.slot = (now - window.start) \div slot_duration
              BY <6>1, <6>2 DEF current_slot
            <6> QED
              BY <1>a, <4>2, <6>3 DEF InFrame
          <5>2. x = sd * (x \div sd) + (x % sd) /\ x % sd \in 0 .. sd - 1
            BY <1>a, <5>1, Division
          <5>3. x = sd * Now.slot + (x % sd)
            BY <5>1, <5>2
          <5>4. sd * Now.slot = Now.slot * sd /\ Now.slot * sd \in Nat
            BY <1>a, Times DEF Slots
          <5>5. Slack = sd - 1
            BY <2>1 DEF Slack
          <5>6. x <= Now.slot * sd + sd - 1
            <6> DEFINE p == sd * Now.slot
            <6>1. x = p + (x % sd) /\ p \in Nat /\ p = Now.slot * sd
              BY <5>3, <5>4
            <6> HIDE DEF x, p, sd
            <6> QED
              BY <1>a, <5>2, <6>1
          <5> QED
            BY <1>a, <1>e, <4>2, <5>4, <5>5, <5>6 DEF InFrame
        <4> QED
          BY <1>a, <2>1, <4>1, <4>2, <4>5, <4>6 DEF InFrame
      <3> QED
        BY <3>1, <3>2
           DEF OnTime, AdvertisingEnds, PlannedInTime, SleepsUntilDue, TunedInTime, HeardInTime
    <2>3. CASE current_slot(now, window') # Now.slot
      <3>1. stage' = "plan" /\ duty' = NextDuty
        BY <1>17, <2>3 DEF ListenAgain
      <3>2. ~Timely'
        BY <2>1, <3>1, NextInTime
      <3> QED
        BY <1>f, <3>1, <3>2
    <2> QED
      BY <2>2, <2>3
  <1> QED
    BY <1>0, <1>1, <1>2, <1>3, <1>4, <1>5, <1>6, <1>7, <1>8, <1>9, <1>10, <1>11, <1>12,
       <1>13, <1>14, <1>15, <1>16, <1>17 DEF LoopNext

-----------------------------------------------------------------------------
(* What holds of the duties of a node.                                     *)

PaceInv == OnGrid(state) /\ StagePc /\ OnTime

LEMMA PaceInvInit == LoopInit => PaceInv
  <1> SUFFICES ASSUME LoopInit PROVE PaceInv
    OBVIOUS
  <1>1. OnGrid(state)
    <2>1. PICK r \in {Layout!GATEWAY_RING, Layout!UNKNOWN_RING} : state = Unjoined(r)
      BY DEF LoopInit
    <2>2. r \in Nat
      BY LayoutAssumption DEF Layout!GATEWAY_RING, Layout!UNKNOWN_RING
    <2> QED
      BY <2>1, <2>2, StartOnGrid DEF Unjoined, OnGrid
  <1>2. StagePc /\ OnTime
    BY DEF LoopInit, Init, StagePc, OnTime, AdvertisingEnds, PlannedInTime, SleepsUntilDue,
           TunedInTime, HeardInTime, Timely
  <1> QED
    BY <1>1, <1>2 DEF PaceInv

\* A node comes to every duty that is in the order of the slots in the
\* superframe it advertised in, and no later than the time it has lost.
THEOREM LoopKeepsPace == LoopSpec => []PaceInv
  <1>1. LoopInit => PaceInv
    BY PaceInvInit
  <1>2. IInv /\ LInv /\ PaceInv /\ IInv' /\ LInv' /\ [LoopNext]_<<vars, loop_vars>> => PaceInv'
    <2> SUFFICES ASSUME IInv, LInv, PaceInv, IInv', LInv', [LoopNext]_<<vars, loop_vars>>
                 PROVE  PaceInv'
      OBVIOUS
    <2>1. OnGrid(state) /\ StagePc /\ OnTime
      BY DEF PaceInv
    <2>2. OnGrid(state') /\ StagePc'
      BY <2>1, OnGridNext, StagePcNext
    <2>3. OnTime'
      BY <2>1, <2>2, OnTimeNext
    <2> QED
      BY <2>2, <2>3 DEF PaceInv, OnGrid
  <1> QED
    BY <1>1, <1>2, LoopInvariant, PTL DEF LoopSpec

\* A node works in a data slot only in the superframe whose advertising slot
\* gave it that slot, unless its windows are in the wrong order
\* (main.cpp:184-242).
THEOREM LoopFreshAssignment == LoopSpec => []FreshAssignment
  <1>1. LInv /\ PaceInv => FreshAssignment
    BY DEF LInv, StageOfDuty, PaceInv, OnTime, TunedInTime, HeardInTime, Timely, InOrder,
           InFrame, FreshAssignment
  <1> QED
    BY <1>1, LoopInvariant, LoopKeepsPace, PTL

\* A node finds itself in the slot it planned whenever it comes to work in one,
\* and sleeps through none when its windows are in the right order
\* (multihop.cpp:937-955, main.cpp:186-197).
THEOREM LoopDutyInItsSlot == LoopSpec => DutyInItsSlot
  <1>1. IInv /\ LInv /\ PaceInv /\ [LoopNext]_<<vars, loop_vars>>
          => [Tune \/ (Skip /\ Ordered(state)) => reply' = Now.slot]_<<vars, loop_vars>>
    <2> SUFFICES ASSUME IInv, LInv, PaceInv, Tune \/ (Skip /\ Ordered(state))
                 PROVE  reply' = Now.slot
      OBVIOUS
    <2>1. stage = "wait" /\ ActiveSlot /\ duty # 0
      <3>1. duty = 0 => Now = Advertising
        BY NowType DEF LInv
      <3> QED
        BY <3>1 DEF Tune, Skip
    <2>2. CASE Timely
      BY <2>1, <2>2, WakesInSlot DEF PaceInv
    <2>3. CASE ~Timely
      <3>1. Tune /\ Now.do # "clusterhead_recv"
        BY <2>1, <2>3 DEF Timely, InOrder
      <3> QED
        BY <3>1 DEF Tune, Serves
    <2> QED
      BY <2>2, <2>3
  <1> QED
    BY <1>1, LoopInvariant, LoopKeepsPace, PTL DEF LoopSpec, DutyInItsSlot

-----------------------------------------------------------------------------
(* The clock of a node whose superframe is over.                           *)

Period == SUPERFRAME_FREQUENCY_S

\* The superframe after a superframe.
LEMMA NextMultiple ==
    ASSUME NEW b \in Nat, b % Period = 0
    PROVE  (b + Period) % Period = 0
  <1> DEFINE F == Period
             k == b \div F
  <1>1. F \in Nat \ {0}
    BY Durations DEF Period
  <1>0. b % F = 0
    OBVIOUS
  <1>2. b = F * k + (b % F) /\ k \in Nat
    <2> HIDE DEF F
    <2> QED
      BY <1>1, Division
  <1>3. b = F * k
    <2> HIDE DEF F, k
    <2> QED
      BY <1>0, <1>1, <1>2
  <1> HIDE DEF k, F
  <1>4. b + F = (k + 1) * F + 0 /\ k + 1 \in Nat /\ 0 \in 0 .. F - 1
    BY <1>1, <1>2, <1>3
  <1>5. ((k + 1) * F + 0) % F = 0
    BY <1>1, <1>4, DivisionUnique
  <1> QED
    BY <1>4, <1>5 DEF F

\* A refresh after the end of the window gives the superframe that begins next.
LEMMA RolledInto ==
    ASSUME NEW w, Windowed(w), NEW t \in Nat, NEW s \in Nat, s % Period = 0,
           w.end <= t, t <= s, s < t + Period
    PROVE  /\ Rolled(t, w).start = s
           /\ Windowed(Rolled(t, w))
           /\ t < s => current_slot(t, Rolled(t, w)) = NoSlot
           /\ t = s => current_slot(t, Rolled(t, w)) = 0
  <1>1. next_time_interval(t, SUPERFRAME_FREQUENCY_S) = s
    BY OneStart DEF Period
  <1>2. Rolled(t, w) = MacState(s)
    BY <1>1 DEF Rolled, after_window
  <1>3. window_length \in Nat \ {0} /\ slot_duration \in Nat \ {0}
    BY Durations
  <1>4. Windowed(MacState(s)) /\ MacState(s).start = s
    BY <1>3 DEF Windowed, MacState, Period
  <1>5. t < s => ~in_active_window(t, MacState(s))
    BY <1>4 DEF in_active_window
  <1>6. t = s => current_slot(t, MacState(s)) = 0
    <2> SUFFICES ASSUME t = s PROVE current_slot(t, MacState(s)) = 0
      OBVIOUS
    <2>1. 0 \in Slots /\ 0 * slot_duration = 0
      BY <1>3, SlotAssumption DEF Slots
    <2>2. /\ MacState(s).start + 0 * slot_duration <= t
          /\ t < MacState(s).start + 0 * slot_duration + slot_duration
      BY <1>3, <1>4, <2>1
    <2> QED
      BY <1>4, <2>1, <2>2, InSlot
  <1> QED
    BY <1>2, <1>4, <1>5, <1>6 DEF current_slot

\* A node that plans the advertising slot outside it plans that of the
\* superframe that begins next.
LEMMA PlanAdvertising ==
    ASSUME NEW w, Windowed(w), NEW t \in Nat, NEW s \in Nat, s % Period = 0,
           t < s, s < t + Period,
           w.start = s \/ (w.start + Period = s /\ w.start + slot_duration <= t)
    PROVE  /\ Windowed(Rolled(t, w)) /\ Rolled(t, w).start \in {w.start, s}
           /\ t + Offset(0, t, Rolled(t, w)) = s
  <1>1. /\ slot_duration \in Nat \ {0} /\ window_length \in Nat \ {0} /\ Period \in Nat \ {0}
        /\ window_length <= Period
        /\ w.start \in Nat /\ w.end = w.start + window_length
    BY Durations DEF Windowed, Period
  <1>2. next_time_interval(t, SUPERFRAME_FREQUENCY_S) = s
    BY OneStart DEF Period
  <1>3. /\ Windowed(Rolled(t, w)) /\ Rolled(t, w).start \in {w.start, s}
        /\ current_slot(t, Rolled(t, w)) = NoSlot \/ 0 < current_slot(t, Rolled(t, w))
    <2>1. CASE w.start = s
      <3>1. ~after_window(t, w) /\ ~in_active_window(t, w)
        BY <1>1, <2>1 DEF after_window, in_active_window
      <3> QED
        BY <3>1 DEF Rolled, current_slot
    <2>2. CASE w.start # s /\ after_window(t, w)
      <3>1. /\ Rolled(t, w).start = s /\ Windowed(Rolled(t, w))
            /\ current_slot(t, Rolled(t, w)) = NoSlot
        BY <1>1, <2>2, RolledInto DEF after_window
      <3> QED
        BY <3>1
    <2>3. CASE w.start # s /\ ~after_window(t, w)
      <3>1. Rolled(t, w) = w /\ in_active_window(t, w)
        BY <1>1, <2>3 DEF Rolled, after_window, in_active_window
      <3>2. current_slot(t, w) = (t - w.start) \div slot_duration
        BY <3>1 DEF current_slot
      <3>3. 0 < (t - w.start) \div slot_duration
        <4> DEFINE x == t - w.start
                   d == slot_duration
        <4>1. x \in Nat /\ x >= d /\ d \in Nat \ {0}
          BY <1>1, <2>3
        <4>2. x = d * (x \div d) + (x % d) /\ x \div d \in Nat /\ x % d \in 0 .. d - 1
          <5> HIDE DEF x, d
          <5> QED
            BY <4>1, Division
        <4>3. x \div d # 0
          <5>1. ASSUME x \div d = 0 PROVE FALSE
            <6> DEFINE q == x \div d
                       r == x % d
            <6>1. x = d * q + r /\ q = 0 /\ r \in 0 .. d - 1
              BY <4>2, <5>1
            <6> HIDE DEF x, d, q, r
            <6> QED
              BY <4>1, <6>1
          <5> QED
            BY <5>1
        <4> QED
          BY <4>2, <4>3
      <3> QED
        BY <3>1, <3>2, <3>3
    <2> QED
      BY <2>1, <2>2, <2>3
  <1>4. 0 * slot_duration = 0
    BY <1>1
  <1> QED
    BY <1>1, <1>2, <1>3, <1>4 DEF Offset

\* A node that plans a slot it is past plans it in the next superframe.
LEMMA PlanPastSlot ==
    ASSUME NEW w, Windowed(w), NEW n \in Slots, NEW t \in Nat,
           w.start + n * slot_duration + slot_duration <= t, t < w.start + window_length
    PROVE  /\ Rolled(t, w) = w
           /\ t + Offset(n, t, w) = w.start + Period + n * slot_duration
  <1> DEFINE d == slot_duration
             x == t - w.start
             m == n * slot_duration
             s == w.start + Period
  <1>1. /\ d \in Nat \ {0} /\ window_length \in Nat \ {0} /\ Period \in Nat \ {0}
        /\ window_length <= Period /\ m \in Nat /\ n \in Nat
        /\ w.start \in Nat /\ w.start % Period = 0 /\ w.end = w.start + window_length
    BY Durations, SlotFits DEF Windowed, Period, Slots
  <1>2. Rolled(t, w) = w /\ in_active_window(t, w)
    BY <1>1 DEF Rolled, after_window, in_active_window
  <1>3. x \in Nat /\ x >= m + d
    BY <1>1
  <1>4. n < x \div d
    <2>1. x = d * (x \div d) + (x % d) /\ x \div d \in Nat /\ x % d \in 0 .. d - 1
      <3> HIDE DEF x, d
      <3> QED
        BY <1>1, <1>3, Division
    <2> DEFINE q == x \div d
               r == x % d
    <2>2. x = d * q + r /\ q \in Nat /\ r \in 0 .. d - 1 /\ m = n * d
      BY <2>1
    <2> HIDE DEF q, r, x, d, m
    <2>3. ASSUME q <= n PROVE FALSE
      <3>1. PICK j \in Nat : n = q + j
        <4>1. n - q \in Nat /\ n = q + (n - q)
          BY <1>1, <2>2, <2>3
        <4> QED
          BY <4>1
      <3>2. n * d = d * q + j * d /\ j * d \in Nat /\ d * q \in Nat
        BY <1>1, <2>2, <3>1
      <3> QED
        BY <1>1, <1>3, <2>2, <3>2
    <2>4. n < q
      BY <1>1, <2>2, <2>3
    <2> QED
      BY <2>4 DEF q
  <1>5. current_slot(t, w) = x \div d
    BY <1>2 DEF current_slot
  <1>6. Offset(n, t, w) = next_time_interval(t, SUPERFRAME_FREQUENCY_S) - t + n * slot_duration
    BY <1>4, <1>5 DEF Offset
  <1>7. next_time_interval(t, SUPERFRAME_FREQUENCY_S) = s
    <2>1. s \in Nat /\ t <= s /\ s < t + Period
      BY <1>1
    <2>2. s % Period = 0
      BY <1>1, NextMultiple
    <2> QED
      BY <2>1, <2>2, OneStart DEF Period
  <1> QED
    BY <1>1, <1>2, <1>6, <1>7

\* A node before its window plans a slot of it.
LEMMA PlanBeforeWindow ==
    ASSUME NEW w, Windowed(w), NEW n \in Slots, NEW t \in Nat,
           t < w.start, w.start < t + Period
    PROVE  /\ Rolled(t, w) = w
           /\ t + Offset(n, t, w) = w.start + n * slot_duration
  <1>1. /\ window_length \in Nat \ {0} /\ n * slot_duration \in Nat
        /\ w.start \in Nat /\ w.start % Period = 0 /\ w.end = w.start + window_length
    BY Durations, SlotFits DEF Windowed, Period
  <1>2. Rolled(t, w) = w /\ current_slot(t, w) = NoSlot
    BY <1>1 DEF Rolled, after_window, in_active_window, current_slot
  <1>3. next_time_interval(t, SUPERFRAME_FREQUENCY_S) = w.start
    BY <1>1, OneStart DEF Period
  <1> QED
    BY <1>1, <1>2, <1>3 DEF Offset

-----------------------------------------------------------------------------
(* How a node comes back to its advertising slot.                          *)

OutOfOrder(do) == duty # 0 /\ ~Timely /\ Now.do = do

\* What the node does it does for the superframe it advertised in last.
Underway ==
    /\ stage = "advertise" \/ duty # 0 => frame \in Nat /\ missed = 0
    /\ pc = "setup" => frame = Never

\* A node that nobody set the clock of advertises for a slot's length, and a
\* duty in order does not begin before its slot.
NotEarly ==
    /\ stage = "advertise" /\ ~state.joined => frame + slot_duration <= now + left
    /\ Timely /\ stage \in {"tuned", "listen", "heard"} => Due <= now

\* A node whose slot as a follower is past when it has sent its acks sleeps a
\* superframe for it.  It wakes with a window that is over, finds itself in no
\* slot, and goes on without sending.
SendsTooLate ==
    OutOfOrder("follower_send") =>
        /\ window.start = frame /\ frame < now
        /\ stage \in {"plan", "wait"}
        /\ stage = "plan" =>
             Due + slot_duration <= now /\ now + (MaxLag - lag) < frame + window_length
        /\ stage = "wait" =>
             /\ epoch = Due + Period /\ now <= epoch + lag
             /\ pc = "awake" => epoch <= now

\* It listens for the acks another superframe later.
ListensTooLate ==
    OutOfOrder("follower_recv") =>
        /\ window.start = frame + 2 * Period
        /\ stage = "plan" => frame + Period < now /\ now + (MaxLag - lag) < frame + 2 * Period
        /\ stage = "wait" =>
             /\ epoch = Due + 2 * Period /\ now <= epoch + lag
             /\ pc = "awake" => epoch <= now
        /\ stage = "tuned" => Due + 2 * Period <= now /\ now <= Due + 2 * Period + Slack + lag
        /\ stage \in {"listen", "heard"} =>
             /\ Due + 2 * Period <= now
             /\ now + left <= Due + 2 * Period + slot_duration + Slack + lag

\* The start of the superframe a node advertises in next if its duties end in
\* the superframe that begins at b: the one after, or the one after that if it
\* has woken too late for its advertising slot.
NextStart(b) == IF missed = 0 THEN b + Period ELSE b + 2 * Period

AtHome(b) ==
    /\ missed \in {0, 1}
    /\ window.start = NextStart(b) \/ (missed = 0 /\ window.start = b)
    /\ stage = "plan" =>
         /\ IF missed = 0 THEN b + slot_duration <= now ELSE b + Period < now
         /\ now + (MaxLag - lag) < NextStart(b)
    /\ stage = "wait" =>
         /\ epoch = NextStart(b) /\ now <= epoch + lag /\ b < now
         /\ pc = "awake" => epoch <= now

Returns ==
    duty = 0 /\ stage \in {"plan", "wait"} /\ frame # Never =>
        AtHome(frame) \/ (~Ordered(state) /\ AtHome(frame + 2 * Period))

\* What the arithmetic of a node with a duty rests on.
LEMMA DueBounds ==
    ASSUME IInv, LInv, OnGrid(state), Underway, duty # 0
    PROVE  /\ Due \in Nat /\ frame \in Nat /\ missed = 0 /\ pc # "setup"
           /\ frame + 2 * slot_duration <= Due
           /\ Due + slot_duration <= frame + window_length
           /\ window_length \in Nat /\ Period \in Nat
           /\ window_length + slot_duration + MaxLag <= Period
           /\ Now.slot \in Slots /\ Due = frame + Now.slot * slot_duration
  <1>1. /\ Now.slot * slot_duration \in Nat /\ slot_duration \in Nat \ {0} /\ Now.slot \in Slots
        /\ Now.slot * slot_duration + slot_duration <= window_length
        /\ window_length \in Nat /\ Period \in Nat
        /\ window_length + slot_duration + MaxLag <= Period
    BY Times DEF Period
  <1>2. frame \in Nat /\ missed = 0 /\ pc # "setup"
    BY DEF Underway, Never
  <1>3. Now.slot >= 2
    <2>1. state \in NodeStates /\ duty \in 1 .. Len(Duties(state)) /\ Now = Duties(state)[duty]
      BY NowType DEF LInv, Now
    <2> QED
      BY <2>1, DutiesAfterAdvertising
  <1>4. 2 * slot_duration <= Now.slot * slot_duration
    <2> DEFINE n == Now.slot
               d == slot_duration
    <2>1. n \in Nat /\ n >= 2 /\ d \in Nat
      BY <1>1, <1>3 DEF Slots
    <2>2. PICK j \in Nat : n = j + 2
      <3>1. n - 2 \in Nat /\ n = (n - 2) + 2
        BY <2>1
      <3> QED
        BY <3>1
    <2> HIDE DEF n, d
    <2>3. n * d = j * d + 2 * d /\ j * d \in Nat
      BY <2>1, <2>2
    <2>4. 2 * d <= n * d
      BY <2>1, <2>3
    <2> QED
      BY <2>4 DEF n, d
  <1>5. Due = frame + Now.slot * slot_duration
    BY DEF Due
  <1>6. Due \in Nat /\ frame + 2 * slot_duration <= Due /\ Due + slot_duration <= frame + window_length
    <2> DEFINE p == Now.slot * slot_duration
    <2>1. p \in Nat /\ 2 * slot_duration <= p /\ p + slot_duration <= window_length /\ Due = frame + p
      BY <1>1, <1>4, <1>5
    <2> HIDE DEF p
    <2> QED
      BY <1>1, <1>2, <2>1
  <1> QED
    BY <1>1, <1>2, <1>5, <1>6

\* What follows a duty: after a duty in order another one or none; after its
\* acks, what the node sends out of order; and after that it listens.
LEMMA AfterDuty ==
    ASSUME IInv, LInv, OnGrid(state), Underway, duty # 0,
           state' = state, frame' = frame, duty' = NextDuty
    PROVE  /\ duty' # 0 /\ ~Timely' =>
                \/ /\ Now.do = "clusterhead_send" /\ OutOfOrder("follower_send")'
                   /\ Due' \in Nat /\ Due' + slot_duration <= Due
                \/ OutOfOrder("follower_send") /\ OutOfOrder("follower_recv")'
           /\ duty' = 0 => Now.do # "follower_send"
  <1>1. state \in NodeStates /\ duty \in 1 .. Len(Duties(state)) /\ Len(Duties(state)) \in Nat
    <2>1. state \in NodeStates /\ duty \in 1 .. Len(Duties(state))
      BY NowType DEF LInv
    <2> QED
      BY <2>1, DutiesType
  <1>2. Now = Duties(state)[duty]
    BY <1>1 DEF Now
  <1>3. ASSUME duty' = 0 PROVE Now.do # "follower_send"
    <2>1. ~(duty < Len(Duties(state)))
      BY <1>1, <1>3 DEF NextDuty
    <2> QED
      BY <1>1, <1>2, <2>1, SendIsNotLast
  <1>4. ASSUME duty' # 0, ~Timely'
        PROVE  \/ /\ Now.do = "clusterhead_send" /\ OutOfOrder("follower_send")'
                  /\ Due' \in Nat /\ Due' + slot_duration <= Due
               \/ OutOfOrder("follower_send") /\ OutOfOrder("follower_recv")'
    <2>1. duty' = duty + 1 /\ duty + 1 \in 1 .. Len(Duties(state))
      BY <1>1, <1>4 DEF NextDuty
    <2>2. Now' = Duties(state)[duty + 1]
      BY <1>1, <2>1 DEF Now
    <2>3. ~InOrder(state, Duties(state)[duty + 1])
      BY <1>4, <2>2 DEF Timely, InOrder, Ordered, Tight
    <2>4. \/ /\ Now.do = "clusterhead_send" /\ Now'.do = "follower_send"
             /\ Now'.slot + 1 <= Now.slot
          \/ /\ ~InOrder(state, Now)
             /\ Now.do = "follower_send" /\ Now'.do = "follower_recv"
      BY <1>1, <1>2, <2>1, <2>2, <2>3, NextOutOfOrder
    <2>5. ASSUME Now.do = "clusterhead_send", Now'.do = "follower_send", Now'.slot + 1 <= Now.slot
          PROVE  Due' \in Nat /\ Due' + slot_duration <= Due
      <3>1. Now'.slot \in Nat
        <4>1. Now' \in DutyRecord
          BY <1>1, <2>1, <2>2, DutiesType, ElementOfSeq
        <4> QED
          BY <4>1 DEF DutyRecord, Slots
      <3>2. /\ slot_duration \in Nat \ {0} /\ Now.slot \in Nat /\ frame \in Nat
            /\ Due = frame + Now.slot * slot_duration
        BY DueBounds, Times DEF Slots
      <3> DEFINE a == Now'.slot
                 b == Now.slot
                 d == slot_duration
      <3>3. Due = frame + b * d /\ Due' = frame + a * d
        BY <3>2 DEF Due
      <3>4. a \in Nat /\ b \in Nat /\ d \in Nat /\ a + 1 <= b
        BY <2>5, <3>1, <3>2
      <3> HIDE DEF a, b, d
      <3>5. PICK j \in Nat : b = a + 1 + j
        <4>1. b - a - 1 \in Nat /\ b = a + 1 + (b - a - 1)
          BY <3>4
        <4> QED
          BY <4>1
      <3>6. b * d = a * d + d + j * d /\ j * d \in Nat /\ a * d \in Nat
        BY <3>4, <3>5
      <3> QED
        BY <3>2, <3>3, <3>4, <3>6 DEF d
    <2> QED
      BY <1>4, <2>4, <2>5 DEF OutOfOrder, Timely
  <1> QED
    BY <1>3, <1>4

LEMMA UnderwayNext ==
    ASSUME IInv, LInv, StagePc, Underway, IInv', [LoopNext]_<<vars, loop_vars>>
    PROVE  Underway'
  <1>2. Now = Advertising <=> duty = 0
    <2>1. duty # 0 => Now # Advertising
      BY NowType DEF DutyRecord, Advertising, Duty, LInv
    <2> QED
      BY <2>1, NowType DEF LInv
  <1>3. /\ stage = "advertise" => duty = 0
        /\ stage \in {"tuned", "listen", "heard"} => duty # 0
    BY DEF LInv, StageOfDuty
  <1>4. CASE BeginAdvertise
    <2>1. pc' = "idle" /\ frame' = window'.start /\ missed' = 0
      BY <1>4 DEF BeginAdvertise, ActiveSlot
    <2>2. window'.start \in Nat
      BY DEF IInv, TypeOK
    <2> QED
      BY <2>1, <2>2 DEF Underway
  <1>5. CASE SkipAdvertise
    <2>1. pc' = "idle" /\ stage' = "plan" /\ duty' = 0
      BY <1>2, <1>5 DEF SkipAdvertise, ActiveSlot
    <2> QED
      BY <2>1 DEF Underway
  <1>6. CASE Setup
    <2>1. pc' = "idle" /\ stage' = "plan" /\ duty' = 0
      BY <1>6 DEF Setup, LinkInit, StagePc
    <2> QED
      BY <2>1 DEF Underway
  <1>7. ASSUME UNCHANGED <<frame, missed>>, pc' = "setup" => pc = "setup",
               stage' = "advertise" \/ duty' # 0 => stage = "advertise" \/ duty # 0
        PROVE  Underway'
    BY <1>7 DEF Underway
  <1>8. CASE UNCHANGED <<vars, loop_vars>> \/ TimePasses \/ Plan \/ Wake
    <2>1. /\ UNCHANGED <<frame, missed, duty>> /\ (pc' = "setup" => pc = "setup")
          /\ stage' = stage \/ stage' = "wait"
      BY <1>8 DEF vars, loop_vars, TimePasses, Tick, Plan, EpochAndOffset, Wake, SleepUntil
    <2> QED
      BY <1>7, <2>1
  <1>9. CASE Tune \/ Skip
    <2>1. UNCHANGED <<frame, missed>> /\ pc' = "idle" /\ duty # 0
      BY <1>2, <1>9 DEF Tune, Skip, ActiveSlot
    <2> QED
      BY <1>7, <2>1
  <1>10. CASE AdvertiseRadio \/ AdvertiseRecvReturns
    <2>1. UNCHANGED <<frame, missed>> /\ stage = "advertise" /\ pc' # "setup"
      BY <1>10 DEF AdvertiseRadio, Flush, Recv, AdvertiseRecvReturns, RecvReturns, loop_vars
    <2> QED
      BY <1>7, <2>1
  <1>11. ASSUME NEW c \in Rings \cup {Layout!GATEWAY_RING}, NEW rel \in 1 .. W - 1, Join(c, rel)
         PROVE  Underway'
    <2>1. UNCHANGED <<frame, missed>> /\ stage = "advertise"
      BY <1>11, Zenon DEF Join
    <2>2. pc' = "idle"
      BY <1>11, Zenon DEF Join, TimeSync, RecvReturns
    <2> QED
      BY <1>7, <2>1, <2>2
  <1>12. CASE EndAdvertise
    <2>1. UNCHANGED <<frame, missed, pc>> /\ stage = "advertise"
      BY <1>12, Zenon DEF EndAdvertise, vars
    <2> QED
      BY <1>7, <2>1
  <1>13. CASE Transmit \/ Listen \/ Heard \/ HeardOther \/ ListenAgain
    <2>1. /\ UNCHANGED <<frame, missed>> /\ pc' # "setup" /\ stage \in {"tuned", "listen", "heard"}
      BY <1>13
         DEF Transmit, Flush, Listen, Recv, Heard, HeardOther, RecvReturns, ListenAgain
    <2> QED
      BY <1>3, <1>7, <2>1
  <1> QED
    BY <1>4, <1>5, <1>6, <1>8, <1>9, <1>10, <1>11, <1>12, <1>13 DEF LoopNext

LEMMA NotEarlyNext ==
    ASSUME IInv, LInv, OnGrid(state), StagePc, OnTime, Underway, NotEarly,
           IInv', LInv', [LoopNext]_<<vars, loop_vars>>
    PROVE  NotEarly'
  <1> DEFINE sd == slot_duration
  <1>a. /\ sd \in Nat \ {0} /\ now \in Nat /\ left \in 0 .. sd /\ frame \in Nat \cup {Never}
    BY Times
  <1>b. UNCHANGED <<state, duty, frame>> => Due' = Due /\ (Timely' <=> Timely)
    <2> SUFFICES ASSUME UNCHANGED <<state, duty, frame>>
                 PROVE  Due' = Due /\ (Timely' <=> Timely)
      OBVIOUS
    <2>1. Now' = Now
      BY DEF Now
    <2> QED
      BY <2>1 DEF Due, Timely, InOrder, Ordered, Tight
  <1>c. duty # 0 => Due \in Nat
    BY DueBounds
  <1>d. ASSUME stage' \notin {"advertise", "tuned", "listen", "heard"} PROVE NotEarly'
    BY <1>d DEF NotEarly
  <1>e. /\ stage = "advertise" => duty = 0
        /\ stage \in {"tuned", "listen", "heard"} => duty # 0
        /\ duty = 0 => ~Timely
        /\ Now = Advertising <=> duty = 0
    <2>1. duty # 0 => Now # Advertising
      BY NowType DEF DutyRecord, Advertising, Duty, LInv
    <2> QED
      BY <2>1, NowType DEF LInv, StageOfDuty, Timely
  <1>0. CASE UNCHANGED <<vars, loop_vars>>
    <2>1. UNCHANGED <<state, duty, frame, stage, now, left>>
      BY <1>0 DEF vars, loop_vars
    <2> QED
      BY <1>b, <2>1 DEF NotEarly
  <1>1. CASE TimePasses
    <2>1. /\ UNCHANGED <<state, duty, frame, stage>> /\ now' = now + 1
          /\ left' = left \/ left' = left - 1
      BY <1>1 DEF TimePasses, Tick
    <2>2. stage' = "advertise" /\ ~state'.joined => frame' + sd <= now' + left'
      BY <1>a, <2>1 DEF NotEarly, Underway
    <2>3. Timely' /\ stage' \in {"tuned", "listen", "heard"} => Due' <= now'
      <3> SUFFICES ASSUME Timely', stage' \in {"tuned", "listen", "heard"} PROVE Due' <= now'
        OBVIOUS
      <3>1. Due' = Due /\ Due <= now /\ Due \in Nat
        BY <1>b, <1>c, <1>e, <2>1 DEF NotEarly
      <3> QED
        BY <1>a, <2>1, <3>1
    <2> QED
      BY <2>2, <2>3 DEF NotEarly
  <1>2. CASE Setup \/ Plan \/ Wake
    <2>1. stage' \in {"plan", "wait"}
      BY <1>2 DEF Setup, LinkInit, Plan, Wake, SleepUntil, loop_vars, StagePc, LInv, LoopTypes
    <2> QED
      BY <1>d, <2>1
  <1>3. CASE BeginAdvertise
    <2>1. /\ stage' = "advertise" /\ now' = now /\ left' = sd
          /\ frame' = window'.start /\ duty' = duty /\ duty = 0
          /\ window' = Rolled(now, window) /\ reply' = current_slot(now, window')
          /\ Serves(Now, reply')
      BY <1>3, <1>e DEF BeginAdvertise, ActiveSlot
    <2>2. current_slot(now, window') = 0
      BY <1>e, <2>1 DEF Serves, Advertising, Duty
    <2>3. Current(window', now)
      BY <2>1, RefreshOfInv
    <2>4. window'.start <= now /\ window'.start \in Nat
      BY <1>a, <2>2, <2>3, CurrentSlotOnGrid DEF NoSlot, Current
    <2>5. frame' + sd <= now' + left'
      BY <1>a, <2>1, <2>4
    <2> QED
      BY <2>1, <2>5 DEF NotEarly
  <1>4. CASE Tune
    <2>1. /\ stage = "wait" /\ stage' = "tuned" /\ now' = now /\ pc = "awake"
          /\ UNCHANGED <<state, duty, frame>> /\ duty # 0
      BY <1>4, <1>e DEF Tune, ActiveSlot
    <2>2. ASSUME Timely' PROVE Due' <= now'
      <3>1. Timely /\ Due' = Due
        BY <1>b, <2>1, <2>2
      <3>2. Due <= epoch /\ epoch <= now /\ epoch \in Nat /\ Due \in Nat
        BY <1>c, <2>1, <3>1 DEF OnTime, SleepsUntilDue, IInv, TypeOK
      <3> QED
        BY <1>a, <2>1, <3>1, <3>2
    <2> QED
      BY <2>1, <2>2 DEF NotEarly
  <1>5. CASE SkipAdvertise \/ Skip \/ EndAdvertise \/ Transmit \/ Heard
    <2>1. stage' = "plan"
      BY <1>5, Zenon DEF SkipAdvertise, Skip, EndAdvertise, Transmit, Heard
    <2> QED
      BY <1>d, <2>1
  <1>6. CASE AdvertiseRadio \/ AdvertiseRecvReturns
    <2>1. stage = "advertise" /\ stage' = stage /\ UNCHANGED <<state, duty, frame, now, left>>
      BY <1>6 DEF AdvertiseRadio, Flush, Recv, AdvertiseRecvReturns, RecvReturns, loop_vars
    <2> QED
      BY <2>1 DEF NotEarly
  <1>7. ASSUME NEW c \in Rings \cup {Layout!GATEWAY_RING}, NEW rel \in 1 .. W - 1, Join(c, rel)
        PROVE  NotEarly'
    <2>1. stage = "advertise" /\ stage' = stage
          /\ state' = [state EXCEPT !.joined = TRUE, !.rel = rel,
                                    !.up = Layout!downstream_start_slot(c)]
      BY <1>7, Zenon DEF Join
    <2>2. state'.joined
      <3>1. state \in NodeStates
        BY NowType DEF LInv
      <3> HIDE DEF Layout!downstream_start_slot
      <3> QED
        BY <2>1, <3>1 DEF NodeStates
    <2> QED
      BY <2>1, <2>2 DEF NotEarly
  <1>8. CASE Listen \/ HeardOther \/ ListenAgain
    <2>1. /\ stage \in {"tuned", "listen", "heard"} /\ now' = now /\ UNCHANGED <<state, frame>>
          /\ \/ stage' = "plan"
             \/ duty' = duty /\ stage' \in {"tuned", "listen", "heard"}
      BY <1>8 DEF Listen, Recv, HeardOther, RecvReturns, ListenAgain
    <2> QED
      BY <1>b, <1>d, <2>1 DEF NotEarly
  <1> QED
    BY <1>0, <1>1, <1>2, <1>3, <1>4, <1>5, <1>6, <1>7, <1>8 DEF LoopNext

-----------------------------------------------------------------------------
(* The return to the advertising slot, step by step.                       *)

RInv == Underway /\ NotEarly /\ SendsTooLate /\ ListensTooLate /\ Returns

LEMMA SameDuty ==
    ASSUME UNCHANGED <<state, duty, frame>>
    PROVE  /\ Now' = Now /\ Due' = Due /\ Slack' = Slack /\ (Timely' <=> Timely)
           /\ \A do : OutOfOrder(do)' <=> OutOfOrder(do)
  <1>1. Now' = Now
    BY DEF Now
  <1>2. Timely' <=> Timely
    BY <1>1 DEF Timely, InOrder, Ordered, Tight
  <1> QED
    BY <1>1, <1>2 DEF Due, Slack, OutOfOrder

\* Only what a follower does may be out of order.
LEMMA OutOfOrderDuty ==
    ASSUME LInv, duty # 0, ~Timely
    PROVE  ~Ordered(state) /\ (OutOfOrder("follower_send") \/ OutOfOrder("follower_recv"))
  <1>1. Now \in DutyRecord
    BY NowType DEF LInv
  <1> QED
    BY <1>1 DEF DutyRecord, Timely, InOrder, OutOfOrder

\* A node comes to its first duty in order.
LEMMA BeginsInOrder ==
    ASSUME LInv', duty' = IF Len(Duties(state')) > 0 THEN 1 ELSE 0, duty' # 0
    PROVE  Timely'
  <1>1. state' \in NodeStates
    BY DEF LInv, LoopTypes, NodeStates, Starts
  <1>2. duty' = 1 /\ Len(Duties(state')) > 0
    OBVIOUS
  <1>3. InOrder(state', Duties(state')[1])
    BY <1>1, <1>2, FirstInOrder
  <1>4. Now' = Duties(state')[1]
    BY <1>2 DEF Now
  <1> QED
    BY <1>2, <1>3, <1>4 DEF Timely, InOrder, Ordered, Tight

\* While time is left of a slot, its end is not reached.
LEMMA SlotNotOver ==
    ASSUME NEW w, Windowed(w), NEW n \in Slots, NEW t \in Nat, w.start <= t,
           current_slot(t, w) = n
    PROVE  in_active_window(t, w) /\ t <= w.start + n * slot_duration + slot_duration - 1
  <1> DEFINE x == t - w.start
             sd == slot_duration
             p == sd * n
  <1>1. sd \in Nat \ {0} /\ n \in Nat /\ w.start \in Nat /\ x \in Nat /\ p \in Nat /\ p = n * sd
    BY Durations DEF Slots, Windowed
  <1>2. in_active_window(t, w) /\ n = x \div sd
    <2>1. n # NoSlot
      BY <1>1 DEF NoSlot
    <2> QED
      BY <2>1 DEF current_slot
  <1>3. x = sd * (x \div sd) + (x % sd) /\ x % sd \in 0 .. sd - 1
    BY <1>1, Division
  <1>4. x = p + (x % sd)
    BY <1>2, <1>3
  <1>5. x <= p + sd - 1
    <2> HIDE DEF x, p, sd
    <2> QED
      BY <1>1, <1>3, <1>4
  <1>6. t = w.start + x
    BY <1>1
  <1> QED
    <2> HIDE DEF x, p
    <2> QED
      BY <1>1, <1>2, <1>5, <1>6

\* A refresh in a superframe leaves its window or gives the next.
LEMMA RefreshInSuperframe ==
    ASSUME NEW w, Windowed(w), NEW t \in Nat, w.start < t, t < w.start + Period
    PROVE  Rolled(t, w).start \in {w.start, w.start + Period}
  <1>1. w.start \in Nat /\ w.start % Period = 0 /\ Period \in Nat
    BY Durations DEF Windowed, Period
  <1>2. CASE after_window(t, w)
    <2>1. (w.start + Period) % Period = 0 /\ w.start + Period \in Nat
      BY <1>1, NextMultiple
    <2>2. w.end <= t
      BY <1>1, <1>2 DEF after_window, Windowed
    <2> QED
      BY <1>1, <2>1, <2>2, RolledInto
  <1>3. CASE ~after_window(t, w)
    BY <1>3 DEF Rolled
  <1> QED
    BY <1>2, <1>3

\* A follower that wakes a superframe late does not send, and is between two
\* superframes.
LEMMA WakesTooLate ==
    ASSUME IInv, LInv, OnGrid(state), Underway, SendsTooLate,
           OutOfOrder("follower_send"), stage = "wait", ActiveSlot
    PROVE  /\ reply' = NoSlot /\ window'.start = frame + 2 * Period
           /\ frame + Period < now /\ now + (MaxLag - lag) < frame + 2 * Period
  <1> DEFINE d == Due
             s == frame + 2 * Period
  <1>1. /\ d \in Nat /\ frame \in Nat /\ pc # "setup"
        /\ frame + 2 * slot_duration <= d /\ d + slot_duration <= frame + window_length
        /\ window_length \in Nat /\ Period \in Nat
        /\ window_length + slot_duration + MaxLag <= Period
    BY DueBounds DEF OutOfOrder
  <1>2. /\ slot_duration \in Nat \ {0} /\ now \in Nat /\ lag \in 0 .. MaxLag /\ MaxLag \in Nat
        /\ MaxLag < slot_duration
    BY Times
  <1>3. Windowed(window)
    BY <1>1, Times
  <1>4. window.start = frame /\ d + Period <= now /\ now <= d + Period + lag
    <2>1. /\ window.start = frame /\ epoch = d + Period /\ now <= epoch + lag /\ epoch <= now
      BY DEF SendsTooLate, ActiveSlot
    <2> HIDE DEF d
    <2> QED
      BY <2>1
  <1> HIDE DEF d
  <1>5. frame + Period < now /\ now + (MaxLag - lag) < s
    BY <1>1, <1>2, <1>4
  <1>6. window.end <= now /\ now < s /\ s < now + Period /\ s \in Nat
    BY <1>1, <1>2, <1>3, <1>4, <1>5 DEF Windowed
  <1>7. s % Period = 0
    <2>1. frame % Period = 0
      BY <1>3, <1>4 DEF Windowed, Period
    <2>2. (frame + Period) % Period = 0 /\ frame + Period \in Nat
      BY <1>1, <2>1, NextMultiple
    <2>3. ((frame + Period) + Period) % Period = 0
      BY <2>2, NextMultiple
    <2>4. (frame + Period) + Period = s
      BY <1>1
    <2> QED
      BY <2>3, <2>4
  <1>8. Rolled(now, window).start = s /\ current_slot(now, Rolled(now, window)) = NoSlot
    BY <1>2, <1>3, <1>6, <1>7, RolledInto
  <1> QED
    BY <1>5, <1>8 DEF ActiveSlot

LEMMA SendsTooLateNext ==
    ASSUME IInv, LInv, OnGrid(state), StagePc, OnTime, Underway, NotEarly, SendsTooLate,
           IInv', LInv', [LoopNext]_<<vars, loop_vars>>
    PROVE  SendsTooLate'
  <1>a. /\ slot_duration \in Nat \ {0} /\ now \in Nat /\ lag \in 0 .. MaxLag /\ MaxLag \in Nat
        /\ MaxLag < slot_duration /\ left \in 0 .. slot_duration
    BY Times
  <1>b. duty # 0 =>
          /\ Due \in Nat /\ frame \in Nat /\ pc # "setup" /\ Windowed(window)
          /\ frame + 2 * slot_duration <= Due /\ Due + slot_duration <= frame + window_length
          /\ window_length \in Nat /\ Period \in Nat
          /\ window_length + slot_duration + MaxLag <= Period
          /\ Now.slot \in Slots /\ Due = frame + Now.slot * slot_duration
    BY DueBounds, Times
  <1>c. /\ stage = "advertise" => duty = 0
        /\ stage \in {"tuned", "listen", "heard"} => duty # 0
        /\ Now = Advertising <=> duty = 0
    <2>1. duty # 0 => Now # Advertising
      BY NowType DEF DutyRecord, Advertising, Duty, LInv
    <2> QED
      BY <2>1, NowType DEF LInv, StageOfDuty
  <1>d. ASSUME duty' = 0 PROVE SendsTooLate'
    BY <1>d DEF SendsTooLate, OutOfOrder
  <1>e. ASSUME duty' = NextDuty, duty # 0, UNCHANGED <<state, frame>>,
               Now.do # "clusterhead_send"
        PROVE  SendsTooLate'
    <2>1. ASSUME OutOfOrder("follower_send")' PROVE FALSE
      <3>1. duty' # 0 /\ ~Timely' /\ Now'.do = "follower_send"
        BY <2>1 DEF OutOfOrder
      <3>2. OutOfOrder("follower_recv")'
        BY <1>e, <3>1, AfterDuty
      <3> QED
        BY <3>1, <3>2 DEF OutOfOrder
    <2> QED
      BY <2>1 DEF SendsTooLate
  <1>f. ASSUME UNCHANGED <<state, duty, frame>>, ~OutOfOrder("follower_send") PROVE SendsTooLate'
    BY <1>f, SameDuty DEF SendsTooLate
  <1>0. CASE UNCHANGED <<vars, loop_vars>>
    <2>1. UNCHANGED <<state, duty, frame, now, lag, window, stage, pc, epoch>>
      BY <1>0 DEF vars, loop_vars
    <2> QED
      BY <2>1, SameDuty DEF SendsTooLate
  <1>1. CASE TimePasses
    <2>1. /\ now' = now + 1
          /\ UNCHANGED <<state, duty, frame, window, stage, pc, epoch>>
      BY <1>1 DEF TimePasses, Tick
    <2>2. \/ (pc = "setup" \/ (pc = "sleeping" /\ now < epoch)) /\ lag' = lag
          \/ left > 0 /\ lag' = lag
          \/ lag' = lag + 1 /\ ~(pc = "sleeping" /\ now < epoch)
      BY <1>1 DEF TimePasses
    <2> SUFFICES ASSUME OutOfOrder("follower_send")
                 PROVE  SendsTooLate'
      BY <1>f, <2>1
    <2>3. /\ duty # 0 /\ window.start = frame /\ frame < now /\ stage \in {"plan", "wait"}
          /\ stage = "plan" =>
               Due + slot_duration <= now /\ now + (MaxLag - lag) < frame + window_length
          /\ stage = "wait" =>
               /\ epoch = Due + Period /\ now <= epoch + lag
               /\ pc = "awake" => epoch <= now
      BY DEF SendsTooLate, OutOfOrder
    <2>4. left = 0 /\ (stage = "plan" => pc = "idle") /\ pc # "setup"
      BY <1>a, <1>b, <2>3 DEF StagePc
    <2> DEFINE d == Due
    <2>5. Due' = d
      BY <2>1, SameDuty
    <2>6. frame \in Nat /\ d \in Nat /\ window_length \in Nat /\ Period \in Nat
      BY <1>b, <2>3
    <2>7. (d + slot_duration <= now' /\ now' + (MaxLag - lag') < frame + window_length) \/ stage # "plan"
      <3>1. stage = "plan" => d + slot_duration <= now /\ now + (MaxLag - lag) < frame + window_length
        BY <2>3
      <3> HIDE DEF d
      <3> QED
        BY <1>a, <2>1, <2>2, <2>4, <2>6, <3>1
    <2>8. stage = "wait" =>
            /\ epoch' = d + Period /\ now' <= epoch' + lag'
            /\ pc' = "awake" => epoch' <= now'
      <3>1. stage = "wait" => epoch = d + Period /\ now <= epoch + lag /\ (pc = "awake" => epoch <= now)
        BY <2>3
      <3> HIDE DEF d
      <3> QED
        BY <1>a, <2>1, <2>2, <2>4, <2>6, <3>1
    <2>9. window'.start = frame' /\ frame' < now'
      BY <1>a, <2>1, <2>3, <2>6
    <2> QED
      BY <2>1, <2>3, <2>5, <2>7, <2>8, <2>9 DEF SendsTooLate
  <1>2. CASE Setup \/ BeginAdvertise \/ SkipAdvertise
    <2>1. duty' = 0
      BY <1>2, <1>c DEF Setup, LinkInit, BeginAdvertise, SkipAdvertise, StagePc
    <2> QED
      BY <1>d, <2>1
  <1>3. CASE Plan
    <2>1. /\ stage = "plan" /\ stage' = "wait" /\ pc = "idle" /\ pc' = "sleeping" /\ now' = now
          /\ window' = Rolled(now, window)
          /\ epoch' = now + Offset(Now.slot, now, window')
          /\ UNCHANGED <<state, duty, frame, lag>>
      BY <1>3 DEF Plan, EpochAndOffset
    <2> SUFFICES ASSUME OutOfOrder("follower_send") PROVE SendsTooLate'
      BY <1>f, <2>1
    <2>2. /\ duty # 0 /\ window.start = frame /\ frame < now
          /\ Due + slot_duration <= now /\ now + (MaxLag - lag) < frame + window_length
      BY <2>1 DEF SendsTooLate, OutOfOrder
    <2>3. /\ Rolled(now, window) = window
          /\ now + Offset(Now.slot, now, window) = window.start + Period + Now.slot * slot_duration
      <3>1. /\ window.start + Now.slot * slot_duration + slot_duration <= now
            /\ now < window.start + window_length
        BY <1>a, <1>b, <2>2
      <3> QED
        BY <1>a, <1>b, <2>2, <3>1, PlanPastSlot
    <2>4. epoch' = Due' + Period /\ now' <= epoch' + lag'
      <3> DEFINE d == Due
                 m == Now.slot * slot_duration
      <3>1. Due' = d /\ d = frame + m /\ m \in Nat /\ frame \in Nat
        BY <1>b, <2>1, <2>2, SameDuty, Times
      <3>2. epoch' = frame + Period + m /\ Period \in Nat /\ now < frame + Period
        BY <1>a, <1>b, <2>1, <2>2, <2>3
      <3> HIDE DEF d, m
      <3> QED
        BY <1>a, <2>1, <3>1, <3>2
    <2> QED
      BY <2>1, <2>2, <2>3, <2>4 DEF SendsTooLate
  <1>4. CASE Wake
    <2>1. /\ pc' = "awake" /\ now >= epoch /\ pc = "sleeping"
          /\ UNCHANGED <<state, duty, frame, now, lag, window, stage, epoch>>
      BY <1>4 DEF Wake, SleepUntil, loop_vars
    <2>2. epoch \in Nat
      BY DEF IInv, TypeOK
    <2>3. stage # "plan" /\ epoch <= now
      BY <1>a, <2>1, <2>2 DEF StagePc
    <2> QED
      BY <2>1, <2>3, SameDuty DEF SendsTooLate
  <1>5. CASE Tune
    <2>1. /\ stage = "wait" /\ ActiveSlot /\ Serves(Now, reply') /\ UNCHANGED <<state, duty, frame>>
      BY <1>5 DEF Tune
    <2>2. ASSUME OutOfOrder("follower_send") PROVE FALSE
      <3>1. reply' = NoSlot
        BY <2>1, <2>2, WakesTooLate
      <3>2. reply' = Now.slot /\ Now.slot \in Slots
        BY <1>b, <2>1, <2>2 DEF Serves, OutOfOrder
      <3> QED
        BY <3>1, <3>2 DEF NoSlot, Slots
    <2> QED
      BY <1>f, <2>1, <2>2
  <1>6. CASE Skip
    <2>1. /\ stage = "wait" /\ ActiveSlot /\ ~Serves(Now, reply') /\ UNCHANGED <<state, frame>>
          /\ duty' = NextDuty /\ duty # 0
      BY <1>6, <1>c DEF Skip
    <2>2. Now.do # "clusterhead_send"
      <3> SUFFICES ASSUME Now.do = "clusterhead_send" PROVE FALSE
        OBVIOUS
      <3>1. Timely
        BY <2>1 DEF Timely, InOrder
      <3>2. reply' = Now.slot
        BY <2>1, <3>1, WakesInSlot
      <3> QED
        BY <2>1, <3>2 DEF Serves
    <2> QED
      BY <1>e, <2>1, <2>2
  <1>7. CASE AdvertiseRadio \/ AdvertiseRecvReturns
    <2>1. stage = "advertise" /\ duty' = duty
      BY <1>7 DEF AdvertiseRadio, AdvertiseRecvReturns, loop_vars
    <2> QED
      BY <1>c, <1>d, <2>1
  <1>8. ASSUME NEW c \in Rings \cup {Layout!GATEWAY_RING}, NEW rel \in 1 .. W - 1, Join(c, rel)
        PROVE  SendsTooLate'
    <2>1. stage = "advertise" /\ duty' = duty
      BY <1>8, Zenon DEF Join
    <2> QED
      BY <1>c, <1>d, <2>1
  <1>9. CASE EndAdvertise
    <2>1. duty' = IF Len(Duties(state')) > 0 THEN 1 ELSE 0
      BY <1>9, Zenon DEF EndAdvertise
    <2>2. duty' # 0 => Timely'
      BY <2>1, BeginsInOrder
    <2> QED
      BY <2>2 DEF SendsTooLate, OutOfOrder
  <1>10. CASE Transmit
    <2>1. /\ stage = "tuned" /\ stage' = "plan" /\ duty' = NextDuty /\ duty # 0
          /\ Now.do \in {"clusterhead_send", "follower_send"}
          /\ now' = now /\ window' = Rolled(now, window)
          /\ UNCHANGED <<state, lag, frame>>
      BY <1>10, <1>c DEF Transmit, Flush
    <2>2. CASE Now.do = "follower_send"
      BY <1>e, <2>1, <2>2
    <2>3. CASE Now.do = "clusterhead_send"
      <3> SUFFICES ASSUME OutOfOrder("follower_send")' PROVE SendsTooLate'
        BY DEF SendsTooLate
      <3>1. Timely /\ Slack = 0
        BY <2>1, <2>3 DEF Timely, InOrder, Slack
      <3>2. Due' \in Nat /\ Due' + slot_duration <= Due
        <4>1. duty' # 0 /\ ~Timely'
          BY DEF OutOfOrder
        <4>2. ~OutOfOrder("follower_send")
          BY <2>3 DEF OutOfOrder
        <4> QED
          BY <2>1, <4>1, <4>2, AfterDuty
      <3>3. InFrame /\ now <= Due + lag /\ Due <= now
        BY <1>a, <1>b, <2>1, <3>1 DEF OnTime, TunedInTime, NotEarly
      <3>4. window' = window
        <4>1. /\ window.start <= now
              /\ now < window.start + Now.slot * slot_duration + slot_duration
          BY <1>a, <1>b, <2>1, <3>3 DEF InFrame
        <4> QED
          BY <1>a, <1>b, <2>1, <4>1, BeforeSlotEnds
      <3>5. /\ frame < now /\ Due' + slot_duration <= now
            /\ now + (MaxLag - lag) < frame + window_length
        <4> DEFINE d == Due
                   e == Due'
        <4>1. /\ d \in Nat /\ e \in Nat /\ e + slot_duration <= d /\ d <= now /\ now <= d + lag
              /\ frame \in Nat /\ frame + 2 * slot_duration <= d
              /\ d + slot_duration <= frame + window_length /\ window_length \in Nat
          BY <1>b, <2>1, <3>2, <3>3
        <4> HIDE DEF d, e
        <4>2. /\ frame < now /\ e + slot_duration <= now
              /\ now + (MaxLag - lag) < frame + window_length
          BY <1>a, <4>1
        <4> QED
          BY <4>2 DEF e
      <3> QED
        BY <2>1, <3>3, <3>4, <3>5 DEF SendsTooLate, InFrame
    <2> QED
      BY <2>1, <2>2, <2>3
  <1>11. CASE Listen \/ Heard \/ HeardOther \/ ListenAgain
    <2>1. /\ Now.do \in {"clusterhead_recv", "follower_recv"} /\ duty # 0
          /\ UNCHANGED <<state, frame>> /\ (duty' = duty \/ duty' = NextDuty)
      BY <1>11, <1>c DEF Listen, Heard, HeardOther, ListenAgain, StagePc
    <2>2. ~OutOfOrder("follower_send")
      BY <2>1 DEF OutOfOrder
    <2> QED
      BY <1>e, <1>f, <2>1, <2>2
  <1> QED
    BY <1>0, <1>1, <1>2, <1>3, <1>4, <1>5, <1>6, <1>7, <1>8, <1>9, <1>10, <1>11 DEF LoopNext

LEMMA ListensTooLateNext ==
    ASSUME IInv, LInv, OnGrid(state), StagePc, OnTime, Underway, NotEarly, SendsTooLate,
           ListensTooLate, IInv', LInv', [LoopNext]_<<vars, loop_vars>>
    PROVE  ListensTooLate'
  <1> DEFINE n == Now.slot * slot_duration
             base == frame + 2 * Period
  <1>a. /\ slot_duration \in Nat \ {0} /\ now \in Nat /\ lag \in 0 .. MaxLag /\ MaxLag \in Nat
        /\ MaxLag < slot_duration /\ left \in 0 .. slot_duration
        /\ Slack \in 0 .. slot_duration - 1
        /\ n \in Nat /\ n + slot_duration <= window_length
    BY Times
  <1>b. duty # 0 =>
          /\ Due \in Nat /\ frame \in Nat /\ pc # "setup" /\ Windowed(window)
          /\ window_length \in Nat /\ Period \in Nat
          /\ window_length + slot_duration + MaxLag <= Period
          /\ Now.slot \in Slots /\ Due + 2 * Period = base + n /\ base \in Nat
    <2> SUFFICES ASSUME duty # 0
                 PROVE  /\ Due \in Nat /\ frame \in Nat /\ pc # "setup" /\ Windowed(window)
                        /\ window_length \in Nat /\ Period \in Nat
                        /\ window_length + slot_duration + MaxLag <= Period
                        /\ Now.slot \in Slots /\ Due + 2 * Period = base + n /\ base \in Nat
      OBVIOUS
    <2>1. /\ Due \in Nat /\ frame \in Nat /\ pc # "setup" /\ Windowed(window)
          /\ window_length \in Nat /\ Period \in Nat
          /\ window_length + slot_duration + MaxLag <= Period
          /\ Now.slot \in Slots /\ Due = frame + n
      BY DueBounds, Times
    <2> HIDE DEF n
    <2> QED
      BY <1>a, <2>1
  <1>c. /\ stage = "advertise" => duty = 0
        /\ stage \in {"tuned", "listen", "heard"} => duty # 0
        /\ Now = Advertising <=> duty = 0
    <2>1. duty # 0 => Now # Advertising
      BY NowType DEF DutyRecord, Advertising, Duty, LInv
    <2> QED
      BY <2>1, NowType DEF LInv, StageOfDuty
  <1>d. ASSUME duty' = 0 PROVE ListensTooLate'
    BY <1>d DEF ListensTooLate, OutOfOrder
  <1>e. ASSUME duty' = NextDuty, duty # 0, UNCHANGED <<state, frame>>,
               ~OutOfOrder("follower_send")
        PROVE  ListensTooLate'
    <2>1. ASSUME OutOfOrder("follower_recv")' PROVE FALSE
      <3>1. duty' # 0 /\ ~Timely' /\ Now'.do = "follower_recv"
        BY <2>1 DEF OutOfOrder
      <3>2. OutOfOrder("follower_send")'
        BY <1>e, <3>1, AfterDuty
      <3> QED
        BY <3>1, <3>2 DEF OutOfOrder
    <2> QED
      BY <2>1 DEF ListensTooLate
  <1>f. ASSUME UNCHANGED <<state, duty, frame>>, ~OutOfOrder("follower_recv")
        PROVE  ListensTooLate'
    BY <1>f, SameDuty DEF ListensTooLate
  <1>g. UNCHANGED <<state, duty, frame>> => Due' = Due /\ Slack' = Slack
    BY SameDuty
  \* What the invariant says of each stage, over the base of the superframe.
  <1>h. ASSUME OutOfOrder("follower_recv")
        PROVE  /\ duty # 0 /\ Now.do = "follower_recv" /\ ~OutOfOrder("follower_send")
               /\ window.start = base
               /\ stage = "plan" => frame + Period < now /\ now + (MaxLag - lag) < base
               /\ stage = "wait" => /\ epoch = base + n /\ now <= epoch + lag
                                    /\ pc = "awake" => epoch <= now
               /\ stage = "tuned" => base + n <= now /\ now <= base + n + Slack + lag
               /\ stage \in {"listen", "heard"} =>
                    base + n <= now /\ now + left <= base + n + slot_duration + Slack + lag
    BY <1>b, <1>h DEF ListensTooLate, OutOfOrder
  \* And what is to be shown of the stage a step leads to.
  <1>i. ASSUME UNCHANGED <<state, duty, frame>>, window' = window, OutOfOrder("follower_recv"),
               stage' = "plan" => frame + Period < now' /\ now' + (MaxLag - lag') < base,
               stage' = "wait" => /\ epoch' = base + n /\ now' <= epoch' + lag'
                                  /\ pc' = "awake" => epoch' <= now',
               stage' = "tuned" => base + n <= now' /\ now' <= base + n + Slack + lag',
               stage' \in {"listen", "heard"} =>
                 base + n <= now' /\ now' + left' <= base + n + slot_duration + Slack + lag'
        PROVE  ListensTooLate'
    <2>1. Due' + 2 * Period = base + n /\ Slack' = Slack /\ window'.start = frame' + 2 * Period
      BY <1>b, <1>g, <1>h, <1>i
    <2> HIDE DEF n, base
    <2>2. base = frame' + 2 * Period
      BY <1>i DEF base
    <2> QED
      BY <1>i, <2>1, <2>2 DEF ListensTooLate
  <1> HIDE DEF n, base
  <1>0. CASE UNCHANGED <<vars, loop_vars>>
    <2>1. UNCHANGED <<state, duty, frame, now, left, lag, window, stage, pc, epoch>>
      BY <1>0 DEF vars, loop_vars
    <2> QED
      BY <2>1, SameDuty DEF ListensTooLate
  <1>1. CASE TimePasses
    <2>1. /\ now' = now + 1
          /\ UNCHANGED <<state, duty, frame, window, stage, pc, epoch>>
      BY <1>1 DEF TimePasses, Tick
    <2>2. \/ (pc = "setup" \/ (pc = "sleeping" /\ now < epoch)) /\ left' = left /\ lag' = lag
          \/ left > 0 /\ left' = left - 1 /\ lag' = lag
          \/ /\ left = 0 /\ left' = left /\ lag' = lag + 1
             /\ ~(pc = "sleeping" /\ now < epoch)
      BY <1>1, <1>a DEF TimePasses
    <2> SUFFICES ASSUME OutOfOrder("follower_recv")
                 PROVE  ListensTooLate'
      BY <1>f, <2>1
    <2>3. /\ stage \in {"plan", "wait", "tuned"} => left = 0
          /\ pc = "sleeping" => stage = "wait"
          /\ pc # "setup" /\ epoch \in Nat
      <3>1. stage \in {"plan", "wait", "tuned"} => left = 0
        BY <1>a DEF StagePc
      <3>2. pc = "sleeping" => stage = "wait"
        BY DEF StagePc, LInv, LoopTypes
      <3>3. pc # "setup"
        BY <1>b, <1>h
      <3>4. epoch \in Nat
        BY DEF IInv, TypeOK
      <3> QED
        BY <3>1, <3>2, <3>3, <3>4
    <2>4. base \in Nat /\ frame \in Nat /\ Period \in Nat
      BY <1>b, <1>h
    <2>5. stage' = "plan" => frame + Period < now' /\ now' + (MaxLag - lag') < base
      BY <1>a, <1>h, <2>1, <2>2, <2>3, <2>4
    <2>6. stage' = "wait" => /\ epoch' = base + n /\ now' <= epoch' + lag'
                             /\ pc' = "awake" => epoch' <= now'
      BY <1>a, <1>h, <2>1, <2>2, <2>3, <2>4
    <2>7. stage' = "tuned" => base + n <= now' /\ now' <= base + n + Slack + lag'
      BY <1>a, <1>h, <2>1, <2>2, <2>3, <2>4
    <2>8. stage' \in {"listen", "heard"} =>
            base + n <= now' /\ now' + left' <= base + n + slot_duration + Slack + lag'
      BY <1>a, <1>h, <2>1, <2>2, <2>3, <2>4
    <2> QED
      BY <1>i, <2>1, <2>5, <2>6, <2>7, <2>8
  <1>2. CASE Setup \/ BeginAdvertise \/ SkipAdvertise
    <2>1. duty' = 0
      BY <1>2, <1>c DEF Setup, LinkInit, BeginAdvertise, SkipAdvertise, StagePc
    <2> QED
      BY <1>d, <2>1
  <1>3. CASE Plan
    <2>1. /\ stage = "plan" /\ stage' = "wait" /\ pc = "idle" /\ pc' = "sleeping" /\ now' = now
          /\ window' = Rolled(now, window)
          /\ epoch' = now + Offset(Now.slot, now, window')
          /\ UNCHANGED <<state, duty, frame, lag>>
      BY <1>3 DEF Plan, EpochAndOffset
    <2> SUFFICES ASSUME OutOfOrder("follower_recv") PROVE ListensTooLate'
      BY <1>f, <2>1
    <2>2. /\ duty # 0 /\ window.start = base
          /\ frame + Period < now /\ now + (MaxLag - lag) < base
      BY <1>h, <2>1
    <2>3. now < window.start /\ window.start < now + Period
      BY <1>a, <1>b, <2>2 DEF base
    <2>4. window' = window /\ epoch' = base + n
      BY <1>a, <1>b, <2>1, <2>2, <2>3, PlanBeforeWindow DEF n
    <2>5. now' <= epoch' + lag'
      BY <1>a, <1>b, <2>1, <2>2, <2>4
    <2> QED
      BY <1>i, <2>1, <2>4, <2>5
  <1>4. CASE Wake
    <2>1. /\ pc' = "awake" /\ now >= epoch /\ pc = "sleeping"
          /\ UNCHANGED <<state, duty, frame, now, lag, window, stage, epoch>>
      BY <1>4 DEF Wake, SleepUntil, loop_vars
    <2>2. epoch \in Nat
      BY DEF IInv, TypeOK
    <2>3. stage = "wait" /\ epoch <= now
      BY <1>a, <2>1, <2>2 DEF StagePc, LInv, LoopTypes
    <2> QED
      BY <2>1, <2>3, SameDuty DEF ListensTooLate
  <1>5. CASE Tune
    <2>1. /\ stage = "wait" /\ stage' = "tuned" /\ ActiveSlot /\ now' = now
          /\ window' = Rolled(now, window)
          /\ UNCHANGED <<state, duty, frame, lag>>
      BY <1>5 DEF Tune, ActiveSlot
    <2> SUFFICES ASSUME OutOfOrder("follower_recv") PROVE ListensTooLate'
      BY <1>f, <2>1
    <2>2. /\ duty # 0 /\ window.start = base
          /\ base + n <= now /\ now <= base + n + lag
      BY <1>h, <2>1 DEF ActiveSlot
    <2>3. window' = window
      <3>1. /\ window.start + Now.slot * slot_duration <= now
            /\ now < window.start + Now.slot * slot_duration + slot_duration
        BY <1>a, <1>b, <2>2 DEF n
      <3> QED
        BY <1>a, <1>b, <2>1, <2>2, <3>1, InSlot
    <2>4. base + n <= now' /\ now' <= base + n + Slack + lag'
      BY <1>a, <1>b, <2>1, <2>2
    <2> QED
      BY <1>i, <2>1, <2>3, <2>4
  <1>6. CASE Skip
    <2>1. /\ stage = "wait" /\ stage' = "plan" /\ ActiveSlot /\ now' = now
          /\ UNCHANGED <<state, frame, lag>>
          /\ duty' = NextDuty /\ duty # 0
      BY <1>6, <1>c DEF Skip, ActiveSlot
    <2>2. CASE OutOfOrder("follower_send")
      <3>1. /\ window'.start = frame + 2 * Period
            /\ frame + Period < now /\ now + (MaxLag - lag) < frame + 2 * Period
        BY <2>1, <2>2, WakesTooLate
      <3> QED
        BY <2>1, <3>1 DEF ListensTooLate
    <2>3. CASE ~OutOfOrder("follower_send")
      BY <1>e, <2>1, <2>3
    <2> QED
      BY <2>2, <2>3
  <1>7. CASE AdvertiseRadio \/ AdvertiseRecvReturns
    <2>1. stage = "advertise" /\ duty' = duty
      BY <1>7 DEF AdvertiseRadio, AdvertiseRecvReturns, loop_vars
    <2> QED
      BY <1>c, <1>d, <2>1
  <1>8. ASSUME NEW c \in Rings \cup {Layout!GATEWAY_RING}, NEW rel \in 1 .. W - 1, Join(c, rel)
        PROVE  ListensTooLate'
    <2>1. stage = "advertise" /\ duty' = duty
      BY <1>8, Zenon DEF Join
    <2> QED
      BY <1>c, <1>d, <2>1
  <1>9. CASE EndAdvertise
    <2>1. duty' = IF Len(Duties(state')) > 0 THEN 1 ELSE 0
      BY <1>9, Zenon DEF EndAdvertise
    <2>2. duty' # 0 => Timely'
      BY <2>1, BeginsInOrder
    <2> QED
      BY <2>2 DEF ListensTooLate, OutOfOrder
  <1>10. CASE Transmit
    <2>1. /\ stage = "tuned" /\ duty' = NextDuty /\ duty # 0 /\ UNCHANGED <<state, frame>>
      BY <1>10, <1>c DEF Transmit
    <2>2. ~OutOfOrder("follower_send")
      BY <2>1 DEF SendsTooLate
    <2> QED
      BY <1>e, <2>1, <2>2
  <1>11. CASE Listen
    <2>1. /\ stage = "tuned" /\ duty # 0 /\ now' = now /\ window' = Rolled(now, window)
          /\ Now.do \in {"clusterhead_recv", "follower_recv"} /\ UNCHANGED <<state, frame, lag>>
      BY <1>11, <1>c DEF Listen, Recv
    <2>2. ~OutOfOrder("follower_send")
      BY <2>1 DEF OutOfOrder
    <2>3. CASE in_active_window(now, window')
      <3>1. stage' = "listen" /\ duty' = duty /\ left' \in {slot_duration, 0}
        BY <1>11, <2>3 DEF Listen, ListenTime
      <3> SUFFICES ASSUME OutOfOrder("follower_recv") PROVE ListensTooLate'
        BY <1>f, <2>1, <3>1
      <3>2. /\ window.start = base /\ base + n <= now /\ now <= base + n + Slack + lag
        BY <1>h, <2>1
      <3>3. window' = window
        <4>1. window.start <= now /\ now < window.start + SUPERFRAME_FREQUENCY_S
          BY <1>a, <1>b, <2>1, <3>2 DEF Period
        <4> QED
          BY <1>a, <1>b, <2>1, <2>3, <4>1, BeforeNextSuperframe
      <3>4. /\ base + n <= now' /\ now' + left' <= base + n + slot_duration + Slack + lag'
        BY <1>a, <1>b, <2>1, <3>1, <3>2
      <3> QED
        BY <1>i, <2>1, <3>1, <3>3, <3>4
    <2>4. CASE ~in_active_window(now, window')
      <3>1. duty' = NextDuty
        BY <1>11, <2>4 DEF Listen
      <3> QED
        BY <1>e, <2>1, <2>2, <3>1
    <2> QED
      BY <2>3, <2>4
  <1>12. CASE Heard
    <2>1. /\ stage = "listen" /\ duty' = NextDuty /\ duty # 0 /\ UNCHANGED <<state, frame>>
      BY <1>12, <1>c DEF Heard
    <2>2. ~OutOfOrder("follower_send")
      BY <2>1 DEF StagePc, OutOfOrder
    <2> QED
      BY <1>e, <2>1, <2>2
  <1>13. CASE HeardOther
    <2>1. /\ stage = "listen" /\ stage' = "heard" /\ left' = 0
          /\ UNCHANGED <<now, window, state, duty, lag, frame>>
      BY <1>13 DEF HeardOther, RecvReturns
    <2> SUFFICES ASSUME OutOfOrder("follower_recv") PROVE ListensTooLate'
      BY <1>f, <2>1
    <2>2. base + n <= now /\ now + left <= base + n + slot_duration + Slack + lag
      BY <1>h, <2>1
    <2>3. base + n <= now' /\ now' + left' <= base + n + slot_duration + Slack + lag'
      BY <1>a, <1>b, <1>h, <2>1, <2>2
    <2> QED
      BY <1>i, <2>1, <2>3
  <1>14. CASE ListenAgain
    <2>1. /\ stage = "heard" /\ duty # 0 /\ now' = now /\ window' = Rolled(now, window)
          /\ Now.do = "follower_recv" /\ UNCHANGED <<state, lag, frame>>
      BY <1>14, <1>c DEF ListenAgain, StagePc
    <2>2. CASE current_slot(now, window') = Now.slot
      <3>1. stage' = "tuned" /\ duty' = duty
        BY <1>14, <2>2 DEF ListenAgain
      <3> SUFFICES ASSUME OutOfOrder("follower_recv") PROVE ListensTooLate'
        BY <1>f, <2>1, <3>1
      <3>2. /\ window.start = base /\ base + n <= now
            /\ now + left <= base + n + slot_duration + Slack + lag
        BY <1>h, <2>1
      <3>3. in_active_window(now, window')
        BY <1>b, <2>1, <2>2 DEF current_slot, NoSlot, Slots
      <3>4. window' = window
        <4>1. window.start <= now /\ now < window.start + SUPERFRAME_FREQUENCY_S
          BY <1>a, <1>b, <2>1, <3>2 DEF Period
        <4> QED
          BY <1>a, <1>b, <2>1, <3>3, <4>1, BeforeNextSuperframe
      <3>5. now <= base + n + slot_duration - 1
        <4>1. window.start <= now
          BY <1>a, <1>b, <2>1, <3>2
        <4>2. now <= window.start + Now.slot * slot_duration + slot_duration - 1
          BY <1>a, <1>b, <2>1, <2>2, <3>4, <4>1, SlotNotOver
        <4> QED
          BY <3>2, <4>2 DEF n
      <3>6. Slack = slot_duration - 1
        BY <2>1 DEF Slack
      <3>7. base + n <= now' /\ now' <= base + n + Slack + lag'
        BY <1>a, <1>b, <2>1, <3>2, <3>5, <3>6
      <3> QED
        BY <1>i, <2>1, <3>1, <3>4, <3>7
    <2>3. CASE current_slot(now, window') # Now.slot
      <3>1. duty' = NextDuty /\ ~OutOfOrder("follower_send")
        BY <1>14, <2>1, <2>3 DEF ListenAgain, OutOfOrder
      <3> QED
        BY <1>e, <2>1, <3>1
    <2> QED
      BY <2>2, <2>3
  <1> QED
    BY <1>0, <1>1, <1>2, <1>3, <1>4, <1>5, <1>6, <1>7, <1>8, <1>9, <1>10, <1>11, <1>12,
       <1>13, <1>14 DEF LoopNext

\* A follower has duties.
LEMMA JoinedHasDuties ==
    ASSUME NEW s \in NodeStates, s.joined
    PROVE  Len(Duties(s)) > 0
  <1>1. Duties(s) = Below(s) \o Above(s) /\ Len(Above(s)) = 2
    BY DEF Duties, Below, Above
  <1>2. Below(s) \in Seq(DutyRecord) /\ Above(s) \in Seq(DutyRecord)
    BY HalvesType
  <1>3. Len(Duties(s)) = Len(Below(s)) + 2 /\ Len(Below(s)) \in Nat
    <2>1. Len(Below(s) \o Above(s)) = Len(Below(s)) + Len(Above(s))
      BY <1>2, ConcatProperties
    <2>2. Len(Below(s)) \in Nat
      BY <1>2, LenProperties
    <2> QED
      BY <1>1, <2>1, <2>2
  <1> QED
    BY <1>3

\* When a duty began, counted from the beginning of its superframe.
LEMMA DueWithin ==
    ASSUME IInv, LInv, OnGrid(state), Underway, duty # 0, NEW p \in Nat,
           Due + p <= now, now + left <= Due + p + slot_duration + Slack + lag
    PROVE  /\ (frame + p) + (Due - frame) <= now
           /\ now <= (frame + p) + (Due - frame) + slot_duration + Slack + lag
  <1> DEFINE d == Due
  <1>1. d \in Nat /\ frame \in Nat
    BY DueBounds
  <1>2. /\ slot_duration \in Nat /\ now \in Nat /\ lag \in Nat /\ left \in Nat /\ Slack \in Nat
    BY Times
  <1>3. d + p <= now /\ now + left <= d + p + slot_duration + Slack + lag
    OBVIOUS
  <1> HIDE DEF d
  <1>4. /\ (frame + p) + (d - frame) <= now
        /\ now <= (frame + p) + (d - frame) + slot_duration + Slack + lag
    BY <1>1, <1>2, <1>3
  <1> QED
    BY <1>4 DEF d

\* The end of a node's last duty is well before the next superframe.
LEMMA HomeAfter ==
    ASSUME IInv, LInv, OnGrid(state), Underway, duty # 0,
           NEW b \in {frame, frame + 2 * Period}, b # frame => ~Ordered(state),
           window.start = b, b + (Due - frame) <= now,
           now <= b + (Due - frame) + slot_duration + Slack + lag,
           window' = window \/ window' = Rolled(now, window),
           stage' = "plan", duty' = 0, UNCHANGED <<state, now, lag, frame, missed>>
    PROVE  Returns'
  <1> DEFINE d == Due - frame
  <1>1. /\ frame \in Nat /\ missed = 0 /\ pc # "setup"
        /\ 2 * slot_duration <= d /\ d + slot_duration <= window_length
        /\ d \in Nat /\ window_length \in Nat /\ Period \in Nat
        /\ window_length + slot_duration + MaxLag <= Period
    <2> DEFINE e == Due
    <2>1. /\ frame \in Nat /\ missed = 0 /\ pc # "setup" /\ e \in Nat
          /\ frame + 2 * slot_duration <= e /\ e + slot_duration <= frame + window_length
          /\ window_length \in Nat /\ Period \in Nat
          /\ window_length + slot_duration + MaxLag <= Period
      BY DueBounds
    <2>2. slot_duration \in Nat
      BY Times
    <2>3. d = e - frame
      OBVIOUS
    <2> HIDE DEF e, d
    <2> QED
      BY <2>1, <2>2, <2>3
  <1>2. /\ slot_duration \in Nat \ {0} /\ now \in Nat /\ lag \in 0 .. MaxLag /\ MaxLag \in Nat
        /\ MaxLag < slot_duration /\ Slack \in 0 .. slot_duration - 1
    BY Times
  <1>3. b + d <= now /\ now <= b + d + slot_duration + Slack + lag /\ b \in Nat
    BY <1>1
  <1> HIDE DEF d
  <1>4. b + slot_duration <= now /\ b < now /\ now + (MaxLag - lag) < b + Period
    BY <1>1, <1>2, <1>3
  <1>5. window'.start \in {b, b + Period}
    <2>1. Windowed(window) /\ window.start < now /\ now < window.start + Period
      BY <1>1, <1>2, <1>3, <1>4, Times
    <2> QED
      BY <1>2, <2>1, RefreshInSuperframe
  <1>6. AtHome(b)'
    BY <1>1, <1>4, <1>5 DEF AtHome, NextStart
  <1>7. Ordered(state') <=> Ordered(state)
    OBVIOUS
  <1> QED
    BY <1>6, <1>7 DEF Returns, Ordered

\* A node that wakes for its advertising slot is in it, or it is past it and
\* between two superframes.
LEMMA WakesAtHome ==
    ASSUME IInv, LInv, duty = 0, stage = "wait", ActiveSlot, NEW b \in Nat, AtHome(b)
    PROVE  \/ window'.start = NextStart(b) /\ reply' = 0
           \/ /\ missed = 0 /\ reply' = NoSlot /\ window'.start = b + 2 * Period
              /\ b + Period < now /\ now <= b + Period + lag
  <1> DEFINE s == NextStart(b)
  <1>1. /\ missed \in {0, 1} /\ (window.start = s \/ (missed = 0 /\ window.start = b))
        /\ s <= now /\ now <= s + lag
    BY DEF AtHome, ActiveSlot
  <1>2. /\ slot_duration \in Nat \ {0} /\ now \in Nat /\ lag \in 0 .. MaxLag /\ MaxLag \in Nat
        /\ MaxLag < slot_duration /\ window_length \in Nat /\ Period \in Nat
        /\ window_length + slot_duration + MaxLag <= Period /\ Windowed(window)
        /\ slot_duration <= window_length
    <2>1. 0 \in Slots /\ 0 * slot_duration + slot_duration <= window_length
      <3>1. 0 \in Slots
        BY SlotAssumption DEF Slots
      <3> QED
        BY <3>1, SlotFits
    <2> QED
      BY <2>1, Times DEF Period, ActiveSlot
  <1>3. s \in Nat /\ (missed = 0 => s = b + Period)
    BY <1>2 DEF NextStart
  <1>4. window' = Rolled(now, window) /\ reply' = current_slot(now, window')
    BY DEF ActiveSlot
  <1> HIDE DEF s
  <1>5. CASE window.start = s
    <2>1. 0 \in Slots /\ 0 * slot_duration = 0
      BY <1>2, SlotAssumption DEF Slots
    <2>2. /\ window.start + 0 * slot_duration <= now
          /\ now < window.start + 0 * slot_duration + slot_duration
      BY <1>1, <1>2, <1>3, <1>5, <2>1
    <2>3. Rolled(now, window) = window /\ current_slot(now, window) = 0
      BY <1>2, <2>1, <2>2, InSlot
    <2> QED
      BY <1>4, <1>5, <2>3 DEF s
  <1>6. CASE window.start = b /\ missed = 0
    <2>1. b % Period = 0 /\ window.end = b + window_length
      BY <1>2, <1>6 DEF Windowed, Period
    <2>2. s % Period = 0
      BY <1>3, <1>6, <2>1, NextMultiple
    <2>3. window.end <= now
      BY <1>1, <1>2, <1>3, <1>6, <2>1
    <2>4. CASE now = s
      <3>1. now <= s /\ s < now + Period
        BY <1>2, <1>3, <2>4
      <3> QED
        BY <1>2, <1>3, <1>4, <2>2, <2>3, <2>4, <3>1, RolledInto DEF s
    <2>5. CASE now # s
      <3> DEFINE z == s + Period
      <3>1. z \in Nat /\ now <= z /\ z < now + Period /\ now < z /\ z = b + 2 * Period /\ s < now
        BY <1>1, <1>2, <1>3, <1>6, <2>5
      <3>2. z % Period = 0
        BY <1>3, <2>2, NextMultiple
      <3>3. window'.start = z /\ reply' = NoSlot
        BY <1>2, <1>4, <2>3, <3>1, <3>2, RolledInto
      <3> QED
        BY <1>1, <1>3, <1>6, <3>1, <3>3
    <2> QED
      BY <2>4, <2>5
  <1> QED
    BY <1>1, <1>5, <1>6

LEMMA ReturnsNext ==
    ASSUME IInv, LInv, OnGrid(state), StagePc, OnTime, Underway, NotEarly, SendsTooLate,
           ListensTooLate, Returns, IInv', LInv', [LoopNext]_<<vars, loop_vars>>
    PROVE  Returns'
  <1>a. /\ slot_duration \in Nat \ {0} /\ now \in Nat /\ lag \in 0 .. MaxLag /\ MaxLag \in Nat
        /\ MaxLag < slot_duration /\ left \in 0 .. slot_duration
        /\ Slack \in 0 .. slot_duration - 1 /\ frame \in Nat \cup {Never}
        /\ window_length \in Nat /\ Period \in Nat
        /\ window_length + slot_duration + MaxLag <= Period
    BY Times DEF Period
  <1>c. /\ stage = "advertise" => duty = 0
        /\ stage \in {"tuned", "listen", "heard"} => duty # 0
        /\ Now = Advertising <=> duty = 0
    <2>1. duty # 0 => Now # Advertising
      BY NowType DEF DutyRecord, Advertising, Duty, LInv
    <2> QED
      BY <2>1, NowType DEF LInv, StageOfDuty
  <1>d. ASSUME stage' \notin {"plan", "wait"} \/ duty' # 0 \/ frame' = Never PROVE Returns'
    BY <1>d DEF Returns
  \* Where a node that waits for its advertising slot has begun to.
  <1>h. ASSUME duty = 0, stage \in {"plan", "wait"}, frame # Never
        PROVE  /\ frame \in Nat
               /\ \E b \in {frame, frame + 2 * Period} :
                    b \in Nat /\ AtHome(b) /\ (b # frame => ~Ordered(state))
    <2>1. AtHome(frame) \/ (~Ordered(state) /\ AtHome(frame + 2 * Period))
      BY <1>h DEF Returns
    <2>2. frame \in Nat
      BY <1>a, <1>h
    <2> QED
      BY <1>a, <2>1, <2>2
  <1>i. ASSUME NEW b \in {frame, frame + 2 * Period}, b # frame => ~Ordered(state),
               AtHome(b)', UNCHANGED <<state, frame>>
        PROVE  Returns'
    BY <1>i DEF Returns, Ordered
  \* A duty ends in the superframe it came in: that of the last advertising, or
  \* for what is out of order the second one after it.
  <1>b. duty # 0 => Due \in Nat /\ frame \in Nat
    BY DueBounds
  <1>j. ASSUME duty # 0, stage' = "plan", duty' = NextDuty, Timely, window.start = frame,
               Due <= now, now + left <= Due + slot_duration + Slack + lag,
               window' = window \/ window' = Rolled(now, window),
               UNCHANGED <<state, now, lag, frame, missed>>
        PROVE  Returns'
    <2>1. CASE duty' # 0
      BY <1>d, <2>1
    <2>2. CASE duty' = 0
      <3>1. Due + 0 <= now /\ now + left <= Due + 0 + slot_duration + Slack + lag /\ frame + 0 = frame
        BY <1>b, <1>j
      <3>2. /\ (frame + 0) + (Due - frame) <= now
            /\ now <= (frame + 0) + (Due - frame) + slot_duration + Slack + lag
        BY <1>j, <3>1, DueWithin
      <3>3. /\ frame + (Due - frame) <= now
            /\ now <= frame + (Due - frame) + slot_duration + Slack + lag
        BY <3>1, <3>2
      <3> QED
        BY <1>j, <2>2, <3>3, HomeAfter
    <2> QED
      BY <2>1, <2>2
  <1>k. ASSUME duty # 0, stage' = "plan", duty' = NextDuty, OutOfOrder("follower_recv"),
               window.start = frame + 2 * Period, Due + 2 * Period <= now,
               now + left <= Due + 2 * Period + slot_duration + Slack + lag,
               window' = window \/ window' = Rolled(now, window),
               UNCHANGED <<state, now, lag, frame, missed>>
        PROVE  Returns'
    <2>1. CASE duty' # 0
      BY <1>d, <2>1
    <2>2. CASE duty' = 0
      <3> DEFINE b == frame + 2 * Period
      <3>1. 2 * Period \in Nat
        BY <1>a
      <3>2. b + (Due - frame) <= now /\ now <= b + (Due - frame) + slot_duration + Slack + lag
        BY <1>k, <3>1, DueWithin
      <3>3. ~Ordered(state)
        BY <1>k, OutOfOrderDuty DEF OutOfOrder
      <3> QED
        BY <1>k, <2>2, <3>2, <3>3, HomeAfter
    <2> QED
      BY <2>1, <2>2
  <1>0. CASE UNCHANGED <<vars, loop_vars>>
    <2>1. UNCHANGED <<state, duty, frame, now, lag, window, stage, pc, epoch, missed>>
      BY <1>0 DEF vars, loop_vars
    <2> QED
      BY <2>1 DEF Returns, AtHome, NextStart, Ordered
  <1>1. CASE TimePasses
    <2>1. /\ now' = now + 1
          /\ UNCHANGED <<state, duty, frame, window, stage, pc, epoch, missed>>
      BY <1>1 DEF TimePasses, Tick
    <2>2. \/ (pc = "setup" \/ (pc = "sleeping" /\ now < epoch)) /\ lag' = lag
          \/ left > 0 /\ lag' = lag
          \/ lag' = lag + 1 /\ ~(pc = "sleeping" /\ now < epoch)
      BY <1>1 DEF TimePasses
    <2> SUFFICES ASSUME duty = 0, stage \in {"plan", "wait"}, frame # Never
                 PROVE  Returns'
      BY <1>d, <2>1
    <2>3. PICK b \in {frame, frame + 2 * Period} :
            b \in Nat /\ AtHome(b) /\ (b # frame => ~Ordered(state))
      BY <1>h
    <2>4. left = 0 /\ (stage = "plan" => pc = "idle") /\ pc # "setup" /\ epoch \in Nat
      BY <1>a DEF StagePc, Underway, IInv, TypeOK
    <2> DEFINE s == NextStart(b)
    <2>5. s \in Nat
      BY <1>a, <2>3 DEF NextStart, AtHome
    <2>6. /\ missed \in {0, 1} /\ (window.start = s \/ (missed = 0 /\ window.start = b))
          /\ stage = "plan" =>
               /\ IF missed = 0 THEN b + slot_duration <= now ELSE b + Period < now
               /\ now + (MaxLag - lag) < s
          /\ stage = "wait" =>
               /\ epoch = s /\ now <= epoch + lag /\ b < now
               /\ pc = "awake" => epoch <= now
      BY <2>3 DEF AtHome
    <2> HIDE DEF s
    <2>7. stage' = "plan" =>
               /\ IF missed' = 0 THEN b + slot_duration <= now' ELSE b + Period < now'
               /\ now' + (MaxLag - lag') < s
      <3> SUFFICES ASSUME stage = "plan"
                   PROVE  /\ IF missed = 0 THEN b + slot_duration <= now' ELSE b + Period < now'
                          /\ now' + (MaxLag - lag') < s
        BY <2>1
      <3>1. now' + (MaxLag - lag') < s
        BY <1>a, <2>1, <2>2, <2>4, <2>5, <2>6
      <3>2. missed = 0 => b + slot_duration <= now'
        BY <1>a, <2>1, <2>3, <2>6
      <3>3. missed # 0 => b + Period < now'
        BY <1>a, <2>1, <2>3, <2>6
      <3> QED
        BY <3>1, <3>2, <3>3
    <2>8. stage' = "wait" =>
               /\ epoch' = s /\ now' <= epoch' + lag' /\ b < now'
               /\ pc' = "awake" => epoch' <= now'
      BY <1>a, <2>1, <2>2, <2>3, <2>4, <2>5, <2>6
    <2>9. AtHome(b)'
      BY <2>1, <2>6, <2>7, <2>8 DEF AtHome, NextStart, s
    <2> QED
      BY <1>i, <2>1, <2>3, <2>9
  <1>2. CASE Setup
    <2>1. frame' = Never
      BY <1>2 DEF Setup, LinkInit, Underway
    <2> QED
      BY <1>d, <2>1
  <1>3. CASE Plan
    <2>1. /\ stage = "plan" /\ stage' = "wait" /\ pc = "idle" /\ pc' = "sleeping" /\ now' = now
          /\ window' = Rolled(now, window)
          /\ epoch' = now + Offset(Now.slot, now, window')
          /\ UNCHANGED <<state, duty, frame, lag, missed>>
      BY <1>3 DEF Plan, EpochAndOffset
    <2> SUFFICES ASSUME duty = 0, frame # Never PROVE Returns'
      BY <1>d, <2>1
    <2>2. PICK b \in {frame, frame + 2 * Period} :
            b \in Nat /\ AtHome(b) /\ (b # frame => ~Ordered(state))
      BY <1>h, <2>1
    <2> DEFINE s == NextStart(b)
    <2>3. /\ missed \in {0, 1} /\ (window.start = s \/ (missed = 0 /\ window.start = b))
          /\ missed = 0 => b + slot_duration <= now
          /\ missed = 1 => b + Period < now
          /\ now + (MaxLag - lag) < s
      BY <2>1, <2>2 DEF AtHome
    <2>4. /\ s \in Nat /\ (missed = 0 => s = b + Period) /\ (missed = 1 => s = b + 2 * Period)
      BY <1>a, <2>2, <2>3 DEF NextStart
    <2>5. Windowed(window) /\ Now.slot = 0
      BY <2>1, NowType, Times DEF LInv, Advertising, Duty
    <2>6. s % Period = 0
      <3>1. CASE window.start = s
        BY <2>5, <3>1 DEF Windowed, Period
      <3>2. CASE missed = 0 /\ window.start = b
        <4>1. b % Period = 0
          BY <2>5, <3>2 DEF Windowed, Period
        <4> QED
          BY <2>2, <2>4, <3>2, <4>1, NextMultiple
      <3> QED
        BY <2>3, <3>1, <3>2
    <2> HIDE DEF s
    <2>7. /\ now < s /\ s < now + Period /\ b < now
          /\ window.start = s \/ (window.start + Period = s /\ window.start + slot_duration <= now)
      <3>1. now < s
        BY <1>a, <2>3, <2>4
      <3>2. s < now + Period /\ b < now
        BY <1>a, <2>2, <2>3, <2>4
      <3>3. window.start = s \/ (window.start + Period = s /\ window.start + slot_duration <= now)
        BY <1>a, <2>2, <2>3, <2>4
      <3> QED
        BY <3>1, <3>2, <3>3
    <2>8. window'.start \in {window.start, s} /\ epoch' = s
      BY <1>a, <2>1, <2>4, <2>5, <2>6, <2>7, PlanAdvertising
    <2>9. now' <= epoch' + lag'
      BY <1>a, <2>1, <2>4, <2>7, <2>8
    <2>10. AtHome(b)'
      BY <2>1, <2>3, <2>7, <2>8, <2>9 DEF AtHome, NextStart, s
    <2> QED
      BY <1>i, <2>1, <2>2, <2>10
  <1>4. CASE Wake
    <2>1. /\ pc' = "awake" /\ now >= epoch /\ pc = "sleeping"
          /\ UNCHANGED <<state, duty, frame, now, lag, window, stage, epoch, missed>>
      BY <1>4 DEF Wake, SleepUntil, loop_vars
    <2> SUFFICES ASSUME duty = 0, stage \in {"plan", "wait"}, frame # Never PROVE Returns'
      BY <1>d, <2>1
    <2>2. PICK b \in {frame, frame + 2 * Period} :
            b \in Nat /\ AtHome(b) /\ (b # frame => ~Ordered(state))
      BY <1>h
    <2>3. epoch \in Nat
      BY DEF IInv, TypeOK
    <2>4. stage = "wait" /\ epoch <= now
      BY <1>a, <2>1, <2>3 DEF StagePc
    <2>5. AtHome(b)'
      BY <2>1, <2>2, <2>4 DEF AtHome, NextStart
    <2> QED
      BY <1>i, <2>1, <2>2, <2>5
  <1>5. CASE BeginAdvertise \/ Tune
    <2>1. stage' \in {"advertise", "tuned"}
      BY <1>5 DEF BeginAdvertise, Tune
    <2> QED
      BY <1>d, <2>1
  <1>6. CASE SkipAdvertise
    <2>1. /\ stage = "wait" /\ duty = 0 /\ ActiveSlot /\ ~Serves(Now, reply') /\ now' = now
          /\ stage' = "plan" /\ lag' = 0 /\ missed' = missed + 1
          /\ UNCHANGED <<state, duty, frame>>
      BY <1>6, <1>c DEF SkipAdvertise, ActiveSlot
    <2> SUFFICES ASSUME frame # Never PROVE Returns'
      BY <1>d, <2>1
    <2>2. PICK b \in {frame, frame + 2 * Period} :
            b \in Nat /\ AtHome(b) /\ (b # frame => ~Ordered(state))
      BY <1>h, <2>1
    <2>3. reply' # 0
      BY <1>c, <2>1 DEF Serves, Advertising, Duty
    <2>4. /\ missed = 0 /\ window'.start = b + 2 * Period
          /\ b + Period < now /\ now <= b + Period + lag
      BY <2>1, <2>2, <2>3, WakesAtHome
    <2>5. slot_duration <= window_length
      <3>1. 0 \in Slots /\ 0 * slot_duration = 0
        BY <1>a, SlotAssumption DEF Slots
      <3> QED
        BY <1>a, <3>1, SlotFits
    <2>6. missed' = 1 /\ b + Period < now' /\ now' + (MaxLag - lag') < b + 2 * Period
      BY <1>a, <2>1, <2>2, <2>4, <2>5
    <2>7. AtHome(b)'
      BY <2>1, <2>4, <2>6 DEF AtHome, NextStart
    <2> QED
      BY <1>i, <2>1, <2>2, <2>7
  <1>7. CASE Skip
    <2>1. /\ stage = "wait" /\ duty # 0 /\ ActiveSlot /\ ~Serves(Now, reply') /\ now' = now
          /\ stage' = "plan" /\ duty' = NextDuty
          /\ UNCHANGED <<state, lag, frame, missed>>
      BY <1>7, <1>c DEF Skip, ActiveSlot
    <2>2. /\ Due \in Nat /\ frame \in Nat /\ pc # "setup" /\ Now.slot \in Slots
          /\ Due = frame + Now.slot * slot_duration
      BY <2>1, DueBounds
    <2>3. CASE Timely
      <3>1. InFrame /\ now <= Due + lag /\ Due <= now /\ window' = window
        <4>1. InFrame /\ now <= Due + lag /\ Due <= epoch /\ epoch <= now /\ epoch \in Nat
          BY <2>1, <2>3 DEF OnTime, PlannedInTime, SleepsUntilDue, ActiveSlot, IInv, TypeOK
        <4>2. Due <= now
          BY <1>a, <2>2, <4>1
        <4> QED
          BY <2>1, <2>3, <4>1, <4>2, WakesInSlot
      <3>2. now + left <= Due + slot_duration + Slack + lag
        <4> DEFINE d == Due
        <4>1. d \in Nat /\ now <= d + lag /\ left = 0
          BY <1>a, <2>1, <2>2, <3>1 DEF StagePc
        <4> HIDE DEF d
        <4>2. now + left <= d + slot_duration + Slack + lag
          BY <1>a, <4>1
        <4> QED
          BY <4>2 DEF d
      <3> QED
        BY <1>j, <2>1, <2>3, <3>1, <3>2 DEF InFrame
    <2>4. CASE OutOfOrder("follower_send")
      <3>1. duty' # 0
        BY <2>1, <2>4, AfterDuty DEF OutOfOrder
      <3> QED
        BY <1>d, <3>1
    \* It would be in the slot it listens in.
    <2>5. CASE OutOfOrder("follower_recv")
      <3> DEFINE n == Now.slot * slot_duration
                 base == frame + 2 * Period
      <3>1. /\ window.start = base /\ epoch = Due + 2 * Period
            /\ now <= epoch + lag /\ epoch <= now
        BY <2>1, <2>5 DEF ListensTooLate, ActiveSlot
      <3>2. Windowed(window) /\ n \in Nat /\ Due = frame + n
        BY <2>2, Times
      <3>3. base + n <= now /\ now < base + n + slot_duration
        <4> HIDE DEF n
        <4> QED
          BY <1>a, <2>2, <3>1, <3>2
      <3>4. Rolled(now, window) = window /\ current_slot(now, window) = Now.slot
        BY <1>a, <2>2, <3>1, <3>2, <3>3, InSlot
      <3>5. reply' = Now.slot /\ Now.do = "follower_recv"
        BY <2>1, <2>5, <3>4 DEF ActiveSlot, OutOfOrder
      <3> QED
        BY <2>1, <3>5 DEF Serves
    <2> QED
      BY <2>1, <2>3, <2>4, <2>5, OutOfOrderDuty
  <1>8. CASE AdvertiseRadio \/ AdvertiseRecvReturns
    <2>1. stage' = "advertise"
      BY <1>8 DEF AdvertiseRadio, AdvertiseRecvReturns, loop_vars
    <2> QED
      BY <1>d, <2>1
  <1>9. ASSUME NEW c \in Rings \cup {Layout!GATEWAY_RING}, NEW rel \in 1 .. W - 1, Join(c, rel)
        PROVE  Returns'
    <2>1. stage' = "advertise"
      BY <1>9, Zenon DEF Join
    <2> QED
      BY <1>d, <2>1
  <1>10. CASE EndAdvertise
    <2>1. /\ stage = "advertise" /\ left = 0 /\ stage' = "plan"
          /\ duty' = IF Len(Duties(state')) > 0 THEN 1 ELSE 0
          /\ UNCHANGED <<now, window, lag, frame, missed>>
      BY <1>10, Zenon DEF EndAdvertise, vars
    <2>2. InFrame /\ now <= frame + 2 * slot_duration - 1 + lag /\ missed = 0 /\ frame \in Nat
      BY <1>a, <2>1 DEF OnTime, AdvertisingEnds, Underway
    <2> SUFFICES ASSUME duty' = 0 PROVE Returns'
      BY <1>d
    <2>3. ~state.joined
      <3>1. state' \in NodeStates /\ state \in NodeStates
        BY DEF LInv, LoopTypes, NodeStates, Starts
      <3>2. ~state'.joined
        <4>1. ~(Len(Duties(state')) > 0)
          BY <2>1
        <4>2. state'.joined => Len(Duties(state')) > 0
          BY <3>1, <4>1, JoinedHasDuties
        <4> QED
          BY <4>1, <4>2
      <3>3. state'.joined = state.joined
        <4>1. ASSUME NEW n \in 1 .. W,
                     state' = [state EXCEPT !.clusterhead = TRUE, !.slots_assigned = n,
                                            !.down = Layout!downstream_start_slot(state.ring)]
              PROVE  state'.joined = state.joined
          <5> HIDE DEF Layout!downstream_start_slot
          <5> QED
            BY <3>1, <4>1 DEF NodeStates
        <4> QED
          BY <1>10, <4>1, Zenon DEF EndAdvertise
      <3> QED
        BY <3>2, <3>3
    <2>4. frame + slot_duration <= now
      BY <1>a, <2>1, <2>2, <2>3 DEF NotEarly
    <2>5. now + (MaxLag - lag) < frame + Period
      <3>1. /\ MAX_TIME_SYNC_DRIFT_S \in Nat
            /\ MAX_TIME_SYNC_DRIFT_S + 2 * slot_duration + MaxLag < Period
        BY DriftAssumption, SyncAssumption DEF Period
      <3> QED
        BY <1>a, <2>2, <3>1
    <2>6. AtHome(frame)'
      BY <2>1, <2>2, <2>4, <2>5 DEF AtHome, NextStart, InFrame
    <2> QED
      BY <2>1, <2>6 DEF Returns
  <1>11. CASE Transmit
    <2>1. /\ stage = "tuned" /\ stage' = "plan" /\ duty' = NextDuty /\ duty # 0
          /\ Now.do \in {"clusterhead_send", "follower_send"}
          /\ now' = now /\ window' = Rolled(now, window)
          /\ UNCHANGED <<state, lag, frame, missed>>
      BY <1>11, <1>c DEF Transmit, Flush
    <2>2. Timely
      <3>1. ~OutOfOrder("follower_send") /\ ~OutOfOrder("follower_recv")
        BY <2>1 DEF SendsTooLate, OutOfOrder
      <3> QED
        BY <2>1, <3>1, OutOfOrderDuty
    <2>3. InFrame /\ now <= Due + Slack + lag /\ Due <= now
      BY <2>1, <2>2 DEF OnTime, TunedInTime, NotEarly
    <2>4. now + left <= Due + slot_duration + Slack + lag
      BY <1>a, <1>b, <2>1, <2>3 DEF StagePc
    <2> QED
      BY <1>j, <2>1, <2>2, <2>3, <2>4 DEF InFrame
  <1>12. CASE Listen
    <2>1. /\ stage = "tuned" /\ duty # 0 /\ now' = now /\ window' = Rolled(now, window)
          /\ stage' = "listen" \/ (stage' = "plan" /\ duty' = NextDuty)
          /\ Now.do \in {"clusterhead_recv", "follower_recv"}
          /\ UNCHANGED <<state, lag, frame, missed>>
      BY <1>12, <1>c DEF Listen, Recv
    <2> SUFFICES ASSUME stage' = "plan", duty' = NextDuty PROVE Returns'
      BY <1>d, <2>1
    <2>2. CASE Timely
      <3>1. InFrame /\ now <= Due + Slack + lag /\ Due <= now
        BY <2>1, <2>2 DEF OnTime, TunedInTime, NotEarly
      <3>2. now + left <= Due + slot_duration + Slack + lag
        BY <1>a, <1>b, <2>1, <3>1 DEF StagePc
      <3> QED
        BY <1>j, <2>1, <2>2, <3>1, <3>2 DEF InFrame
    <2>3. CASE OutOfOrder("follower_recv")
      <3>1. /\ window.start = frame + 2 * Period
            /\ Due + 2 * Period <= now /\ now <= Due + 2 * Period + Slack + lag
        BY <2>1, <2>3 DEF ListensTooLate
      <3>2. now + left <= Due + 2 * Period + slot_duration + Slack + lag
        BY <1>a, <1>b, <2>1, <3>1 DEF StagePc
      <3> QED
        BY <1>k, <2>1, <2>3, <3>1, <3>2
    <2>4. ~OutOfOrder("follower_send")
      BY <2>1 DEF OutOfOrder
    <2> QED
      BY <2>1, <2>2, <2>3, <2>4, OutOfOrderDuty
  <1>13. CASE Heard \/ ListenAgain
    <2>1. /\ stage \in {"listen", "heard"} /\ duty # 0 /\ now' = now
          /\ window' = window \/ window' = Rolled(now, window)
          /\ stage' = "tuned" \/ (stage' = "plan" /\ duty' = NextDuty)
          /\ Now.do \in {"clusterhead_recv", "follower_recv"}
          /\ UNCHANGED <<state, lag, frame, missed>>
      BY <1>13, <1>c DEF Heard, RecvReturns, ListenAgain, StagePc
    <2> SUFFICES ASSUME stage' = "plan", duty' = NextDuty PROVE Returns'
      BY <1>d, <2>1
    <2>2. CASE Timely
      <3>1. InFrame /\ now + left <= Due + slot_duration + Slack + lag /\ Due <= now
        BY <2>1, <2>2 DEF OnTime, HeardInTime, NotEarly
      <3> QED
        BY <1>j, <2>1, <2>2, <3>1 DEF InFrame
    <2>3. CASE OutOfOrder("follower_recv")
      <3>1. /\ window.start = frame + 2 * Period
            /\ Due + 2 * Period <= now
            /\ now + left <= Due + 2 * Period + slot_duration + Slack + lag
        BY <2>1, <2>3 DEF ListensTooLate
      <3> QED
        BY <1>k, <2>1, <2>3, <3>1
    <2>4. ~OutOfOrder("follower_send")
      BY <2>1 DEF OutOfOrder
    <2> QED
      BY <2>1, <2>2, <2>3, <2>4, OutOfOrderDuty
  <1>14. CASE HeardOther
    <2>1. stage' = "heard"
      BY <1>14 DEF HeardOther
    <2> QED
      BY <1>d, <2>1
  <1> QED
    BY <1>0, <1>1, <1>2, <1>3, <1>4, <1>5, <1>6, <1>7, <1>8, <1>9, <1>10, <1>11, <1>12,
       <1>13, <1>14 DEF LoopNext

-----------------------------------------------------------------------------
(* Advertising in each superframe.                                         *)

\* However late its duties end, and in whatever order they come, a node is on
\* its way to an advertising slot that is not yet past.
THEOREM LoopReturns == LoopSpec => []RInv
  <1>1. LoopInit => RInv
    <2> SUFFICES ASSUME LoopInit PROVE RInv
      OBVIOUS
    <2>1. stage = "plan" /\ duty = 0 /\ frame = Never
      BY DEF LoopInit
    <2> QED
      BY <2>1 DEF RInv, Underway, NotEarly, SendsTooLate, ListensTooLate, Returns, OutOfOrder
  <1>2. /\ IInv /\ LInv /\ PaceInv /\ RInv /\ IInv' /\ LInv' /\ [LoopNext]_<<vars, loop_vars>>
        => RInv'
    <2> SUFFICES ASSUME IInv, LInv, PaceInv, RInv, IInv', LInv', [LoopNext]_<<vars, loop_vars>>
                 PROVE  RInv'
      OBVIOUS
    <2>1. /\ OnGrid(state) /\ StagePc /\ OnTime
          /\ Underway /\ NotEarly /\ SendsTooLate /\ ListensTooLate /\ Returns
      BY DEF PaceInv, RInv
    <2>2. Underway'
      BY <2>1, UnderwayNext
    <2>3. NotEarly'
      BY <2>1, NotEarlyNext
    <2>4. SendsTooLate'
      BY <2>1, SendsTooLateNext
    <2>5. ListensTooLate'
      BY <2>1, ListensTooLateNext
    <2>6. Returns'
      BY <2>1, ReturnsNext
    <2> QED
      BY <2>2, <2>3, <2>4, <2>5, <2>6 DEF RInv
  <1> QED
    BY <1>1, <1>2, LoopInvariant, LoopKeepsPace, PTL DEF LoopSpec

\* A node advertises in every superframe but those whose advertising slot it
\* woke late for; with windows in the wrong order it loses two more or none
\* (main.cpp:128-158, multihop.cpp:730-738).
THEOREM LoopAdvertisesEachSuperframe == LoopSpec => AdvertisesEachSuperframe
  <1>1. /\ IInv /\ LInv /\ RInv /\ [LoopNext]_<<vars, loop_vars>>
        => [BeginAdvertise /\ frame # Never =>
              (window'.start - frame) \div SUPERFRAME_FREQUENCY_S
                  \in IF Ordered(state) THEN {1 + missed} ELSE {1 + missed, 3 + missed}
           ]_<<vars, loop_vars>>
    <2> SUFFICES ASSUME IInv, LInv, RInv, BeginAdvertise, frame # Never
                 PROVE  (window'.start - frame) \div SUPERFRAME_FREQUENCY_S
                          \in IF Ordered(state) THEN {1 + missed} ELSE {1 + missed, 3 + missed}
      OBVIOUS
    <2>1. stage = "wait" /\ duty = 0 /\ ActiveSlot /\ Serves(Now, reply')
      <3>1. duty # 0 => Now # Advertising
        BY NowType DEF DutyRecord, Advertising, Duty, LInv
      <3> QED
        BY <3>1 DEF BeginAdvertise
    <2>2. Period \in Nat \ {0} /\ frame \in Nat
      BY Durations, Times DEF Period
    <2>3. reply' = 0
      BY <2>1, NowType DEF LInv, Serves, Advertising, Duty
    <2>4. ASSUME NEW b \in Nat, AtHome(b), NEW j \in Nat, b = frame + j * Period
          PROVE  (window'.start - frame) \div SUPERFRAME_FREQUENCY_S = j + 1 + missed
      <3>1. window'.start = NextStart(b) /\ missed \in {0, 1}
        BY <2>1, <2>3, <2>4, WakesAtHome DEF AtHome, NoSlot
      <3>2. window'.start = b + (1 + missed) * Period
        <4>1. missed = 0 => window'.start = b + 1 * Period
          BY <2>2, <3>1 DEF NextStart
        <4>2. missed = 1 => window'.start = b + 2 * Period
          BY <3>1 DEF NextStart
        <4> QED
          BY <3>1, <4>1, <4>2
      <3>3. window'.start - frame = (j + 1 + missed) * Period + 0
        <4>1. CASE missed = 0
          BY <2>2, <2>4, <3>2, <4>1
        <4>2. CASE missed = 1
          BY <2>2, <2>4, <3>2, <4>2
        <4> QED
          BY <3>1, <4>1, <4>2
      <3>4. j + 1 + missed \in Nat /\ 0 \in 0 .. Period - 1
        BY <2>2, <3>1
      <3>5. ((j + 1 + missed) * Period + 0) \div Period = j + 1 + missed
        BY <2>2, <3>4, DivisionUnique
      <3> QED
        BY <3>3, <3>5 DEF Period
    <2>5. AtHome(frame) \/ (~Ordered(state) /\ AtHome(frame + 2 * Period))
      BY <2>1 DEF RInv, Returns
    <2>6. missed \in {0, 1}
      BY <2>5 DEF AtHome
    <2>7. CASE AtHome(frame)
      <3>1. frame = frame + 0 * Period
        BY <2>2
      <3>2. (window'.start - frame) \div SUPERFRAME_FREQUENCY_S = 0 + 1 + missed
        BY <2>2, <2>4, <2>7, <3>1
      <3> QED
        BY <2>6, <3>2
    <2>8. CASE ~Ordered(state) /\ AtHome(frame + 2 * Period)
      <3>1. (window'.start - frame) \div SUPERFRAME_FREQUENCY_S = 2 + 1 + missed
        BY <2>2, <2>4, <2>8
      <3> QED
        BY <2>6, <2>8, <3>1
    <2> QED
      BY <2>5, <2>7, <2>8
  <1> QED
    BY <1>1, LoopInvariant, LoopReturns, PTL DEF LoopSpec, AdvertisesEachSuperframe
=============================================================================
