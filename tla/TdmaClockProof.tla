--------------------------- MODULE TdmaClockProof ---------------------------
(***************************************************************************)
(* The superframe clock keeps to the common grid, for every slot length,   *)
(* slot count, superframe frequency and drift that satisfy the assumptions *)
(* of TdmaClock.  What the runs check with the program's own parameters    *)
(* holds for all of them.                                                  *)
(***************************************************************************)
EXTENDS TdmaClock, TLAPS

-----------------------------------------------------------------------------
(* Arithmetic of the grid.                                                 *)

\* The derived durations are positive and a window fits in a superframe.
LEMMA Durations ==
    /\ slot_duration \in Nat \ {0}
    /\ window_length \in Nat \ {0}
    /\ SUPERFRAME_FREQUENCY_S \in Nat \ {0}
    /\ window_length <= SUPERFRAME_FREQUENCY_S
<1>1. slot_duration \in Nat \ {0}
  BY SlotAssumption DEF slot_duration
<1>2. window_length \in Nat \ {0}
  <2>. DEFINE d == slot_duration
  <2>1. d * SUPERFRAME_SLOT_COUNT \in Nat \ {0}
    <3>. HIDE DEF d
    <3>. QED  BY <1>1, SlotAssumption DEF d
  <2>. QED  BY <2>1 DEF window_length
<1>. QED
  BY <1>1, <1>2, FrequencyAssumption

\* Every slot, to its last second, lies in the window.
LEMMA SlotFits ==
    ASSUME NEW n \in Slots
    PROVE  /\ n * slot_duration \in Nat
           /\ n * slot_duration + slot_duration <= window_length
<1>. DEFINE d == slot_duration
            N == SUPERFRAME_SLOT_COUNT
<1>1. d \in Nat \ {0} /\ N \in Nat \ {0} /\ n \in 0 .. N - 1
  BY Durations, SlotAssumption DEF Slots
<1>2. window_length = d * N
  BY DEF window_length
<1>3. n * d \in Nat /\ n * d + d <= d * N
  <2>. HIDE DEF d, N
  <2>1. PICK m \in Nat : N = n + 1 + m
    <3>1. N - n - 1 \in Nat /\ N = n + 1 + (N - n - 1)
      BY <1>1
    <3>. QED  BY <3>1
  <2>2. d * N = n * d + d + d * m
    BY <1>1, <2>1
  <2>3. d * m \in Nat /\ n * d \in Nat
    BY <1>1, <2>1
  <2>. QED  BY <2>2, <2>3, <1>1
<1>. QED
  BY <1>2, <1>3

\* Division with remainder.
LEMMA Division ==
    ASSUME NEW b \in Nat \ {0}, NEW a \in Nat
    PROVE  /\ a = b * (a \div b) + (a % b)
           /\ a \div b \in Nat
           /\ a % b \in 0 .. b - 1
OBVIOUS

LEMMA DivisionUnique ==
    ASSUME NEW b \in Nat \ {0}, NEW k \in Nat, NEW r \in 0 .. b - 1
    PROVE  /\ (k * b + r) \div b = k
           /\ (k * b + r) % b = r
OBVIOUS

\* Rounding up to a multiple of the superframe frequency.
LEMMA NextInterval ==
    ASSUME NEW t \in Nat
    PROVE  LET s == next_time_interval(t, SUPERFRAME_FREQUENCY_S)
           IN  /\ s \in Nat
               /\ s % SUPERFRAME_FREQUENCY_S = 0
               /\ t <= s
               /\ s < t + SUPERFRAME_FREQUENCY_S
<1>. DEFINE F == SUPERFRAME_FREQUENCY_S
            s == next_time_interval(t, F)
<1>1. F \in Nat \ {0}
  BY Durations
<1>. SUFFICES s \in Nat /\ s % F = 0 /\ t <= s /\ s < t + F
  OBVIOUS
<1>2. s = IF t % F = 0 THEN t ELSE t - (t % F) + F
  BY <1>1 DEF next_time_interval
<1>. HIDE DEF s, F
<1>3. CASE t % F = 0
  BY <1>1, <1>2, <1>3
<1>4. CASE t % F # 0
  <2>1. t = F * (t \div F) + (t % F) /\ t \div F \in Nat /\ t % F \in 0 .. F - 1
    BY <1>1, Division
  <2>2. s = t - (t % F) + F
    BY <1>2, <1>4
  <2>3. ((t \div F) + 1) * F + 0 = s
    BY <1>1, <2>1, <2>2
  <2>4. s % F = 0
    <3>1. (t \div F) + 1 \in Nat /\ 0 \in 0 .. F - 1
      BY <1>1, <2>1
    <3>2. (((t \div F) + 1) * F + 0) % F = 0
      BY <1>1, <3>1, DivisionUnique
    <3>. QED  BY <2>3, <3>2
  <2>5. t % F \in 1 .. F - 1 /\ F * (t \div F) \in Nat
    BY <1>1, <1>4, <2>1
  <2>6. t - (t % F) \in Nat
    BY <2>1, <2>5
  <2>7. s \in Nat /\ t <= s /\ s < t + F
    BY <1>1, <2>2, <2>5, <2>6
  <2>. QED
    BY <2>4, <2>7
<1>. QED
  BY <1>3, <1>4

\* There is one superframe start in any stretch of a superframe's length.
LEMMA OneStart ==
    ASSUME NEW t \in Nat, NEW s \in Nat,
           s % SUPERFRAME_FREQUENCY_S = 0, t <= s, s < t + SUPERFRAME_FREQUENCY_S
    PROVE  next_time_interval(t, SUPERFRAME_FREQUENCY_S) = s
<1>. DEFINE F == SUPERFRAME_FREQUENCY_S
            u == next_time_interval(t, F)
<1>1. F \in Nat \ {0}
  BY Durations
<1>2. u \in Nat /\ u % F = 0 /\ t <= u /\ u < t + F
  BY NextInterval
<1>. HIDE DEF u, F
<1>3. PICK j \in Nat : s = F * j
  <2>1. s = F * (s \div F) + (s % F) /\ s \div F \in Nat
    BY <1>1, Division
  <2>2. s = F * (s \div F)
    BY <1>1, <2>1 DEF F
  <2>. QED  BY <2>1, <2>2
<1>4. PICK k \in Nat : u = F * k
  <2>1. u = F * (u \div F) + (u % F) /\ u \div F \in Nat
    BY <1>1, <1>2, Division
  <2>2. u = F * (u \div F)
    BY <1>1, <1>2, <2>1
  <2>. QED  BY <2>1, <2>2
<1>5. s < u + F /\ u < s + F
  BY <1>1, <1>2 DEF F
<1>6. ~(j < k)
  <2>1. ASSUME j < k PROVE FALSE
    <3>1. PICK m \in Nat : k = j + 1 + m
      <4>1. k - j - 1 \in Nat /\ k = j + 1 + (k - j - 1)
        BY <2>1
      <4>. QED  BY <4>1
    <3>2. F * k = F * j + F + F * m /\ F * m \in Nat /\ F * j \in Nat
      BY <1>1, <3>1
    <3>. QED  BY <1>1, <1>3, <1>4, <1>5, <3>2
  <2>. QED  BY <2>1
<1>7. ~(k < j)
  <2>1. ASSUME k < j PROVE FALSE
    <3>1. PICK m \in Nat : j = k + 1 + m
      <4>1. j - k - 1 \in Nat /\ j = k + 1 + (j - k - 1)
        BY <2>1
      <4>. QED  BY <4>1
    <3>2. F * j = F * k + F + F * m /\ F * m \in Nat /\ F * k \in Nat
      BY <1>1, <3>1
    <3>. QED  BY <1>1, <1>3, <1>4, <1>5, <3>2
  <2>. QED  BY <2>1
<1>8. j = k
  BY <1>6, <1>7
<1>. QED
  BY <1>3, <1>4, <1>8 DEF u, F

-----------------------------------------------------------------------------
(* What one refresh of the window, and one plan, yield.                    *)

\* A window of the common grid that has not ended and starts within a
\* superframe of the reading t.
Current(w, t) ==
    /\ w \in [start : Nat, end : Nat]
    /\ w.start % SUPERFRAME_FREQUENCY_S = 0
    /\ w.end = w.start + window_length
    /\ t < w.end
    /\ w.start < t + SUPERFRAME_FREQUENCY_S

LEMMA RefreshedIsCurrent ==
    ASSUME NEW t \in Nat, NEW w \in [start : Nat, end : Nat],
           \/ w.end = 0
           \/ /\ w.start % SUPERFRAME_FREQUENCY_S = 0
              /\ w.end = w.start + window_length
              /\ w.start < t + SUPERFRAME_FREQUENCY_S
    PROVE  Current(Rolled(t, w), t)
<1>. DEFINE s == next_time_interval(t, SUPERFRAME_FREQUENCY_S)
<1>1. /\ s \in Nat
      /\ s % SUPERFRAME_FREQUENCY_S = 0
      /\ t <= s
      /\ s < t + SUPERFRAME_FREQUENCY_S
  BY NextInterval
<1>. HIDE DEF s
<1>2. CASE after_window(t, w)
  <2>1. Rolled(t, w) = [start |-> s, end |-> s + window_length]
    BY <1>2 DEF Rolled, MacState, s
  <2>. QED
    BY <1>1, <2>1, Durations DEF Current
<1>3. CASE ~after_window(t, w)
  <2>1. Rolled(t, w) = w /\ t < w.end
    BY <1>3 DEF Rolled, after_window
  <2>. QED
    BY <2>1 DEF Current
<1>. QED
  BY <1>2, <1>3

\* A slot reported for a current window is a slot of the common grid.
LEMMA CurrentSlotOnGrid ==
    ASSUME NEW t \in Nat, NEW w, Current(w, t), current_slot(t, w) # NoSlot
    PROVE  /\ current_slot(t, w) \in Slots
           /\ current_slot(t, w) = GridSlot(t)
           /\ w.start <= t
           /\ current_slot(t, w) = (t - w.start) \div slot_duration
<1>. DEFINE F == SUPERFRAME_FREQUENCY_S
            d == slot_duration
            x == t - w.start
<1>1. w.start \in Nat /\ w.end = w.start + window_length /\ w.start % F = 0
  BY DEF Current
<1>2. w.start <= t /\ t < w.end /\ current_slot(t, w) = x \div d
  BY DEF current_slot, in_active_window
<1>3. x \in Nat /\ x < window_length /\ t = w.start + x
  BY <1>1, <1>2, Durations
<1>4. t % F = x
  <2>1. F \in Nat \ {0} /\ x \in 0 .. F - 1
    BY <1>3, Durations
  <2>2. w.start = F * (w.start \div F) + (w.start % F) /\ w.start \div F \in Nat
    BY <1>1, <2>1, Division
  <2>3. t = (w.start \div F) * F + x
    BY <1>1, <1>3, <2>1, <2>2
  <2>4. ((w.start \div F) * F + x) % F = x
    BY <2>1, <2>2, DivisionUnique
  <2>. QED
    BY <2>3, <2>4
<1>5. GridSlot(t) = x \div d
  BY <1>3, <1>4 DEF GridSlot
<1>6. x \div d \in Slots
  <2>. DEFINE N == SUPERFRAME_SLOT_COUNT
              q == x \div d
  <2>1. d \in Nat \ {0} /\ N \in Nat \ {0}
    BY Durations, SlotAssumption
  <2>2. x = d * q + (x % d) /\ q \in Nat /\ x % d \in 0 .. d - 1
    BY <1>3, <2>1, Division
  <2>3. x < d * N
    BY <1>3 DEF window_length
  <2>4. q < N
    <3>. HIDE DEF q, N, d, x
    <3>1. ASSUME q >= N PROVE FALSE
      <4>1. PICK m \in Nat : q = N + m
        <5>1. q - N \in Nat /\ q = N + (q - N)
          BY <2>1, <2>2, <3>1
        <5>. QED  BY <5>1
      <4>2. d * q = d * N + d * m /\ d * m \in Nat /\ d * N \in Nat
        BY <2>1, <4>1
      <4>3. x \in Nat /\ x >= d * q
        BY <1>3, <2>1, <2>2, <4>2
      <4>. QED
        BY <2>3, <4>2, <4>3
    <3>. QED
      BY <2>1, <2>2, <3>1
  <2>. QED
    BY <2>1, <2>2, <2>4 DEF Slots
<1>. QED
  BY <1>2, <1>5, <1>6

\* What the planner's epoch e for slot n is worth in the window w: the slot
\* itself if e falls in w, and for slot 0 the start of a later superframe.
Planned(n, e, w) ==
    IF in_active_window(e, w)
    THEN (e - w.start) \div slot_duration = n
    ELSE n = 0 => e % SUPERFRAME_FREQUENCY_S = 0 /\ w.end <= e

LEMMA PlanIsSound ==
    ASSUME NEW t \in Nat, NEW w, Current(w, t), NEW n \in Slots
    PROVE  LET e == t + Offset(n, t, w)
           IN  e \in Nat /\ Planned(n, e, w)
<1>. DEFINE F == SUPERFRAME_FREQUENCY_S
            d == slot_duration
            c == current_slot(t, w)
            s == next_time_interval(t, F)
            e == t + Offset(n, t, w)
<1>. SUFFICES e \in Nat /\ Planned(n, e, w)
  OBVIOUS
<1>1. /\ w.start \in Nat
      /\ w.end = w.start + window_length
      /\ w.start % F = 0
      /\ t < w.end
      /\ w.start < t + F
  BY DEF Current
<1>2. n * d \in Nat /\ n * d + d <= window_length /\ n \in Nat
  BY SlotFits DEF Slots
<1>3. d \in Nat \ {0} /\ F \in Nat \ {0} /\ window_length \in Nat /\ window_length <= F
  BY Durations
<1>4. /\ s \in Nat /\ s % F = 0 /\ t <= s /\ s < t + F
  BY NextInterval
<1>5. (n * d) \div d = n
  <2>1. (n * d + 0) \div d = n
    BY <1>2, <1>3, DivisionUnique
  <2>. QED  BY <1>2, <2>1
<1>8. ASSUME NEW u, u = w.start + n * d PROVE u \in Nat /\ Planned(n, u, w)
  <2>1. u \in Nat /\ u - w.start = n * d /\ w.start <= u /\ u < w.end
    <3>. HIDE DEF d
    <3>. QED  BY <1>1, <1>2, <1>3, <1>8
  <2>. QED
    BY <1>5, <2>1 DEF Planned, in_active_window
<1>6. CASE c = NoSlot
  <2>1. t < w.start
    <3>1. ASSUME w.start <= t PROVE FALSE
      <4>1. t - w.start \in Nat /\ c = (t - w.start) \div d
        BY <1>1, <3>1 DEF current_slot, in_active_window
      <4>2. (t - w.start) \div d \in Nat
        BY <1>3, <4>1, Division
      <4>. QED
        BY <1>6, <4>1, <4>2 DEF NoSlot
    <3>. QED
      BY <1>1, <3>1
  <2>2. s = w.start
    BY <1>1, <2>1, OneStart
  <2>3. e = w.start + n * d
    BY <1>1, <1>2, <1>4, <1>6, <2>2 DEF Offset
  <2>. QED
    BY <1>8, <2>3
<1>7. CASE c # NoSlot
  <2>. DEFINE x == t - w.start
  <2>1. c \in Slots /\ w.start <= t /\ c = x \div d
    BY <1>7, CurrentSlotOnGrid
  <2>2. x \in Nat /\ t = w.start + x
    BY <1>1, <2>1
  <2>3. x = d * c + (x % d) /\ c \in Nat /\ x % d \in 0 .. d - 1
    BY <1>3, <2>1, <2>2, Division
  <2>4. CASE n < c
    <3>1. e = s + n * d
      BY <1>1, <1>2, <1>4, <2>4 DEF Offset
    <3>2. w.start < t
      <4>1. d * c \in Nat /\ d * c > 0
        BY <1>2, <1>3, <2>3, <2>4
      <4>. QED
        BY <1>1, <2>2, <2>3, <4>1
    <3>3. s >= w.start + F
      <4>1. w.start + F \in Nat /\ (w.start + F) % F = 0
        <5>1. w.start = F * (w.start \div F) + (w.start % F) /\ w.start \div F \in Nat
          BY <1>1, <1>3, Division
        <5>2. w.start + F = ((w.start \div F) + 1) * F + 0
          BY <1>1, <1>3, <5>1
        <5>3. (w.start \div F) + 1 \in Nat /\ 0 \in 0 .. F - 1
          BY <1>3, <5>1
        <5>4. (((w.start \div F) + 1) * F + 0) % F = 0
          BY <1>3, <5>3, DivisionUnique
        <5>5. (w.start + F) % F = 0
          BY <5>2, <5>4, Zenon
        <5>. QED
          BY <1>1, <1>3, <5>5
      <4>2. t <= w.start + F /\ w.start + F < t + F
        BY <1>1, <1>3, <3>2
      <4>3. s = w.start + F
        BY <4>1, <4>2, OneStart
      <4>. QED
        BY <1>1, <1>3, <4>3
    <3>4. w.end <= e /\ e \in Nat
      BY <1>1, <1>2, <1>3, <1>4, <3>1, <3>3
    <3>5. n = 0 => e = s
      BY <1>2, <1>3, <1>4, <3>1
    <3>6. ~in_active_window(e, w)
      <4>. HIDE DEF e
      <4>. QED  BY <1>1, <1>3, <3>4 DEF in_active_window
    <3>. QED
      BY <1>4, <3>4, <3>5, <3>6 DEF Planned
  <2>5. CASE n = c
    <3>1. e = t
      BY <1>7, <2>3, <2>5 DEF Offset
    <3>. QED
      BY <1>1, <2>1, <2>5, <3>1 DEF Planned, in_active_window
  <2>6. CASE c < n
    <3>1. e = t + (d - (x % d)) + (n - c - 1) * d
      <4>1. ~(n < c) /\ n # c
        BY <1>2, <2>3, <2>6
      <4>2. Offset(n, t, w) = (d - (x % d)) + (n - c - 1) * d
        BY <1>7, <4>1 DEF Offset, time_left_in_slot
      <4>3. (n - c - 1) * d \in Int /\ x % d \in Int
        BY <1>2, <1>3, <2>3
      <4>. QED
        BY <1>3, <4>2, <4>3
    <3>2. PICK m \in Nat : n = c + 1 + m
      <4>1. n - c - 1 \in Nat /\ n = c + 1 + (n - c - 1)
        BY <1>2, <2>3, <2>6
      <4>. QED  BY <4>1
    <3>3. n * d = d * c + d + m * d /\ (n - c - 1) * d = m * d /\ m * d \in Nat
      BY <1>3, <2>3, <3>2
    <3>4. e = w.start + n * d
      <4>. HIDE DEF x, e, c
      <4>. QED
        BY <1>1, <1>2, <1>3, <2>2, <2>3, <3>1, <3>3
    <3>. QED
      BY <1>8, <3>4
  <2>. QED
    BY <1>2, <2>3, <2>4, <2>5, <2>6
<1>. QED
  BY <1>6, <1>7

-----------------------------------------------------------------------------
(* The inductive invariant.  WindowAligned and NeverStranded are not        *)
(* inductive alone: a synchronisation sets the clock back from wherever it  *)
(* is, which leaves the next window in reach only because an Accept can be  *)
(* received only in or after the window the node is in, and because         *)
(* MAX_TIME_SYNC_DRIFT_S is less than a superframe.                         *)

ReceivingNotBeforeWindow ==
    pc = "receiving" => window.start <= now

PlanHolds ==
    pc \in {"sleeping", "awake"} => Planned(target, epoch, window)

UninitialisedWindow ==
    pc = "setup" => window.end = 0

IInv ==
    /\ TypeOK
    /\ WindowAligned
    /\ NeverStranded
    /\ ReceivingNotBeforeWindow
    /\ PlanHolds
    /\ UninitialisedWindow

LEMMA IInvInit == Init => IInv
<1>. SUFFICES ASSUME Init PROVE IInv
  OBVIOUS
<1>1. 0 \in Slots
  BY SlotAssumption DEF Slots
<1>2. now \in Nat
  BY HorizonAssumption DEF Init
<1>. QED
  BY <1>1, <1>2
     DEF Init, IInv, TypeOK, WindowAligned, NeverStranded,
         ReceivingNotBeforeWindow, PlanHolds, UninitialisedWindow

\* Every refresh of an invariant state gives a current window.
LEMMA RefreshOfInv ==
    ASSUME IInv
    PROVE  /\ now \in Nat
           /\ Current(Rolled(now, window), now)
<1>1. now \in Nat /\ window \in [start : Nat, end : Nat]
  BY DEF IInv, TypeOK
<1>2. \/ window.end = 0
      \/ /\ window.start % SUPERFRAME_FREQUENCY_S = 0
         /\ window.end = window.start + window_length
         /\ window.start < now + SUPERFRAME_FREQUENCY_S
  BY DEF IInv, WindowAligned, NeverStranded, UninitialisedWindow
<1>. QED
  BY <1>1, <1>2, RefreshedIsCurrent

LEMMA IInvNext == IInv /\ [Next]_vars => IInv'
<1>. SUFFICES ASSUME IInv, [Next]_vars PROVE IInv'
  OBVIOUS
<1>0. /\ now \in Nat
      /\ Current(Rolled(now, window), now)
  BY RefreshOfInv
<1>0a. 0 \in Slots /\ SUPERFRAME_FREQUENCY_S \in Nat \ {0}
  BY SlotAssumption, Durations DEF Slots
\* A refresh that leaves the clock alone keeps the window aligned and near.
<1>0b. ASSUME window' = Rolled(now, window), now' = now
       PROVE  /\ window' \in [start : Nat, end : Nat]
              /\ WindowAligned'
              /\ NeverStranded'
  BY <1>0, <1>0b DEF Current, WindowAligned, NeverStranded
<1>1. CASE Tick
  BY <1>0, <1>0a, <1>1
     DEF Tick, IInv, TypeOK, WindowAligned, NeverStranded,
         ReceivingNotBeforeWindow, PlanHolds, UninitialisedWindow
<1>2. CASE LinkInit
  BY <1>0, <1>0b, <1>2
     DEF LinkInit, IInv, TypeOK, ReceivingNotBeforeWindow, PlanHolds,
         UninitialisedWindow
<1>3. ASSUME NEW n \in Slots, EpochAndOffset(n) PROVE IInv'
  <2>1. /\ epoch' = now + Offset(n, now, window')
        /\ window' = Rolled(now, window)
        /\ target' = n
        /\ now' = now
        /\ pc' = "sleeping"
        /\ reply' = NoSlot
    BY <1>3 DEF EpochAndOffset
  <2>2. epoch' \in Nat /\ Planned(n, epoch', window')
    BY <1>0, <2>1, PlanIsSound
  <2>. QED
    BY <1>0, <1>0b, <2>1, <2>2
       DEF IInv, TypeOK, ReceivingNotBeforeWindow, PlanHolds, UninitialisedWindow
<1>4. CASE SleepUntil
  BY <1>4
     DEF SleepUntil, IInv, TypeOK, WindowAligned, NeverStranded,
         ReceivingNotBeforeWindow, PlanHolds, UninitialisedWindow
<1>5. CASE ActiveSlot
  <2>1. /\ window' = Rolled(now, window)
        /\ now' = now
        /\ pc' = "idle"
        /\ target' = 0
        /\ epoch' = 0
        /\ reply' = current_slot(now, window')
    BY <1>5 DEF ActiveSlot
  <2>2. reply' \in Slots \cup {NoSlot}
    BY <1>0, <2>1, CurrentSlotOnGrid
  <2>. QED
    BY <1>0, <1>0a, <1>0b, <2>1, <2>2
       DEF IInv, TypeOK, ReceivingNotBeforeWindow, PlanHolds, UninitialisedWindow
<1>6. CASE Flush
  BY <1>0, <1>0b, <1>6
     DEF Flush, IInv, TypeOK, ReceivingNotBeforeWindow, PlanHolds,
         UninitialisedWindow
<1>7. CASE Recv
  BY <1>0, <1>0b, <1>7
     DEF Recv, IInv, TypeOK, ReceivingNotBeforeWindow, PlanHolds,
         UninitialisedWindow, in_active_window
<1>8. CASE RecvReturns
  BY <1>8
     DEF RecvReturns, IInv, TypeOK, WindowAligned, NeverStranded,
         ReceivingNotBeforeWindow, PlanHolds, UninitialisedWindow
<1>9. ASSUME NEW remote \in 0 .. Horizon, TimeSync(remote) PROVE IInv'
  <2>1. /\ remote \in Nat
        /\ now' = remote
        /\ now <= remote + MAX_TIME_SYNC_DRIFT_S
        /\ window' = window
        /\ pc = "receiving"
    BY <1>9, HorizonAssumption DEF TimeSync
  <2>2. window.start <= now /\ window.start \in Nat
    BY <2>1 DEF IInv, ReceivingNotBeforeWindow, TypeOK
  <2>3. window'.start < now' + SUPERFRAME_FREQUENCY_S
    BY <1>0, <1>0a, <2>1, <2>2, DriftAssumption
  <2>. QED
    BY <1>9, <2>1, <2>3
       DEF TimeSync, IInv, TypeOK, WindowAligned, NeverStranded,
           ReceivingNotBeforeWindow, PlanHolds, UninitialisedWindow
<1>10. CASE UNCHANGED vars
  BY <1>10
     DEF vars, IInv, TypeOK, WindowAligned, NeverStranded,
         ReceivingNotBeforeWindow, PlanHolds, UninitialisedWindow
<1>. QED
  BY <1>1, <1>2, <1>3, <1>4, <1>5, <1>6, <1>7, <1>8, <1>9, <1>10 DEF Next

-----------------------------------------------------------------------------
(* The theorems.                                                           *)

\* The invariant holds in every reachable state of the superframe clock
\* (link_layer.cpp:102-336).
THEOREM ClockInvariant == Spec => []IInv
BY IInvInit, IInvNext, PTL DEF Spec

\* Type correctness of the superframe clock.
THEOREM ClockTypeOK == Spec => []TypeOK
<1>1. IInv => TypeOK
  BY DEF IInv
<1>. QED
  BY <1>1, ClockInvariant, PTL

\* The window of an initialised node is always a superframe of the common
\* grid (link_layer.cpp:102-108, 171-177).
THEOREM ClockAligned == Spec => []WindowAligned
<1>1. IInv => WindowAligned
  BY DEF IInv
<1>. QED
  BY <1>1, ClockInvariant, PTL

\* No synchronisation sets a node back by a whole superframe or more from
\* its next window (multihop.cpp:730-738).
THEOREM ClockNeverStranded == Spec => []NeverStranded
<1>1. IInv => NeverStranded
  BY DEF IInv
<1>. QED
  BY <1>1, ClockInvariant, PTL

\* The slot a node acts in is the slot its clock reads on the common grid
\* (link_layer.cpp:102-113).
THEOREM ClockActsInGridSlot == Spec => ActsInGridSlot
<1>1. IInv /\ [Next]_vars => [ActiveSlot => reply' \in {NoSlot, GridSlot(now)}]_vars
  <2>. SUFFICES ASSUME IInv, ActiveSlot PROVE reply' \in {NoSlot, GridSlot(now)}
    OBVIOUS
  <2>1. /\ now \in Nat
        /\ Current(Rolled(now, window), now)
    BY RefreshOfInv
  <2>2. reply' = current_slot(now, Rolled(now, window))
    BY DEF ActiveSlot
  <2>. QED
    BY <2>1, <2>2, CurrentSlotOnGrid
<1>. QED
  BY <1>1, ClockInvariant, PTL DEF Spec, ActsInGridSlot

\* A caller that wakes in the second it planned for is in the slot it planned
\* (link_layer.cpp:307-336, time_helpers.cpp:115-119).
THEOREM ClockOnTimeWake == Spec => OnTimeWakeHitsSlot
<1>1. IInv /\ [Next]_vars =>
        [ActiveSlot /\ now = epoch
            /\ (target = 0 \/ in_active_window(epoch, window))
         => reply' = target]_vars
  <2>. SUFFICES ASSUME IInv, ActiveSlot, now = epoch,
                       target = 0 \/ in_active_window(epoch, window)
                PROVE  reply' = target
    OBVIOUS
  <2>1. /\ now \in Nat
        /\ Current(Rolled(now, window), now)
    BY RefreshOfInv
  <2>2. /\ reply' = current_slot(now, Rolled(now, window))
        /\ Planned(target, now, window)
    BY DEF ActiveSlot, IInv, PlanHolds
  <2>3. CASE in_active_window(epoch, window)
    <3>1. Rolled(now, window) = window
      BY <2>1, <2>3 DEF Rolled, after_window, in_active_window, IInv, TypeOK
    <3>. QED
      BY <2>2, <2>3, <3>1 DEF Planned, current_slot
  <2>4. CASE target = 0 /\ ~in_active_window(epoch, window)
    <3>1. now % SUPERFRAME_FREQUENCY_S = 0 /\ window.end <= now
      BY <2>2, <2>4 DEF Planned
    <3>2. next_time_interval(now, SUPERFRAME_FREQUENCY_S) = now
      BY <2>1, <3>1, OneStart, Durations
    <3>3. Rolled(now, window) = [start |-> now, end |-> now + window_length]
      BY <2>1, <3>1, <3>2 DEF Rolled, after_window, MacState, IInv, TypeOK
    <3>4. in_active_window(now, Rolled(now, window))
      BY <2>1, <3>3, Durations DEF in_active_window
    <3>5. reply' = (now - now) \div slot_duration
      BY <2>2, <3>3, <3>4 DEF current_slot
    <3>6. (0 * slot_duration + 0) \div slot_duration = 0
      BY Durations, DivisionUnique
    <3>7. now - now = 0 /\ 0 * slot_duration + 0 = 0
      BY <2>1, Durations
    <3>. QED
      BY <2>4, <3>5, <3>6, <3>7
  <2>. QED
    BY <2>3, <2>4
<1>. QED
  BY <1>1, ClockInvariant, PTL DEF Spec, OnTimeWakeHitsSlot
=============================================================================
