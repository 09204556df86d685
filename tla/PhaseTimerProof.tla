---------------------------- MODULE PhaseTimerProof ----------------------------
(***************************************************************************)
(* Where MsDeadline is right, for every modulus and duration: its answers  *)
(* are exact as long as millis() has not wrapped, and across a wrap from   *)
(* the first millisecond on; and a phase loop that keeps clear of the wrap *)
(* is neither cut short nor overrun.                                       *)
(***************************************************************************)
EXTENDS PhaseTimer, TLAPS

\* Before millis() wraps, reached() and millis_until() are exact
\* (time_helpers.cpp:59-65, 72-74).
THEOREM ExactBeforeWrap ==
    ASSUME NEW s \in Clock, NEW d \in Nat, NEW e \in Nat,
           s + d < MODULUS, s + e < MODULUS
    PROVE  LET dl == MsDeadline(s, d)
               t  == (s + e) % MODULUS
           IN  /\ reached(dl, t) <=> e > d
               /\ millis_until(dl, t) = IF e < d THEN d - e ELSE 0
<1>1. s \in Nat /\ MODULUS \in Nat \ {0}
  BY ModulusAssumption DEF Clock
<1>2. (s + d) % MODULUS = s + d /\ (s + e) % MODULUS = s + e
  BY <1>1
<1>3. MsDeadline(s, d) = [start |-> s, end |-> s + d, overflows |-> FALSE]
  <2>1. (s + d < s) = FALSE
    BY <1>1
  <2>. QED
    BY <1>2, <2>1 DEF MsDeadline
<1>. QED
  BY <1>1, <1>2, <1>3 DEF reached, millis_until

\* What StartClocks and Durations hold.
LEMMA Inputs ==
    /\ \A s \in StartClocks : s \in Nat /\ s < MODULUS
    /\ \A d \in Durations : d \in Nat /\ d < MODULUS
<1>1. \A s \in StartClocks : s \in 0 .. MODULUS - 1
  BY StartAssumption
<1>2. \A d \in Durations : d \in 0 .. MODULUS - 1
  BY DurationsAssumption
<1>. QED
  BY <1>1, <1>2, ModulusAssumption

\* For a deadline behind the wrap reached() is exact from one millisecond
\* after the start until a full turn of millis() later; at the start itself
\* it answers TRUE (time_helpers.cpp:70-71).
THEOREM ReachedAcrossWrap ==
    ASSUME NEW s \in Clock, NEW d \in Clock, NEW e \in 0 .. MODULUS,
           s + d >= MODULUS
    PROVE  reached(MsDeadline(s, d), (s + e) % MODULUS) <=> (e = 0 \/ e > d)
<1>1. s \in Nat /\ d \in Nat /\ e \in Nat /\ MODULUS \in Nat \ {0}
      /\ s < MODULUS /\ d < MODULUS /\ e <= MODULUS
  BY ModulusAssumption DEF Clock
<1>2. (s + d) % MODULUS = s + d - MODULUS
  BY <1>1
<1>3. MsDeadline(s, d) = [start |-> s, end |-> s + d - MODULUS, overflows |-> TRUE]
  <2>1. s + d - MODULUS < s
    BY <1>1
  <2>. QED
    BY <1>2, <2>1 DEF MsDeadline
<1>4. CASE s + e < MODULUS
  <2>1. (s + e) % MODULUS = s + e
    BY <1>1, <1>4
  <2>. QED
    BY <1>1, <1>3, <1>4, <2>1 DEF reached
<1>5. CASE s + e >= MODULUS
  <2>1. (s + e) % MODULUS = s + e - MODULUS
    BY <1>1, <1>5
  <2>. QED
    BY <1>1, <1>3, <1>5, <2>1 DEF reached
<1>. QED
  BY <1>1, <1>4, <1>5

-----------------------------------------------------------------------------
(* The phase loop, for start clocks and durations that keep clear of the   *)
(* wrap.  The invariant ties the clock to the time elapsed and bounds the  *)
(* overrun by the lag of the current iteration and the one before it.      *)

DeadlineOf(s, d) == [start |-> s, end |-> s + d, overflows |-> FALSE]

InPhase ==
    pc # "idle" =>
        /\ deadline.start \in StartClocks
        /\ duration \in Durations
        /\ deadline = DeadlineOf(deadline.start, duration)
        /\ clock = deadline.start + elapsed

OverrunBound ==
    /\ pc = "test" => elapsed <= duration + MaxLag + lag
    /\ pc = "ask" => elapsed <= duration + lag
    /\ pc = "recv" => elapsed + timeout <= duration + lag

IInv == TypeOK /\ InPhase /\ OverrunBound

LEMMA IInvInit == Init => IInv
<1>. SUFFICES ASSUME Init PROVE IInv
  OBVIOUS
<1>1. clock \in Nat /\ clock < MODULUS /\ MODULUS \in Nat \ {0}
  BY ModulusAssumption DEF Init, Clock
<1>2. (clock + 0) % MODULUS = clock
  BY <1>1
<1>3. deadline = [start |-> clock, end |-> clock, overflows |-> FALSE]
  <2>1. (clock < clock) = FALSE
    BY <1>1
  <2>. QED
    BY <1>2, <2>1 DEF Init, MsDeadline
<1>4. deadline \in Deadline
  BY <1>1, <1>3 DEF Deadline, Clock
<1>. QED
  BY <1>1, <1>4, LagAssumption
     DEF Init, IInv, TypeOK, InPhase, OverrunBound, Clock

LEMMA IInvNext == NoWrap /\ ~WaitsForever /\ IInv /\ [Next]_vars => IInv'
<1>. SUFFICES ASSUME NoWrap, ~WaitsForever, IInv, [Next]_vars PROVE IInv'
  OBVIOUS
<1>. USE ModulusAssumption, LagAssumption
<1>1. TypeOK /\ InPhase /\ OverrunBound
  BY DEF IInv
\* In a phase nothing has wrapped, and nothing is about to.
<1>2. ASSUME pc # "idle"
      PROVE  /\ deadline.start \in Nat /\ duration \in Nat
             /\ deadline.start + duration + 2 * MaxLag < MODULUS
             /\ deadline.end = deadline.start + duration
             /\ ~deadline.overflows
  <2>1. deadline.start \in StartClocks /\ duration \in Durations
        /\ deadline = DeadlineOf(deadline.start, duration)
    BY <1>1, <1>2 DEF InPhase
  <2>2. deadline.start \in Nat /\ duration \in Nat
    BY <2>1, Inputs
  <2>3. deadline.end = deadline.start + duration /\ deadline.overflows = FALSE
    BY <2>1 DEF DeadlineOf
  <2>. QED
    BY <2>1, <2>2, <2>3 DEF NoWrap
<1>3. CASE Tick
  <2>1. CASE pc = "idle"
    <3>1. clock' \in Clock
      BY <1>1, <1>3 DEF Tick, Clock, TypeOK
    <3>. QED
      BY <1>1, <1>3, <2>1, <3>1 DEF Tick, IInv, TypeOK, InPhase, OverrunBound
  <2>2. CASE pc # "idle"
    <3>. DEFINE st == deadline.start
    <3>0. pc = "recv" => timeout # NoLimit
      BY <1>1, <1>2, <2>2 DEF NoLimit, OverrunBound, TypeOK
    <3>1. /\ clock' = (clock + 1) % MODULUS
          /\ elapsed' = IF elapsed < MODULUS THEN elapsed + 1 ELSE elapsed
          /\ \/ pc = "recv" /\ timeout > 0 /\ timeout' = timeout - 1 /\ lag' = lag
             \/ ~(pc = "recv" /\ timeout > 0) /\ lag < MaxLag
                /\ lag' = lag + 1 /\ timeout' = timeout
          /\ UNCHANGED <<deadline, duration, pc>>
      BY <1>3, <2>2, <3>0 DEF Tick
    <3>2. /\ st \in Nat /\ duration \in Nat
          /\ st + duration + 2 * MaxLag < MODULUS
      BY <1>2, <2>2
    <3>3. /\ elapsed \in Nat /\ lag \in 0 .. MaxLag /\ timeout \in Nat
          /\ clock = st + elapsed
          /\ pc \in {"test", "ask", "recv"}
      BY <1>1, <2>2 DEF TypeOK, InPhase
    <3>4. elapsed + 1 <= duration + 2 * MaxLag
      BY <1>1, <3>1, <3>2, <3>3 DEF OverrunBound
    <3>5. elapsed' = elapsed + 1 /\ elapsed' < MODULUS
      BY <3>1, <3>2, <3>3, <3>4
    <3>6. clock' = clock + 1 /\ clock' < MODULUS
      BY <3>1, <3>2, <3>3, <3>4
    <3>7. TypeOK'
      BY <1>1, <3>1, <3>2, <3>3, <3>5, <3>6 DEF TypeOK, Clock
    <3>8. InPhase'
      BY <1>1, <2>2, <3>1, <3>2, <3>3, <3>5, <3>6 DEF InPhase
    <3>9. OverrunBound'
      BY <1>1, <3>1, <3>2, <3>3, <3>5 DEF OverrunBound
    <3>. QED
      BY <3>7, <3>8, <3>9 DEF IInv
  <2>. QED
    BY <2>1, <2>2
<1>4. ASSUME NEW d \in Durations, Start(d) PROVE IInv'
  <2>1. /\ clock \in StartClocks /\ clock' = clock
        /\ deadline' = MsDeadline(clock, d)
        /\ duration' = d /\ elapsed' = 0 /\ lag' = 0
        /\ timeout' = timeout /\ pc' = "test"
    BY <1>4 DEF Start
  <2>2. clock \in Nat /\ d \in Nat /\ clock + d < MODULUS /\ d < MODULUS
    BY <2>1, Inputs, <1>4 DEF NoWrap
  <2>3. (clock + d) % MODULUS = clock + d /\ (clock + d < clock) = FALSE
    BY <2>2
  <2>4. deadline' = DeadlineOf(clock, d)
    BY <2>1, <2>3 DEF MsDeadline, DeadlineOf
  <2>5. TypeOK'
    BY <1>1, <2>1, <2>2, <2>4 DEF TypeOK, Deadline, DeadlineOf, Clock
  <2>6. InPhase' /\ OverrunBound'
    BY <2>1, <2>2, <2>4 DEF InPhase, OverrunBound, DeadlineOf
  <2>. QED
    BY <2>5, <2>6 DEF IInv
<1>5. CASE Continue
  <2>1. pc = "test" /\ ~reached(deadline, clock) /\ pc' = "ask"
        /\ UNCHANGED <<clock, deadline, duration, elapsed, lag, timeout>>
    BY <1>5 DEF Continue
  <2>2. elapsed <= duration
    BY <1>1, <1>2, <2>1 DEF reached, InPhase, TypeOK
  <2>. QED
    BY <1>1, <1>2, <2>1, <2>2 DEF IInv, TypeOK, InPhase, OverrunBound
<1>6. CASE Finish
  BY <1>1, <1>6 DEF Finish, IInv, TypeOK, InPhase, OverrunBound
<1>7. CASE Ask
  <2>1. pc = "ask" /\ timeout' = millis_until(deadline, clock) /\ pc' = "recv"
        /\ UNCHANGED <<clock, deadline, duration, elapsed, lag>>
    BY <1>7 DEF Ask, Blocking
  <2>2. timeout' = IF elapsed <= duration THEN duration - elapsed ELSE 0
    BY <1>1, <1>2, <2>1 DEF millis_until, InPhase, TypeOK
  <2>. QED
    BY <1>1, <1>2, <2>1, <2>2 DEF IInv, TypeOK, InPhase, OverrunBound
<1>8. CASE RecvReturns
  <2>1. pc = "recv" /\ pc' = "test" /\ timeout' = 0 /\ lag' = 0
        /\ UNCHANGED <<clock, deadline, duration, elapsed>>
    BY <1>8 DEF RecvReturns
  <2>2. elapsed <= duration + MaxLag
    BY <1>1, <1>2, <2>1 DEF OverrunBound, TypeOK
  <2>. QED
    BY <1>1, <2>1, <2>2, <1>2 DEF IInv, TypeOK, InPhase, OverrunBound
<1>9. CASE UNCHANGED vars
  BY <1>1, <1>9 DEF vars, IInv, TypeOK, InPhase, OverrunBound
<1>. QED
  BY <1>3, <1>4, <1>5, <1>6, <1>7, <1>8, <1>9 DEF Next

LEMMA PhaseInvariant == ASSUME NoWrap, ~WaitsForever PROVE Spec => []IInv
<1>1. IInv /\ [Next]_vars => IInv'
  BY IInvNext
<1>. QED
  BY IInvInit, <1>1, PTL DEF Spec

\* The phase's state stays in its ranges: recv is never given a negative time.
THEOREM PhaseTypeOK == ASSUME NoWrap, ~WaitsForever PROVE Spec => []TypeOK
<1>1. IInv => TypeOK
  BY DEF IInv
<1>. QED
  BY <1>1, PhaseInvariant, PTL

\* A phase that keeps clear of the wrap outlasts its duration only by what
\* the loop spends outside recv in two iterations (multihop.cpp:506-544).
THEOREM PhaseEndsPromptly == ASSUME NoWrap, ~WaitsForever PROVE Spec => []EndsPromptly
<1>1. IInv => EndsPromptly
  <2>. SUFFICES ASSUME IInv PROVE EndsPromptly
    OBVIOUS
  <2>. QED
    BY LagAssumption, DurationsAssumption, ModulusAssumption
       DEF IInv, TypeOK, InPhase, OverrunBound, EndsPromptly
<1>. QED
  BY <1>1, PhaseInvariant, PTL

\* Nor is it ever cut short (time_helpers.cpp:68-75).
THEOREM PhaseNeverCutShort == ASSUME NoWrap, ~WaitsForever PROVE Spec => NeverCutShort
<1>1. IInv /\ [Next]_vars => [Finish => elapsed >= duration]_vars
  <2>. SUFFICES ASSUME IInv, Finish PROVE elapsed >= duration
    OBVIOUS
  <2>1. pc = "test" /\ reached(deadline, clock)
    BY DEF Finish
  <2>2. /\ deadline.start \in Nat /\ duration \in Nat /\ elapsed \in Nat
        /\ deadline = DeadlineOf(deadline.start, duration)
        /\ clock = deadline.start + elapsed
    BY <2>1, Inputs DEF IInv, TypeOK, InPhase
  <2>3. deadline.end = deadline.start + duration /\ deadline.overflows = FALSE
    BY <2>2 DEF DeadlineOf
  <2>. QED
    BY <2>1, <2>2, <2>3 DEF reached
<1>. QED
  BY <1>1, PhaseInvariant, PTL DEF Spec, NeverCutShort

\* And recv is never told to block past the end of the phase
\* (time_helpers.cpp:49-66).
THEOREM PhaseNeverOvershoots == ASSUME NoWrap, ~WaitsForever PROVE Spec => NeverOvershoots
<1>1. IInv /\ [Next]_vars =>
        [Ask => timeout' <= (IF elapsed < duration THEN duration - elapsed ELSE 0)]_vars
  <2>. SUFFICES ASSUME IInv, Ask
                PROVE  timeout' <= (IF elapsed < duration THEN duration - elapsed ELSE 0)
    OBVIOUS
  <2>1. pc = "ask" /\ timeout' = millis_until(deadline, clock)
    BY DEF Ask, Blocking
  <2>2. /\ deadline.start \in Nat /\ duration \in Nat /\ elapsed \in Nat
        /\ deadline = DeadlineOf(deadline.start, duration)
        /\ clock = deadline.start + elapsed
    BY <2>1, Inputs DEF IInv, TypeOK, InPhase
  <2>3. deadline.end = deadline.start + duration /\ deadline.overflows = FALSE
    BY <2>2 DEF DeadlineOf
  <2>. QED
    BY <2>1, <2>2, <2>3 DEF millis_until
<1>. QED
  BY <1>1, PhaseInvariant, PTL DEF Spec, NeverOvershoots
=============================================================================
