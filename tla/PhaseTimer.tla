------------------------------ MODULE PhaseTimer ------------------------------
(***************************************************************************)
(* MsDeadline (lib/net/src/time_helpers.cpp) and the loop every phase of   *)
(* the advertisement slot runs on it (multihop.cpp:506-544, 577-619,       *)
(* 664-772):                                                               *)
(*                                                                         *)
(*     while (!deadline.reached()) { recv(deadline.millis_until()); ... }  *)
(*                                                                         *)
(* millis() is a counter modulo 2^32; MODULUS stands for 2^32.  The loop   *)
(* reads it twice per iteration, and time may pass between the readings.   *)
(* How long recv blocks is up to the radio driver: the simulator's returns *)
(* at once for a timeout of 0, the RF95's waits for a frame.               *)
(***************************************************************************)
EXTENDS Integers

CONSTANTS MODULUS,      \* 2^32 in the program
          Durations,    \* the durations a phase may be given, in milliseconds
          StartClocks,  \* the readings of millis() at which a phase may start
          MaxLag,       \* bound: milliseconds the loop spends outside recv
                        \* in one iteration
          WaitsForever  \* whether the driver takes a timeout of 0 for none

ASSUME ModulusAssumption == MODULUS \in Nat \ {0}
ASSUME DurationsAssumption == Durations \subseteq 0 .. MODULUS - 1
ASSUME StartAssumption == StartClocks \subseteq 0 .. MODULUS - 1
ASSUME LagAssumption == MaxLag \in Nat
ASSUME DriverAssumption == WaitsForever \in BOOLEAN

Clock == 0 .. MODULUS - 1

VARIABLES clock,     \* millis()
          deadline,  \* the phase's MsDeadline
          duration,  \* what it was created with
          elapsed,   \* milliseconds since, saturating at MODULUS
          lag,       \* milliseconds spent outside recv in this iteration
          timeout,   \* milliseconds recv may still block
          pc
vars == <<clock, deadline, duration, elapsed, lag, timeout, pc>>

-----------------------------------------------------------------------------
\* Mutant: the end is kept in a counter half as wide.
MsDeadline_Narrow(start, duration_ms) ==
    LET end == (start + duration_ms) % (MODULUS \div 2)
    IN  [start |-> start, end |-> end, overflows |-> end < start]

MsDeadline(start, duration_ms) ==
    LET end == (start + duration_ms) % MODULUS
    IN  [start |-> start, end |-> end, overflows |-> end < start]

\* Mutant: the deadline counts as reached only a millisecond later.
reached_Late(d, t) == t > d.end + 1

\* Mutant: a deadline that never wraps is tested like one that does.
reached_OverflowTest(d, t) == d.end < t /\ t <= d.start

reached(d, t) ==
    IF d.overflows THEN d.end < t /\ t <= d.start
    ELSE d.end < t

\* Mutant: the time since the start instead of the time left.
millis_until_Inverted(d, t) == IF t < d.start THEN 0 ELSE t - d.start + 1

millis_until(d, t) ==
    IF d.overflows
    THEN (IF t < d.start THEN 0 ELSE MODULUS - 1 - t)
         + (IF t < d.end THEN d.end - t ELSE d.end)
    ELSE IF t < d.start \/ t > d.end THEN 0
    ELSE d.end - t

\* How long lora::wait_recv blocks at most, called with a timeout.
NoLimit == MODULUS

Blocking(timeout_ms) ==
    IF WaitsForever /\ timeout_ms = 0 THEN NoLimit ELSE timeout_ms

-----------------------------------------------------------------------------
Deadline == [start : Clock, end : Clock, overflows : BOOLEAN]

\* The phase's state stays in its ranges, the time left among them: millis_until
\* never answers below 0 (time_helpers.cpp:49-66).
TypeOK ==
    /\ clock \in Clock
    /\ deadline \in Deadline
    /\ duration \in 0 .. MODULUS - 1
    /\ elapsed \in 0 .. MODULUS
    /\ lag \in 0 .. MaxLag
    /\ timeout \in Nat
    /\ pc \in {"idle", "test", "ask", "recv"}

Init ==
    /\ clock \in Clock
    /\ deadline = MsDeadline(clock, 0)
    /\ duration = 0
    /\ elapsed = 0
    /\ lag = 0
    /\ timeout = 0
    /\ pc = "idle"

\* A millisecond passes: in recv while it blocks, elsewhere as lag.
Tick ==
    /\ clock' = (clock + 1) % MODULUS
    /\ CASE pc = "idle" -> UNCHANGED <<elapsed, lag, timeout>>
         [] pc = "recv" /\ timeout > 0 ->
              /\ timeout' = IF timeout = NoLimit THEN NoLimit ELSE timeout - 1
              /\ elapsed' = IF elapsed < MODULUS THEN elapsed + 1 ELSE elapsed
              /\ UNCHANGED lag
         [] OTHER ->
              /\ lag < MaxLag
              /\ lag' = lag + 1
              /\ elapsed' = IF elapsed < MODULUS THEN elapsed + 1 ELSE elapsed
              /\ UNCHANGED timeout
    /\ UNCHANGED <<deadline, duration, pc>>

\* A phase begins.
Start(d) ==
    /\ pc = "idle"
    /\ clock \in StartClocks
    /\ deadline' = MsDeadline(clock, d)
    /\ duration' = d
    /\ elapsed' = 0
    /\ lag' = 0
    /\ pc' = "test"
    /\ UNCHANGED <<clock, timeout>>

\* while (!deadline.reached())
Continue ==
    /\ pc = "test"
    /\ ~reached(deadline, clock)
    /\ pc' = "ask"
    /\ UNCHANGED <<clock, deadline, duration, elapsed, lag, timeout>>

Finish ==
    /\ pc = "test"
    /\ reached(deadline, clock)
    /\ pc' = "idle"
    /\ UNCHANGED <<clock, deadline, duration, elapsed, lag, timeout>>

\* timeout_ms = deadline.millis_until(); recv(timeout_ms)
Ask ==
    /\ pc = "ask"
    /\ timeout' = Blocking(millis_until(deadline, clock))
    /\ pc' = "recv"
    /\ UNCHANGED <<clock, deadline, duration, elapsed, lag>>

\* recv returns with a frame, or when it timed out.
RecvReturns ==
    /\ pc = "recv"
    /\ pc' = "test"
    /\ timeout' = 0
    /\ lag' = 0
    /\ UNCHANGED <<clock, deadline, duration, elapsed>>

Next ==
    \/ Tick
    \/ \E d \in Durations : Start(d)
    \/ Continue
    \/ Finish
    \/ Ask
    \/ RecvReturns

\* Time passes, and the loop runs: recv returns at the latest when it has
\* blocked for its timeout.  No frame need ever arrive.
Fairness ==
    /\ WF_vars(Tick)
    /\ WF_vars(Continue) /\ WF_vars(Finish) /\ WF_vars(Ask)
    /\ WF_vars(RecvReturns /\ timeout = 0)

Spec == Init /\ [][Next]_vars /\ Fairness

-----------------------------------------------------------------------------
(* Properties.                                                             *)

\* A phase whose end, and the lag past it, come before millis() wraps.
NoWrap ==
    \A s \in StartClocks, d \in Durations : s + d + 2 * MaxLag < MODULUS

\* time_helpers.h:14-16, "True if the deadline has been reached, false
\* otherwise": a phase never ends before its duration has passed.
NeverCutShort ==
    [][Finish => elapsed >= duration]_vars

\* time_helpers.h:19-22, "Milliseconds until the deadline, or 0 if it has been
\* reached": recv is never told to block past the end of the phase.
NeverOvershoots ==
    [][Ask => timeout' <= (IF elapsed < duration THEN duration - elapsed ELSE 0)]_vars

\* Once the loop has run past its deadline it leaves within one iteration:
\* it outlasts the phase by what it spends outside recv and no more
\* (multihop.cpp:506-544).
EndsPromptly ==
    pc # "idle" => elapsed <= duration + 2 * MaxLag

\* Every phase ends, whether or not a frame arrives: link_layer.h:97-98, "If
\* `timeout_ms` is 0, receive without blocking."
PhaseEnds == pc = "test" ~> pc = "idle"
=============================================================================
