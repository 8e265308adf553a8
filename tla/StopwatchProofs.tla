--------------------------- MODULE StopwatchProofs ---------------------------
(***************************************************************************)
(* For every width of the tick counter and every polling gap shorter than   *)
(* one lap, timeout_t of timer.c is an exact saturating stopwatch.          *)
(***************************************************************************)
EXTENDS Stopwatch, TLAPS

USE TickModAssumption, MaxGapAssumption

\* The wrapped difference is again a uint16_t (timer.c:65).
LEMMA TickDiffType ==
    ASSUME NEW a \in Tick, NEW b \in Tick
    PROVE  TickDiff(a, b) \in Tick
BY DEF Tick, TickDiff

\* One more tick adds one to a difference, modulo the width (timer.c:16-19).
LEMMA TickDiffNext ==
    ASSUME NEW a \in Tick, NEW b \in Tick
    PROVE  /\ NextTick(a) \in Tick
           /\ TickDiff(NextTick(a), b) = NextTick(TickDiff(a, b))
BY DEF Tick, TickDiff, NextTick, USHRT_MAX

\* A difference from itself is zero.
LEMMA TickDiffSelf == ASSUME NEW a \in Tick PROVE TickDiff(a, a) = 0
BY DEF Tick, TickDiff

IInv == TypeOK /\ Anchored

LEMMA InitIInv == Init => IInv
BY TickDiffSelf DEF Init, IInv, TypeOK, Anchored, timeout_start_max, timeout_t, Tick, USHRT_MAX

LEMMA NextIInv == IInv /\ [Next]_vars => IInv'
<1> SUFFICES ASSUME IInv, [Next]_vars PROVE IInv'
    OBVIOUS
<1> USE DEF IInv
<1>1. CASE Timer0Isr
  <2>1. TypeOK'
    BY <1>1, TickDiffNext DEF TypeOK, Timer0Isr, Tick, USHRT_MAX
  <2>2. TickDiff(ticks', timeout'.start) = NextTick(TickDiff(ticks, timeout.start))
    BY <1>1, TickDiffNext DEF TypeOK, Timer0Isr, timeout_t
  <2>3. Anchored'
    BY <1>1, <2>2, TickDiffType
    DEF TypeOK, Anchored, Timer0Isr, timeout_t, Tick, USHRT_MAX, NextTick
  <2> QED BY <2>1, <2>3
<1>2. CASE Start
  BY <1>2, TickDiffSelf DEF TypeOK, Anchored, Start, timeout_start, timeout_t, Tick, USHRT_MAX
<1>3. CASE StartMax
  BY <1>3 DEF TypeOK, Anchored, StartMax, timeout_start_max, timeout_t, Tick, USHRT_MAX
<1>4. CASE Poll
  <2> DEFINE diff == TickDiff(ticks, timeout.start)
  <2>1. diff \in Tick
    BY TickDiffType DEF TypeOK, timeout_t
  <2>2. timeout' = [timeout EXCEPT !.elapsed = IF diff >= timeout.elapsed THEN diff ELSE USHRT_MAX]
    BY <1>4 DEF Poll, timeout_update
  <2>3. /\ timeout'.start = timeout.start
        /\ timeout'.elapsed = IF diff >= timeout.elapsed THEN diff ELSE USHRT_MAX
    BY <2>2 DEF TypeOK, timeout_t
  <2>4. TypeOK'
    BY <1>4, <2>1, <2>2 DEF TypeOK, Poll, timeout_t, Tick, USHRT_MAX
  <2>5. TickDiff(ticks', timeout'.start) = diff
    BY <1>4, <2>3 DEF Poll
  <2> HIDE DEF diff
  <2>6. Anchored'
    BY <1>4, <2>1, <2>3, <2>5, TickDiffType
    DEF diff, TypeOK, Anchored, Poll, timeout_t, Tick, USHRT_MAX
  <2> QED BY <2>4, <2>6
<1>5. CASE UNCHANGED vars
  BY <1>5 DEF vars, TypeOK, Anchored
<1> QED BY <1>1, <1>2, <1>3, <1>4, <1>5 DEF Next

\* The stopwatch keeps its types and stays anchored to the tick counter.
THEOREM StopwatchInvariant == Spec => []IInv
<1>1. Init => IInv
  BY InitIInv
<1>2. IInv /\ [Next]_vars => IInv'
  BY NextIInv
<1> QED BY <1>1, <1>2, PTL DEF Spec

\* A poll returns the ideal elapsed time, saturated at USHRT_MAX, whatever the
\* width of the counter (timer.c:62-85).
THEOREM StopwatchExact == Spec => []Exact
<1>1. IInv => Exact
  <2> SUFFICES ASSUME IInv, gap = 0 PROVE timeout.elapsed = age
    BY DEF Exact
  <2> QED BY DEF IInv, TypeOK, Anchored, timeout_t, Tick, USHRT_MAX
<1> QED BY <1>1, StopwatchInvariant, PTL

\* Only timeout_start makes an elapsed timeout young again.
THEOREM StopwatchMonotone == Spec => Monotone
<1>1. IInv /\ [Next]_vars => [~Start => timeout'.elapsed >= timeout.elapsed]_vars
  <2> SUFFICES ASSUME IInv, Next, ~Start PROVE timeout'.elapsed >= timeout.elapsed
    BY DEF vars
  <2>1. CASE Timer0Isr
    BY <2>1 DEF IInv, TypeOK, Timer0Isr, timeout_t, Tick
  <2>2. CASE StartMax
    BY <2>2 DEF IInv, TypeOK, StartMax, timeout_start_max, timeout_t, Tick, USHRT_MAX
  <2>3. CASE Poll
    <3>1. TickDiff(ticks, timeout.start) \in Tick
      BY TickDiffType DEF IInv, TypeOK, timeout_t
    <3> QED BY <2>3, <3>1 DEF IInv, TypeOK, Poll, timeout_update, timeout_t, Tick, USHRT_MAX
  <2> QED BY <2>1, <2>2, <2>3 DEF Next
<1> QED BY <1>1, StopwatchInvariant, PTL DEF Spec, Monotone
=============================================================================
