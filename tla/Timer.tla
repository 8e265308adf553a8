------------------------------- MODULE Timer -------------------------------
(***************************************************************************)
(* The tick arithmetic and the timeout_t operations of                     *)
(* firmware/dongle/timer.c.  A tick is 0.1 ms, kept by Timer 0 in an        *)
(* unsigned 16-bit counter.  The operators are pure; the modules that own   *)
(* a timeout_t apply them to it.                                            *)
(***************************************************************************)
EXTENDS Naturals

CONSTANT TICK_MOD    \* number of values of a uint16_t: 65536 in the firmware

ASSUME TickModAssumption == TICK_MOD \in Nat /\ TICK_MOD > 1

Tick == 0 .. TICK_MOD - 1
USHRT_MAX == TICK_MOD - 1

timeout_t == [start : Tick, elapsed : Tick]

\* Mutated form: the counter does not wrap.
NextTick_unbounded(t) == t + 1

\* ticks++ in timer0_isr
NextTick(t) == IF t = USHRT_MAX THEN 0 ELSE t + 1

\* a - b on uint16_t: SDCC's int has 16 bits, so the difference wraps too
TickDiff(a, b) == IF a >= b THEN a - b ELSE a + TICK_MOD - b

timeout_start(now) == [start |-> now, elapsed |-> 0]

timeout_start_max(now) == [start |-> now, elapsed |-> USHRT_MAX]

\* Mutated form: without the overflow test of lines 72-75.
timeout_update_no_overflow(t, now) ==
    LET diff == TickDiff(now, t.start)
    IN  [t EXCEPT !.elapsed = IF diff > t.elapsed THEN diff ELSE t.elapsed]

\* Mutated form: the overflow is reported as the wrapped difference.
timeout_update_wrapped(t, now) == [t EXCEPT !.elapsed = TickDiff(now, t.start)]

\* The elapsed time only grows; a difference that fell below it means that
\* the tick counter has lapped the start value.
timeout_update(t, now) ==
    LET diff == TickDiff(now, t.start)
    IN  [t EXCEPT !.elapsed = IF diff >= t.elapsed THEN diff ELSE USHRT_MAX]

\* The answer of timeout_elapsed, given the timeout it has just updated
timeout_elapsed(t, time) == t.elapsed > time
=============================================================================
