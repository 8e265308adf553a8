----------------------------- MODULE Stopwatch -----------------------------
(***************************************************************************)
(* One timeout_t of timer.c as the main loop uses it: restarted, set to     *)
(* "already elapsed", polled, while timer0_isr counts ticks underneath.     *)
(* It is compared with the ideal stopwatch the callers believe they have,   *)
(* one that stops at USHRT_MAX and never wraps.                             *)
(***************************************************************************)
EXTENDS Timer

CONSTANT MAX_GAP     \* ticks the caller may let pass between two operations

\* timeout_update recognises an overflow only if it is called once per lap of
\* the tick counter.
ASSUME MaxGapAssumption == MAX_GAP \in Nat /\ MAX_GAP < TICK_MOD

VARIABLES
    ticks,       \* the counter of timer0_isr
    timeout,     \* the timeout_t
    age,         \* ideal time since the start, USHRT_MAX standing for "or more"
    gap          \* ticks since the last operation on the timeout_t

vars == <<ticks, timeout, age, gap>>

TypeOK ==
    /\ ticks \in Tick
    /\ timeout \in timeout_t
    /\ age \in Tick
    /\ gap \in 0 .. MAX_GAP

Init ==
    /\ ticks \in Tick
    /\ timeout = timeout_start_max(ticks)
    /\ age = USHRT_MAX
    /\ gap = 0

Timer0Isr ==
    /\ gap < MAX_GAP
    /\ ticks' = NextTick(ticks)
    /\ age' = IF age = USHRT_MAX THEN age ELSE age + 1
    /\ gap' = gap + 1
    /\ UNCHANGED timeout

Start ==
    /\ timeout' = timeout_start(ticks)
    /\ age' = 0
    /\ gap' = 0
    /\ UNCHANGED ticks

StartMax ==
    /\ timeout' = timeout_start_max(ticks)
    /\ age' = USHRT_MAX
    /\ gap' = 0
    /\ UNCHANGED ticks

Poll ==
    /\ timeout' = timeout_update(timeout, ticks)
    /\ gap' = 0
    /\ UNCHANGED <<ticks, age>>

Next == Timer0Isr \/ Start \/ StartMax \/ Poll

\* The timer interrupt keeps coming and the main loop keeps polling.
Spec == Init /\ [][Next]_vars /\ WF_vars(Timer0Isr) /\ WF_vars(Poll)

-----------------------------------------------------------------------------
\* The value a poll leaves behind is the ideal stopwatch's: exact below
\* USHRT_MAX, and USHRT_MAX ever after, however often the counter has lapped
\* (timeout_update, timer.c:62-78, returns this value).
Exact == gap = 0 => timeout.elapsed = age

\* How start, elapsed and the running counter hang together; with it Exact is
\* inductive.  A young timeout has not been lapped; an old one
\* was last read less than one lap ago.
Anchored ==
    \/ timeout.elapsed = USHRT_MAX /\ age = USHRT_MAX
    \/ age < USHRT_MAX /\ age = TickDiff(ticks, timeout.start) /\ timeout.elapsed + gap = age
    \/ /\ age = USHRT_MAX
       /\ timeout.elapsed + gap >= USHRT_MAX
       /\ TickDiff(ticks, timeout.start) =
            IF timeout.elapsed + gap >= TICK_MOD THEN timeout.elapsed + gap - TICK_MOD
                                                 ELSE timeout.elapsed + gap

\* A timeout that has elapsed stays elapsed until it is restarted: no step but
\* Start takes the stored value down (whb04b_process relies on it to keep a
\* dead report invalidated).
Monotone == [][~Start => timeout'.elapsed >= timeout.elapsed]_vars

\* A timeout nobody restarts is eventually seen to have elapsed, and for good.
EventuallyElapses == (<>[][~Start]_vars) => <>[](timeout.elapsed = USHRT_MAX)
=============================================================================
