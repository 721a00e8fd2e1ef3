-------------------------------- MODULE Timer --------------------------------
(***************************************************************************)
(* The timer, kernel/timer.c: a tick counter that an interrupt advances,   *)
(* the time computed from it in 32 bits, and delay_ms, which halts between *)
(* looks at the clock while ticks come at any moment of its loop.          *)
(***************************************************************************)
EXTENDS Integers

CONSTANTS
    WORD,         \* 2^32: uint32_t arithmetic is modulo WORD
    BASE,         \* PIT_BASE_FREQUENCY (1193180)
    PIT,          \* 2^16: the timer chip takes a divisor of two bytes
    SECOND,       \* milliseconds in a second (1000)
    DEFAULT,      \* frequency used instead of 0 (100)
    Freqs,        \* frequencies init_timer is called with
    Delays        \* delays callers ask for

VARIABLES
    frequency,    \* 0 until init_timer has run
    ms_per_tick,
    divisor,      \* what the chip was given
    tick_count,
    pc,           \* where delay_ms is: "idle", "check", "hlt", "asleep"
    start, ms,    \* delay_ms's start and argument
    waited,       \* ghost: ticks since delay_ms read start, up to WORD
    lag           \* ticks since delay_ms last looked, the one that woke it aside

timerVars == <<frequency, ms_per_tick, divisor, tick_count, pc, start, ms, waited, lag>>

ASSUME TimerAssumption ==
    /\ WORD \in Nat /\ BASE \in Nat /\ PIT \in Nat /\ SECOND \in Nat
    /\ WORD > 0 /\ PIT > 0
    /\ DEFAULT \in Nat /\ DEFAULT > 0 /\ Freqs \subseteq Nat /\ Delays \subseteq Nat

\* Milliseconds a tick counts for when init_timer was given freq.
TickOf(freq) == SECOND \div (IF freq = 0 THEN DEFAULT ELSE freq)

\* A tick counts for something, and no delay comes within two ticks of the range
\* of the 32-bit milliseconds.
ASSUME DelayAssumption ==
    \A freq \in Freqs, m \in Delays :
        TickOf(freq) >= 1 /\ m + 2 * TickOf(freq) <= WORD

-----------------------------------------------------------------------------
TimerInit ==
    /\ frequency = 0 /\ ms_per_tick = 0 /\ divisor = 0
    /\ tick_count = 0
    /\ pc = "idle" /\ start = 0 /\ ms = 0 /\ waited = 0 /\ lag = 0

init_timer(freq) ==
    LET f == IF freq = 0 THEN DEFAULT ELSE freq IN
    /\ frequency = 0
    /\ frequency' = f
    /\ ms_per_tick' = TickOf(freq)
    /\ divisor' = (BASE \div f) % PIT
    /\ UNCHANGED <<tick_count, pc, start, ms, waited, lag>>

get_time_ms == (tick_count * ms_per_tick) % WORD

\* The interrupt ends a hlt.  The loop of delay_ms is far shorter than a tick,
\* so one tick at most falls into a pass of it.
Interrupt ==
    /\ pc \in {"check", "hlt"} => lag = 0
    /\ waited' = IF pc = "idle" THEN 0 ELSE IF waited < WORD THEN waited + 1 ELSE waited
    /\ lag' = IF pc \in {"check", "hlt"} THEN lag + 1 ELSE lag
    /\ pc' = IF pc = "asleep" THEN "check" ELSE pc
    /\ UNCHANGED <<frequency, ms_per_tick, divisor, start, ms>>

\* Mutant of timer_callback: nothing is counted.
CallbackWithoutCount == frequency # 0 /\ Interrupt /\ UNCHANGED tick_count

timer_callback ==
    /\ frequency # 0
    /\ Interrupt
    /\ tick_count' = (tick_count + 1) % WORD

\* process.c's yield raises the timer's interrupt itself.
process_yield ==
    /\ frequency # 0
    /\ pc = "idle"
    /\ tick_count' = (tick_count + 1) % WORD
    /\ UNCHANGED <<frequency, ms_per_tick, divisor, pc, start, ms, waited, lag>>

delay_ms(m) ==
    /\ frequency # 0
    /\ pc = "idle"
    /\ pc' = "check"
    /\ start' = get_time_ms
    /\ ms' = m
    /\ waited' = 0
    /\ lag' = 0
    /\ UNCHANGED <<frequency, ms_per_tick, divisor, tick_count>>

NotYetByClock == get_time_ms < (start + ms) % WORD   \* mutant of NotYet

\* The loop's condition, in unsigned arithmetic.
NotYet == (get_time_ms - start) % WORD < ms

\* A look at the clock; at the end of the delay its variables are gone.
Check ==
    /\ pc = "check"
    /\ lag' = 0
    /\ IF NotYet
       THEN pc' = "hlt" /\ UNCHANGED <<start, ms, waited>>
       ELSE pc' = "idle" /\ start' = 0 /\ ms' = 0 /\ waited' = 0
    /\ UNCHANGED <<frequency, ms_per_tick, divisor, tick_count>>

Hlt ==
    /\ pc = "hlt"
    /\ pc' = "asleep"
    /\ UNCHANGED <<frequency, ms_per_tick, divisor, tick_count, start, ms, waited, lag>>

TimerNext ==
    \/ \E freq \in Freqs : init_timer(freq)
    \/ timer_callback
    \/ process_yield
    \/ \E m \in Delays : delay_ms(m)
    \/ Check
    \/ Hlt

TimerSpec == TimerInit /\ [][TimerNext]_timerVars

\* The chip ticks for ever, and the processor runs what is not halted.
TimerFairSpec ==
    /\ TimerSpec
    /\ WF_timerVars(\E freq \in Freqs : init_timer(freq))
    /\ WF_timerVars(timer_callback) /\ WF_timerVars(Check \/ Hlt)

-----------------------------------------------------------------------------
TimerTypeOK ==
    /\ frequency \in Nat /\ ms_per_tick \in Nat /\ divisor \in 0..(PIT - 1)
    /\ tick_count \in 0..(WORD - 1)
    /\ pc \in {"idle", "check", "hlt", "asleep"}
    /\ start \in 0..(WORD - 1) /\ ms \in Delays \cup {0} /\ waited \in 0..WORD /\ lag \in 0..1

\* delay_ms waits for as many ticks as its milliseconds make and for fewer than
\* two more, one of them lost between the look at the clock and the hlt, also
\* when the counter or the time computed from it wraps meanwhile.
DelayExact ==
    [][pc = "check" /\ pc' = "idle" =>
         /\ ms <= waited * ms_per_tick
         /\ waited * ms_per_tick < ms + 2 * ms_per_tick]_timerVars

\* delay_ms returns.
DelayEnds == pc # "idle" ~> pc = "idle"
==============================================================================
