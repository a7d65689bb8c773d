-------------------------------- MODULE Timer --------------------------------
(***************************************************************************)
(* The tick counter of Arch/x86/Hal/pit.c and the sleep of Hal.c, which    *)
(* compares an absolute deadline with it.  Both are unsigned and wrap.     *)
(***************************************************************************)
EXTENDS Integers

CONSTANT TickMod    \* 2^32

ASSUME TimerAssumption == TickMod \in Nat \ {0}

VARIABLES
    _pit_ticks,
    ticks,      \* sleep's local: the deadline
    ms,         \* its argument
    slept       \* history: interrupts since the call, counted up to TickMod

timerVars == <<_pit_ticks, ticks, ms, slept>>

(* hal_initialize starts the counter before it enables interrupts. *)
TimerInit == _pit_ticks = 0 /\ ticks = 0 /\ ms = 0 /\ slept = 0

(* Variant: the deadline is reached one tick late. *)
SleepOver_late == ticks < _pit_ticks

SleepOver == ticks <= _pit_ticks

(* The interrupt.  The loop of sleep looks at the counter thousands of      *)
(* times between two interrupts, so a sleep that is over ends first.        *)
_i86_pit_irq_c(sleeping) ==
    /\ sleeping => ~ SleepOver
    /\ _pit_ticks' = (_pit_ticks + 1) % TickMod
    /\ slept' = IF sleeping /\ slept < TickMod THEN slept + 1 ELSE slept
    /\ UNCHANGED <<ticks, ms>>

(* Variant: the deadline is not cut to the width of the counter. *)
sleep_wide(n) ==
    /\ ticks' = n + _pit_ticks
    /\ ms' = n /\ slept' = 0
    /\ UNCHANGED _pit_ticks

sleep(n) ==
    /\ ticks' = (n + _pit_ticks) % TickMod
    /\ ms' = n /\ slept' = 0
    /\ UNCHANGED _pit_ticks

(* sleep returns; its local and argument are gone. *)
Wake == SleepOver /\ ticks' = 0 /\ ms' = 0 /\ slept' = 0 /\ UNCHANGED _pit_ticks

(* The deadline was behind the end of the counter's range. *)
DeadlineWrapped == ticks < ms
=============================================================================
