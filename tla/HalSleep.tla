------------------------------ MODULE HalSleep ------------------------------
(***************************************************************************)
(* HAL_Sleep, hal/drivers/*/halSleep.c. The AVR drivers stop the processor *)
(* and let the asynchronous timer wake it, once for every full round of    *)
(* the timer and once for the rest; other interrupts may wake it too. The  *)
(* others (SAMD, XMEGA) wait a millisecond at a time.                      *)
(*                                                                         *)
(* Time is counted in ticks of the timer, or in milliseconds. The code     *)
(* between two waits takes less than a tick: after a wake-up by the timer  *)
(* it ends before the next one, after another wake-up one may come.        *)
(***************************************************************************)
EXTENDS Integers

CONSTANTS
  Intervals,   \* the milliseconds asked of the AVR drivers
  Waits,       \* the milliseconds asked of the others
  Wrap,        \* ticks of a round of the timer, 256 in the code
  Word,        \* values of a uint32_t, 2^32
  HalfWord,    \* values of a uint16_t, 2^16
  MaxOthers    \* bound: other wake-ups during one sleep

VARIABLES
  cpu,         \* "off": outside HAL_Sleep; "loop": at the top of the loop; "armed":
               \* before the sleep instruction; "asleep"; "awake": before the event is
               \* read; "count": after; "delay"; "done": HAL_Sleep has returned
  left,        \* the local variables integer and fractional
  timer,       \* OCR2A, and the interrupt requested by its match
  event,       \* halSleepTimerEvent
  seen,        \* the local variable event
  asked,       \* the time asked for, in thousandths of a tick, or of a millisecond
  elapsed,     \* ticks, or milliseconds, gone by
  others,      \* other wake-ups so far
  straddle     \* a tick may come before the next wait

vars == <<cpu, left, timer, event, seen, asked, elapsed, others, straddle>>

PRESCALED_CLOCK == 32
Unset == Wrap

Init ==
  /\ cpu = "off"
  /\ left = [integer |-> 0, fractional |-> 0]
  /\ timer = [ocr |-> Unset, pending |-> FALSE]
  /\ event = FALSE /\ seen = FALSE
  /\ asked = 0 /\ elapsed = 0 /\ others = 0 /\ straddle = FALSE

Called(time, ticks, at, first) ==
  /\ cpu = "off" /\ cpu' = IF ticks = 0 THEN "done" ELSE at
  /\ left' = first
  /\ asked' = time
  /\ UNCHANGED <<timer, event, seen, elapsed, others, straddle>>

\* HAL_Sleep of the AVR drivers up to its loop. The counter of the timer starts at zero.
HAL_Sleep(interval) ==
  LET ticks == ((interval * PRESCALED_CLOCK) % Word) \div 1000
  IN Called(interval * PRESCALED_CLOCK, ticks, "loop",
            [integer |-> (ticks \div Wrap) % HalfWord, fractional |-> ticks % Wrap])

\* HAL_Sleep of the others.
HAL_Sleep_Wait(interval) ==
  Called(interval * 1000, interval, "delay", [integer |-> interval, fractional |-> 0])

\* The rest is waited for after the full rounds: the counter is at zero then.
NextMatch == IF left.integer > 0 THEN Wrap - 1 ELSE left.fractional

Arm ==
  /\ cpu = "loop"
  /\ event' = FALSE
  /\ IF left.integer > 0 \/ left.fractional > 0
       THEN cpu' = "armed" /\ timer' = [timer EXCEPT !.ocr = NextMatch]
       ELSE cpu' = "done" /\ timer' = [ocr |-> Unset, pending |-> FALSE]
  /\ UNCHANGED <<left, seen, asked, elapsed, others, straddle>>

FallAsleep ==
  /\ cpu = "armed" /\ cpu' = "asleep"
  /\ straddle' = FALSE
  /\ UNCHANGED <<left, timer, event, seen, asked, elapsed, others>>

ReadEvent ==
  /\ cpu = "awake" /\ cpu' = "count"
  /\ seen' = event
  /\ UNCHANGED <<left, timer, event, asked, elapsed, others, straddle>>

\* Faulty variant, for mutation: any wake-up counts.
Count_AnyWakeup ==
  /\ cpu = "count" /\ cpu' = "loop"
  /\ left' = IF left.integer > 0 THEN [left EXCEPT !.integer = @ - 1]
             ELSE [left EXCEPT !.fractional = 0]
  /\ UNCHANGED <<timer, event, seen, asked, elapsed, others, straddle>>

Count ==
  /\ cpu = "count" /\ cpu' = "loop"
  /\ left' = IF ~seen THEN left
             ELSE IF left.integer > 0 THEN [left EXCEPT !.integer = @ - 1]
             ELSE [left EXCEPT !.fractional = 0]
  /\ UNCHANGED <<timer, event, seen, asked, elapsed, others, straddle>>

\* HAL_TimerDelay(1000), and the loop around it.
Delay ==
  /\ cpu = "delay"
  /\ left' = [left EXCEPT !.integer = @ - 1] /\ elapsed' = elapsed + 1
  /\ cpu' = IF left.integer = 1 THEN "done" ELSE "delay"
  /\ UNCHANGED <<timer, event, seen, asked, others, straddle>>

\* HAL_Sleep returns to the application.
Returned ==
  /\ cpu = "done" /\ cpu' = "off"
  /\ left' = [integer |-> 0, fractional |-> 0]
  /\ timer' = [ocr |-> Unset, pending |-> FALSE]
  /\ event' = FALSE /\ seen' = FALSE /\ straddle' = FALSE
  /\ asked' = 0 /\ elapsed' = 0 /\ others' = 0

-----------------------------------------------------------------------------
\* ISR(TIMER2_COMPA_vect): at any point of the loop, and it ends the sleep.
TIMER2_COMPA ==
  /\ timer.pending /\ timer' = [timer EXCEPT !.pending = FALSE]
  /\ event' = TRUE
  /\ cpu' = IF cpu = "asleep" THEN "awake" ELSE cpu
  /\ UNCHANGED <<left, seen, asked, elapsed, others, straddle>>

OtherInterrupt ==
  /\ cpu = "asleep" /\ cpu' = "awake"
  /\ others < MaxOthers /\ others' = others + 1
  /\ straddle' = TRUE
  /\ UNCHANGED <<left, timer, event, seen, asked, elapsed>>

\* The timer counts; the tick after its counter equals OCR2A requests the interrupt.
Tick ==
  /\ cpu = "asleep" \/ straddle
  /\ cpu \in {"loop", "armed", "asleep", "awake", "count"} /\ ~timer.pending
  /\ elapsed' = elapsed + 1
  /\ timer' = [timer EXCEPT !.pending = elapsed % Wrap = timer.ocr]
  /\ straddle' = FALSE
  /\ UNCHANGED <<cpu, left, event, seen, asked, others>>

Loop == Arm \/ FallAsleep \/ ReadEvent \/ Count \/ Delay
Timer == Tick \/ TIMER2_COMPA

Next ==
  \/ \E interval \in Intervals : HAL_Sleep(interval)
  \/ \E interval \in Waits : HAL_Sleep_Wait(interval)
  \/ Loop
  \/ Timer
  \/ OtherInterrupt

-----------------------------------------------------------------------------
\* Every variable has the type of the C variable it stands for.
TypeOK ==
  /\ cpu \in {"off", "loop", "armed", "asleep", "awake", "count", "delay", "done"}
  /\ left \in [integer : Nat, fractional : 0..(Wrap - 1)]
  /\ timer \in [ocr : 0..Wrap, pending : BOOLEAN]
  /\ {event, seen, straddle} \subseteq BOOLEAN
  /\ {asked, elapsed} \subseteq Nat /\ others \in 0..MaxOthers

\* HAL_Sleep returns less than one tick, or one millisecond, before the time asked of
\* it, the part of a tick that the division drops; and not later than one after it but
\* for a round of the timer for each wake-up by another source: such a wake-up may lose
\* the match that comes while the event is cleared, and no more than that.
SleepsItsTime ==
  cpu = "done" => /\ 1000 * (elapsed + 1) > asked
                  /\ 1000 * elapsed <= asked + 1000 * (1 + Wrap * others)
=============================================================================
