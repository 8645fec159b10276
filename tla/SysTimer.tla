------------------------------ MODULE SysTimer ------------------------------
(***************************************************************************)
(* The software timers: sys/src/sysTimer.c, and the tick counter of        *)
(* hal/.../halTimer.c it is driven by.                                     *)
(*                                                                         *)
(* The running timers are a list in which each timeout is relative to the  *)
(* timer before it. SYS_TimerTaskHandler takes the ticks counted since its *)
(* last call and walks the list, calling handlers that start and stop      *)
(* timers, and so change the list, in the middle of the walk; the tick     *)
(* interrupt may come between any two steps.                               *)
(***************************************************************************)
EXTENDS Integers, Sequences, SequencesExt

CONSTANTS
  Timers,     \* the SYS_Timer_t structures of the program
  Periodic,   \* those with SYS_TIMER_PERIODIC_MODE
  Intervals,  \* the intervals they are started with
  TickTime,   \* HAL_TIMER_INTERVAL
  IrqMod,     \* halTimerIrqCount counts modulo this (256)
  MaxTicks    \* bound: interrupts in a behaviour

ASSUME TimerAssumption ==
  /\ Periodic \subseteq Timers
  /\ Intervals \subseteq Nat \ {0}
  /\ {TickTime, MaxTicks} \subseteq Nat \ {0}
  /\ IrqMod \in Nat /\ IrqMod > 1

VARIABLES
  irq,        \* halTimerIrqCount
  timers,     \* the list of running timers, head first
  timeout,    \* the timeout field: time after the one before in the list
  interval,   \* the interval field
  pc,         \* "idle": outside SYS_TimerTaskHandler; "loop": in its while;
              \* "handler": in the handler of a timer that came due
  elapsed,    \* the local variable elapsed
  ticks       \* interrupts so far

vars == <<irq, timers, timeout, interval, pc, elapsed, ticks>>
list == <<timers, timeout, interval>>

\* The time from the start of the walk to the k-th timer of the list.
Offset(k) == FoldLeft(LAMBDA sum, t : sum + timeout[t], 0, SubSeq(timers, 1, k))

\* SYS_TimerStarted
Started(t) == \E k \in DOMAIN timers : timers[k] = t

-----------------------------------------------------------------------------
\* Faulty variant, for mutation: the timer behind keeps its timeout.
PlaceAfter_KeepsNext(l, to, k, t, gap) ==
  /\ timers' = SubSeq(l, 1, k) \o <<t>> \o SubSeq(l, k + 1, Len(l))
  /\ timeout' = [to EXCEPT ![t] = gap]

\* placeTimer: t comes after the k-th timer of list l, gap later; the timer that
\* followed is now relative to t.
PlaceAfter(l, to, k, t, gap) ==
  /\ timers' = SubSeq(l, 1, k) \o <<t>> \o SubSeq(l, k + 1, Len(l))
  /\ timeout' = [u \in Timers |-> IF u = t THEN gap
                                  ELSE IF k < Len(l) /\ u = l[k + 1] THEN to[u] - gap
                                  ELSE to[u]]

\* placeTimer: the place of an interval i in a list whose timers are due at the
\* offsets off[1] <= off[2] ...: behind all that are not later.
placeTimer(l, off, t, i) ==
  LET k == Len(SelectSeq(off, LAMBDA o : o <= i))
  IN PlaceAfter(l, timeout, k, t, IF k = 0 THEN i ELSE i - off[k])

Offsets(from) == [k \in 1..(Len(timers) - from) |-> Offset(k + from) - Offset(from)]

HAL_TimerInit == irq = 0

Init ==
  /\ HAL_TimerInit
  /\ timers = <<>>
  /\ timeout = [t \in Timers |-> 0]
  /\ interval = [t \in Timers |-> 0]
  /\ pc = "idle" /\ elapsed = 0
  /\ ticks = 0

\* The overflow interrupt. The main loop is assumed to come round before the
\* 8-bit counter wraps.
TimerInterrupt ==
  /\ ticks < MaxTicks
  /\ irq < IrqMod - 1
  /\ irq' = (irq + 1) % IrqMod
  /\ ticks' = ticks + 1
  /\ UNCHANGED <<list, pc, elapsed>>

\* The program calls SYS_TimerStart and SYS_TimerStop between the turns of the main
\* loop and from the handlers. Starting a timer that runs already does nothing.
Calls == pc \in {"idle", "handler"}

SYS_TimerStart(t, i) ==
  /\ Calls
  /\ ~Started(t)
  /\ interval' = [interval EXCEPT ![t] = i]
  /\ placeTimer(timers, Offsets(0), t, i)
  /\ UNCHANGED <<irq, pc, elapsed, ticks>>

\* Faulty variant, for mutation: the timer behind comes due early.
SYS_TimerStop_KeepsNext(t) ==
  /\ Calls
  /\ Started(t)
  /\ timers' = Remove(timers, t)
  /\ UNCHANGED <<timeout, irq, interval, pc, elapsed, ticks>>

SYS_TimerStop(t) ==
  /\ Calls
  /\ \E k \in DOMAIN timers :
       /\ timers[k] = t
       /\ timers' = RemoveAt(timers, k)
       /\ timeout' = IF k = Len(timers) THEN timeout
                     ELSE [timeout EXCEPT ![timers[k + 1]] = @ + timeout[t]]
  /\ UNCHANGED <<irq, interval, pc, elapsed, ticks>>

-----------------------------------------------------------------------------
(***************************************************************************)
(* SYS_TimerTaskHandler                                                    *)
(***************************************************************************)

\* The ticks are read and reset with interrupts off.
TakeTicks ==
  /\ pc = "idle" /\ irq > 0
  /\ elapsed' = irq * TickTime
  /\ irq' = 0
  /\ pc' = "loop"
  /\ UNCHANGED <<list, ticks>>

\* Faulty variant, for mutation: a timer due exactly now is left for later.
Due_Strict == timers # <<>> /\ timeout[Head(timers)] < elapsed

Due == timers # <<>> /\ timeout[Head(timers)] <= elapsed

\* The first timer leaves the list, a periodic one is placed again, and the
\* handler is called.
CallHandler ==
  /\ pc = "loop" /\ Due
  /\ LET t == Head(timers)
     IN /\ elapsed' = elapsed - timeout[t]
        /\ IF t \in Periodic THEN placeTimer(Tail(timers), Offsets(1), t, interval[t])
           ELSE timers' = Tail(timers) /\ UNCHANGED timeout
  /\ pc' = "handler"
  /\ UNCHANGED <<irq, interval, ticks>>

HandlerReturns ==
  /\ pc = "handler"
  /\ pc' = "loop"
  /\ UNCHANGED <<irq, list, elapsed, ticks>>

TaskHandlerReturns ==
  /\ pc = "loop" /\ ~Due
  /\ timeout' = IF timers = <<>> THEN timeout
                ELSE [timeout EXCEPT ![Head(timers)] = @ - elapsed]
  /\ elapsed' = 0
  /\ pc' = "idle"
  /\ UNCHANGED <<irq, timers, interval, ticks>>

SYS_TimerTaskHandler == TakeTicks \/ CallHandler \/ HandlerReturns \/ TaskHandlerReturns

Next ==
  \/ TimerInterrupt
  \/ SYS_TimerTaskHandler
  \/ \E t \in Timers : SYS_TimerStop(t) \/ \E i \in Intervals : SYS_TimerStart(t, i)

Spec == Init /\ [][Next]_vars

\* The main loop calls SYS_TimerTaskHandler for ever, and handlers return.
Fairness == WF_vars(SYS_TimerTaskHandler)

FairSpec == Spec /\ Fairness

-----------------------------------------------------------------------------
(***************************************************************************)
(* Properties.                                                             *)
(***************************************************************************)

\* Every variable has the type of the C variable it stands for; a timer is in the
\* list at most once, and no unsigned subtraction wraps.
TypeOK ==
  /\ irq \in 0..(IrqMod - 1)
  /\ timers \in Seq(Timers) /\ IsInjective(timers)
  /\ timeout \in [Timers -> Nat]
  /\ interval \in [Timers -> Intervals \cup {0}]
  /\ pc \in {"idle", "loop", "handler"}
  /\ elapsed \in Nat
  /\ ticks \in 0..MaxTicks

\* The instants the list of relative timeouts stands for.
Now  == ticks * TickTime
Base == Now - irq * TickTime - elapsed
DueAt(t) == IF ~Started(t) THEN -1
            ELSE LET k == CHOOSE k \in DOMAIN timers : timers[k] = t IN Base + Offset(k)

Service == INSTANCE TimerService
             WITH now <- Now, base <- Base, due <- [t \in Timers |-> DueAt(t)]

\* The delta list implements the service: whatever is started and stopped, by the
\* program or by a handler in the middle of the walk, every other timer keeps the
\* instant at which it is due, and the timers fire in that order and in time.
ImplementsService == Service!Spec

\* A timer that is due by the ticks counted is called, unless it is stopped: no
\* backlog of ticks and no handler keeps it waiting for ever.
OverdueIsCalled ==
  \A t \in Timers : (Started(t) /\ DueAt(t) <= Now) ~> (~Started(t) \/ DueAt(t) > Now)
=============================================================================
