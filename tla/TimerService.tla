---------------------------- MODULE TimerService ----------------------------
(***************************************************************************)
(* What sys/src/sysTimer.c promises its users, without the list it keeps:  *)
(* every running timer has an instant at which it is due, timers fire in   *)
(* the order of these instants, and never before the ticks counted reach   *)
(* them. SysTimer implements this specification.                           *)
(*                                                                         *)
(* The service has a clock of its own, base, that follows the ticks only   *)
(* when the main loop calls SYS_TimerTaskHandler: an interval runs from    *)
(* base, so a timer started while ticks are pending is due that much       *)
(* earlier in real time, and a handler that restarts its own timer keeps   *)
(* a period without drift.                                                 *)
(***************************************************************************)
EXTENDS Integers

CONSTANTS
  Timers,     \* the SYS_Timer_t structures of the program
  Periodic,   \* those with SYS_TIMER_PERIODIC_MODE
  Intervals   \* the intervals they are started with

VARIABLES
  now,        \* time counted by the tick interrupt
  base,       \* time the service has caught up with
  due,        \* when each timer is to fire, Off when it does not run
  interval    \* the interval each timer was last started with

vars == <<now, base, due, interval>>

Off == -1
Running == {t \in Timers : due[t] # Off}

Init ==
  /\ now = 0 /\ base = 0
  /\ due = [t \in Timers |-> Off]
  /\ interval = [t \in Timers |-> 0]

Tick ==
  /\ now' > now
  /\ UNCHANGED <<base, due, interval>>

Start(t, i) ==
  /\ t \notin Running
  /\ due' = [due EXCEPT ![t] = base + i]
  /\ interval' = [interval EXCEPT ![t] = i]
  /\ UNCHANGED <<now, base>>

Stop(t) ==
  /\ t \in Running
  /\ due' = [due EXCEPT ![t] = Off]
  /\ UNCHANGED <<now, base, interval>>

Fire(t) ==
  /\ t \in Running
  /\ due[t] <= now
  /\ \A u \in Running : due[t] <= due[u]
  /\ base' = due[t]
  /\ due' = [due EXCEPT ![t] = IF t \in Periodic THEN base' + interval[t] ELSE Off]
  /\ UNCHANGED <<now, interval>>

\* The service catches up with the ticks, but not past a timer that is due.
Advance ==
  /\ base < base' /\ base' <= now
  /\ \A t \in Running : base' < due[t]
  /\ UNCHANGED <<now, due, interval>>

Next ==
  \/ Tick
  \/ \E t \in Timers : Stop(t) \/ Fire(t)
  \/ \E t \in Timers, i \in Intervals : Start(t, i)
  \/ Advance

Spec == Init /\ [][Next]_vars

\* No timer is overdue with respect to the clock its interval runs by.
NeverLate == \A t \in Running : base <= due[t]
=============================================================================
