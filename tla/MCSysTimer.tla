----------------------------- MODULE MCSysTimer -----------------------------
(* A small instance of SysTimer: two one-shot timers and a periodic one, with *)
(* intervals shorter and longer than a tick.                                  *)
EXTENDS SysTimer

CONSTANTS t1, t2, t3
MCTimers == {t1, t2, t3}
MCPeriodic == {t3}
=============================================================================
