----------------------------- MODULE RadioSleep -----------------------------
(***************************************************************************)
(* A sleeping node: the application calls NWK_SleepReq, HAL_Sleep and      *)
(* NWK_WakeupReq one after the other. Phy composed with HalSleep: while    *)
(* the processor sleeps neither the main loop nor the radio moves.         *)
(***************************************************************************)
EXTENDS Phy

CONSTANTS Intervals, Waits, Wrap, Word, HalfWord, MaxOthers

\* No interval overflows the 32-bit product with PRESCALED_CLOCK: the longest is below
\* 2^27 ms, a day and a half. With rounds of 256 its number of rounds fits 16 bits then.
ASSUME SleepAssumption ==
  /\ Intervals \cup Waits \subseteq Nat
  /\ {Wrap, Word, HalfWord, MaxOthers} \subseteq Nat /\ Wrap > 1
  /\ \A interval \in Intervals :
       /\ interval * 32 < Word
       /\ ((interval * 32) \div 1000) \div Wrap < HalfWord

VARIABLES cpu, left, timer, event, seen, asked, elapsed, others, straddle

Sleep == INSTANCE HalSleep

sleepVars == <<left, timer, event, seen, asked, elapsed, others, straddle>>
allVars == <<vars, cpu, sleepVars>>

SystemInit == Init /\ Sleep!Init

\* NWK_SleepReq is PHY_Sleep, NWK_WakeupReq is PHY_Wakeup.
Awake == (Request \/ PHY_TaskHandler \/ Transceiver) /\ UNCHANGED <<cpu, sleepVars>>
Asleep == phyState = "SLEEP" /\ Sleep!Next /\ UNCHANGED vars
WakesUp == Sleep!Returned /\ PHY_Wakeup

SystemNext == Awake \/ Asleep \/ WakesUp

\* The application that went to sleep goes on to HAL_Sleep and wakes the radio up;
\* a measurement ends.
SystemSpec ==
  /\ SystemInit /\ [][SystemNext]_allVars
  /\ WF_allVars(PHY_TaskHandler /\ UNCHANGED <<cpu, sleepVars>>)
  /\ WF_allVars((ReceptionEnds \/ TransmissionEnds) /\ UNCHANGED <<cpu, sleepVars>>)
  /\ WF_allVars(pc \in {"random", "ed"} /\ Measured /\ UNCHANGED <<cpu, sleepVars>>)
  /\ WF_allVars(Asleep /\ ~Sleep!OtherInterrupt)
  /\ WF_allVars(WakesUp)

SleepsItsTime == Sleep!SleepsItsTime

\* The radio does not stay in a transmission, a measurement or a sleep: once started
\* it is again and again free for the next request.
EventuallyIdle == phyState # "INITIAL" ~> Idle
=============================================================================
