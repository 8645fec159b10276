-------------------------------- MODULE Phy --------------------------------
(***************************************************************************)
(* The radio driver, phy/at86rf233/src/phy.c and phy/at86rf231/src/phy.c   *)
(* (their control is the same), with the transceiver it drives.            *)
(*                                                                         *)
(* The transceiver is external code: its state machine is what the driver  *)
(* relies on. It moves between any two register accesses of the driver     *)
(* unless the driver has forced it off, which every change of state begins *)
(* with; the accesses that follow until the receiver or the transmitter is *)
(* on are one step with it. A change of state succeeds within the retries  *)
(* of phyTrxSetState.                                                      *)
(***************************************************************************)
EXTENDS Integers, Sequences, FiniteSets

CONSTANTS
  Results,      \* the ways a transmission may end: subset of Tracs
  Values,       \* the channels, addresses and powers that occur
  Antennas,     \* the antenna modes that occur: subset of Modes
  MaxFrames,    \* bound: frames heard
  MaxRequests   \* bound: transmissions requested and settings changed

Tracs == {"SUCCESS", "SUCCESS_DATA_PENDING", "CHANNEL_ACCESS_FAILURE", "NO_ACK", "INVALID"}

Modes == {"SEL_DISABLED", "ANT1", "ANT2", "DIVERSITY"}

ASSUME PhyAssumption ==
  /\ Values \subseteq Nat \ {0} /\ Antennas \subseteq Modes
  /\ Results \subseteq Tracs /\ {MaxFrames, MaxRequests} \subseteq Nat

VARIABLES
  phyState, phyRxState,
  frontend,     \* phyFrontendBypass, the pins CSD and CPS, the bit PA_EXT_EN
  settings,     \* nwkIb.addr, nwkIb.panId, phyAntennaMode; channel and power asked for
  registers,    \* the registers of the transceiver that hold them
  radio,        \* the transceiver
  pc,           \* "app": outside the driver; "read": a frame is to be read; "wait":
                \* after PHY_DataInd; "end": a transmission is to be confirmed;
                \* "random", "ed": inside PHY_RandomReq, PHY_EdReq
  inds,         \* what was read for each PHY_DataInd
  cut,          \* the last frame whose acknowledgement was stopped half-way
  heard, requests,
  result,       \* how the last transmission requested has ended, or "none"
  answer        \* the status of the last PHY_DataConf, or "none"

service == <<inds, cut, heard, requests, result, answer>>
setup == <<settings, registers>>
vars == <<phyState, phyRxState, frontend, setup, radio, pc, service>>

Statuses == {"SUCCESS", "CHANNEL_ACCESS_FAILURE", "NO_ACK", "ERROR"}
TrxStates == {"TRX_OFF", "RX_ON", "BUSY_RX", "RX_AACK_ON", "BUSY_RX_AACK",
              "TX_ARET_ON", "BUSY_TX_ARET", "SLEEP"}

NoFrame == 0
Frames == 1..MaxFrames

\* What the frame buffer holds: a frame, all of it, and received in RX_AACK_ON.
Buffers == [frame : Frames \cup {NoFrame}, whole : BOOLEAN, filtered : BOOLEAN]
Empty == [frame |-> NoFrame, whole |-> FALSE, filtered |-> FALSE]

Radios ==
  [state : TrxStates, irq : BOOLEAN, trac : Tracs, safe : BOOLEAN,
   buffer : Buffers,
   held : BOOLEAN,                   \* the buffer is protected until it is read
   acking : Frames \cup {NoFrame}]   \* the frame being acknowledged

\* What a field holds before it is set.
Unset == 0
Fields == Values \cup {Unset}

Settings == [channel : Fields, panId : Fields, addr : Fields, txPower : Fields,
             antenna : Modes]
Defaults == [channel |-> Unset, panId |-> Unset, addr |-> Unset, txPower |-> Unset,
             antenna |-> "SEL_DISABLED"]

\* pdt: the bits of PDT_THRES that are set; antDiv: the fields of ANT_DIV.
Registers == [channel : Fields, panId : Fields, addr : Fields, seed : Fields,
              txPower : Fields, pdt : SUBSET (0..2),
              antDiv : SUBSET {"ANT_EXT_SW_EN", "ANT_DIV_EN", "ANT1", "ANT2"}]

\* The registers after a reset: not set, but for PDT_THRES, which is 7.
HAL_PhyReset == [channel |-> Unset, panId |-> Unset, addr |-> Unset, seed |-> Unset,
                 txPower |-> Unset, pdt |-> 0..2, antDiv |-> {}]

\* The pins of the frontend.
HAL_PhyFrontendSetShutdown(f, shutdown) ==
  IF shutdown THEN [f EXCEPT !.csd = FALSE, !.cps = FALSE] ELSE [f EXCEPT !.csd = TRUE]
HAL_PhyFrontendEnableLNA(f, enabled) == [f EXCEPT !.cps = enabled]

halPhyInit == frontend = [bypass |-> FALSE, csd |-> TRUE, cps |-> FALSE, pa |-> FALSE]

\* Before PHY_Init, after HAL_Init.
Init ==
  /\ phyState = "INITIAL" /\ phyRxState = FALSE
  /\ halPhyInit
  /\ settings = Defaults
  /\ registers = HAL_PhyReset
  /\ radio = [state |-> "TRX_OFF", irq |-> FALSE, trac |-> "INVALID", safe |-> FALSE,
              buffer |-> Empty, held |-> FALSE, acking |-> NoFrame]
  /\ pc = "app"
  /\ inds = <<>> /\ cut = NoFrame /\ heard = 0 /\ requests = 0
  /\ result = "none" /\ answer = "none"

-----------------------------------------------------------------------------
(***************************************************************************)
(* Access to the transceiver.                                              *)
(***************************************************************************)

\* Reading IRQ_STATUS clears it.
ReadIrq(r) == [r EXCEPT !.irq = FALSE]

\* TRX_CMD_FORCE_TRX_OFF stops whatever goes on and gives up the frame buffer.
phyTrxSetState(r, state) ==
  [r EXCEPT !.state = state, !.held = FALSE, !.acking = NoFrame]

\* Faulty variant, for mutation: the interrupt status is not read.
phySetRxState_KeepsIrq(r, rx) ==
  phyTrxSetState(r, IF rx THEN "RX_AACK_ON" ELSE "TRX_OFF")

phySetRxState(r, rx) ==
  phyTrxSetState(ReadIrq(r), IF rx THEN "RX_AACK_ON" ELSE "TRX_OFF")

\* The driver has forced the transceiver off in this step.
Forced == cut' = IF radio.acking = NoFrame THEN cut ELSE radio.acking

-----------------------------------------------------------------------------
(***************************************************************************)
(* Requests. The network layer asks for a transmission when the radio is   *)
(* free (RadioOwned of NwkNode); the application changes the state of the  *)
(* receiver, sleeps and asks for random numbers or energy detection only   *)
(* when NWK_Busy is false, so never while a frame is being transmitted.    *)
(***************************************************************************)
Idle == pc = "app" /\ phyState = "IDLE"

PHY_Init ==
  /\ phyState = "INITIAL" /\ phyState' = "IDLE"
  /\ phyRxState' = FALSE
  /\ frontend' = [HAL_PhyFrontendEnableLNA(frontend, FALSE) EXCEPT !.bypass = TRUE, !.pa = FALSE]
  /\ registers' = HAL_PhyReset
  /\ radio' = [radio EXCEPT !.safe = TRUE]
  /\ UNCHANGED <<settings, pc, service>>

PHY_SetRxState(rx) ==
  /\ Idle
  /\ phyRxState' = rx
  /\ radio' = phySetRxState(radio, rx)
  /\ Forced
  /\ UNCHANGED <<phyState, frontend, setup, pc, inds, heard, requests, result, answer>>

\* PHY_FrontendSetBypass, while the frontend is on.
PHY_FrontendSetBypass(bypass) ==
  /\ Idle
  /\ frontend' = [HAL_PhyFrontendEnableLNA(frontend, ~bypass)
                    EXCEPT !.bypass = bypass, !.pa = ~bypass]
  /\ UNCHANGED <<phyState, phyRxState, setup, radio, pc, service>>

\* The settings that have been changed since the start.
Changed(s) == Cardinality({f \in DOMAIN s : s[f] # Defaults[f]})

\* Setting f becomes v, and the registers r.
Set(f, v, r) ==
  /\ Idle
  /\ settings' = [settings EXCEPT ![f] = v]
  /\ requests + Changed(settings') <= MaxRequests
  /\ registers' = r
  /\ UNCHANGED <<phyState, phyRxState, frontend, radio, pc, service>>

\* The fields of these two share their registers with others, which keep theirs.
PHY_SetChannel(v) == Set("channel", v, [registers EXCEPT !.channel = v])
PHY_SetTxPower(v) == Set("txPower", v, [registers EXCEPT !.txPower = v])

PHY_SetPanId(r, v) == [r EXCEPT !.panId = v]
NWK_SetPanId(v) == Set("panId", v, PHY_SetPanId(registers, v))

\* The address is the seed of the random back-off as well.
PHY_SetShortAddr(r, v) == [r EXCEPT !.addr = v, !.seed = v]
NWK_SetAddr(v) == Set("addr", v, PHY_SetShortAddr(registers, v))

\* Antenna diversity needs the lower preamble threshold, a single antenna the upper.
PHY_FrontendSelectAntenna(mode) ==
  Set("antenna", mode,
      [registers EXCEPT
        !.pdt = IF mode = "DIVERSITY" THEN 0..1 ELSE 0..2,
        !.antDiv = IF mode = "SEL_DISABLED" THEN {}
                   ELSE {"ANT_EXT_SW_EN", IF mode = "DIVERSITY" THEN "ANT_DIV_EN" ELSE mode}])

\* Faulty variant, for mutation: the interrupt status is not read.
PHY_DataReq_KeepsIrq ==
  /\ Idle
  /\ requests + Changed(settings) < MaxRequests /\ requests' = requests + 1
  /\ phyState' = "TX_WAIT_END"
  /\ radio' = [phyTrxSetState(radio, "BUSY_TX_ARET") EXCEPT !.buffer = Empty]
  /\ Forced
  /\ result' = "none"
  /\ UNCHANGED <<phyRxState, frontend, setup, pc, inds, heard, answer>>

\* TX_ARET_ON, the frame written to the buffer and the transmission started.
PHY_DataReq ==
  /\ Idle
  /\ requests + Changed(settings) < MaxRequests /\ requests' = requests + 1
  /\ phyState' = "TX_WAIT_END"
  /\ radio' = [ReadIrq(phyTrxSetState(radio, "BUSY_TX_ARET")) EXCEPT !.buffer = Empty]
  /\ Forced
  /\ result' = "none"
  /\ UNCHANGED <<phyRxState, frontend, setup, pc, inds, heard, answer>>

PHY_Sleep ==
  /\ Idle /\ phyState' = "SLEEP"
  /\ frontend' = HAL_PhyFrontendSetShutdown(frontend, TRUE)
  /\ radio' = phyTrxSetState(radio, "SLEEP")
  /\ Forced
  /\ UNCHANGED <<phyRxState, setup, pc, inds, heard, requests, result, answer>>

\* Faulty variant, for mutation: the amplifier stays off after sleep.
PHY_Wakeup_NoLNA ==
  /\ phyState = "SLEEP" /\ phyState' = "IDLE"
  /\ radio' = phySetRxState(radio, phyRxState)
  /\ frontend' = HAL_PhyFrontendSetShutdown(frontend, FALSE)
  /\ UNCHANGED <<phyRxState, setup, pc, service>>

PHY_Wakeup ==
  /\ phyState = "SLEEP" /\ phyState' = "IDLE"
  /\ radio' = phySetRxState(radio, phyRxState)
  /\ LET on == HAL_PhyFrontendSetShutdown(frontend, FALSE)
     IN frontend' = IF frontend.bypass THEN on ELSE HAL_PhyFrontendEnableLNA(on, TRUE)
  /\ UNCHANGED <<phyRxState, setup, pc, service>>

\* PHY_RandomReq and PHY_EdReq listen in the basic receive mode meanwhile.
Measure(request) ==
  /\ Idle
  /\ pc' = request
  /\ radio' = phyTrxSetState(radio, "RX_ON")
  /\ Forced
  /\ UNCHANGED <<phyState, phyRxState, frontend, setup, inds, heard, requests, result, answer>>

Measured ==
  /\ pc' = "app"
  /\ radio' = phySetRxState(radio, phyRxState)
  /\ UNCHANGED <<phyState, phyRxState, frontend, setup, service>>

\* Energy detection reads the interrupt status until its own bit is there.
EdPolls ==
  /\ pc = "ed"
  /\ radio' = ReadIrq(radio)
  /\ UNCHANGED <<phyState, phyRxState, frontend, setup, pc, service>>

PHY_RandomReq == Measure("random") \/ (pc = "random" /\ Measured)
PHY_EdReq == Measure("ed") \/ EdPolls \/ (pc = "ed" /\ Measured)

-----------------------------------------------------------------------------
(***************************************************************************)
(* PHY_TaskHandler                                                         *)
(***************************************************************************)
ReadIrqStatus ==
  /\ pc = "app" /\ phyState \in {"IDLE", "TX_WAIT_END"}
  /\ radio.irq
  /\ radio' = ReadIrq(radio)
  /\ pc' = IF phyState = "IDLE" THEN "read" ELSE "end"
  /\ UNCHANGED <<phyState, phyRxState, frontend, setup, service>>

\* Faulty variant, for mutation: the handler does not wait after the indication.
ReadFrame_NoWait ==
  /\ pc = "read" /\ pc' = "app"
  /\ radio' = [radio EXCEPT !.held = FALSE]
  /\ inds' = Append(inds, radio.buffer)
  /\ UNCHANGED <<phyState, phyRxState, frontend, setup, cut, heard, requests, result, answer>>

\* The frame is read, which ends its protection, and indicated.
ReadFrame ==
  /\ pc = "read" /\ pc' = "wait"
  /\ radio' = [radio EXCEPT !.held = FALSE]
  /\ inds' = Append(inds, radio.buffer)
  /\ UNCHANGED <<phyState, phyRxState, frontend, setup, cut, heard, requests, result, answer>>

\* The handler returns when the transceiver is back in RX_AACK_ON: the 8 times 2048
\* readings outlast the acknowledgement and the frame that may follow it.
phyWaitState ==
  /\ pc = "wait" /\ pc' = "app"
  /\ radio.state = "RX_AACK_ON"
  /\ UNCHANGED <<phyState, phyRxState, frontend, setup, radio, service>>

StatusOf(trac) ==
  IF trac \in {"SUCCESS", "CHANNEL_ACCESS_FAILURE", "NO_ACK"} THEN trac ELSE "ERROR"

\* Faulty variant, for mutation: the driver stays in PHY_STATE_TX_WAIT_END.
ConfirmTx_StaysBusy ==
  /\ pc = "end" /\ pc' = "app"
  /\ radio' = phySetRxState(radio, phyRxState)
  /\ Forced
  /\ answer' = StatusOf(radio.trac)
  /\ UNCHANGED <<phyState, phyRxState, frontend, setup, inds, heard, requests, result>>

\* TRAC_STATUS is read, the receiver restored, and PHY_DataConf called.
ConfirmTx ==
  /\ pc = "end" /\ pc' = "app"
  /\ phyState' = "IDLE"
  /\ radio' = phySetRxState(radio, phyRxState)
  /\ Forced
  /\ answer' = StatusOf(radio.trac)
  /\ UNCHANGED <<phyRxState, frontend, setup, inds, heard, requests, result>>

PHY_TaskHandler == ReadIrqStatus \/ ReadFrame \/ phyWaitState \/ ConfirmTx

-----------------------------------------------------------------------------
(***************************************************************************)
(* The transceiver. In RX_AACK_ON it keeps the frames addressed to it and  *)
(* acknowledges those that ask for it after it has raised TRX_END; in      *)
(* RX_ON it keeps every frame. With RX_SAFE_MODE no frame is received into *)
(* a buffer that has not been read.                                        *)
(***************************************************************************)
DriverUnchanged ==
  UNCHANGED <<phyState, phyRxState, frontend, setup, pc, inds, cut, requests, answer>>

Receives ==
  /\ radio.state \in {"RX_ON", "RX_AACK_ON"} /\ ~radio.held
  /\ heard < MaxFrames /\ heard' = heard + 1
  /\ LET aack == radio.state = "RX_AACK_ON"
     IN radio' = [radio EXCEPT
          !.state = IF aack THEN "BUSY_RX_AACK" ELSE "BUSY_RX",
          !.buffer = [frame |-> heard + 1, whole |-> FALSE, filtered |-> aack]]
  /\ DriverUnchanged /\ UNCHANGED result

ListensAgain(r) ==
  [r EXCEPT !.state = IF @ = "BUSY_RX_AACK" THEN "RX_AACK_ON" ELSE "RX_ON"]

FrameEnds(kept, ack) ==
  LET end == [radio EXCEPT !.buffer.whole = TRUE, !.irq = TRUE, !.held = radio.safe]
  IN /\ radio.state \in {"BUSY_RX", "BUSY_RX_AACK"} /\ radio.acking = NoFrame
     /\ ack => kept /\ radio.state = "BUSY_RX_AACK"
     /\ radio' = IF ack THEN [end EXCEPT !.acking = radio.buffer.frame]
                 ELSE ListensAgain(IF kept THEN end ELSE radio)
     /\ DriverUnchanged /\ UNCHANGED <<heard, result>>

AckSent ==
  /\ radio.acking # NoFrame
  /\ radio' = ListensAgain([radio EXCEPT !.acking = NoFrame])
  /\ DriverUnchanged /\ UNCHANGED <<heard, result>>

TxEnds(trac) ==
  /\ radio.state = "BUSY_TX_ARET"
  /\ radio' = [radio EXCEPT !.state = "TX_ARET_ON", !.irq = TRUE, !.trac = trac]
  /\ result' = trac
  /\ DriverUnchanged /\ UNCHANGED heard

ReceptionEnds == AckSent \/ \E kept, ack \in BOOLEAN : FrameEnds(kept, ack)
TransmissionEnds == \E trac \in Results : TxEnds(trac)

Transceiver == Receives \/ ReceptionEnds \/ TransmissionEnds

Request ==
  \/ PHY_Init
  \/ \E b \in BOOLEAN : PHY_SetRxState(b) \/ PHY_FrontendSetBypass(b)
  \/ \E v \in Values :
       PHY_SetChannel(v) \/ PHY_SetTxPower(v) \/ NWK_SetPanId(v) \/ NWK_SetAddr(v)
  \/ \E mode \in Antennas : PHY_FrontendSelectAntenna(mode)
  \/ PHY_DataReq
  \/ PHY_Sleep
  \/ PHY_RandomReq
  \/ PHY_EdReq

Next == Request \/ PHY_Wakeup \/ PHY_TaskHandler \/ Transceiver

Spec == Init /\ [][Next]_vars

\* The main loop runs the handler; the transceiver ends what it has begun.
Fairness ==
  /\ WF_vars(PHY_TaskHandler)
  /\ WF_vars(ReceptionEnds)
  /\ WF_vars(TransmissionEnds)

-----------------------------------------------------------------------------
(***************************************************************************)
(* Properties.                                                             *)
(***************************************************************************)

\* Every variable has the type of the C variable it stands for.
TypeOK ==
  /\ phyState \in {"INITIAL", "IDLE", "SLEEP", "TX_WAIT_END"}
  /\ phyRxState \in BOOLEAN
  /\ frontend \in [bypass : BOOLEAN, csd : BOOLEAN, cps : BOOLEAN, pa : BOOLEAN]
  /\ settings \in Settings /\ registers \in Registers
  /\ radio \in Radios
  /\ pc \in {"app", "read", "wait", "end", "random", "ed"}
  /\ inds \in Seq(Buffers)
  /\ cut \in Frames \cup {NoFrame}
  /\ heard \in 0..MaxFrames /\ requests \in 0..MaxRequests
  /\ result \in Tracs \cup {"none"} /\ answer \in Statuses \cup {"none"}

\* A transmission is confirmed after the radio has ended it, with the status of its
\* own end: TRX_END of a frame received before PHY_DataReq is not taken for it.
ConfirmAnswersRequest ==
  requests > 0 /\ phyState # "TX_WAIT_END" =>
    result # "none" /\ answer = StatusOf(result)

\* Each indication is of one whole frame that has passed the address filter, later
\* than the one before: no frame is read twice, overwritten while it waits to be
\* read, or left over from a measurement in the basic receive mode.
IndicationIsFrame ==
  /\ \A k \in 1..Len(inds) : inds[k].whole /\ inds[k].filtered
  /\ \A k \in 2..Len(inds) : inds[k].frame > inds[k - 1].frame

\* A frame the network layer has seen is not one whose acknowledgement the driver
\* has stopped: its sender would send again what was received.
IndicatedIsAcknowledged == \A k \in 1..Len(inds) : inds[k].frame # cut

\* Outside the driver the radio, its frontend and its registers are as last asked
\* for, after a transmission, a measurement or a sleep as before; the threshold of
\* the receiver fits the antennas.
RadioAsConfigured ==
  /\ Idle => radio.state \in IF phyRxState THEN {"RX_AACK_ON", "BUSY_RX_AACK"}
                                           ELSE {"TRX_OFF"}
  /\ phyState = "TX_WAIT_END" => radio.state \in {"BUSY_TX_ARET", "TX_ARET_ON"}
  /\ phyState = "SLEEP" =>
       radio.state = "SLEEP" /\ ~frontend.csd /\ ~frontend.cps
  /\ phyState \in {"IDLE", "TX_WAIT_END"} =>
       frontend.csd /\ frontend.cps = ~frontend.bypass
  /\ phyState # "INITIAL" => frontend.pa = ~frontend.bypass
  /\ \A f \in {"channel", "panId", "addr", "txPower"} : registers[f] = settings[f]
  /\ registers.seed = settings.addr
  /\ registers.pdt = (IF settings.antenna = "DIVERSITY" THEN 0..1 ELSE 0..2)
  /\ "ANT_DIV_EN" \in registers.antDiv <=> settings.antenna = "DIVERSITY"
=============================================================================
