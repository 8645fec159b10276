-------------------------- MODULE RadioSleepProofs --------------------------
(***************************************************************************)
(* Proofs about RadioSleep: the driver answers each request with its own   *)
(* result, indicates each frame once and whole, and leaves the radio as    *)
(* it was configured, whatever the transceiver does between two accesses.  *)
(***************************************************************************)
EXTENDS RadioSleep, FiniteSetTheorems, TLAPS

-----------------------------------------------------------------------------
(***************************************************************************)
(* The inductive invariant.                                                *)
(***************************************************************************)

\* Where the driver is.
Control ==
  /\ pc \in {"read", "wait", "random", "ed"} => phyState = "IDLE"
  /\ pc = "end" => phyState = "TX_WAIT_END"
  /\ phyState = "INITIAL" =>
       radio.state = "TRX_OFF" /\ ~radio.irq /\ frontend.csd /\ settings = Defaults
  /\ phyState # "INITIAL" => radio.safe

\* What the transceiver may do at each place of the driver.
RadioState ==
  /\ phyState = "IDLE" /\ pc \in {"app", "read", "wait"} =>
       radio.state \in IF phyRxState THEN {"RX_AACK_ON", "BUSY_RX_AACK"} ELSE {"TRX_OFF"}
  /\ pc \in {"random", "ed"} => radio.state \in {"RX_ON", "BUSY_RX"}
  /\ phyState = "TX_WAIT_END" => radio.state \in {"BUSY_TX_ARET", "TX_ARET_ON"}
  /\ phyState = "SLEEP" => radio.state = "SLEEP"

\* TRX_END during a transmission is its own, and TRAC_STATUS is still its result.
Transmission ==
  /\ phyState = "TX_WAIT_END" /\ (radio.irq \/ pc = "end") => radio.state = "TX_ARET_ON"
  /\ phyState = "TX_WAIT_END" /\ radio.state = "TX_ARET_ON" => result = radio.trac
  /\ ConfirmAnswersRequest

\* The frame in the buffer is later than every frame seen, or cut short.
Fresh == /\ cut < radio.buffer.frame
         /\ \A k \in 1..Len(inds) : inds[k].frame < radio.buffer.frame

Receiving == radio.state \in {"BUSY_RX", "BUSY_RX_AACK"} /\ radio.acking = NoFrame
ToBeRead == phyState = "IDLE" /\ (pc = "read" \/ (pc \in {"app", "wait"} /\ radio.irq))

\* A frame that TRX_END has announced stays in the buffer until it is read.
Reception ==
  /\ Receiving => ~radio.held /\ Fresh
  /\ radio.state = "BUSY_RX_AACK" => radio.buffer.filtered
  /\ ToBeRead => radio.held /\ radio.buffer.whole /\ radio.buffer.filtered /\ Fresh
  /\ pc = "read" => ~radio.irq

\* The application finds an acknowledgement under way only with its frame unread.
Acknowledging ==
  /\ radio.acking # NoFrame =>
       radio.state = "BUSY_RX_AACK" /\ radio.acking = radio.buffer.frame
  /\ pc = "app" /\ radio.acking # NoFrame => radio.irq

\* No frame is numbered higher than those that were heard.
Numbered == /\ cut <= heard /\ radio.buffer.frame <= heard
            /\ \A k \in 1..Len(inds) : inds[k].frame <= heard

\* The settings are where they belong; the rest of RadioAsConfigured is RadioState.
Configured ==
  /\ phyState = "SLEEP" => ~frontend.csd /\ ~frontend.cps
  /\ phyState \in {"IDLE", "TX_WAIT_END"} => frontend.csd /\ frontend.cps = ~frontend.bypass
  /\ phyState # "INITIAL" => frontend.pa = ~frontend.bypass
  /\ \A f \in {"channel", "panId", "addr", "txPower"} : registers[f] = settings[f]
  /\ registers.seed = settings.addr
  /\ registers.pdt = (IF settings.antenna = "DIVERSITY" THEN 0..1 ELSE 0..2)
  /\ "ANT_DIV_EN" \in registers.antDiv <=> settings.antenna = "DIVERSITY"

\* What the radio and the driver's place in its code are.
RadioInv == /\ Control /\ RadioState /\ Transmission /\ Reception /\ Acknowledging /\ Numbered
            /\ IndicationIsFrame /\ IndicatedIsAcknowledged

Inv == TypeOK /\ RadioInv /\ Configured

-----------------------------------------------------------------------------
(***************************************************************************)
(* The transceiver's fields after each access.                             *)
(***************************************************************************)
LEMMA Bounds == MaxFrames \in Nat /\ MaxRequests \in Nat
BY PhyAssumption

\* A radio by its fields, and the fields of a radio.
LEMMA RadioFields ==
  ASSUME NEW r \in Radios
  PROVE  /\ r.state \in TrxStates /\ r.irq \in BOOLEAN /\ r.trac \in Tracs
         /\ r.safe \in BOOLEAN /\ r.buffer \in Buffers /\ r.held \in BOOLEAN
         /\ r.acking \in Frames \cup {NoFrame}
         /\ r.buffer.frame \in Frames \cup {NoFrame}
         /\ r.buffer.whole \in BOOLEAN /\ r.buffer.filtered \in BOOLEAN
BY DEF Radios, Buffers

\* The number of settings changed is a number.
LEMMA ChangedIsNat ==
  ASSUME settings \in Settings
  PROVE  Changed(settings) \in Nat
<1> DEFINE fields == {"channel", "panId", "addr", "txPower", "antenna"}
<1>1. DOMAIN settings = fields
  BY DEF Settings
<1>2. IsFiniteSet(fields)
  <2>1. IsFiniteSet({"channel"} \cup {"panId"} \cup {"addr"} \cup {"txPower"} \cup {"antenna"})
    BY FS_Singleton, FS_Union
  <2>2. fields = {"channel"} \cup {"panId"} \cup {"addr"} \cup {"txPower"} \cup {"antenna"}
    OBVIOUS
  <2> QED BY <2>1, <2>2
<1>3. {f \in DOMAIN settings : settings[f] # Defaults[f]} \subseteq fields
  BY <1>1
<1> HIDE DEF fields
<1>4. IsFiniteSet({f \in DOMAIN settings : settings[f] # Defaults[f]})
  BY <1>2, <1>3, FS_Subset
<1> QED BY <1>4, FS_CardinalityType DEF Changed

LEMMA ForcedFields ==
  ASSUME NEW r \in Radios, NEW state \in TrxStates
  PROVE  /\ phyTrxSetState(r, state) \in Radios
         /\ phyTrxSetState(r, state).state = state
         /\ ~phyTrxSetState(r, state).held
         /\ phyTrxSetState(r, state).acking = NoFrame
         /\ phyTrxSetState(r, state).irq = r.irq
         /\ phyTrxSetState(r, state).trac = r.trac
         /\ phyTrxSetState(r, state).safe = r.safe
         /\ phyTrxSetState(r, state).buffer = r.buffer
BY DEF phyTrxSetState, Radios

LEMMA ReadFields ==
  ASSUME NEW r \in Radios
  PROVE  /\ ReadIrq(r) \in Radios /\ ~ReadIrq(r).irq
         /\ ReadIrq(r).state = r.state /\ ReadIrq(r).held = r.held
         /\ ReadIrq(r).acking = r.acking /\ ReadIrq(r).trac = r.trac
         /\ ReadIrq(r).safe = r.safe /\ ReadIrq(r).buffer = r.buffer
BY DEF ReadIrq, Radios

LEMMA RxFields ==
  ASSUME NEW r \in Radios, NEW rx \in BOOLEAN
  PROVE  /\ phySetRxState(r, rx) \in Radios
         /\ phySetRxState(r, rx).state = IF rx THEN "RX_AACK_ON" ELSE "TRX_OFF"
         /\ ~phySetRxState(r, rx).held
         /\ phySetRxState(r, rx).acking = NoFrame
         /\ ~phySetRxState(r, rx).irq
         /\ phySetRxState(r, rx).trac = r.trac
         /\ phySetRxState(r, rx).safe = r.safe
         /\ phySetRxState(r, rx).buffer = r.buffer
<1>1. ReadIrq(r) \in Radios
  BY ReadFields
<1>2. (IF rx THEN "RX_AACK_ON" ELSE "TRX_OFF") \in TrxStates
  BY DEF TrxStates
<1> QED BY <1>1, <1>2, ReadFields, ForcedFields DEF phySetRxState

-----------------------------------------------------------------------------
\* What was read for an indication.
LEMMA IndicatedFields ==
  ASSUME TypeOK
  PROVE  \A k \in 1..Len(inds) : /\ inds[k] \in Buffers
                                 /\ inds[k].frame \in Frames \cup {NoFrame}
<1>1. \A k \in 1..Len(inds) : inds[k] \in Buffers
  BY DEF TypeOK
<1> QED BY <1>1 DEF Buffers

\* The frame whose acknowledgement the driver may stop has not been indicated.
LEMMA CutIsUnseen ==
  ASSUME Inv, Forced, Idle \/ radio.state # "BUSY_RX_AACK"
  PROVE  /\ cut' \in Frames \cup {NoFrame} /\ cut' <= heard
         /\ \A k \in 1..Len(inds) : inds[k].frame # cut'
<1>1. CASE radio.acking = NoFrame
  BY <1>1 DEF Forced, Inv, TypeOK, RadioInv, Numbered, IndicatedIsAcknowledged
<1>2. CASE radio.acking # NoFrame
  <2>1. radio.state = "BUSY_RX_AACK" /\ radio.acking = radio.buffer.frame
    BY <1>2 DEF Inv, RadioInv, Acknowledging
  <2>2. ToBeRead
    BY <1>2, <2>1 DEF Inv, RadioInv, Acknowledging, Idle, ToBeRead
  <2>3. Fresh
    BY <2>2 DEF Inv, RadioInv, Reception
  <2>4. cut' = radio.buffer.frame
    BY <1>2, <2>1 DEF Forced
  <2>5. /\ radio.buffer.frame \in Frames \cup {NoFrame}
        /\ radio.buffer.frame <= heard
    BY RadioFields DEF Inv, TypeOK, RadioInv, Numbered
  <2>6. \A k \in 1..Len(inds) : inds[k].frame \in Int
    BY IndicatedFields DEF Inv, Frames, NoFrame
  <2> QED BY <2>3, <2>4, <2>5, <2>6, Bounds DEF Fresh, Frames, NoFrame
<1> QED BY <1>1, <1>2

\* A step that leaves the radio without a frame on its way and without one to read.
LEMMA QuietRadio ==
  ASSUME Inv,
         radio' \in Radios,
         radio'.state \notin {"BUSY_RX", "BUSY_RX_AACK"}, radio'.acking = NoFrame,
         radio'.buffer \in {radio.buffer, Empty},
         inds' = inds, heard' = heard,
         cut' = cut \/ (Forced /\ (Idle \/ radio.state # "BUSY_RX_AACK")),
         pc' # "read", ~ToBeRead'
  PROVE  /\ Reception' /\ Acknowledging' /\ Numbered'
         /\ IndicationIsFrame' /\ IndicatedIsAcknowledged'
         /\ cut' \in Frames \cup {NoFrame}
<1>1. /\ cut' \in Frames \cup {NoFrame} /\ cut' <= heard
      /\ \A k \in 1..Len(inds) : inds[k].frame # cut'
  <2>1. CASE cut' = cut
    BY <2>1 DEF Inv, TypeOK, RadioInv, Numbered, IndicatedIsAcknowledged
  <2>2. CASE Forced /\ (Idle \/ radio.state # "BUSY_RX_AACK")
    BY <2>2, CutIsUnseen
  <2> QED BY <2>1, <2>2
<1>2. Reception'
  BY DEF Reception, Receiving
<1>3. Acknowledging'
  BY DEF Acknowledging
<1>4. Numbered'
  BY <1>1 DEF Inv, TypeOK, RadioInv, Numbered, Empty, NoFrame
<1>5. IndicationIsFrame' /\ IndicatedIsAcknowledged'
  BY <1>1 DEF Inv, RadioInv, IndicationIsFrame, IndicatedIsAcknowledged
<1> QED BY <1>1, <1>2, <1>3, <1>4, <1>5

-----------------------------------------------------------------------------
(***************************************************************************)
(* The requests.                                                           *)
(***************************************************************************)
LEMMA SetRxStateInv ==
  ASSUME Inv, NEW rx \in BOOLEAN, PHY_SetRxState(rx)
  PROVE  Inv'
<1> USE DEF PHY_SetRxState
<1>1. radio \in Radios /\ radio' = phySetRxState(radio, rx)
  BY DEF Inv, TypeOK
<1>2. /\ radio' \in Radios /\ ~radio'.irq /\ radio'.acking = NoFrame
      /\ radio'.state = IF rx THEN "RX_AACK_ON" ELSE "TRX_OFF"
      /\ radio'.safe = radio.safe /\ radio'.buffer = radio.buffer
  BY <1>1, RxFields
<1>3. pc' = "app" /\ phyState' = "IDLE" /\ phyState = "IDLE"
  BY DEF Idle
<1>4. /\ Reception' /\ Acknowledging' /\ Numbered'
      /\ IndicationIsFrame' /\ IndicatedIsAcknowledged'
      /\ cut' \in Frames \cup {NoFrame}
  BY <1>2, <1>3, QuietRadio DEF ToBeRead
<1>5. TypeOK'
  BY <1>2, <1>4 DEF Inv, TypeOK, setup
<1>6. Control' /\ RadioState'
  BY <1>2, <1>3 DEF Inv, RadioInv, Control, RadioState
<1>7. Transmission'
  BY <1>3 DEF Inv, RadioInv, Transmission, ConfirmAnswersRequest, StatusOf
<1>8. Configured'
  BY <1>3 DEF Inv, Configured, setup
<1> QED BY <1>4, <1>5, <1>6, <1>7, <1>8 DEF Inv, RadioInv

LEMMA DataReqInv ==
  ASSUME Inv, PHY_DataReq
  PROVE  Inv'
<1> USE DEF PHY_DataReq
<1> DEFINE r == phyTrxSetState(radio, "BUSY_TX_ARET")
<1>1. /\ r \in Radios /\ r.state = "BUSY_TX_ARET" /\ r.acking = NoFrame
      /\ r.safe = radio.safe
  BY ForcedFields DEF Inv, TypeOK, TrxStates
<1>2. /\ ReadIrq(r) \in Radios /\ ReadIrq(r).state = "BUSY_TX_ARET" /\ ~ReadIrq(r).irq
      /\ ReadIrq(r).acking = NoFrame /\ ReadIrq(r).safe = radio.safe
  BY <1>1, ReadFields
<1>3. radio' = [ReadIrq(r) EXCEPT !.buffer = Empty]
  OBVIOUS
<1>4. Empty \in Buffers
  BY DEF Empty, Buffers
<1> HIDE DEF r
<1>5. /\ radio' \in Radios /\ radio'.state = "BUSY_TX_ARET" /\ ~radio'.irq
      /\ radio'.acking = NoFrame /\ radio'.safe = radio.safe /\ radio'.buffer = Empty
  BY <1>2, <1>3, <1>4 DEF Radios
<1>6. pc' = "app" /\ phyState' = "TX_WAIT_END" /\ phyState = "IDLE"
  BY DEF Idle
<1>7. /\ Reception' /\ Acknowledging' /\ Numbered'
      /\ IndicationIsFrame' /\ IndicatedIsAcknowledged'
      /\ cut' \in Frames \cup {NoFrame}
  BY <1>5, <1>6, QuietRadio DEF ToBeRead
<1>8. requests' \in 0..MaxRequests
  BY ChangedIsNat, Bounds DEF Inv, TypeOK
<1>9. TypeOK'
  BY <1>5, <1>6, <1>7, <1>8 DEF Inv, TypeOK, setup
<1>10. Control' /\ RadioState'
  BY <1>5, <1>6 DEF Inv, RadioInv, Control, RadioState
<1>11. Transmission'
  BY <1>5, <1>6 DEF Transmission, ConfirmAnswersRequest
<1>12. Configured'
  BY <1>6 DEF Inv, Configured, setup
<1> QED BY <1>7, <1>9, <1>10, <1>11, <1>12 DEF Inv, RadioInv

LEMMA SleepRequestInv ==
  ASSUME Inv, PHY_Sleep
  PROVE  Inv'
<1> USE DEF PHY_Sleep
<1>1. /\ radio' \in Radios /\ radio'.state = "SLEEP" /\ radio'.acking = NoFrame
      /\ radio'.safe = radio.safe /\ radio'.buffer = radio.buffer
  BY ForcedFields DEF Inv, TypeOK, TrxStates
<1>2. pc' = "app" /\ phyState' = "SLEEP" /\ phyState = "IDLE"
  BY DEF Idle
<1>3. /\ Reception' /\ Acknowledging' /\ Numbered'
      /\ IndicationIsFrame' /\ IndicatedIsAcknowledged'
      /\ cut' \in Frames \cup {NoFrame}
  BY <1>1, <1>2, QuietRadio DEF ToBeRead
<1>4. /\ frontend' \in [bypass : BOOLEAN, csd : BOOLEAN, cps : BOOLEAN, pa : BOOLEAN]
      /\ ~frontend'.csd /\ ~frontend'.cps
      /\ frontend'.pa = frontend.pa /\ frontend'.bypass = frontend.bypass
  BY DEF Inv, TypeOK, HAL_PhyFrontendSetShutdown
<1>5. TypeOK'
  BY <1>1, <1>2, <1>3, <1>4 DEF Inv, TypeOK, setup
<1>6. Control' /\ RadioState'
  BY <1>1, <1>2 DEF Inv, RadioInv, Control, RadioState
<1>7. Transmission'
  BY <1>2 DEF Inv, RadioInv, Transmission, ConfirmAnswersRequest, StatusOf
<1>8. Configured'
  BY <1>2, <1>4 DEF Inv, Configured, setup
<1> QED BY <1>3, <1>5, <1>6, <1>7, <1>8 DEF Inv, RadioInv

LEMMA WakeupInv ==
  ASSUME Inv, PHY_Wakeup
  PROVE  Inv'
<1> USE DEF PHY_Wakeup
<1>1. radio \in Radios /\ phyRxState \in BOOLEAN
  BY DEF Inv, TypeOK
<1>2. /\ radio' \in Radios /\ ~radio'.irq /\ radio'.acking = NoFrame
      /\ radio'.state = IF phyRxState THEN "RX_AACK_ON" ELSE "TRX_OFF"
      /\ radio'.safe = radio.safe /\ radio'.buffer = radio.buffer
  BY <1>1, RxFields
<1>3. pc' = pc /\ pc = "app" /\ phyState' = "IDLE" /\ phyState = "SLEEP"
  BY DEF Inv, TypeOK, RadioInv, Control
<1>4. /\ Reception' /\ Acknowledging' /\ Numbered'
      /\ IndicationIsFrame' /\ IndicatedIsAcknowledged'
  BY <1>2, <1>3, QuietRadio DEF ToBeRead, service
<1>5. /\ frontend' \in [bypass : BOOLEAN, csd : BOOLEAN, cps : BOOLEAN, pa : BOOLEAN]
      /\ frontend'.csd /\ frontend'.cps = ~frontend.bypass
      /\ frontend'.pa = frontend.pa /\ frontend'.bypass = frontend.bypass
  BY <1>3 DEF Inv, TypeOK, Configured, HAL_PhyFrontendSetShutdown, HAL_PhyFrontendEnableLNA
<1>6. TypeOK'
  BY <1>2, <1>3, <1>5 DEF Inv, TypeOK, setup, service
<1>7. Control' /\ RadioState'
  BY <1>2, <1>3 DEF Inv, RadioInv, Control, RadioState
<1>8. Transmission'
  BY <1>3 DEF Inv, RadioInv, Transmission, ConfirmAnswersRequest, StatusOf, service
<1>9. Configured'
  BY <1>3, <1>5 DEF Inv, Configured, setup
<1> QED BY <1>4, <1>6, <1>7, <1>8, <1>9 DEF Inv, RadioInv

\* A setting changes together with its register.
LEMMA SetInv ==
  ASSUME Inv, NEW f, NEW v, NEW r, Set(f, v, r), settings' \in Settings, r \in Registers,
         Configured'
  PROVE  Inv'
<1>1. pc' = "app" /\ pc = "app" /\ phyState' = "IDLE" /\ phyState = "IDLE"
  BY DEF Set, Idle
<1>2. UNCHANGED <<phyRxState, frontend, radio, inds, cut, heard, requests, result, answer>>
  BY DEF Set, service
<1>3. registers' = r
  BY DEF Set
<1>4. TypeOK'
  BY <1>1, <1>2, <1>3 DEF Inv, TypeOK
<1>5. RadioInv'
  BY <1>1, <1>2 DEF Inv, RadioInv, Control, RadioState, Transmission, Reception, Receiving,
       ToBeRead, Fresh, Acknowledging, Numbered, ConfirmAnswersRequest, StatusOf,
       IndicationIsFrame, IndicatedIsAcknowledged
<1> QED BY <1>4, <1>5 DEF Inv

LEMMA SettingsInv ==
  ASSUME Inv, NEW v \in Values,
         PHY_SetChannel(v) \/ PHY_SetTxPower(v) \/ NWK_SetPanId(v) \/ NWK_SetAddr(v)
  PROVE  Inv'
<1>1. v \in Fields /\ settings \in Settings /\ registers \in Registers
  BY DEF Inv, TypeOK, Fields
<1>2. phyState' = "IDLE" /\ phyState = "IDLE" /\ frontend' = frontend
  BY DEF PHY_SetChannel, PHY_SetTxPower, NWK_SetPanId, NWK_SetAddr, Set, Idle
<1>3. CASE PHY_SetChannel(v)
  <2>1. /\ settings' = [settings EXCEPT !.channel = v]
        /\ registers' = [registers EXCEPT !.channel = v]
    BY <1>3 DEF PHY_SetChannel, Set
  <2>2. settings' \in Settings /\ registers' \in Registers
    BY <1>1, <2>1 DEF Settings, Registers
  <2>3. Configured'
    BY <1>1, <1>2, <2>1 DEF Inv, Configured, Settings, Registers
  <2> QED BY <1>3, <2>1, <2>2, <2>3, SetInv DEF PHY_SetChannel
<1>4. CASE PHY_SetTxPower(v)
  <2>1. /\ settings' = [settings EXCEPT !.txPower = v]
        /\ registers' = [registers EXCEPT !.txPower = v]
    BY <1>4 DEF PHY_SetTxPower, Set
  <2>2. settings' \in Settings /\ registers' \in Registers
    BY <1>1, <2>1 DEF Settings, Registers
  <2>3. Configured'
    BY <1>1, <1>2, <2>1 DEF Inv, Configured, Settings, Registers
  <2> QED BY <1>4, <2>1, <2>2, <2>3, SetInv DEF PHY_SetTxPower
<1>5. CASE NWK_SetPanId(v)
  <2>1. /\ settings' = [settings EXCEPT !.panId = v]
        /\ registers' = [registers EXCEPT !.panId = v]
    BY <1>5 DEF NWK_SetPanId, PHY_SetPanId, Set
  <2>2. settings' \in Settings /\ registers' \in Registers
    BY <1>1, <2>1 DEF Settings, Registers
  <2>3. Configured'
    BY <1>1, <1>2, <2>1 DEF Inv, Configured, Settings, Registers
  <2> QED BY <1>5, <2>1, <2>2, <2>3, SetInv DEF NWK_SetPanId, PHY_SetPanId
<1>6. CASE NWK_SetAddr(v)
  <2>1. /\ settings' = [settings EXCEPT !.addr = v]
        /\ registers' = [registers EXCEPT !.addr = v, !.seed = v]
    BY <1>6 DEF NWK_SetAddr, PHY_SetShortAddr, Set
  <2>2. settings' \in Settings /\ registers' \in Registers
    BY <1>1, <2>1 DEF Settings, Registers
  <2>3. Configured'
    BY <1>1, <1>2, <2>1 DEF Inv, Configured, Settings, Registers
  <2> QED BY <1>6, <2>1, <2>2, <2>3, SetInv DEF NWK_SetAddr, PHY_SetShortAddr
<1> QED BY <1>3, <1>4, <1>5, <1>6

LEMMA SelectAntennaInv ==
  ASSUME Inv, NEW mode \in Antennas, PHY_FrontendSelectAntenna(mode)
  PROVE  Inv'
<1> DEFINE pdt == IF mode = "DIVERSITY" THEN 0..1 ELSE 0..2
           antDiv == IF mode = "SEL_DISABLED" THEN {}
                     ELSE {"ANT_EXT_SW_EN", IF mode = "DIVERSITY" THEN "ANT_DIV_EN" ELSE mode}
           r == [registers EXCEPT !.pdt = pdt, !.antDiv = antDiv]
<1>1. mode \in Modes /\ settings \in Settings /\ registers \in Registers
  BY PhyAssumption DEF Inv, TypeOK
<1>2. pdt \in SUBSET (0..2)
  OBVIOUS
<1>3. /\ antDiv \in SUBSET {"ANT_EXT_SW_EN", "ANT_DIV_EN", "ANT1", "ANT2"}
      /\ "ANT_DIV_EN" \in antDiv <=> mode = "DIVERSITY"
  BY <1>1 DEF Modes
<1>4. Set("antenna", mode, r)
  BY DEF PHY_FrontendSelectAntenna
<1> HIDE DEF antDiv
<1>5. r \in Registers
  BY <1>1, <1>2, <1>3 DEF Registers
<1>6. settings' = [settings EXCEPT !.antenna = mode] /\ registers' = r
  BY <1>4 DEF Set
<1>7. settings' \in Settings
  BY <1>1, <1>6 DEF Settings
<1>8. phyState' = "IDLE" /\ phyState = "IDLE" /\ frontend' = frontend
  BY <1>4 DEF Set, Idle
<1>9. Configured'
  BY <1>1, <1>3, <1>6, <1>8 DEF Inv, Configured, Settings, Registers
<1> QED BY <1>4, <1>5, <1>7, <1>9, SetInv

LEMMA InitRequestInv ==
  ASSUME Inv, PHY_Init
  PROVE  Inv'
<1> USE DEF PHY_Init
<1>1. /\ phyState = "INITIAL" /\ phyState' = "IDLE" /\ pc = "app" /\ pc' = "app"
      /\ UNCHANGED <<settings, inds, cut, heard, requests, result, answer>>
  BY DEF Inv, TypeOK, RadioInv, Control, service
<1>2. radio.state = "TRX_OFF" /\ ~radio.irq /\ frontend.csd /\ settings = Defaults
  BY <1>1 DEF Inv, RadioInv, Control
<1>3. /\ radio' \in Radios /\ radio'.safe
      /\ radio'.state = radio.state /\ radio'.irq = radio.irq /\ radio'.trac = radio.trac
      /\ radio'.buffer = radio.buffer /\ radio'.held = radio.held
      /\ radio'.acking = radio.acking
  BY DEF Inv, TypeOK, Radios
<1>4. radio.acking = NoFrame
  BY <1>2 DEF Inv, RadioInv, Acknowledging
<1>5. /\ Reception' /\ Acknowledging' /\ Numbered'
      /\ IndicationIsFrame' /\ IndicatedIsAcknowledged'
  BY <1>1, <1>2, <1>3, <1>4, QuietRadio DEF ToBeRead
<1>6. /\ frontend' \in [bypass : BOOLEAN, csd : BOOLEAN, cps : BOOLEAN, pa : BOOLEAN]
      /\ frontend'.csd /\ frontend'.cps = ~frontend'.bypass
      /\ frontend'.pa = ~frontend'.bypass
  BY <1>2 DEF Inv, TypeOK, HAL_PhyFrontendEnableLNA
<1>7. registers' \in Registers
  BY DEF HAL_PhyReset, Registers, Fields
<1>8. TypeOK'
  BY <1>1, <1>3, <1>6, <1>7 DEF Inv, TypeOK
<1>9. Control' /\ RadioState'
  BY <1>1, <1>2, <1>3 DEF Inv, RadioInv, Control, RadioState
<1>10. Transmission'
  BY <1>1 DEF Inv, RadioInv, Transmission, ConfirmAnswersRequest, StatusOf
<1>11. Configured'
  <2>1. settings' = Defaults /\ registers' = HAL_PhyReset
    BY <1>1, <1>2
  <2>2. /\ \A f \in {"channel", "panId", "addr", "txPower"} : registers'[f] = settings'[f]
        /\ registers'.seed = settings'.addr
        /\ registers'.pdt = 0..2 /\ registers'.antDiv = {}
        /\ settings'.antenna # "DIVERSITY"
    BY <2>1 DEF HAL_PhyReset, Defaults
  <2> QED BY <1>1, <1>6, <2>2 DEF Configured
<1> QED BY <1>5, <1>8, <1>9, <1>10, <1>11 DEF Inv, RadioInv

LEMMA SetBypassInv ==
  ASSUME Inv, NEW bypass \in BOOLEAN, PHY_FrontendSetBypass(bypass)
  PROVE  Inv'
<1>1. /\ pc' = "app" /\ pc = "app" /\ phyState' = "IDLE" /\ phyState = "IDLE"
      /\ UNCHANGED <<phyRxState, settings, registers, radio, inds, cut, heard, requests,
                     result, answer>>
  BY DEF PHY_FrontendSetBypass, Idle, service, setup
<1>2. /\ frontend' \in [bypass : BOOLEAN, csd : BOOLEAN, cps : BOOLEAN, pa : BOOLEAN]
      /\ frontend'.csd = frontend.csd /\ frontend'.cps = ~bypass
      /\ frontend'.pa = ~bypass /\ frontend'.bypass = bypass
  BY DEF Inv, TypeOK, PHY_FrontendSetBypass, HAL_PhyFrontendEnableLNA
<1>3. TypeOK'
  BY <1>1, <1>2 DEF Inv, TypeOK
<1>4. RadioInv'
  BY <1>1, <1>2 DEF Inv, RadioInv, Control, RadioState, Transmission, Reception, Receiving,
       ToBeRead, Fresh, Acknowledging, Numbered, ConfirmAnswersRequest, StatusOf,
       IndicationIsFrame, IndicatedIsAcknowledged
<1>5. Configured'
  BY <1>1, <1>2 DEF Inv, Configured
<1> QED BY <1>3, <1>4, <1>5 DEF Inv

LEMMA MeasureInv ==
  ASSUME Inv, NEW request \in {"random", "ed"}, Measure(request)
  PROVE  Inv'
<1>1. /\ radio' \in Radios /\ radio'.state = "RX_ON" /\ radio'.acking = NoFrame
      /\ radio'.safe = radio.safe /\ radio'.buffer = radio.buffer
  BY ForcedFields DEF Measure, Inv, TypeOK, TrxStates
<1>2. /\ pc = "app" /\ pc' = request /\ phyState' = "IDLE" /\ phyState = "IDLE"
      /\ Forced /\ Idle
      /\ UNCHANGED <<phyRxState, frontend, settings, registers, inds, heard, requests,
                     result, answer>>
  BY DEF Measure, Idle, setup
<1>3. /\ Reception' /\ Acknowledging' /\ Numbered'
      /\ IndicationIsFrame' /\ IndicatedIsAcknowledged'
      /\ cut' \in Frames \cup {NoFrame}
  BY <1>1, <1>2, QuietRadio DEF ToBeRead
<1>4. TypeOK'
  BY <1>1, <1>2, <1>3 DEF Inv, TypeOK
<1>5. Control' /\ RadioState'
  BY <1>1, <1>2 DEF Inv, RadioInv, Control, RadioState
<1>6. Transmission'
  BY <1>2 DEF Inv, RadioInv, Transmission, ConfirmAnswersRequest, StatusOf
<1>7. Configured'
  BY <1>2 DEF Inv, Configured
<1> QED BY <1>3, <1>4, <1>5, <1>6, <1>7 DEF Inv, RadioInv

LEMMA MeasuredInv ==
  ASSUME Inv, pc \in {"random", "ed"}, Measured
  PROVE  Inv'
<1>1. radio \in Radios /\ phyRxState \in BOOLEAN
  BY DEF Inv, TypeOK
<1>2. /\ radio' \in Radios /\ ~radio'.irq /\ radio'.acking = NoFrame
      /\ radio'.state = IF phyRxState THEN "RX_AACK_ON" ELSE "TRX_OFF"
      /\ radio'.safe = radio.safe /\ radio'.buffer = radio.buffer
  BY <1>1, RxFields DEF Measured
<1>3. /\ pc' = "app" /\ phyState' = "IDLE" /\ phyState = "IDLE"
      /\ UNCHANGED <<phyRxState, frontend, settings, registers, inds, cut, heard, requests,
                     result, answer>>
  BY DEF Measured, Inv, RadioInv, Control, setup, service
<1>4. /\ Reception' /\ Acknowledging' /\ Numbered'
      /\ IndicationIsFrame' /\ IndicatedIsAcknowledged'
  BY <1>2, <1>3, QuietRadio DEF ToBeRead
<1>5. TypeOK'
  BY <1>2, <1>3 DEF Inv, TypeOK
<1>6. Control' /\ RadioState'
  BY <1>2, <1>3 DEF Inv, RadioInv, Control, RadioState
<1>7. Transmission'
  BY <1>3 DEF Inv, RadioInv, Transmission, ConfirmAnswersRequest, StatusOf
<1>8. Configured'
  BY <1>3 DEF Inv, Configured
<1> QED BY <1>4, <1>5, <1>6, <1>7, <1>8 DEF Inv, RadioInv

\* The interrupt status is read for another purpose.
LEMMA EdPollsInv ==
  ASSUME Inv, EdPolls
  PROVE  Inv'
<1>1. /\ radio' \in Radios /\ ~radio'.irq
      /\ radio'.state = radio.state /\ radio'.held = radio.held
      /\ radio'.acking = radio.acking /\ radio'.trac = radio.trac
      /\ radio'.safe = radio.safe /\ radio'.buffer = radio.buffer
  BY ReadFields DEF EdPolls, Inv, TypeOK
<1>2. /\ pc = "ed" /\ pc' = "ed"
      /\ UNCHANGED <<phyState, phyRxState, frontend, settings, registers, inds, cut, heard,
                     requests, result, answer>>
  BY DEF EdPolls, setup, service
<1>3. phyState = "IDLE" /\ radio.state \in {"RX_ON", "BUSY_RX"} /\ radio.acking = NoFrame
  BY <1>2 DEF Inv, RadioInv, Control, RadioState, Acknowledging
<1>4. TypeOK'
  BY <1>1, <1>2 DEF Inv, TypeOK
<1>5. RadioInv'
  <2>1. Control' /\ RadioState'
    BY <1>1, <1>2, <1>3 DEF Inv, RadioInv, Control, RadioState
  <2>2. Transmission'
    BY <1>2, <1>3 DEF Inv, RadioInv, Transmission, ConfirmAnswersRequest, StatusOf
  <2>3. Reception' /\ Acknowledging' /\ Numbered'
    BY <1>1, <1>2, <1>3 DEF Inv, RadioInv, Reception, Receiving, ToBeRead, Fresh,
         Acknowledging, Numbered
  <2>4. IndicationIsFrame' /\ IndicatedIsAcknowledged'
    BY <1>2 DEF Inv, RadioInv, IndicationIsFrame, IndicatedIsAcknowledged
  <2> QED BY <2>1, <2>2, <2>3, <2>4 DEF RadioInv
<1>6. Configured'
  BY <1>2 DEF Inv, Configured
<1> QED BY <1>4, <1>5, <1>6 DEF Inv

-----------------------------------------------------------------------------
(***************************************************************************)
(* PHY_TaskHandler.                                                        *)
(***************************************************************************)
LEMMA ReadIrqStatusInv ==
  ASSUME Inv, ReadIrqStatus
  PROVE  Inv'
<1>1. /\ radio' \in Radios /\ ~radio'.irq
      /\ radio'.state = radio.state /\ radio'.held = radio.held
      /\ radio'.acking = radio.acking /\ radio'.trac = radio.trac
      /\ radio'.safe = radio.safe /\ radio'.buffer = radio.buffer
  BY ReadFields DEF ReadIrqStatus, Inv, TypeOK
<1>2. /\ pc = "app" /\ phyState \in {"IDLE", "TX_WAIT_END"} /\ radio.irq
      /\ pc' = IF phyState = "IDLE" THEN "read" ELSE "end"
      /\ UNCHANGED <<phyState, phyRxState, frontend, settings, registers, inds, cut, heard,
                     requests, result, answer>>
  BY DEF ReadIrqStatus, setup, service
<1>3. TypeOK'
  BY <1>1, <1>2 DEF Inv, TypeOK
<1>4. RadioInv'
  <2>1. Control' /\ RadioState'
    BY <1>1, <1>2 DEF Inv, RadioInv, Control, RadioState
  <2>2. Transmission'
    BY <1>1, <1>2 DEF Inv, RadioInv, Transmission, ConfirmAnswersRequest, StatusOf
  <2>3. Reception' /\ Acknowledging' /\ Numbered'
    BY <1>1, <1>2 DEF Inv, RadioInv, Reception, Receiving, ToBeRead, Fresh, Acknowledging,
         Numbered
  <2>4. IndicationIsFrame' /\ IndicatedIsAcknowledged'
    BY <1>2 DEF Inv, RadioInv, IndicationIsFrame, IndicatedIsAcknowledged
  <2> QED BY <2>1, <2>2, <2>3, <2>4 DEF RadioInv
<1>5. Configured'
  BY <1>2 DEF Inv, Configured
<1> QED BY <1>3, <1>4, <1>5 DEF Inv

\* The frame announced is indicated, and no longer protected.
LEMMA ReadFrameInv ==
  ASSUME Inv, ReadFrame
  PROVE  Inv'
<1>1. /\ radio' \in Radios /\ ~radio'.held
      /\ radio'.state = radio.state /\ radio'.irq = radio.irq
      /\ radio'.acking = radio.acking /\ radio'.trac = radio.trac
      /\ radio'.safe = radio.safe /\ radio'.buffer = radio.buffer
  BY DEF ReadFrame, Inv, TypeOK, Radios
<1>2. /\ pc = "read" /\ pc' = "wait"
      /\ UNCHANGED <<phyState, phyRxState, frontend, settings, registers, cut, heard,
                     requests, result, answer>>
  BY DEF ReadFrame, setup
<1>3. /\ phyState = "IDLE" /\ radio.held /\ ~radio.irq /\ Fresh
      /\ radio.buffer.whole /\ radio.buffer.filtered
  BY <1>2 DEF Inv, RadioInv, Control, Reception, ToBeRead
<1>4. ~Receiving
  BY <1>3 DEF Inv, RadioInv, Reception
<1>5. /\ radio.buffer \in Buffers /\ radio.buffer.frame \in Frames \cup {NoFrame}
      /\ inds \in Seq(Buffers)
  BY RadioFields DEF Inv, TypeOK
<1>6. inds' = Append(inds, radio.buffer)
  BY DEF ReadFrame
<1>7. /\ inds' \in Seq(Buffers) /\ Len(inds') = Len(inds) + 1
      /\ \A k \in 1..Len(inds) : inds'[k] = inds[k]
      /\ inds'[Len(inds) + 1] = radio.buffer
  BY <1>5, <1>6
<1>8. TypeOK'
  BY <1>1, <1>2, <1>7 DEF Inv, TypeOK
<1>9. Control' /\ RadioState' /\ Transmission'
  BY <1>1, <1>2, <1>3 DEF Inv, RadioInv, Control, RadioState, Transmission,
       ConfirmAnswersRequest
<1>10. Reception' /\ Acknowledging'
  BY <1>1, <1>2, <1>3, <1>4 DEF Inv, RadioInv, Reception, Receiving, ToBeRead, Acknowledging
<1>11. \A k \in 1..Len(inds') : k \in 1..Len(inds) \/ k = Len(inds) + 1
  BY <1>5, <1>7
<1>12. Numbered'
  BY <1>1, <1>2, <1>7, <1>11 DEF Inv, RadioInv, Numbered
<1>13. IndicationIsFrame'
  <2>1. \A k \in 1..Len(inds') : inds'[k].whole /\ inds'[k].filtered
    BY <1>3, <1>7, <1>11 DEF Inv, RadioInv, IndicationIsFrame
  <2>2. \A k \in 2..Len(inds') : inds'[k].frame > inds'[k - 1].frame
    <3> SUFFICES ASSUME NEW k \in 2..Len(inds') PROVE inds'[k].frame > inds'[k - 1].frame
      OBVIOUS
    <3>1. Len(inds) \in Nat
      BY <1>5
    <3>2. CASE k = Len(inds) + 1
      <4>1. k - 1 \in 1..Len(inds) /\ inds'[k] = radio.buffer /\ inds'[k - 1] = inds[k - 1]
        BY <1>7, <3>1, <3>2
      <4>2. inds[k - 1].frame < radio.buffer.frame
        BY <1>3, <4>1 DEF Fresh
      <4> QED BY <1>5, <4>1, <4>2, IndicatedFields DEF Inv, Frames, NoFrame
    <3>3. CASE k # Len(inds) + 1
      <4>1. k \in 2..Len(inds) /\ k \in 1..Len(inds) /\ k - 1 \in 1..Len(inds)
        BY <1>7, <3>1, <3>3
      <4> QED BY <1>7, <4>1 DEF Inv, RadioInv, IndicationIsFrame
    <3> QED BY <3>2, <3>3
  <2> QED BY <2>1, <2>2 DEF IndicationIsFrame
<1>14. IndicatedIsAcknowledged'
  <2>1. radio.buffer.frame # cut
    BY <1>3, <1>5 DEF Fresh, Inv, TypeOK, Frames, NoFrame
  <2> QED BY <1>2, <1>7, <1>11, <2>1 DEF Inv, RadioInv, IndicatedIsAcknowledged
<1>15. Configured'
  BY <1>2 DEF Inv, Configured
<1> QED BY <1>8, <1>9, <1>10, <1>12, <1>13, <1>14, <1>15 DEF Inv, RadioInv

LEMMA WaitStateInv ==
  ASSUME Inv, phyWaitState
  PROVE  Inv'
<1>1. /\ pc = "wait" /\ pc' = "app" /\ radio.state = "RX_AACK_ON"
      /\ UNCHANGED <<phyState, phyRxState, frontend, settings, registers, radio, inds, cut,
                     heard, requests, result, answer>>
  BY DEF phyWaitState, setup, service
<1>2. phyState = "IDLE" /\ radio.acking = NoFrame
  BY <1>1 DEF Inv, RadioInv, Control, Acknowledging
<1>3. TypeOK'
  BY <1>1 DEF Inv, TypeOK
<1>4. RadioInv'
  BY <1>1, <1>2 DEF Inv, RadioInv, Control, RadioState, Transmission, Reception, Receiving,
       ToBeRead, Fresh, Acknowledging, Numbered, ConfirmAnswersRequest, StatusOf,
       IndicationIsFrame, IndicatedIsAcknowledged
<1>5. Configured'
  BY <1>1 DEF Inv, Configured
<1> QED BY <1>3, <1>4, <1>5 DEF Inv

LEMMA ConfirmTxInv ==
  ASSUME Inv, ConfirmTx
  PROVE  Inv'
<1>1. radio \in Radios /\ phyRxState \in BOOLEAN
  BY DEF Inv, TypeOK
<1>2. /\ radio' \in Radios /\ ~radio'.irq /\ radio'.acking = NoFrame
      /\ radio'.state = IF phyRxState THEN "RX_AACK_ON" ELSE "TRX_OFF"
      /\ radio'.safe = radio.safe /\ radio'.buffer = radio.buffer
  BY <1>1, RxFields DEF ConfirmTx
<1>3. /\ pc = "end" /\ pc' = "app" /\ phyState' = "IDLE" /\ phyState = "TX_WAIT_END"
      /\ Forced /\ answer' = StatusOf(radio.trac)
      /\ UNCHANGED <<phyRxState, frontend, settings, registers, inds, heard, requests, result>>
  BY DEF ConfirmTx, Inv, RadioInv, Control, setup
<1>4. radio.state = "TX_ARET_ON" /\ result = radio.trac
  BY <1>3 DEF Inv, RadioInv, Transmission
<1>5. radio.trac \in Tracs /\ StatusOf(radio.trac) \in Statuses
  BY <1>1, RadioFields DEF StatusOf, Statuses
<1>6. /\ Reception' /\ Acknowledging' /\ Numbered'
      /\ IndicationIsFrame' /\ IndicatedIsAcknowledged'
      /\ cut' \in Frames \cup {NoFrame}
  BY <1>2, <1>3, <1>4, QuietRadio DEF ToBeRead
<1>7. TypeOK'
  BY <1>2, <1>3, <1>5, <1>6 DEF Inv, TypeOK
<1>8. Control' /\ RadioState'
  BY <1>2, <1>3 DEF Inv, RadioInv, Control, RadioState
<1>9. Transmission'
  BY <1>3, <1>4, <1>5 DEF Transmission, ConfirmAnswersRequest, StatusOf, Tracs
<1>10. Configured'
  BY <1>3 DEF Inv, Configured
<1> QED BY <1>6, <1>7, <1>8, <1>9, <1>10 DEF Inv, RadioInv

-----------------------------------------------------------------------------
(***************************************************************************)
(* The transceiver. None of its steps touches what the driver knows.       *)
(***************************************************************************)

\* A step of the transceiver outside a transmission: what is left to show of it.
LEMMA TransceiverStep ==
  ASSUME Inv, DriverUnchanged, result' = result, radio' \in Radios, heard' \in 0..MaxFrames,
         radio.state \notin {"BUSY_TX_ARET", "TX_ARET_ON"},
         Control', RadioState', Reception', Acknowledging', Numbered'
  PROVE  Inv'
<1>1. UNCHANGED <<phyState, phyRxState, frontend, settings, registers, pc, inds, cut,
                  requests, answer>>
  BY DEF DriverUnchanged, setup
<1>2. TypeOK'
  BY <1>1 DEF Inv, TypeOK
<1>3. phyState # "TX_WAIT_END"
  BY DEF Inv, RadioInv, RadioState
<1>4. Transmission'
  BY <1>1, <1>3 DEF Inv, RadioInv, Transmission, ConfirmAnswersRequest, StatusOf
<1>5. IndicationIsFrame' /\ IndicatedIsAcknowledged'
  BY <1>1 DEF Inv, RadioInv, IndicationIsFrame, IndicatedIsAcknowledged
<1>6. Configured'
  BY <1>1 DEF Inv, Configured
<1> QED BY <1>2, <1>4, <1>5, <1>6 DEF Inv, RadioInv

LEMMA ReceivesInv ==
  ASSUME Inv, Receives
  PROVE  Inv'
<1> DEFINE aack == radio.state = "RX_AACK_ON"
           state == IF aack THEN "BUSY_RX_AACK" ELSE "BUSY_RX"
           buffer == [frame |-> heard + 1, whole |-> FALSE, filtered |-> aack]
<1>1. /\ radio.state \in {"RX_ON", "RX_AACK_ON"} /\ ~radio.held
      /\ heard < MaxFrames /\ heard' = heard + 1
      /\ DriverUnchanged /\ result' = result
      /\ radio' = [radio EXCEPT !.state = state, !.buffer = buffer]
  BY DEF Receives
<1>2. heard \in 0..MaxFrames /\ radio \in Radios
  BY DEF Inv, TypeOK
<1>3. buffer \in Buffers /\ state \in TrxStates
  BY <1>1, <1>2, Bounds DEF Buffers, Frames, TrxStates
<1>4. /\ radio' \in Radios /\ radio'.state = state /\ radio'.buffer = buffer
      /\ radio'.irq = radio.irq /\ radio'.held = radio.held
      /\ radio'.acking = radio.acking /\ radio'.trac = radio.trac /\ radio'.safe = radio.safe
  <2> HIDE DEF buffer, state
  <2> QED BY <1>1, <1>2, <1>3 DEF Radios
<1>5. UNCHANGED <<phyState, phyRxState, frontend, settings, pc, inds, cut>>
  BY <1>1 DEF DriverUnchanged, setup
<1>6. radio.acking = NoFrame /\ phyState = "IDLE"
  BY <1>1 DEF Inv, RadioInv, Acknowledging, Control, RadioState, TypeOK
<1>7. ~ToBeRead /\ ~ToBeRead'
  BY <1>1, <1>4, <1>5 DEF Inv, RadioInv, Reception, ToBeRead
<1>8. Control' /\ RadioState'
  BY <1>1, <1>4, <1>5, <1>6 DEF Inv, RadioInv, Control, RadioState
<1>9. /\ heard + 1 > heard /\ heard + 1 > cut
      /\ \A k \in 1..Len(inds) : inds[k].frame <= heard /\ inds[k].frame < heard + 1
  <2>1. cut \in Int /\ \A k \in 1..Len(inds) : inds[k].frame \in Int
    BY IndicatedFields DEF Inv, TypeOK, Frames, NoFrame
  <2> QED BY <1>2, <2>1 DEF Inv, RadioInv, Numbered
<1>10. Fresh'
  BY <1>4, <1>5, <1>9 DEF Fresh
<1>11. Reception'
  <2>1. radio'.state = "BUSY_RX_AACK" => radio'.buffer.filtered
    <3> SUFFICES ASSUME radio'.state = "BUSY_RX_AACK" PROVE radio'.buffer.filtered
      OBVIOUS
    <3>1. aack
      BY <1>4
    <3>2. radio'.buffer.filtered = aack
      BY <1>4
    <3> QED BY <3>1, <3>2
  <2>2. pc' = "read" => ~radio'.irq
    BY <1>4, <1>5 DEF Inv, RadioInv, Reception
  <2> HIDE DEF buffer, state
  <2> QED BY <1>1, <1>4, <1>7, <1>10, <2>1, <2>2 DEF Reception
<1>12. Acknowledging'
  BY <1>4, <1>5, <1>6 DEF Acknowledging
<1>13. Numbered'
  <2>1. cut \in Int /\ \A k \in 1..Len(inds) : inds[k].frame \in Int
    BY IndicatedFields DEF Inv, TypeOK, Frames, NoFrame
  <2> QED BY <1>1, <1>2, <1>4, <1>5, <1>9, <2>1 DEF Numbered
<1>14. heard' \in 0..MaxFrames
  BY <1>1, <1>2, Bounds
<1> QED BY <1>1, <1>4, <1>8, <1>11, <1>12, <1>13, <1>14, TransceiverStep

\* The radio listens again.
LEMMA ListensFields ==
  ASSUME NEW r \in Radios
  PROVE  /\ ListensAgain(r) \in Radios
         /\ ListensAgain(r).state = IF r.state = "BUSY_RX_AACK" THEN "RX_AACK_ON" ELSE "RX_ON"
         /\ ListensAgain(r).irq = r.irq /\ ListensAgain(r).held = r.held
         /\ ListensAgain(r).acking = r.acking /\ ListensAgain(r).trac = r.trac
         /\ ListensAgain(r).safe = r.safe /\ ListensAgain(r).buffer = r.buffer
BY DEF ListensAgain, Radios, TrxStates

LEMMA FrameEndsInv ==
  ASSUME Inv, NEW kept \in BOOLEAN, NEW ack \in BOOLEAN, FrameEnds(kept, ack)
  PROVE  Inv'
<1> DEFINE buffer == [radio.buffer EXCEPT !.whole = TRUE]
           end == [radio EXCEPT !.buffer.whole = TRUE, !.irq = TRUE, !.held = radio.safe]
           heldEnd == [radio EXCEPT !.buffer = buffer, !.irq = TRUE, !.held = radio.safe]
           again == IF radio.state = "BUSY_RX_AACK" THEN "RX_AACK_ON" ELSE "RX_ON"
<1>1. /\ radio.state \in {"BUSY_RX", "BUSY_RX_AACK"} /\ radio.acking = NoFrame
      /\ ack => kept /\ radio.state = "BUSY_RX_AACK"
      /\ radio' = IF ack THEN [end EXCEPT !.acking = radio.buffer.frame]
                  ELSE ListensAgain(IF kept THEN end ELSE radio)
      /\ DriverUnchanged /\ heard' = heard /\ result' = result
  BY DEF FrameEnds
<1>2. heard \in 0..MaxFrames /\ radio \in Radios
  BY DEF Inv, TypeOK
<1>3. /\ buffer \in Buffers /\ buffer.whole
      /\ buffer.frame = radio.buffer.frame /\ buffer.filtered = radio.buffer.filtered
  BY <1>2, RadioFields DEF Buffers
<1>4. end = heldEnd
  OBVIOUS
<1> HIDE DEF buffer
<1>5. /\ end \in Radios /\ end.state = radio.state /\ end.irq /\ end.held = radio.safe
      /\ end.acking = NoFrame /\ end.safe = radio.safe /\ end.buffer = buffer
  <2>1. /\ heldEnd \in Radios /\ heldEnd.state = radio.state /\ heldEnd.irq
        /\ heldEnd.held = radio.safe /\ heldEnd.acking = NoFrame
        /\ heldEnd.safe = radio.safe /\ heldEnd.buffer = buffer
    BY <1>1, <1>2, <1>3 DEF Radios
  <2> HIDE DEF end, heldEnd
  <2> QED BY <1>4, <2>1
<1> HIDE DEF end
<1>6. UNCHANGED <<phyState, phyRxState, frontend, settings, pc, inds, cut>>
  BY <1>1 DEF DriverUnchanged, setup
<1>7. /\ ~radio.held /\ Fresh /\ radio.safe /\ phyState = "IDLE"
      /\ radio.state = "BUSY_RX_AACK" => radio.buffer.filtered
  BY <1>1 DEF Inv, TypeOK, RadioInv, Reception, Receiving, Control, RadioState
<1>8. ~ToBeRead
  BY <1>7 DEF Inv, RadioInv, Reception
<1>9. radio.state = "BUSY_RX" => pc \in {"random", "ed"}
  BY <1>7 DEF Inv, TypeOK, RadioInv, Control, RadioState
<1>10. CASE ~kept
  <2>1. /\ radio' \in Radios /\ radio'.state = again
        /\ radio'.irq = radio.irq /\ radio'.held = radio.held
        /\ radio'.acking = NoFrame /\ radio'.safe = radio.safe /\ radio'.buffer = radio.buffer
    BY <1>1, <1>2, <1>10, ListensFields
  <2>2. ~ToBeRead'
    BY <1>6, <1>8, <2>1 DEF ToBeRead
  <2>3. Control' /\ RadioState'
    <3>1. CASE radio.state = "BUSY_RX"
      BY <1>6, <1>7, <1>9, <2>1, <3>1 DEF Inv, RadioInv, Control, RadioState
    <3>2. CASE radio.state = "BUSY_RX_AACK"
      BY <1>6, <1>7, <2>1, <3>2 DEF Inv, RadioInv, Control, RadioState
    <3> QED BY <1>1, <3>1, <3>2
  <2>4. Reception'
    BY <1>6, <1>7, <1>8, <2>1, <2>2 DEF Inv, RadioInv, Reception, Receiving, ToBeRead
  <2>5. Acknowledging'
    BY <2>1 DEF Acknowledging
  <2>6. Numbered'
    BY <1>1, <1>6, <2>1 DEF Inv, RadioInv, Numbered
  <2> QED BY <1>1, <1>2, <2>1, <2>3, <2>4, <2>5, <2>6, TransceiverStep
<1>11. CASE kept
  <2>1. /\ radio' \in Radios /\ radio'.irq /\ radio'.held /\ radio'.safe
        /\ radio'.buffer = buffer
        /\ radio'.state = IF ack THEN "BUSY_RX_AACK" ELSE again
        /\ radio'.acking = IF ack THEN radio.buffer.frame ELSE NoFrame
    <3>1. CASE ack
      <4>1. radio' = [end EXCEPT !.acking = radio.buffer.frame]
        BY <1>1, <3>1
      <4>2. radio.buffer.frame \in Frames \cup {NoFrame}
        BY <1>2, RadioFields
      <4> QED BY <1>1, <1>5, <1>7, <3>1, <4>1, <4>2 DEF Radios
    <3>2. CASE ~ack
      BY <1>1, <1>5, <1>7, <1>11, <3>2, ListensFields
    <3> QED BY <3>1, <3>2
  <2>2. radio'.state \in {"BUSY_RX_AACK", again}
    BY <2>1
  <2>3. Control' /\ RadioState'
    BY <1>1, <1>6, <1>7, <1>9, <2>1 DEF Inv, RadioInv, Control, RadioState
  <2>4. Fresh'
    BY <1>3, <1>6, <1>7, <2>1 DEF Fresh
  <2>5. ToBeRead' => radio'.buffer.filtered
    BY <1>1, <1>3, <1>6, <1>7, <1>9, <2>1 DEF ToBeRead
  <2>6. ~Receiving'
    <3>1. radio.buffer.frame # NoFrame
      <4>1. cut \in Nat /\ cut < radio.buffer.frame
        BY <1>7, Bounds DEF Inv, TypeOK, Fresh, Frames, NoFrame
      <4> QED BY <4>1 DEF NoFrame
    <3> QED BY <1>1, <2>1, <3>1 DEF Receiving
  <2>7. pc # "read"
    BY <1>7, <1>8 DEF ToBeRead
  <2>8. Reception'
    BY <1>1, <1>3, <1>6, <1>7, <2>1, <2>4, <2>5, <2>6, <2>7 DEF Reception
  <2>9. Acknowledging'
    BY <1>1, <1>3, <1>6, <2>1 DEF Acknowledging
  <2>10. Numbered'
    BY <1>1, <1>3, <1>6, <2>1 DEF Inv, RadioInv, Numbered
  <2> QED BY <1>1, <1>2, <2>1, <2>3, <2>8, <2>9, <2>10, TransceiverStep
<1> QED BY <1>10, <1>11

LEMMA AckSentInv ==
  ASSUME Inv, AckSent
  PROVE  Inv'
<1> DEFINE r == [radio EXCEPT !.acking = NoFrame]
<1>1. /\ radio.acking # NoFrame /\ radio' = ListensAgain(r)
      /\ DriverUnchanged /\ heard' = heard /\ result' = result
  BY DEF AckSent
<1>2. radio \in Radios /\ radio.state = "BUSY_RX_AACK" /\ heard \in 0..MaxFrames
  BY <1>1 DEF Inv, TypeOK, RadioInv, Acknowledging
<1>3. /\ r \in Radios /\ r.state = "BUSY_RX_AACK" /\ r.irq = radio.irq /\ r.held = radio.held
      /\ r.acking = NoFrame /\ r.safe = radio.safe /\ r.buffer = radio.buffer
  BY <1>2 DEF Radios
<1> HIDE DEF r
<1>4. /\ radio' \in Radios /\ radio'.state = "RX_AACK_ON"
      /\ radio'.irq = radio.irq /\ radio'.held = radio.held
      /\ radio'.acking = NoFrame /\ radio'.safe = radio.safe /\ radio'.buffer = radio.buffer
  BY <1>1, <1>3, ListensFields
<1>5. UNCHANGED <<phyState, phyRxState, frontend, settings, pc, inds, cut>>
  BY <1>1 DEF DriverUnchanged, setup
<1>6. Control' /\ RadioState'
  BY <1>2, <1>4, <1>5 DEF Inv, RadioInv, Control, RadioState
<1>7. Reception'
  BY <1>2, <1>4, <1>5 DEF Inv, RadioInv, Reception, Receiving, ToBeRead, Fresh
<1>8. Acknowledging'
  BY <1>4 DEF Acknowledging
<1>9. Numbered'
  BY <1>1, <1>4, <1>5 DEF Inv, RadioInv, Numbered
<1> QED BY <1>1, <1>2, <1>4, <1>6, <1>7, <1>8, <1>9, TransceiverStep

LEMMA TxEndsInv ==
  ASSUME Inv, NEW trac \in Results, TxEnds(trac)
  PROVE  Inv'
<1>1. /\ radio.state = "BUSY_TX_ARET" /\ result' = trac /\ heard' = heard
      /\ radio' = [radio EXCEPT !.state = "TX_ARET_ON", !.irq = TRUE, !.trac = trac]
      /\ UNCHANGED <<phyState, phyRxState, frontend, settings, registers, pc, inds, cut,
                     requests, answer>>
  BY DEF TxEnds, DriverUnchanged, setup
<1>2. trac \in Tracs /\ radio \in Radios
  BY PhyAssumption DEF Inv, TypeOK
<1>3. /\ radio' \in Radios /\ radio'.state = "TX_ARET_ON" /\ radio'.irq /\ radio'.trac = trac
      /\ radio'.safe = radio.safe /\ radio'.acking = radio.acking
      /\ radio'.buffer = radio.buffer /\ radio'.held = radio.held
  BY <1>1, <1>2 DEF Radios, TrxStates
<1>4. phyState = "TX_WAIT_END" /\ radio.acking = NoFrame
  BY <1>1 DEF Inv, TypeOK, RadioInv, RadioState, Acknowledging, Control
<1>5. TypeOK'
  BY <1>1, <1>2, <1>3 DEF Inv, TypeOK
<1>6. Control' /\ RadioState'
  BY <1>1, <1>3, <1>4 DEF Inv, RadioInv, Control, RadioState
<1>7. Transmission'
  BY <1>1, <1>3, <1>4 DEF Transmission, ConfirmAnswersRequest
<1>8. /\ Reception' /\ Acknowledging' /\ Numbered'
      /\ IndicationIsFrame' /\ IndicatedIsAcknowledged'
  <2>1. pc' # "read" /\ ~ToBeRead'
    BY <1>1, <1>4 DEF Inv, RadioInv, Control, ToBeRead
  <2> QED BY <1>1, <1>3, <1>4, <2>1, QuietRadio
<1>9. Configured'
  BY <1>1 DEF Inv, Configured
<1> QED BY <1>5, <1>6, <1>7, <1>8, <1>9 DEF Inv, RadioInv

-----------------------------------------------------------------------------
(***************************************************************************)
(* The theorems, for the driver alone and in the node that sleeps.         *)
(***************************************************************************)
LEMMA InitInv == Init => Inv
<1> SUFFICES ASSUME Init PROVE Inv
  OBVIOUS
<1> USE DEF Init
<1>1. settings \in Settings /\ registers \in Registers
  BY DEF Defaults, HAL_PhyReset, Settings, Registers, Fields, Modes
<1>2. frontend \in [bypass : BOOLEAN, csd : BOOLEAN, cps : BOOLEAN, pa : BOOLEAN]
  BY DEF halPhyInit
<1>3. radio \in Radios
  BY DEF Radios, Buffers, Empty, TrxStates, Tracs
<1>4. inds \in Seq(Buffers)
  OBVIOUS
<1>5. /\ phyState \in {"INITIAL", "IDLE", "SLEEP", "TX_WAIT_END"}
      /\ cut \in Frames \cup {NoFrame} /\ heard \in 0..MaxFrames
      /\ requests \in 0..MaxRequests
  BY Bounds
<1>6. TypeOK
  BY <1>1, <1>2, <1>3, <1>4, <1>5 DEF TypeOK
<1>7. RadioInv
  BY DEF RadioInv, Control, RadioState, Transmission, Reception, Receiving, ToBeRead,
         Acknowledging, Numbered, ConfirmAnswersRequest, IndicationIsFrame,
         IndicatedIsAcknowledged, halPhyInit, Empty, NoFrame
<1>8. Configured
  <2>1. /\ \A f \in {"channel", "panId", "addr", "txPower"} : registers[f] = settings[f]
        /\ registers.seed = settings.addr
        /\ registers.pdt = 0..2 /\ registers.antDiv = {}
        /\ settings.antenna # "DIVERSITY"
    BY DEF HAL_PhyReset, Defaults
  <2> QED BY <2>1 DEF Configured
<1> QED BY <1>6, <1>7, <1>8 DEF Inv

LEMMA NextInv == Inv /\ [Next]_vars => Inv'
<1> SUFFICES ASSUME Inv, [Next]_vars PROVE Inv'
  OBVIOUS
<1>1. CASE Request
  <2>1. ASSUME NEW b \in BOOLEAN, PHY_SetRxState(b) \/ PHY_FrontendSetBypass(b) PROVE Inv'
    BY <2>1, SetRxStateInv, SetBypassInv
  <2>2. CASE PHY_RandomReq
    BY <2>2, MeasureInv, MeasuredInv DEF PHY_RandomReq
  <2>3. CASE PHY_EdReq
    BY <2>3, MeasureInv, MeasuredInv, EdPollsInv DEF PHY_EdReq
  <2> QED BY <1>1, <2>1, <2>2, <2>3, InitRequestInv, SettingsInv, SelectAntennaInv,
             DataReqInv, SleepRequestInv DEF Request
<1>2. CASE PHY_Wakeup
  BY <1>2, WakeupInv
<1>3. CASE PHY_TaskHandler
  BY <1>3, ReadIrqStatusInv, ReadFrameInv, WaitStateInv, ConfirmTxInv DEF PHY_TaskHandler
<1>4. CASE Transceiver
  BY <1>4, ReceivesInv, AckSentInv, FrameEndsInv, TxEndsInv
     DEF Transceiver, ReceptionEnds, TransmissionEnds
<1>5. CASE UNCHANGED vars
  <2>1. UNCHANGED <<phyState, phyRxState, frontend, settings, registers, radio, pc, inds, cut,
                    heard, requests, result, answer>>
    BY <1>5 DEF vars, setup, service
  <2>2. TypeOK' /\ Configured'
    BY <2>1 DEF Inv, TypeOK, Configured
  <2>3. RadioInv'
    BY <2>1 DEF Inv, RadioInv, Control, RadioState, Transmission, Reception, Receiving,
         ToBeRead, Fresh, Acknowledging, Numbered, ConfirmAnswersRequest, StatusOf,
         IndicationIsFrame, IndicatedIsAcknowledged
  <2> QED BY <2>2, <2>3 DEF Inv
<1> QED BY <1>1, <1>2, <1>3, <1>4, <1>5 DEF Next

\* A node that sleeps adds no step to those of the driver.
LEMMA SystemStepIsDriverStep == [SystemNext]_allVars => [Next]_vars
BY DEF SystemNext, Awake, Asleep, WakesUp, Next, allVars

LEMMA InvAlways == SystemSpec => []Inv
<1>1. SystemInit => Inv
  BY InitInv DEF SystemInit
<1>2. Inv /\ [SystemNext]_allVars => Inv'
  BY NextInv, SystemStepIsDriverStep
<1> QED BY <1>1, <1>2, PTL DEF SystemSpec

-----------------------------------------------------------------------------
(***************************************************************************)
(* HAL_Sleep. The time gone by and the time asked for, in rounds of the    *)
(* timer and ticks of the round.                                           *)
(***************************************************************************)
\* The ticks that the code counts: the division drops the rest.
due == asked \div 1000

round == elapsed \div Wrap
phase == elapsed % Wrap
rounds == due \div Wrap
rest == due % Wrap

\* The time is over; it is over by n rounds at most; or by n rounds and a tick.
AtLeast == round > rounds \/ (round = rounds /\ phase >= rest)
AtMost(n) == round < rounds + n \/ (round = rounds + n /\ phase <= rest)
AtMostNext(n) == \/ AtMost(n)
                 \/ round = rounds + n /\ phase = rest + 1
                 \/ round = rounds + n + 1 /\ phase = 0 /\ rest = Wrap - 1

One(b) == IF b THEN 1 ELSE 0

\* A match that Count will count: its interrupt has been handled.
Known == (cpu \in {"armed", "asleep", "awake"} /\ event) \/ (cpu = "count" /\ seen)

\* The next tick matches, or would after the next Arm.
Due == phase # 0 /\ (phase = left.fractional \/ (phase = Wrap - 1 /\ timer.ocr = Wrap - 1))

\* A match may come while the event is cleared.
Danger == timer.pending \/ (straddle /\ Due)

\* The matches that may still be lost by wake-ups so far: one that comes in danger, and
\* one whose event is set already when the processor falls asleep.
Owed == One(cpu \in {"armed", "asleep"} /\ event)
        + One(cpu \in {"awake", "count", "loop", "armed"} /\ Danger)

Running == cpu \in {"loop", "armed", "asleep", "awake", "count"}

\* Outside the loop the timer is stopped.
Stopped ==
  /\ ~Running => ~timer.pending
  /\ cpu = "off" => /\ asked = 0 /\ elapsed = 0 /\ others = 0 /\ ~event /\ ~straddle
                    /\ timer.ocr = Wrap
  /\ cpu = "delay" => left.integer > 0 /\ elapsed = due - left.integer /\ others = 0

\* What the loop has written to the timer, and where a match may come.
Shape ==
  Running =>
    /\ left.integer > 0 \/ left.fractional > 0 => left.fractional = rest
    /\ cpu # "loop" => (left.integer > 0 \/ left.fractional > 0) /\ timer.ocr = Sleep!NextMatch
    /\ cpu = "loop" => timer.ocr \in {Wrap, Wrap - 1, rest}
    /\ cpu = "loop" /\ left.integer > 0 => timer.ocr \in {Wrap, Wrap - 1}
    /\ timer.ocr = Wrap => ~timer.pending /\ ~straddle
    /\ timer.ocr # 0
    /\ cpu = "asleep" => ~straddle
    /\ timer.pending => ~Due
    /\ cpu = "armed" /\ event => ~Danger
    /\ timer.pending /\ left.integer > 0 => phase = 0

\* The full rounds: each was counted, will be, or was lost to a wake-up.
Ahead == (rounds - left.integer) + One(timer.pending) + One(Known)
InRounds ==
  Running /\ left.integer > 0 =>
    /\ Ahead <= round
    /\ round <= Ahead + (others - Owed)
    /\ cpu \in {"awake", "count"} /\ Known =>
         phase = 0 \/ (phase = 1 /\ ~straddle) \/ round < Ahead + (others - Owed)

\* The rest after them.
InRest ==
  Running /\ left.integer = 0 /\ left.fractional > 0 =>
    /\ round >= rounds
    /\ timer.pending \/ Known => AtLeast
    /\ ~timer.pending /\ ~Known => AtMost(others - Owed)
    /\ cpu = "asleep" /\ timer.pending => AtMostNext(others)
    /\ cpu # "asleep" /\ timer.pending => AtMost(others)
    /\ cpu \in {"armed", "asleep"} /\ event /\ ~timer.pending => AtMost(others)
    /\ cpu \in {"awake", "count"} /\ Known /\ ~timer.pending =>
         IF Danger THEN AtMost(others - 1)
         ELSE IF straddle THEN AtMost(others) ELSE AtMostNext(others)

\* Both are over.
Over ==
  Running /\ left.integer = 0 /\ left.fractional = 0 =>
    /\ cpu = "loop" /\ AtLeast
    /\ IF straddle THEN AtMost(others) ELSE AtMostNext(others)

\* SleepsItsTime, in the ticks that the code counts.
Timely == cpu = "done" => elapsed >= due /\ elapsed <= due + 1 + Wrap * others

SleepInv == /\ Sleep!TypeOK /\ Stopped /\ Shape /\ InRounds /\ InRest /\ Over
            /\ Timely

LEMMA SleepConstants ==
  /\ Wrap \in Nat /\ Wrap > 1 /\ MaxOthers \in Nat /\ Word \in Nat /\ HalfWord \in Nat
  /\ \A n \in Intervals \cup Waits : n \in Nat
BY SleepAssumption

LEMMA Quotient ==
  ASSUME NEW m \in Nat \ {0}, NEW n \in Nat
  PROVE  /\ n \div m \in Nat /\ n % m \in 0..(m - 1)
         /\ n = m * (n \div m) + (n % m)
<1>1. n \div m \in Int /\ n = m * (n \div m) + (n % m) /\ n % m \in 0..(m - 1)
  OBVIOUS
<1>2. n \div m >= 0
  OBVIOUS
<1> QED BY <1>1, <1>2

LEMMA QuotientUnique ==
  ASSUME NEW m \in Nat \ {0}, NEW q \in Nat, NEW c \in 0..(m - 1)
  PROVE  (m * q + c) \div m = q /\ (m * q + c) % m = c
OBVIOUS

\* One tick later.
LEMMA TickCounts ==
  ASSUME NEW m \in Nat \ {0}, NEW n \in Nat
  PROVE  /\ n % m = m - 1 => (n + 1) \div m = (n \div m) + 1 /\ (n + 1) % m = 0
         /\ n % m # m - 1 => (n + 1) \div m = n \div m /\ (n + 1) % m = (n % m) + 1
<1> DEFINE q == n \div m
           c == n % m
<1>1. q \in Nat /\ c \in 0..(m - 1) /\ n = m * q + c
  BY Quotient
<1> HIDE DEF q, c
<1>2. CASE c = m - 1
  <2>1. m * (q + 1) = m * q + m
    BY <1>1
  <2>2. n + 1 = m * (q + 1) + 0
    BY <1>1, <1>2, <2>1
  <2>3. q + 1 \in Nat /\ 0 \in 0..(m - 1)
    BY <1>1
  <2>4. (n + 1) \div m = q + 1 /\ (n + 1) % m = 0
    BY <1>1, <2>2, <2>3, QuotientUnique
  <2> QED BY <1>2, <2>4 DEF q, c
<1>3. CASE c # m - 1
  <2>1. c + 1 \in 0..(m - 1)
    BY <1>1, <1>3
  <2>2. n + 1 = m * q + (c + 1)
    BY <1>1
  <2>3. (n + 1) \div m = q /\ (n + 1) % m = c + 1
    BY <1>1, <2>1, <2>2, QuotientUnique
  <2> QED BY <1>3, <2>3 DEF q, c
<1> QED BY <1>2, <1>3

\* The order of times is that of rounds first and ticks second.
LEMMA RoundsOrder ==
  ASSUME NEW m \in Nat \ {0}, NEW q \in Int, NEW r \in Int, q < r
  PROVE  m * q + m <= m * r
<1>1. m * (q + 1) <= m * r
  BY q + 1 <= r
<1>2. m * (q + 1) = m * q + m
  OBVIOUS
<1> QED BY <1>1, <1>2

\* The variables of HAL_Sleep, one by one.
LEMMA SleepTypes ==
  ASSUME Sleep!TypeOK
  PROVE  /\ left.integer \in Nat /\ left.fractional \in 0..(Wrap - 1)
         /\ timer.ocr \in 0..Wrap /\ timer.pending \in BOOLEAN
         /\ event \in BOOLEAN /\ seen \in BOOLEAN /\ straddle \in BOOLEAN
         /\ due \in Nat /\ elapsed \in Nat /\ others \in Nat
         /\ round \in Nat /\ phase \in 0..(Wrap - 1)
         /\ rounds \in Nat /\ rest \in 0..(Wrap - 1)
<1>1. due \in Nat /\ elapsed \in Nat
  <2>1. asked \in Nat /\ elapsed \in Nat /\ 1000 \in Nat \ {0}
    BY DEF Sleep!TypeOK
  <2> QED BY <2>1, Quotient DEF due
<1>2. /\ round \in Nat /\ phase \in 0..(Wrap - 1)
      /\ rounds \in Nat /\ rest \in 0..(Wrap - 1)
  <2>1. Wrap \in Nat \ {0}
    BY SleepConstants
  <2> QED BY <1>1, <2>1, Quotient DEF round, phase, rounds, rest
<1>3. event \in BOOLEAN /\ seen \in BOOLEAN /\ straddle \in BOOLEAN
  BY DEF Sleep!TypeOK
<1>4. /\ left.integer \in Nat /\ left.fractional \in 0..(Wrap - 1)
      /\ timer.ocr \in 0..Wrap /\ timer.pending \in BOOLEAN
  BY DEF Sleep!TypeOK
<1>5. others \in Nat
  BY SleepConstants DEF Sleep!TypeOK
<1> QED BY <1>1, <1>2, <1>3, <1>4, <1>5

LEMMA SleepFields ==
  ASSUME Sleep!TypeOK
  PROVE  /\ left \in [integer : Nat, fractional : 0..(Wrap - 1)]
         /\ timer \in [ocr : 0..Wrap, pending : BOOLEAN]
         /\ event \in BOOLEAN /\ seen \in BOOLEAN /\ straddle \in BOOLEAN
         /\ asked \in Nat /\ elapsed \in Nat /\ others \in 0..MaxOthers
BY DEF Sleep!TypeOK

LEMMA SleepTypesBack ==
  ASSUME Sleep!TypeOK,
         cpu' \in {"off", "loop", "armed", "asleep", "awake", "count", "delay", "done"},
         left' \in [integer : Nat, fractional : 0..(Wrap - 1)],
         timer' \in [ocr : 0..Wrap, pending : BOOLEAN],
         event' \in BOOLEAN, seen' \in BOOLEAN, straddle' \in BOOLEAN,
         asked' \in Nat, elapsed' \in Nat, others' \in 0..MaxOthers
  PROVE  Sleep!TypeOK'
BY DEF Sleep!TypeOK

\* A time within a round and a tick is one that SleepsItsTime allows.
LEMMA InTime ==
  ASSUME Sleep!TypeOK, AtLeast, AtMostNext(others)
  PROVE  elapsed >= due /\ elapsed <= due + 1 + Wrap * others
<1>1. /\ round \in Nat /\ phase \in 0..(Wrap - 1) /\ rounds \in Nat /\ rest \in 0..(Wrap - 1)
      /\ due \in Nat /\ elapsed \in Nat /\ others \in Nat
      /\ Wrap \in Nat \ {0}
  BY SleepTypes, SleepConstants
<1>2. elapsed = Wrap * round + phase /\ due = Wrap * rounds + rest
  BY <1>1, Quotient DEF round, phase, rounds, rest
<1>3. elapsed >= due
  BY <1>1, <1>2, RoundsOrder DEF AtLeast
<1>4. rounds + others \in Int /\ Wrap * (rounds + others) = Wrap * rounds + Wrap * others
  BY <1>1
<1>5. elapsed <= due + 1 + Wrap * others
  <2>1. CASE round < rounds + others
    <3>1. Wrap * round + Wrap <= Wrap * (rounds + others)
      BY <1>1, <1>4, <2>1, RoundsOrder
    <3> DEFINE a == Wrap * round
               b == Wrap * rounds
               c == Wrap * others
    <3>2. a \in Int /\ b \in Int /\ c \in Int /\ a + Wrap <= b + c
      BY <1>1, <1>4, <3>1
    <3> HIDE DEF a, b, c
    <3>3. a + phase <= b + rest + 1 + c
      BY <1>1, <3>2
    <3> QED BY <1>1, <1>2, <3>3 DEF a, b, c
  <2>2. CASE round = rounds + others /\ phase <= rest + 1
    <3> DEFINE b == Wrap * rounds
               c == Wrap * others
    <3>1. b \in Int /\ c \in Int /\ elapsed = b + c + phase /\ due = b + rest
      BY <1>1, <1>2, <1>4, <2>2
    <3> HIDE DEF b, c
    <3>2. elapsed <= due + 1 + c
      BY <1>1, <2>2, <3>1
    <3> QED BY <3>2 DEF c
  <2>3. CASE round = rounds + others + 1 /\ phase = 0 /\ rest = Wrap - 1
    <3> DEFINE b == Wrap * rounds
               c == Wrap * others
    <3>1. Wrap * ((rounds + others) + 1) = Wrap * (rounds + others) + Wrap
      BY <1>1
    <3>2. /\ b \in Int /\ c \in Int /\ due = b + rest
          /\ elapsed = b + c + Wrap
      BY <1>1, <1>2, <1>4, <2>3, <3>1
    <3> HIDE DEF b, c
    <3>3. elapsed <= due + 1 + c
      BY <1>1, <2>3, <3>2
    <3> QED BY <3>3 DEF c
  <2> QED BY <1>1, <2>1, <2>2, <2>3 DEF AtMostNext, AtMost
<1> QED BY <1>3, <1>5

-----------------------------------------------------------------------------
(***************************************************************************)
(* The steps of HAL_Sleep. First those during which no time goes by.       *)
(***************************************************************************)
LEMMA SameTime ==
  ASSUME elapsed' = elapsed, asked' = asked
  PROVE  UNCHANGED <<round, phase, rounds, rest, due>>
BY DEF round, phase, rounds, rest, due

LEMMA ArmInv ==
  ASSUME SleepInv, Sleep!Arm
  PROVE  SleepInv'
<1>1. /\ cpu = "loop" /\ event' = FALSE
      /\ UNCHANGED <<left, seen, asked, elapsed, others, straddle>>
      /\ UNCHANGED <<round, phase, rounds, rest, due>>
  BY SameTime DEF Sleep!Arm
<1> USE SleepConstants, SleepTypes DEF SleepInv
<1>2. CASE left.integer > 0 \/ left.fractional > 0
  <2>1. /\ cpu' = "armed" /\ timer' = [timer EXCEPT !.ocr = Sleep!NextMatch]
    BY <1>2 DEF Sleep!Arm
  <2>2. Sleep!NextMatch \in 0..(Wrap - 1) /\ Sleep!NextMatch # 0
    BY <1>2 DEF Sleep!NextMatch
  <2>3. /\ timer'.ocr = Sleep!NextMatch /\ timer'.pending = timer.pending
        /\ Sleep!NextMatch' = Sleep!NextMatch
        /\ timer' \in [ocr : 0..Wrap, pending : BOOLEAN]
    <3>1. Sleep!NextMatch \in 0..Wrap
      BY <2>2
    <3>2. Sleep!NextMatch' = Sleep!NextMatch
      BY <1>1 DEF Sleep!NextMatch
    <3> QED BY <2>1, <3>1, <3>2 DEF Sleep!TypeOK
  <2>4. Sleep!TypeOK'
    BY <1>1, <2>1, <2>3, SleepFields, SleepTypesBack
  <2>5. ~Known /\ ~Known' /\ Running /\ Running'
    BY <1>1, <2>1 DEF Known, Running
  <2>6. timer.ocr # Wrap => (Due' => Due)
    BY <1>1, <2>3, <2>5, <1>2 DEF Due, Shape, Sleep!NextMatch
  <2>7. Danger' => Danger
    BY <1>1, <2>3, <2>5, <2>6 DEF Danger, Shape
  <2>8. Owed' <= Owed /\ Owed \in 0..1 /\ Owed' \in 0..1
    BY <1>1, <2>1, <2>7 DEF Owed, One
  <2>9. Stopped' /\ Over' /\ Timely'
    BY <1>1, <1>2, <2>1, <2>5 DEF Stopped, Over, Running, Timely
  <2>10. Shape'
    BY <1>1, <1>2, <2>1, <2>2, <2>3, <2>5, <2>6 DEF Shape, Sleep!NextMatch
  <2>11. InRounds'
    <3> SUFFICES ASSUME left.integer > 0 PROVE InRounds'
      BY <1>1 DEF InRounds
    <3>1. Ahead' = Ahead /\ Ahead \in Int
      BY <1>1, <2>3, <2>5 DEF Ahead, One
    <3> QED BY <1>1, <2>1, <2>5, <2>8, <3>1 DEF InRounds
  <2>12. InRest'
    BY <1>1, <2>1, <2>3, <2>5, <2>8 DEF InRest, AtLeast, AtMost, AtMostNext
  <2> QED BY <2>4, <2>9, <2>10, <2>11, <2>12
<1>3. CASE ~(left.integer > 0 \/ left.fractional > 0)
  <2>1. cpu' = "done" /\ timer' = [ocr |-> Wrap, pending |-> FALSE]
    BY <1>3 DEF Sleep!Arm, Sleep!Unset
  <2>2. left.integer = 0 /\ left.fractional = 0
    BY <1>3
  <2>3. AtLeast /\ AtMostNext(others)
    BY <1>1, <2>2 DEF Over, Running, AtMostNext
  <2>4. elapsed >= due /\ elapsed <= due + 1 + Wrap * others
    BY <2>3, InTime
  <2>5. Timely'
    BY <1>1, <2>4 DEF Timely
  <2>6. Sleep!TypeOK'
    <3>1. timer' \in [ocr : 0..Wrap, pending : BOOLEAN]
      BY <2>1
    <3> QED BY <1>1, <2>1, <3>1, SleepFields, SleepTypesBack
  <2>7. Stopped' /\ Shape' /\ InRounds' /\ InRest' /\ Over'
    BY <2>1 DEF Stopped, Shape, InRounds, InRest, Over, Running
  <2> QED BY <2>5, <2>6, <2>7
<1> QED BY <1>2, <1>3

LEMMA FallAsleepInv ==
  ASSUME SleepInv, Sleep!FallAsleep
  PROVE  SleepInv'
<1>1. /\ cpu = "armed" /\ cpu' = "asleep" /\ straddle' = FALSE
      /\ UNCHANGED <<left, timer, event, seen, asked, elapsed, others>>
      /\ UNCHANGED <<round, phase, rounds, rest, due>>
  BY SameTime DEF Sleep!FallAsleep
<1> USE SleepConstants, SleepTypes DEF SleepInv
<1>2. Known' = Known /\ Running /\ Running' /\ Sleep!NextMatch' = Sleep!NextMatch
      /\ Due' = Due
  BY <1>1 DEF Known, Running, Sleep!NextMatch, Due
<1>3. /\ Owed' <= Owed /\ Owed \in 0..2 /\ Owed' \in 0..2
      /\ ~event /\ ~timer.pending => Owed' = 0
  BY <1>1 DEF Owed, One
<1>4. Sleep!TypeOK'
  BY <1>1, SleepFields, SleepTypesBack
<1>5. Stopped' /\ Over' /\ Timely'
  BY <1>1, <1>2 DEF Stopped, Over, Running, Timely
<1>6. Shape'
  BY <1>1, <1>2 DEF Shape
<1>7. Ahead' = Ahead /\ Ahead \in Int
  BY <1>1, <1>2 DEF Ahead, One
<1>8. InRounds'
  BY <1>1, <1>2, <1>3, <1>7 DEF InRounds
<1>9. InRest'
  BY <1>1, <1>2, <1>3 DEF InRest, AtLeast, AtMost, AtMostNext, Known
<1> QED BY <1>4, <1>5, <1>6, <1>8, <1>9

LEMMA ReadEventInv ==
  ASSUME SleepInv, Sleep!ReadEvent
  PROVE  SleepInv'
<1>1. /\ cpu = "awake" /\ cpu' = "count" /\ seen' = event
      /\ UNCHANGED <<left, timer, event, asked, elapsed, others, straddle>>
      /\ UNCHANGED <<round, phase, rounds, rest, due>>
  BY SameTime DEF Sleep!ReadEvent
<1> USE SleepConstants, SleepTypes DEF SleepInv
<1>2. Known' = Known /\ Running /\ Running' /\ Sleep!NextMatch' = Sleep!NextMatch
      /\ Due' = Due
  BY <1>1 DEF Known, Running, Sleep!NextMatch, Due
<1>3. Danger' = Danger
  BY <1>1, <1>2 DEF Danger
<1>4. Owed' = Owed /\ Owed \in 0..2
  BY <1>1, <1>3 DEF Owed, One
<1>5. Sleep!TypeOK'
  BY <1>1, SleepFields, SleepTypesBack
<1>6. Stopped' /\ Over' /\ Timely'
  BY <1>1, <1>2 DEF Stopped, Over, Running, Timely
<1>7. Shape'
  BY <1>1, <1>2, <1>3 DEF Shape
<1>8. Ahead' = Ahead /\ Ahead \in Int
  BY <1>1, <1>2 DEF Ahead, One
<1>9. InRounds'
  BY <1>1, <1>2, <1>4, <1>8 DEF InRounds
<1>10. InRest'
  BY <1>1, <1>2, <1>3, <1>4 DEF InRest, AtLeast, AtMost, AtMostNext
<1> QED BY <1>5, <1>6, <1>7, <1>9, <1>10

\* The event read is counted, or there was none.
LEMMA CountInv ==
  ASSUME SleepInv, Sleep!Count
  PROVE  SleepInv'
<1>1. /\ cpu = "count" /\ cpu' = "loop"
      /\ UNCHANGED <<timer, event, seen, asked, elapsed, others, straddle>>
      /\ UNCHANGED <<round, phase, rounds, rest, due>>
  BY SameTime DEF Sleep!Count
<1> USE SleepConstants, SleepTypes DEF SleepInv
<1>2. Running /\ Running' /\ ~Known' /\ (Known <=> seen)
  BY <1>1 DEF Known, Running
<1>3. /\ timer.ocr = Sleep!NextMatch /\ left.fractional = rest
      /\ left.integer > 0 \/ left.fractional > 0
  BY <1>1, <1>2 DEF Shape
<1>4. Stopped' /\ Timely'
  BY <1>1, <1>2 DEF Stopped, Running, Timely
<1>5. CASE ~seen
  <2>1. left' = left
    BY <1>5 DEF Sleep!Count
  <2>2. Due' = Due /\ Sleep!NextMatch' = Sleep!NextMatch
    BY <1>1, <2>1 DEF Due, Sleep!NextMatch
  <2>3. Danger' = Danger
    BY <1>1, <2>2 DEF Danger
  <2>4. Owed' = Owed /\ Owed \in 0..2
    BY <1>1, <2>3 DEF Owed, One
  <2>5. Sleep!TypeOK'
    BY <1>1, <2>1, SleepFields, SleepTypesBack
  <2>6. Over'
    BY <1>1, <1>3, <2>1 DEF Over
  <2>7. Shape'
    BY <1>1, <1>2, <1>3, <2>1, <2>2, <2>3 DEF Shape, Sleep!NextMatch
  <2>8. Ahead' = Ahead /\ Ahead \in Int
    BY <1>1, <1>2, <1>5, <2>1 DEF Ahead, One
  <2>9. InRounds'
    BY <1>1, <1>2, <2>1, <2>4, <2>8 DEF InRounds
  <2>10. InRest'
    BY <1>1, <1>2, <1>5, <2>1, <2>4 DEF InRest, AtLeast, AtMost, AtMostNext
  <2> QED BY <1>4, <2>5, <2>6, <2>7, <2>9, <2>10
<1>6. CASE seen /\ left.integer > 0
  <2>1. left' = [left EXCEPT !.integer = left.integer - 1]
    BY <1>6 DEF Sleep!Count
  <2>2. /\ left' \in [integer : Nat, fractional : 0..(Wrap - 1)]
        /\ left'.integer = left.integer - 1 /\ left'.fractional = left.fractional
    BY <1>6, <2>1, SleepFields
  <2>3. timer.ocr = Wrap - 1
    BY <1>3, <1>6 DEF Sleep!NextMatch
  <2>4. Due' = Due
    BY <1>1, <2>2 DEF Due
  <2>5. Danger' = Danger
    BY <1>1, <2>4 DEF Danger
  <2>6. Owed' = Owed /\ Owed \in 0..2 /\ Owed = One(Danger)
    BY <1>1, <2>5 DEF Owed, One
  <2>7. Sleep!TypeOK'
    BY <1>1, <2>2, SleepFields, SleepTypesBack
  <2>8. Shape'
    BY <1>1, <1>2, <1>3, <1>6, <2>2, <2>3, <2>4, <2>5 DEF Shape
  <2>9. /\ Ahead \in Int /\ Ahead' = Ahead
        /\ Ahead = rounds - left'.integer + One(timer.pending)
    BY <1>1, <1>2, <1>6, <2>2 DEF Ahead, One
  <2>10. /\ Ahead <= round
         /\ round <= Ahead + (others - Owed)
         /\ \/ phase = 0
            \/ phase = 1 /\ ~straddle
            \/ round < Ahead + (others - Owed)
         /\ timer.pending => phase = 0
    BY <1>1, <1>2, <1>6 DEF InRounds, Shape
  <2>11. InRounds' /\ InRest' /\ Over'
    <3>1. CASE left'.integer > 0
      BY <1>1, <1>2, <2>2, <2>6, <2>9, <2>10, <3>1 DEF InRounds, InRest, Over
    <3>2. CASE left'.integer = 0
      <4>1. Ahead = rounds + One(timer.pending)
        BY <2>9, <3>2 DEF One
      <4>2. CASE timer.pending
        <5>1. Ahead = rounds + 1 /\ Owed = 1 /\ phase = 0
          BY <2>6, <2>10, <4>1, <4>2 DEF One, Danger
        <5>2. AtLeast /\ AtMost(others) /\ round >= rounds
          BY <2>10, <5>1 DEF AtLeast, AtMost
        <5>3. AtLeast' /\ (AtMost(others))' /\ round' >= rounds' /\ (AtMostNext(others))'
          BY <1>1, <5>2 DEF AtLeast, AtMost, AtMostNext
        <5> QED BY <1>1, <1>2, <3>2, <4>2, <5>3 DEF InRounds, InRest, Over, AtMostNext
      <4>3. CASE ~timer.pending
        <5>1. Ahead = rounds
          BY <4>1, <4>3 DEF One
        <5>2. round >= rounds /\ round <= rounds + (others - Owed)
          BY <2>10, <5>1
        <5>3. CASE left.fractional > 0
          <6>1. AtMost(others - Owed)
            BY <1>3, <2>6, <2>10, <5>1, <5>3 DEF AtMost
          <6>2. (AtMost(others - Owed))'
            BY <1>1, <2>6, <6>1 DEF AtMost
          <6> QED BY <1>1, <1>2, <2>2, <3>2, <4>3, <5>2, <5>3, <6>2 DEF InRounds, InRest, Over
        <5>4. CASE left.fractional = 0
          <6>1. AtLeast
            BY <1>3, <5>2, <5>4 DEF AtLeast
          <6>2. IF straddle THEN AtMost(others) ELSE AtMostNext(others)
            BY <1>3, <2>6, <2>10, <5>1, <5>4 DEF AtMost, AtMostNext
          <6>3. AtLeast' /\ IF straddle' THEN (AtMost(others))' ELSE (AtMostNext(others))'
            BY <1>1, <6>1, <6>2 DEF AtLeast, AtMost, AtMostNext
          <6> QED BY <1>1, <1>2, <2>2, <3>2, <5>4, <6>3 DEF InRounds, InRest, Over
        <5> QED BY <5>3, <5>4
      <4> QED BY <4>2, <4>3
    <3> QED BY <2>2, <3>1, <3>2
  <2> QED BY <1>4, <2>7, <2>8, <2>11
<1>7. CASE seen /\ left.integer = 0
  <2>1. left' = [left EXCEPT !.fractional = 0]
    BY <1>7 DEF Sleep!Count
  <2>2. /\ left' \in [integer : Nat, fractional : 0..(Wrap - 1)]
        /\ left'.integer = 0 /\ left'.fractional = 0 /\ left.fractional > 0
    <3>1. 0 \in 0..(Wrap - 1)
      OBVIOUS
    <3> QED BY <1>3, <1>7, <2>1, <3>1, SleepFields
  <2>3. timer.ocr = rest
    BY <1>3, <1>7 DEF Sleep!NextMatch
  <2>4. Due' => Due
    BY <1>1, <2>2 DEF Due
  <2>5. Sleep!TypeOK'
    BY <1>1, <2>2, SleepFields, SleepTypesBack
  <2>6. Shape'
    BY <1>1, <1>2, <1>3, <2>2, <2>3, <2>4 DEF Shape
  <2>7. AtLeast
    BY <1>2, <1>7, <2>2 DEF InRest
  <2>8. IF straddle THEN AtMost(others) ELSE AtMostNext(others)
    <3>1. timer.pending => AtMost(others)
      BY <1>1, <1>2, <1>7, <2>2 DEF InRest
    <3>2. ~timer.pending => IF Danger THEN AtMost(others - 1)
                            ELSE IF straddle THEN AtMost(others) ELSE AtMostNext(others)
      BY <1>1, <1>2, <1>7, <2>2 DEF InRest
    <3> QED BY <3>1, <3>2 DEF AtMost, AtMostNext
  <2>9. AtLeast' /\ IF straddle' THEN (AtMost(others))' ELSE (AtMostNext(others))'
    BY <1>1, <2>7, <2>8 DEF AtLeast, AtMost, AtMostNext
  <2>10. InRounds' /\ InRest' /\ Over'
    BY <1>1, <2>2, <2>9 DEF InRounds, InRest, Over
  <2> QED BY <1>4, <2>5, <2>6, <2>10
<1> QED BY <1>5, <1>6, <1>7

\* HAL_Sleep of the boards without the asynchronous timer.
LEMMA DelayInv ==
  ASSUME SleepInv, Sleep!Delay
  PROVE  SleepInv'
<1>1. /\ cpu = "delay" /\ cpu' = IF left.integer = 1 THEN "done" ELSE "delay"
      /\ left' = [left EXCEPT !.integer = left.integer - 1] /\ elapsed' = elapsed + 1
      /\ UNCHANGED <<timer, event, seen, asked, others, straddle>> /\ due' = due
  BY DEF Sleep!Delay, due
<1> USE SleepConstants, SleepTypes DEF SleepInv
<1>2. left.integer > 0 /\ elapsed = due - left.integer /\ others = 0 /\ ~timer.pending
  BY <1>1 DEF Stopped, Running
<1>3. /\ left' \in [integer : Nat, fractional : 0..(Wrap - 1)]
      /\ left'.integer = left.integer - 1
  BY <1>1, <1>2, SleepFields
<1>4. elapsed' \in Nat /\ elapsed' = due - left'.integer
  BY <1>1, <1>2, <1>3
<1>5. Sleep!TypeOK'
  BY <1>1, <1>3, <1>4, SleepFields, SleepTypesBack
<1>6. others' = 0 /\ Wrap * 0 = 0
  BY <1>1, <1>2
<1>7. Timely'
  <2>1. Wrap * others' = 0
    BY <1>6
  <2>2. cpu' = "done" => elapsed' = due'
    BY <1>1, <1>3, <1>4
  <2>3. cpu' = "done" => elapsed' >= due' /\ elapsed' <= due' + 1 + 0
    BY <1>1, <2>2
  <2> QED BY <2>1, <2>3 DEF Timely
<1>8. Stopped'
  BY <1>1, <1>2, <1>3, <1>4 DEF Stopped, Running
<1>9. Shape' /\ InRounds' /\ InRest' /\ Over'
  BY <1>1 DEF Shape, InRounds, InRest, Over, Running
<1> QED BY <1>5, <1>7, <1>8, <1>9

-----------------------------------------------------------------------------
(***************************************************************************)
(* The interrupts and the timer.                                           *)
(***************************************************************************)

\* The interrupt of a match sets the event; it settles what its match was owed.
LEMMA TimerInterruptInv ==
  ASSUME SleepInv, Sleep!TIMER2_COMPA
  PROVE  SleepInv'
<1>1. /\ timer.pending /\ timer' = [timer EXCEPT !.pending = FALSE] /\ event' = TRUE
      /\ cpu' = IF cpu = "asleep" THEN "awake" ELSE cpu
      /\ UNCHANGED <<left, seen, asked, elapsed, others, straddle>>
      /\ UNCHANGED <<round, phase, rounds, rest, due>>
  BY SameTime DEF Sleep!TIMER2_COMPA
<1> USE SleepConstants, SleepTypes DEF SleepInv
<1>2. /\ timer' \in [ocr : 0..Wrap, pending : BOOLEAN]
      /\ timer'.ocr = timer.ocr /\ timer'.pending = FALSE
  BY <1>1, SleepFields
<1>3. Running /\ Running'
  BY <1>1 DEF Stopped, Running
<1>4. ~Due /\ ~Due' /\ ~Danger' /\ Danger /\ Sleep!NextMatch' = Sleep!NextMatch
  BY <1>1, <1>2, <1>3 DEF Shape, Due, Danger, Sleep!NextMatch
<1>5. cpu' \in {"off", "loop", "armed", "asleep", "awake", "count", "delay", "done"}
  BY <1>1, <1>3 DEF Running
<1>6. Sleep!TypeOK'
  BY <1>1, <1>2, <1>5, SleepFields, SleepTypesBack
<1>7. Stopped' /\ Timely'
  BY <1>1, <1>3 DEF Stopped, Running, Timely
<1>8. Shape'
  BY <1>1, <1>2, <1>3, <1>4 DEF Shape
<1>9. cpu = "armed" => ~event
  BY <1>3, <1>4 DEF Shape
<1>10. /\ Owed' = One(cpu = "armed")
       /\ Owed = IF cpu = "asleep" THEN One(event) ELSE 1
  BY <1>1, <1>3, <1>4, <1>9 DEF Owed, One, Running
<1>11. /\ Known' <=> cpu \in {"armed", "asleep", "awake"} \/ (cpu = "count" /\ seen)
       /\ Known <=> (cpu \in {"asleep", "awake"} /\ event) \/ (cpu = "count" /\ seen)
  BY <1>1, <1>3, <1>9 DEF Known, Running
<1>12. CASE left.integer > 0
  <2>1. phase = 0
    BY <1>1, <1>3, <1>12 DEF Shape
  <2>2. /\ Ahead = (rounds - left.integer) + 1 + One(Known)
        /\ Ahead' = (rounds - left.integer) + One(Known')
    BY <1>1, <1>2 DEF Ahead, One
  <2>3. /\ Ahead \in Int /\ Ahead' \in Int /\ Ahead' <= Ahead
        /\ Ahead - Owed <= Ahead' - Owed'
    BY <1>3, <1>9, <1>10, <1>11, <2>2 DEF One, Running
  <2>4. Owed \in 0..2 /\ Owed' \in 0..2
    BY <1>10 DEF One
  <2>5. InRounds'
    BY <1>1, <1>3, <1>12, <2>1, <2>3, <2>4 DEF InRounds
  <2> QED BY <1>1, <1>6, <1>7, <1>8, <1>12, <2>5 DEF InRest, Over
<1>13. CASE left.integer = 0 /\ left.fractional > 0
  <2>1. /\ round >= rounds /\ AtLeast
        /\ cpu = "asleep" => AtMostNext(others)
        /\ cpu # "asleep" => AtMost(others)
    BY <1>1, <1>3, <1>13 DEF InRest
  <2>2. /\ round' >= rounds' /\ AtLeast'
        /\ cpu = "asleep" => (AtMostNext(others))'
        /\ cpu # "asleep" => (AtMost(others))' /\ (AtMostNext(others))'
    BY <1>1, <2>1 DEF AtLeast, AtMost, AtMostNext
  <2>3. ~Known' => Owed' = 0
    BY <1>10, <1>11 DEF One
  <2>4. ~Known' => (AtMost(others - Owed))'
    <3> SUFFICES ASSUME ~Known' PROVE (AtMost(others - Owed))'
      OBVIOUS
    <3>1. cpu # "asleep" /\ others' - Owed' = others'
      BY <1>1, <1>11, <2>3
    <3> QED BY <2>2, <3>1 DEF AtMost
  <2>5. cpu = "asleep" => ~straddle
    BY <1>3 DEF Shape
  <2>6. InRest'
    BY <1>1, <1>2, <1>4, <1>11, <2>2, <2>4, <2>5 DEF InRest
  <2> QED BY <1>1, <1>6, <1>7, <1>8, <1>13, <2>6 DEF InRounds, Over
<1>14. CASE left.integer = 0 /\ left.fractional = 0
  <2>1. cpu = "loop" /\ AtLeast /\ IF straddle THEN AtMost(others) ELSE AtMostNext(others)
    BY <1>3, <1>14 DEF Over
  <2>2. AtLeast' /\ IF straddle' THEN (AtMost(others))' ELSE (AtMostNext(others))'
    BY <1>1, <2>1 DEF AtLeast, AtMost, AtMostNext
  <2> QED BY <1>1, <1>6, <1>7, <1>8, <1>14, <2>1, <2>2 DEF InRounds, InRest, Over
<1> QED BY <1>12, <1>13, <1>14

\* Another interrupt ends the sleep: from now on one match more may be lost.
LEMMA OtherInterruptInv ==
  ASSUME SleepInv, Sleep!OtherInterrupt
  PROVE  SleepInv'
<1>1. /\ cpu = "asleep" /\ cpu' = "awake" /\ others < MaxOthers /\ others' = others + 1
      /\ straddle' = TRUE
      /\ UNCHANGED <<left, timer, event, seen, asked, elapsed>>
      /\ UNCHANGED <<round, phase, rounds, rest, due>>
  BY SameTime DEF Sleep!OtherInterrupt
<1> USE SleepConstants, SleepTypes DEF SleepInv
<1>2. Running /\ Running' /\ Known' = Known /\ (Known <=> event) /\ Due' = Due
      /\ Sleep!NextMatch' = Sleep!NextMatch
  BY <1>1 DEF Running, Known, Due, Sleep!NextMatch
<1>3. others' \in 0..MaxOthers
  BY <1>1, SleepFields
<1>4. Sleep!TypeOK'
  BY <1>1, <1>3, SleepFields, SleepTypesBack
<1>5. Stopped' /\ Timely'
  BY <1>1, <1>2 DEF Stopped, Running, Timely
<1>6. /\ left.integer > 0 \/ left.fractional > 0
      /\ timer.ocr = Sleep!NextMatch /\ timer.ocr # Wrap
  BY <1>1, <1>2 DEF Shape, Sleep!NextMatch
<1>7. Shape'
  BY <1>1, <1>2, <1>6 DEF Shape
<1>8. Owed' = One(Danger') /\ Owed = One(event)
  BY <1>1 DEF Owed, One
<1>9. CASE left.integer > 0
  <2>1. Ahead' = Ahead /\ Ahead \in Int
    BY <1>1, <1>2 DEF Ahead, One
  <2>2. Ahead <= round /\ round <= Ahead + (others - Owed)
    BY <1>2, <1>9 DEF InRounds
  <2>3. InRounds'
    BY <1>1, <1>2, <1>8, <2>1, <2>2 DEF InRounds, One
  <2> QED BY <1>1, <1>4, <1>5, <1>7, <1>9, <2>3 DEF InRest, Over
<1>10. CASE left.integer = 0 /\ left.fractional > 0
  <2>1. /\ round >= rounds
        /\ timer.pending \/ event => AtLeast
        /\ ~timer.pending /\ ~event => AtMost(others - Owed)
        /\ timer.pending => AtMostNext(others)
        /\ event /\ ~timer.pending => AtMost(others)
    BY <1>1, <1>2, <1>10 DEF InRest
  <2>2. timer.pending \/ event => AtLeast'
    BY <1>1, <2>1 DEF AtLeast
  <2>3. ~timer.pending /\ ~event => (AtMost(others - Owed))'
    <3> SUFFICES ASSUME ~timer.pending, ~event PROVE (AtMost(others - Owed))'
      OBVIOUS
    <3>1. AtMost(others) /\ Owed' \in 0..1
      BY <1>8, <2>1 DEF AtMost, One
    <3> QED BY <1>1, <3>1 DEF AtMost
  <2>4. timer.pending => (AtMost(others))'
    BY <1>1, <2>1 DEF AtMost, AtMostNext
  <2>5. event /\ ~timer.pending =>
          (AtMost(others - 1))' /\ (AtMost(others))' /\ (AtMostNext(others))'
    BY <1>1, <2>1 DEF AtMost, AtMostNext
  <2>6. InRest'
    BY <1>1, <1>2, <2>1, <2>2, <2>3, <2>4, <2>5 DEF InRest
  <2> QED BY <1>1, <1>4, <1>5, <1>7, <1>10, <2>6 DEF InRounds, Over
<1> QED BY <1>6, <1>9, <1>10

\* The timer counts: it matches, or the time asked for is not over by more than before.
LEMMA TickInv ==
  ASSUME SleepInv, Sleep!Tick
  PROVE  SleepInv'
<1> DEFINE match == phase = timer.ocr
<1>1. /\ cpu = "asleep" \/ straddle
      /\ cpu \in {"loop", "armed", "asleep", "awake", "count"} /\ ~timer.pending
      /\ elapsed' = elapsed + 1
      /\ timer' = [timer EXCEPT !.pending = match] /\ straddle' = FALSE
      /\ UNCHANGED <<cpu, left, event, seen, asked, others>> /\ due' = due
  BY DEF Sleep!Tick, phase, due
<1> USE SleepConstants, SleepTypes DEF SleepInv
<1>2. /\ timer' \in [ocr : 0..Wrap, pending : BOOLEAN]
      /\ timer'.ocr = timer.ocr /\ timer'.pending = match
  <2>1. match \in BOOLEAN
    OBVIOUS
  <2> HIDE DEF match
  <2> QED BY <1>1, <2>1, SleepFields
<1>3. /\ phase = Wrap - 1 => round' = round + 1 /\ phase' = 0
      /\ phase # Wrap - 1 => round' = round /\ phase' = phase + 1
      /\ rounds' = rounds /\ rest' = rest
  <2>1. Wrap \in Nat \ {0} /\ elapsed \in Nat
    OBVIOUS
  <2> QED BY <1>1, <2>1, TickCounts DEF round, phase, rounds, rest
<1>4. Running /\ Running' /\ Known' = Known /\ Sleep!NextMatch' = Sleep!NextMatch
  BY <1>1 DEF Running, Known, Sleep!NextMatch
<1>5. Sleep!TypeOK'
  <2>1. elapsed \in Nat /\ elapsed' = elapsed + 1 /\ straddle' = FALSE
    BY <1>1
  <2>2. elapsed' \in Nat
    BY <2>1
  <2>3. straddle' \in BOOLEAN
    BY <2>1, Zenon
  <2>4. cpu' \in {"off", "loop", "armed", "asleep", "awake", "count", "delay", "done"}
    BY <1>1
  <2> QED BY <1>1, <1>2, <2>2, <2>3, <2>4, SleepFields, SleepTypesBack
<1>6. Stopped' /\ Timely'
  BY <1>1, <1>4 DEF Stopped, Running, Timely
<1>7. /\ timer.ocr \in {Wrap - 1, rest} /\ timer.ocr # 0
      /\ left.integer > 0 => timer.ocr = Wrap - 1
      /\ left.integer > 0 \/ left.fractional > 0 => left.fractional = rest
  BY <1>1, <1>4 DEF Shape, Sleep!NextMatch
<1>8. Danger' <=> match
  BY <1>1, <1>2 DEF Danger
<1>9. match => ~Due'
  BY <1>1, <1>2, <1>3, <1>7 DEF Due, Shape
<1>10. ASSUME left.integer > 0 \/ left.fractional > 0, match, cpu # "asleep"
       PROVE  Danger
  BY <1>1, <1>7, <1>10 DEF Due, Danger
<1>11. cpu = "armed" /\ event => ~match
  BY <1>1, <1>4, <1>10 DEF Shape
<1>12. Shape'
  BY <1>1, <1>2, <1>3, <1>4, <1>7, <1>8, <1>9, <1>11 DEF Shape
<1>13. /\ Owed \in 0..2 /\ Owed' \in 0..2
       /\ left.integer > 0 \/ left.fractional > 0 => Owed' <= Owed
  BY <1>1, <1>8, <1>10 DEF Owed, One
<1>14. CASE left.integer > 0
  <2>1. /\ Ahead <= round /\ round <= Ahead + (others - Owed)
        /\ cpu \in {"awake", "count"} /\ Known =>
             phase = 0 \/ round < Ahead + (others - Owed)
    BY <1>1, <1>4, <1>14 DEF InRounds
  <2>2. Ahead \in Int /\ Ahead' = Ahead + One(match)
    BY <1>1, <1>2, <1>3, <1>4 DEF Ahead, One
  <2>3. ASSUME match PROVE InRounds'
    <3>1. round' = round + 1 /\ phase' = 0 /\ Ahead' = Ahead + 1
      BY <1>3, <1>7, <1>14, <2>2, <2>3 DEF One
    <3> QED BY <1>1, <1>13, <1>14, <2>1, <2>2, <3>1 DEF InRounds
  <2>4. ASSUME ~match PROVE InRounds'
    <3>1. round' = round /\ phase' = phase + 1 /\ Ahead' = Ahead
      BY <1>3, <1>7, <1>14, <2>2, <2>4 DEF One
    <3> QED BY <1>1, <1>4, <1>13, <1>14, <2>1, <2>2, <3>1 DEF InRounds
  <2>5. InRounds'
    BY <2>3, <2>4
  <2> QED BY <1>1, <1>5, <1>6, <1>12, <1>14, <2>5 DEF InRest, Over
<1>15. \A n \in Int : AtMost(n) => (AtMostNext(n))'
  BY <1>3 DEF AtMost, AtMostNext
<1>16. \A n \in Int : AtMost(n - 1) => (AtMost(n))'
  BY <1>3 DEF AtMost
<1>17. \A n \in Int : AtMost(n) /\ phase # rest => (AtMost(n))'
  BY <1>3 DEF AtMost
<1>18. AtLeast => AtLeast'
  BY <1>3 DEF AtLeast
<1>19. others \in Int /\ others' = others
  BY <1>1
<1>20. CASE left.integer = 0 /\ left.fractional > 0
  <2>1. /\ round >= rounds
        /\ Known => AtLeast
        /\ ~Known => AtMost(others - Owed)
        /\ cpu \in {"armed", "asleep"} /\ event => AtMost(others)
        /\ cpu \in {"awake", "count"} /\ Known =>
             IF Danger THEN AtMost(others - 1) ELSE AtMost(others)
    BY <1>1, <1>4, <1>20 DEF InRest
  <2>2. left.fractional = rest /\ round' >= rounds'
    BY <1>3, <1>7, <1>20, <2>1
  <2>3. match \/ Known => AtLeast'
    BY <1>3, <1>7, <1>18, <2>1 DEF AtLeast
  <2>4. cpu = "asleep" /\ ~event => Owed = 0
    BY DEF Owed, One
  <2>5. cpu \in {"armed", "asleep"} => (Known <=> event)
    BY DEF Known
  <2>6. ASSUME match PROVE InRest'
    <3>1. cpu = "asleep" => (AtMostNext(others))'
      BY <1>15, <1>19, <2>1, <2>4, <2>5
    <3>2. cpu # "asleep" => (AtMost(others))'
      <4> SUFFICES ASSUME cpu # "asleep" PROVE (AtMost(others))'
        OBVIOUS
      <4>1. Danger /\ ~(cpu = "armed" /\ event)
        BY <1>10, <1>11, <1>20, <2>6
      <4>2. CASE Known
        <5>1. cpu \in {"awake", "count"}
          BY <4>1, <4>2 DEF Known
        <5> QED BY <1>16, <1>19, <2>1, <4>1, <4>2, <5>1
      <4>3. CASE ~Known
        <5>1. Owed = 1
          BY <1>1, <4>1, <4>3 DEF Owed, One, Known
        <5> QED BY <1>16, <1>19, <2>1, <4>3, <5>1
      <4> QED BY <4>2, <4>3
    <3> QED BY <1>1, <1>2, <1>19, <2>2, <2>3, <2>6, <3>1, <3>2 DEF InRest
  <2>7. ASSUME ~match PROVE InRest'
    <3>1. ~timer'.pending /\ ~Danger' /\ ~straddle'
      BY <1>1, <1>2, <1>8, <2>7
    <3>2. ~Known => (AtMost(others - Owed))'
      <4> SUFFICES ASSUME ~Known PROVE (AtMost(others - Owed))'
        OBVIOUS
      <4>1. Owed' = 0
        BY <1>1, <2>5, <3>1 DEF Owed, One
      <4>2. (AtMost(others))'
        <5>1. CASE phase # rest
          <6>1. AtMost(others)
            BY <1>13, <2>1 DEF AtMost
          <6> QED BY <1>17, <1>19, <5>1, <6>1
        <5>2. CASE phase = rest
          <6>1. cpu # "asleep"
            BY <1>4, <1>20, <2>2, <2>7, <5>2 DEF Shape, Sleep!NextMatch
          <6>2. Danger
            BY <1>1, <1>20, <2>2, <5>2, <6>1 DEF Danger, Due
          <6>3. Owed = 1
            BY <1>1, <2>5, <6>1, <6>2 DEF Owed, One
          <6> QED BY <1>16, <1>19, <2>1, <6>3
        <5> QED BY <5>1, <5>2
      <4> QED BY <1>19, <4>1, <4>2 DEF AtMost
    <3>3. cpu \in {"armed", "asleep"} /\ event => (AtMost(others))'
      <4>1. cpu \in {"armed", "asleep"} => phase # rest
        BY <1>4, <1>20, <2>2, <2>7 DEF Shape, Sleep!NextMatch
      <4> QED BY <1>17, <1>19, <2>1, <4>1
    <3>4. cpu \in {"awake", "count"} /\ Known => (AtMostNext(others))'
      <4> SUFFICES ASSUME cpu \in {"awake", "count"}, Known PROVE (AtMostNext(others))'
        OBVIOUS
      <4>1. AtMost(others)
        BY <2>1 DEF AtMost
      <4> QED BY <1>15, <1>19, <4>1
    <3> QED BY <1>1, <1>4, <1>19, <2>2, <2>3, <3>1, <3>2, <3>3, <3>4 DEF InRest
  <2>8. InRest'
    BY <2>6, <2>7
  <2> QED BY <1>1, <1>5, <1>6, <1>12, <1>20, <2>8 DEF InRounds, Over
<1>21. CASE left.integer = 0 /\ left.fractional = 0
  <2>1. cpu = "loop" /\ AtLeast /\ AtMost(others)
    BY <1>1, <1>4, <1>21 DEF Over
  <2>2. AtLeast' /\ (AtMostNext(others))'
    BY <1>15, <1>18, <1>19, <2>1
  <2> QED BY <1>1, <1>5, <1>6, <1>12, <1>21, <2>1, <2>2 DEF InRounds, InRest, Over
<1> QED BY <1>14, <1>20, <1>21

-----------------------------------------------------------------------------
(***************************************************************************)
(* HAL_Sleep is called and returns.                                        *)
(***************************************************************************)
LEMMA SleepInitInv == Sleep!Init => SleepInv
<1> SUFFICES ASSUME Sleep!Init PROVE SleepInv
  OBVIOUS
<1> USE SleepConstants DEF Sleep!Init, Sleep!Unset
<1>1. Sleep!TypeOK
  <2>1. left \in [integer : Nat, fractional : 0..(Wrap - 1)]
    OBVIOUS
  <2>2. timer \in [ocr : 0..Wrap, pending : BOOLEAN]
    OBVIOUS
  <2>3. asked \in Nat /\ elapsed \in Nat /\ others \in 0..MaxOthers
    OBVIOUS
  <2> QED BY <2>1, <2>2, <2>3 DEF Sleep!TypeOK
<1>2. Stopped /\ Shape /\ InRounds /\ InRest /\ Over /\ Timely
  BY DEF Stopped, Shape, InRounds, InRest, Over, Running, Timely
<1> QED BY <1>1, <1>2 DEF SleepInv

LEMMA ReturnedInv ==
  ASSUME SleepInv, Sleep!Returned
  PROVE  SleepInv'
<1> USE SleepConstants DEF Sleep!Returned, Sleep!Unset
<1>1. Sleep!TypeOK'
  <2>1. left' \in [integer : Nat, fractional : 0..(Wrap - 1)]
    OBVIOUS
  <2>2. timer' \in [ocr : 0..Wrap, pending : BOOLEAN]
    OBVIOUS
  <2>3. asked' \in Nat /\ elapsed' \in Nat /\ others' \in 0..MaxOthers
    OBVIOUS
  <2> QED BY <2>1, <2>2, <2>3 DEF Sleep!TypeOK
<1>2. Stopped' /\ Shape' /\ InRounds' /\ InRest' /\ Over' /\ Timely'
  BY DEF Stopped, Shape, InRounds, InRest, Over, Running, Timely
<1> QED BY <1>1, <1>2 DEF SleepInv

\* A sleep of no time is over at once.
LEMMA NoSleepInv ==
  ASSUME SleepInv, NEW time \in Nat, time \div 1000 = 0, NEW at,
         NEW first \in [integer : Nat, fractional : 0..(Wrap - 1)],
         Sleep!Called(time, 0, at, first)
  PROVE  SleepInv'
<1> USE DEF SleepInv
<1>1. /\ cpu = "off" /\ cpu' = "done" /\ left' = first /\ asked' = time
      /\ UNCHANGED <<timer, event, seen, elapsed, others, straddle>>
      /\ due' = 0
  BY DEF Sleep!Called, due
<1>2. elapsed = 0 /\ others = 0 /\ ~timer.pending
  BY <1>1 DEF Stopped, Running
<1>3. Sleep!TypeOK'
  BY <1>1, SleepFields, SleepTypesBack
<1>4. Timely'
  <2>1. Wrap * 0 = 0 /\ others' = 0 /\ elapsed' = 0
    BY <1>1, <1>2, SleepConstants
  <2>2. Wrap * others' = 0
    BY <2>1
  <2>3. elapsed' >= due' /\ elapsed' <= due' + 1 + 0
    BY <1>1, <2>1
  <2> QED BY <2>2, <2>3 DEF Timely
<1>5. Stopped' /\ Shape' /\ InRounds' /\ InRest' /\ Over'
  BY <1>1, <1>2 DEF Stopped, Shape, InRounds, InRest, Over, Running
<1> QED BY <1>3, <1>4, <1>5

\* Neither the product nor the number of rounds overflows.
LEMMA NoOverflow ==
  ASSUME NEW interval \in Intervals
  PROVE  /\ interval * 32 \in Nat /\ (interval * 32) % Word = interval * 32
         /\ (((interval * 32) \div 1000) \div Wrap) % HalfWord
              = ((interval * 32) \div 1000) \div Wrap
<1> DEFINE product == interval * 32
           times == (product \div 1000) \div Wrap
<1>1. /\ product \in Nat /\ product < Word /\ times < HalfWord
      /\ Word \in Nat /\ HalfWord \in Nat
  BY SleepAssumption, SleepConstants
<1>2. times \in Nat
  <2>0. 1000 \in Nat \ {0}
    OBVIOUS
  <2> HIDE DEF product
  <2>1. product \div 1000 \in Nat
    BY <1>1, <2>0, Quotient
  <2> QED BY <2>1, Quotient, SleepConstants
<1> HIDE DEF product, times
<1>3. product % Word = product /\ times % HalfWord = times
  BY <1>1, <1>2
<1> QED BY <1>1, <1>3 DEF product, times

LEMMA HalSleepInv ==
  ASSUME SleepInv, NEW interval \in Intervals, Sleep!HAL_Sleep(interval)
  PROVE  SleepInv'
<1> DEFINE product == interval * 32
           ticks == product \div 1000
           first == [integer |-> ticks \div Wrap, fractional |-> ticks % Wrap]
<1>1. Sleep!Called(product, ticks, "loop", first)
  BY NoOverflow DEF Sleep!HAL_Sleep, Sleep!PRESCALED_CLOCK
<1>2. product \in Nat /\ ticks \in Nat
  <2>1. product \in Nat /\ 1000 \in Nat \ {0}
    BY NoOverflow
  <2> HIDE DEF product
  <2> QED BY <2>1, Quotient
<1>0. product \div 1000 = ticks
  OBVIOUS
<1> HIDE DEF product, ticks
<1>3. ticks \div Wrap \in Nat /\ ticks % Wrap \in 0..(Wrap - 1) /\ Wrap \in Nat \ {0}
      /\ ticks = Wrap * (ticks \div Wrap) + (ticks % Wrap)
  <2>1. Wrap \in Nat \ {0}
    BY SleepConstants
  <2> QED BY <1>2, <2>1, Quotient
<1>4. first \in [integer : Nat, fractional : 0..(Wrap - 1)]
  BY <1>3
<1>5. CASE ticks = 0
  <2>1. Sleep!Called(product, 0, "loop", first) /\ product \div 1000 = 0
    BY <1>0, <1>1, <1>5
  <2> HIDE DEF first
  <2> QED BY <1>2, <1>4, <2>1, NoSleepInv
<1>6. CASE ticks # 0
  <2>1. /\ cpu = "off" /\ cpu' = "loop" /\ left' = first /\ asked' = product
        /\ UNCHANGED <<timer, event, seen, elapsed, others, straddle>>
        /\ due' = ticks
    BY <1>0, <1>1, <1>6 DEF Sleep!Called, due
  <2>2. /\ elapsed = 0 /\ others = 0 /\ ~timer.pending /\ ~event /\ ~straddle
        /\ timer.ocr = Wrap
    BY <2>1 DEF SleepInv, Stopped, Running
  <2>3. Sleep!TypeOK'
    BY <1>2, <1>4, <2>1, SleepFields, SleepTypesBack DEF SleepInv
  <2>4. /\ left'.integer = rounds' /\ left'.fractional = rest'
        /\ rounds' = ticks \div Wrap /\ rest' = ticks % Wrap
    BY <2>1 DEF rounds, rest
  <2>5. round' = 0 /\ phase' = 0
    <3>1. Wrap * 0 + 0 = 0 /\ 0 \in 0..(Wrap - 1)
      BY SleepConstants
    <3>2. 0 \div Wrap = 0 /\ 0 % Wrap = 0
      BY <1>3, <3>1, QuotientUnique
    <3> QED BY <2>1, <2>2, <3>2 DEF round, phase
  <2>6. ~(rounds' = 0 /\ rest' = 0)
    <3>1. Wrap * 0 + 0 = 0
      BY SleepConstants
    <3> QED BY <1>3, <1>6, <2>4, <3>1
  <2> USE SleepConstants
  <2>7. Known' = FALSE /\ ~Danger' /\ cpu' = "loop"
    BY <2>1, <2>2 DEF Known, Danger
  <2>8. Owed' = 0 /\ Ahead' = 0
    BY <1>3, <2>1, <2>2, <2>4, <2>7 DEF Owed, Ahead, One
  <2>9. Stopped' /\ Shape' /\ Timely'
    BY <2>1, <2>2, <2>4, <2>7 DEF Stopped, Shape, Running, Timely
  <2>10. InRounds'
    BY <2>1, <2>2, <2>5, <2>7, <2>8 DEF InRounds
  <2>11. InRest'
    <3> SUFFICES ASSUME left'.integer = 0 PROVE InRest'
      BY DEF InRest
    <3>1. rounds' = 0 /\ others' = 0 /\ others' - Owed' = 0 /\ rest' >= 0
      BY <1>3, <2>1, <2>2, <2>4, <2>8
    <3>2. (AtMost(others - Owed))' /\ round' >= rounds'
      BY <2>5, <3>1 DEF AtMost
    <3> QED BY <2>1, <2>2, <2>7, <3>2 DEF InRest
  <2>12. Over'
    BY <2>4, <2>6 DEF Over
  <2> QED BY <2>3, <2>9, <2>10, <2>11, <2>12 DEF SleepInv
<1> QED BY <1>5, <1>6

LEMMA HalSleepWaitInv ==
  ASSUME SleepInv, NEW interval \in Waits, Sleep!HAL_Sleep_Wait(interval)
  PROVE  SleepInv'
<1> DEFINE first == [integer |-> interval, fractional |-> 0]
<1>1. Sleep!Called(interval * 1000, interval, "delay", first) /\ interval \in Nat
  BY SleepConstants DEF Sleep!HAL_Sleep_Wait
<1>0. interval * 1000 \in Nat /\ (interval * 1000) \div 1000 = interval
  BY <1>1
<1>2. first \in [integer : Nat, fractional : 0..(Wrap - 1)]
  BY <1>1, SleepConstants
<1>3. CASE interval = 0
  <2>1. Sleep!Called(0, 0, "delay", first) /\ 0 \div 1000 = 0
    BY <1>0, <1>1, <1>3
  <2> HIDE DEF first
  <2> QED BY <1>2, <2>1, NoSleepInv
<1>4. CASE interval # 0
  <2>1. /\ cpu = "off" /\ cpu' = "delay" /\ left' = first /\ asked' = interval * 1000
        /\ UNCHANGED <<timer, event, seen, elapsed, others, straddle>>
        /\ due' = interval
    BY <1>0, <1>1, <1>4 DEF Sleep!Called, due
  <2>2. elapsed = 0 /\ others = 0 /\ ~timer.pending
    BY <2>1 DEF SleepInv, Stopped, Running
  <2>3. Sleep!TypeOK'
    BY <1>1, <1>2, <2>1, SleepFields, SleepTypesBack DEF SleepInv
  <2>4. left'.integer > 0 /\ elapsed' = due' - left'.integer /\ others' = 0
    BY <1>1, <1>4, <2>1, <2>2
  <2>5. /\ Stopped' /\ Shape' /\ InRounds' /\ InRest' /\ Over'
        /\ Timely'
    BY <2>1, <2>2, <2>4 DEF Stopped, Shape, InRounds, InRest, Over, Running,
         Timely
  <2> QED BY <2>3, <2>5 DEF SleepInv
<1> QED BY <1>3, <1>4

LEMMA SleepNextInv == SleepInv /\ [SystemNext]_allVars => SleepInv'
<1> SUFFICES ASSUME SleepInv, [SystemNext]_allVars PROVE SleepInv'
  OBVIOUS
<1>1. CASE Asleep
  <2>1. CASE Sleep!Loop
    BY <2>1, ArmInv, FallAsleepInv, ReadEventInv, CountInv, DelayInv DEF Sleep!Loop
  <2>2. CASE Sleep!Timer
    BY <2>2, TickInv, TimerInterruptInv DEF Sleep!Timer
  <2> QED BY <1>1, <2>1, <2>2, HalSleepInv, HalSleepWaitInv, OtherInterruptInv
          DEF Asleep, Sleep!Next
<1>2. CASE WakesUp
  BY <1>2, ReturnedInv DEF WakesUp
<1>3. CASE UNCHANGED <<cpu, sleepVars>>
  <2>1. UNCHANGED <<cpu, left, timer, event, seen, asked, elapsed, others, straddle>>
    BY <1>3 DEF sleepVars
  <2>2. Sleep!TypeOK'
    BY <2>1 DEF SleepInv, Sleep!TypeOK
  <2>3. UNCHANGED <<round, phase, rounds, rest, due>>
    BY <2>1, SameTime
  <2>4. /\ Known' = Known /\ Due' = Due /\ Running' = Running
        /\ Sleep!NextMatch' = Sleep!NextMatch
    BY <2>1, <2>3 DEF Known, Due, Running, Sleep!NextMatch
  <2>5. Danger' = Danger
    BY <2>1, <2>4 DEF Danger
  <2>6. Owed' = Owed /\ Ahead' = Ahead
    BY <2>1, <2>3, <2>4, <2>5 DEF Owed, Ahead, One
  <2>7. Stopped' /\ Shape' /\ Timely'
    BY <2>1, <2>3, <2>4, <2>5 DEF SleepInv, Stopped, Shape, Timely
  <2>8. InRounds' /\ InRest' /\ Over'
    BY <2>1, <2>3, <2>4, <2>5, <2>6 DEF SleepInv, InRounds, InRest, Over, AtLeast, AtMost,
         AtMostNext
  <2> QED BY <2>2, <2>7, <2>8 DEF SleepInv
<1> QED BY <1>1, <1>2, <1>3 DEF SystemNext, Awake, allVars

LEMMA SleepInvAlways == SystemSpec => []SleepInv
<1>1. SystemInit => SleepInv
  BY SleepInitInv DEF SystemInit
<1> QED BY <1>1, SleepNextInv, PTL DEF SystemSpec

-----------------------------------------------------------------------------
(***************************************************************************)
(* The theorems.                                                           *)
(***************************************************************************)

\* Every variable of the driver and of HAL_Sleep has the type of its C variable.
THEOREM RadioSleepTypeCorrect == SystemSpec => [](TypeOK /\ Sleep!TypeOK)
<1>1. Inv /\ SleepInv => TypeOK /\ Sleep!TypeOK
  BY DEF Inv, SleepInv
<1> QED BY <1>1, InvAlways, SleepInvAlways, PTL

\* PHY_DataConf reports the end of the transmission that PHY_DataReq began.
THEOREM RequestsConfirmedRight == SystemSpec => []ConfirmAnswersRequest
<1>1. Inv => ConfirmAnswersRequest
  BY DEF Inv, RadioInv, Transmission
<1> QED BY <1>1, InvAlways, PTL

\* PHY_DataInd indicates whole frames that have passed the filter, each once.
THEOREM IndicationsAreFrames == SystemSpec => []IndicationIsFrame
<1>1. Inv => IndicationIsFrame
  BY DEF Inv, RadioInv
<1> QED BY <1>1, InvAlways, PTL

\* The driver never stops the acknowledgement of a frame that it indicates.
THEOREM IndicationsAcknowledged == SystemSpec => []IndicatedIsAcknowledged
<1>1. Inv => IndicatedIsAcknowledged
  BY DEF Inv, RadioInv
<1> QED BY <1>1, InvAlways, PTL

\* Each request of the driver leaves the radio, the frontend and the registers as
\* configured.
THEOREM RadioStaysConfigured == SystemSpec => []RadioAsConfigured
<1>1. Inv => RadioAsConfigured
  <2> SUFFICES ASSUME Inv PROVE RadioAsConfigured
    OBVIOUS
  <2>1. /\ Idle => radio.state \in IF phyRxState THEN {"RX_AACK_ON", "BUSY_RX_AACK"}
                                                 ELSE {"TRX_OFF"}
        /\ phyState = "TX_WAIT_END" => radio.state \in {"BUSY_TX_ARET", "TX_ARET_ON"}
        /\ phyState = "SLEEP" => radio.state = "SLEEP"
    BY DEF Inv, RadioInv, RadioState, Idle
  <2> QED BY <2>1 DEF Inv, Configured, RadioAsConfigured
<1> QED BY <1>1, InvAlways, PTL

\* HAL_Sleep returns less than a tick before the time asked of it and not later than a
\* tick after, but for the rounds that other wake-ups make it miss: for every interval
\* that does not overflow and every width of the timer.
THEOREM SleepsAlwaysItsTime == SystemSpec => []SleepsItsTime
<1>1. SleepInv => SleepsItsTime
  <2> SUFFICES ASSUME SleepInv, cpu = "done"
               PROVE  /\ 1000 * (elapsed + 1) > asked
                      /\ 1000 * elapsed <= asked + 1000 * (1 + Wrap * others)
    BY DEF SleepsItsTime, Sleep!SleepsItsTime
  <2> DEFINE lost == Wrap * others
  <2>1. asked \in Nat /\ elapsed \in Nat /\ due \in Nat /\ lost \in Nat
    BY SleepTypes, SleepFields, SleepConstants DEF SleepInv
  <2>2. elapsed >= due /\ elapsed <= due + 1 + lost
    BY DEF SleepInv, Timely
  <2>3. asked = 1000 * due + (asked % 1000) /\ asked % 1000 \in 0..999
    BY <2>1 DEF due
  <2> HIDE DEF lost
  <2>4. 1000 * (elapsed + 1) > asked /\ 1000 * elapsed <= asked + 1000 * (1 + lost)
    BY <2>1, <2>2, <2>3
  <2> QED BY <2>4 DEF lost
<1> QED BY <1>1, SleepInvAlways, PTL

=============================================================================
