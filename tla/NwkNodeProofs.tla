--------------------------- MODULE NwkNodeProofs ---------------------------
(***************************************************************************)
(* Theorems about NwkNode, for any number of buffers and requests and any  *)
(* bounds.                                                                 *)
(*                                                                         *)
(* TypeOK is not inductive: a handler that counts a timeout down to zero   *)
(* leaves Nat if the count was zero before. TimersCover says that it was   *)
(* not, so the two are proved together. RadioOwned and LockExact follow in *)
(* turn; RequestsInv, about the requests and the buffers that carry them,  *)
(* comes next, and from it that the node implements DataService.           *)
(***************************************************************************)
EXTENDS NwkNode, TLAPS, FiniteSetTheorems

TimedInv == TypeOK /\ TimersCover

-----------------------------------------------------------------------------
(***************************************************************************)
(* Buffers.                                                                *)
(***************************************************************************)

\* nwkTxFrame makes a frame that waits for its delay and is in no other machine.
LEMMA TxFrameIsDelayed ==
  ASSUME NEW b \in BOOLEAN, NEW w \in BOOLEAN, NEW d \in Nat
  PROVE  /\ TxFrame(b, w, d) \in Frames
         /\ TxFrame(b, w, d).state = "DELAY"
  BY DEF TxFrame, FreeFrame, Frames, FrameStates, TxStates, Statuses

\* PHY_DataInd makes a frame that the receive machine takes first.
LEMMA RxFrameIsReceived ==
  ASSUME NEW c \in Classes
  PROVE  /\ RxFrame(c) \in Frames
         /\ RxFrame(c).state = "RECEIVED"
  BY DEF RxFrame, FreeFrame, Frames, FrameStates, RxStates, Statuses

LEMMA FreeFrameIsFree ==
  /\ FreeFrame \in Frames
  /\ FreeFrame.state = "FREE"
  BY DEF FreeFrame, Frames, FrameStates, Statuses

\* The delays of nwkTxFrame are numbers.
LEMMA DelaysAreNat == TxDelays \subseteq Nat /\ Jitters \subseteq Nat
  BY NodeAssumption DEF TxDelays, Jitters

\* A change of state keeps the other fields of a frame.
LEMMA StateChange ==
  ASSUME NEW f \in Frames, NEW s \in FrameStates
  PROVE  /\ [f EXCEPT !.state = s] \in Frames
         /\ [f EXCEPT !.state = s].state = s
  BY DEF Frames

\* The handler counts one tick of a frame that has ticks left, and more than one.
LEMMA OneTickLess ==
  ASSUME NEW f \in Frames, f.timeout > 0, f.timeout # 1
  PROVE  /\ [f EXCEPT !.timeout = @ - 1] \in Frames
         /\ [f EXCEPT !.timeout = @ - 1].state = f.state
         /\ [f EXCEPT !.timeout = @ - 1].timeout > 0
<1>1. f.timeout \in Nat /\ f.timeout - 1 \in Nat /\ f.timeout - 1 > 0
  BY DEF Frames
<1> QED BY <1>1 DEF Frames

\* What the handler makes of a frame whose time is over.
LEMMA ExpiredFrame ==
  ASSUME NEW f \in Frames
  PROVE  /\ f.state = "WAIT_DELAY" => Expired(f) \in Frames /\ Expired(f).state = "SEND"
         /\ f.state = "WAIT_ACK" => Expired(f) \in Frames /\ Expired(f).state = "CONFIRM"
  BY DEF Expired, Frames, FrameStates, TxStates, Statuses

\* nwkFrameAlloc touches one free buffer, if it touches any.
LEMMA AllocChangesOne ==
  ASSUME NEW f \in [Slots -> Frames], NEW fr \in Frames, lock \in Int, AllocInto(f, fr)
  PROVE  /\ frame' \in [Slots -> Frames]
         /\ lock' \in Int
         /\ \A i \in Slots : frame'[i] = f[i] \/ frame'[i] = fr
  BY DEF AllocInto

-----------------------------------------------------------------------------
(***************************************************************************)
(* TypeOK and TimersCover.                                                 *)
(***************************************************************************)
LEMMA InitTimed == Init => TimedInv
<1> SUFFICES ASSUME Init PROVE TypeOK /\ TimersCover
  BY DEF TimedInv
<1>1. phyTx \in BOOLEAN /\ delayTimer \in BOOLEAN /\ ackTimer \in BOOLEAN
  BY DEF Init, nwkTxInit, nwkFrameInit, nwkDataReqInit
<1>2. queue \in Seq(Reqs)
  BY DEF Init, nwkTxInit, nwkFrameInit, nwkDataReqInit
<1>3. frame \in [Slots -> Frames]
  BY FreeFrameIsFree DEF Init, nwkTxInit, nwkFrameInit, nwkDataReqInit
<1>4. req \in [Reqs -> Requests]
  BY NodeAssumption DEF Init, nwkTxInit, nwkFrameInit, nwkDataReqInit, Requests, ReqStates, Statuses
<1>5. TypeOK
  BY <1>1, <1>2, <1>3, <1>4, NodeAssumption DEF Init, nwkTxInit, nwkFrameInit, nwkDataReqInit, TypeOK
<1>6. TimersCover
  BY FreeFrameIsFree DEF Init, nwkTxInit, nwkFrameInit, nwkDataReqInit, TimersCover
<1> QED BY <1>5, <1>6

\* What the actions that set no timeout and stop no timer have in common.
LEMMA TimersStillCover ==
  ASSUME TimersCover, TypeOK, delayTimer => delayTimer', ackTimer => ackTimer',
         \A i \in Slots :
           \/ frame'[i] = frame[i]
           \/ frame'[i].state \notin {"WAIT_DELAY", "WAIT_ACK"}
  PROVE  TimersCover'
  BY DEF TimersCover, TypeOK

\* TypeOK for a step of the receive or transmit loop that leaves the timers alone.
LEMMA LoopStepTyped ==
  ASSUME TypeOK, frame' \in [Slots -> Frames], lock' \in Int,
         pc' = pc, cur' \in Slots, UNCHANGED <<reqVars, phyVars, timers, bounds>>
  PROVE  TypeOK'
  BY NodeAssumption DEF TypeOK, Slots, reqVars, phyVars, timers, bounds

LEMMA NextTimed == TimedInv /\ [Next]_vars => TimedInv'
<1> SUFFICES ASSUME TypeOK, TimersCover, [Next]_vars
             PROVE  TypeOK' /\ TimersCover'
  BY DEF TimedInv
<1> USE FreeFrameIsFree, DelaysAreNat
<1>1. ASSUME NEW r \in Reqs, NWK_DataReq(r)
      PROVE  TypeOK' /\ TimersCover'
  <2>1. TypeOK'
    <3>1. queue' \in Seq(Reqs)
      BY <1>1 DEF NWK_DataReq, TypeOK
    <3>2. req' \in [Reqs -> Requests]
      BY <1>1, NodeAssumption DEF NWK_DataReq, TypeOK, Requests, ReqStates, Statuses
    <3> QED BY <1>1, <3>1, <3>2 DEF NWK_DataReq, TypeOK, loopVars, phyVars, timers
  <2>2. TimersCover'
    BY <1>1 DEF NWK_DataReq, TimersCover, timers
  <2> QED BY <2>1, <2>2
<1>2. CASE PhyNothing \/ RxDone \/ TxDone \/ DataReqNothing \/ TimersDone
  BY <1>2, NodeAssumption DEF PhyNothing, PollEnds, RxDone, TxDone, DataReqNothing, TimersDone,
     TypeOK, TimersCover, reqVars, phyVars, timers, bounds
<1>3. ASSUME NEW c \in Arriving, PHY_DataInd(c)
      PROVE  TypeOK' /\ TimersCover'
  <2>1. RxFrame(c) \in Frames /\ RxFrame(c).state = "RECEIVED"
    BY <1>3, RxFrameIsReceived, NodeAssumption
  <2>2. /\ frame' \in [Slots -> Frames] /\ lock' \in Int
        /\ \A i \in Slots : frame'[i] = frame[i] \/ frame'[i] = RxFrame(c)
    BY <1>3, <2>1, AllocChangesOne DEF PHY_DataInd, TypeOK
  <2>3. TypeOK'
    BY <1>3, <2>2, NodeAssumption DEF PHY_DataInd, PollEnds, TypeOK, reqVars, phyVars, timers
  <2>4. TimersCover'
    BY <1>3, <2>1, <2>2, TimersStillCover DEF PHY_DataInd, timers
  <2> QED BY <2>3, <2>4
<1>4. ASSUME NEW s \in PhyStatuses, PHY_DataConf(s)
      PROVE  TypeOK' /\ TimersCover'
  <2>1. \A i \in Slots : \/ frame'[i] = frame[i]
                         \/ frame'[i] = [frame[i] EXCEPT !.status = s, !.state = "SENT"]
    BY <1>4 DEF PHY_DataConf, TypeOK
  <2>2. frame' \in [Slots -> Frames]
    <3>1. \A f \in Frames : [f EXCEPT !.status = s, !.state = "SENT"] \in Frames
      BY DEF Frames, FrameStates, TxStates, PhyStatuses, Statuses
    <3> QED BY <1>4, <3>1 DEF PHY_DataConf, TypeOK
  <2>3a. phyTx' \in BOOLEAN
    BY <1>4 DEF PHY_DataConf
  <2>3. TypeOK'
    BY <1>4, <2>2, <2>3a, NodeAssumption DEF PHY_DataConf, PollEnds, TypeOK, reqVars, timers, bounds
  <2>4. \A i \in Slots : frame'[i] = frame[i] \/ frame'[i].state = "SENT"
    BY <2>1 DEF TypeOK, Frames
  <2>5. TimersCover'
    BY <1>4, <2>4, TimersStillCover DEF PHY_DataConf, timers
  <2> QED BY <2>3, <2>5
<1>5. ASSUME NEW i \in Slots, nwkRxHandleReceivedFrame(i)
      PROVE  TypeOK' /\ TimersCover'
  <2> DEFINE next == IF frame[i].class \in {Drop, Relay} THEN "FINISH"
                     ELSE IF frame[i].class = Route THEN "ROUTE" ELSE "INDICATE"
             handled == [frame EXCEPT ![i].state = next]
  <2>1. next \in RxStates
    BY DEF RxStates
  <2>2. /\ handled \in [Slots -> Frames]
        /\ \A k \in Slots : handled[k] = frame[k] \/ handled[k].state = next
    <3> HIDE DEF next
    <3> QED BY <2>1, StateChange DEF TypeOK, FrameStates
  <2>3. /\ frame' \in [Slots -> Frames] /\ lock' \in Int
        /\ \A k \in Slots : \/ frame'[k] = handled[k]
                             \/ frame'[k].state = "DELAY"
    <3>1. CASE frame' = handled /\ lock' = lock
      BY <3>1, <2>2 DEF TypeOK
    <3>2. CASE \E j \in Jitters : AllocInto(handled, TxFrame(FALSE, FALSE, j))
      <4> HIDE DEF handled
      <4>1. PICK j \in Jitters : AllocInto(handled, TxFrame(FALSE, FALSE, j))
        BY <3>2
      <4>2. TxFrame(FALSE, FALSE, j) \in Frames /\ TxFrame(FALSE, FALSE, j).state = "DELAY"
        BY TxFrameIsDelayed
      <4>3. lock \in Int
        BY DEF TypeOK
      <4> QED BY <4>1, <4>2, <4>3, <2>2, AllocChangesOne
    <3> QED BY <1>5, <3>1, <3>2 DEF nwkRxHandleReceivedFrame
  <2> HIDE DEF next, handled
  <2>4. TypeOK'
    BY <1>5, <2>3, LoopStepTyped DEF nwkRxHandleReceivedFrame, RxAt
  <2>5. \A k \in Slots : frame'[k] = frame[k] \/ frame'[k].state \notin {"WAIT_DELAY", "WAIT_ACK"}
    BY <2>1, <2>2, <2>3 DEF RxStates
  <2>6. TimersCover'
    BY <1>5, <2>5, TimersStillCover DEF nwkRxHandleReceivedFrame, timers
  <2> QED BY <2>4, <2>6
<1>6. ASSUME NEW i \in Slots, nwkRxHandleIndication(i)
      PROVE  TypeOK' /\ TimersCover'
  <2>1. PICK f \in nwkRxServiceDataInd(i), d \in TxDelays :
          LET done == [f EXCEPT ![i].state = "FINISH"]
          IN \/ AllocInto(done, TxFrame(FALSE, FALSE, d))
             \/ frame' = done /\ lock' = lock
    BY <1>6 DEF nwkRxHandleIndication, nwkRxSendAck
  <2> DEFINE done == [f EXCEPT ![i].state = "FINISH"]
  <2>2. /\ f \in [Slots -> Frames]
        /\ \A k \in Slots : f[k] = frame[k] \/ f[k].state = "CONFIRM"
    <3>1. \A g \in Frames : /\ [g EXCEPT !.state = "CONFIRM"] \in Frames
                            /\ [g EXCEPT !.state = "CONFIRM"].state = "CONFIRM"
      BY StateChange DEF FrameStates, TxStates
    <3>2. CASE f = frame
      BY <3>2 DEF TypeOK
    <3>3. CASE \E k \in Slots : f = [frame EXCEPT ![k].state = "CONFIRM"]
      BY <3>1, <3>3 DEF TypeOK
    <3> QED BY <3>2, <3>3 DEF AckReceived, nwkRxServiceDataInd
  <2>3. /\ done \in [Slots -> Frames]
        /\ \A k \in Slots : done[k] = f[k] \/ done[k].state = "FINISH"
    BY <2>2, StateChange DEF FrameStates, RxStates
  <2>4. /\ frame' \in [Slots -> Frames] /\ lock' \in Int
        /\ \A k \in Slots : frame'[k] = done[k] \/ frame'[k].state = "DELAY"
    <3>1. CASE frame' = done /\ lock' = lock
      BY <3>1, <2>3 DEF TypeOK
    <3>2. CASE AllocInto(done, TxFrame(FALSE, FALSE, d))
      <4> HIDE DEF done
      <4>1. TxFrame(FALSE, FALSE, d) \in Frames /\ TxFrame(FALSE, FALSE, d).state = "DELAY"
        BY TxFrameIsDelayed
      <4>2. lock \in Int
        BY DEF TypeOK
      <4> QED BY <3>2, <4>1, <4>2, <2>3, AllocChangesOne
    <3> QED BY <2>1, <3>1, <3>2
  <2> HIDE DEF done
  <2>5. TypeOK'
    BY <1>6, <2>4, LoopStepTyped DEF nwkRxHandleIndication, RxAt
  <2>6. \A k \in Slots : frame'[k] = frame[k] \/ frame'[k].state \notin {"WAIT_DELAY", "WAIT_ACK"}
    BY <2>2, <2>3, <2>4
  <2>7. TimersCover'
    BY <1>6, <2>6, TimersStillCover DEF nwkRxHandleIndication, timers
  <2> QED BY <2>5, <2>7
<1>7. ASSUME NEW i \in Slots, RouteOnwards(i)
      PROVE  TypeOK' /\ TimersCover'
  <2>1. TxFrame(FALSE, FALSE, 0) \in Frames /\ TxFrame(FALSE, FALSE, 0).state = "DELAY"
    BY TxFrameIsDelayed
  <2>2. /\ frame' \in [Slots -> Frames]
        /\ \A k \in Slots : frame'[k] = frame[k] \/ frame'[k].state = "DELAY"
    BY <1>7, <2>1 DEF RouteOnwards, TypeOK
  <2>3. TypeOK'
    BY <1>7, <2>2, LoopStepTyped DEF RouteOnwards, RxAt, TypeOK
  <2>4. TimersCover'
    BY <1>7, <2>2, TimersStillCover DEF RouteOnwards, timers
  <2> QED BY <2>3, <2>4
<1>8. ASSUME NEW i \in Slots, RouteError(i)
      PROVE  TypeOK' /\ TimersCover'
  <2>1. /\ frame' \in [Slots -> Frames] /\ lock' \in Int
        /\ \A k \in Slots : frame'[k] = frame[k] \/ frame'[k].state \in {"DELAY", "FREE"}
    <3>1. ASSUME NEW k \in Slots, NEW d \in TxDelays, lock' = lock,
                 frame' = [frame EXCEPT ![k] = TxFrame(FALSE, FALSE, d), ![i] = FreeFrame]
          PROVE  /\ frame' \in [Slots -> Frames] /\ lock' \in Int
                 /\ \A m \in Slots : frame'[m] = frame[m] \/ frame'[m].state \in {"DELAY", "FREE"}
      <4>1. TxFrame(FALSE, FALSE, d) \in Frames /\ TxFrame(FALSE, FALSE, d).state = "DELAY"
        BY TxFrameIsDelayed
      <4> QED BY <3>1, <4>1 DEF TypeOK
    <3>2. CASE frame' = [frame EXCEPT ![i] = FreeFrame] /\ lock' = lock - 1
      BY <3>2 DEF TypeOK
    <3> QED BY <1>8, <3>1, <3>2 DEF RouteError
  <2>2. TypeOK'
    BY <1>8, <2>1, LoopStepTyped DEF RouteError, RxAt
  <2>3. TimersCover'
    BY <1>8, <2>1, TimersStillCover DEF RouteError, timers
  <2> QED BY <2>2, <2>3
<1>9. ASSUME NEW i \in Slots, RxFinish(i)
      PROVE  TypeOK' /\ TimersCover'
  <2>1. /\ frame' \in [Slots -> Frames] /\ lock' \in Int
        /\ \A k \in Slots : frame'[k] = frame[k] \/ frame'[k].state = "FREE"
    BY <1>9 DEF RxFinish, TypeOK
  <2>2. TypeOK'
    BY <1>9, <2>1, LoopStepTyped DEF RxFinish, RxAt
  <2>3. TimersCover'
    BY <1>9, <2>1, TimersStillCover DEF RxFinish, timers
  <2> QED BY <2>2, <2>3
<1>10. ASSUME NEW i \in Slots, RxSkip(i) \/ TxSkip(i)
       PROVE  TypeOK' /\ TimersCover'
  <2>1. TypeOK'
    BY <1>10, LoopStepTyped DEF RxSkip, TxSkip, TypeOK
  <2>2. TimersCover'
    BY <1>10 DEF RxSkip, TxSkip, TimersCover, timers
  <2> QED BY <2>1, <2>2
<1>11. ASSUME NEW i \in Slots, TxDelay(i)
       PROVE  TypeOK' /\ TimersCover'
  <2>1. \A s \in {"WAIT_DELAY", "SEND"} :
          [frame[i] EXCEPT !.state = s] \in Frames
    BY StateChange DEF TypeOK, FrameStates, TxStates
  <2>2. frame' \in [Slots -> Frames] /\ delayTimer' \in BOOLEAN
    BY <1>11, <2>1 DEF TxDelay, TypeOK
  <2>3. TypeOK'
    BY <1>11, <2>2, NodeAssumption
    DEF TxDelay, TxAt, TypeOK, Slots, reqVars, phyVars, bounds
  <2>4. \A k \in Slots :
          \/ frame'[k] = frame[k]
          \/ frame'[k].state \notin {"WAIT_DELAY", "WAIT_ACK"}
          \/ frame'[k].state = "WAIT_DELAY" /\ frame'[k].timeout > 0 /\ delayTimer'
    BY <1>11 DEF TxDelay, TypeOK, Frames
  <2>5. delayTimer => delayTimer'
    BY <1>11 DEF TxDelay
  <2>6. TimersCover'
    BY <1>11, <2>4, <2>5 DEF TxDelay, TimersCover
  <2> QED BY <2>3, <2>6
<1>12. ASSUME NEW i \in Slots, TxSend(i)
       PROVE  TypeOK' /\ TimersCover'
  <2>1. /\ [frame[i] EXCEPT !.state = "WAIT_CONF"] \in Frames
        /\ [frame[i] EXCEPT !.state = "WAIT_CONF"].state = "WAIT_CONF"
    BY StateChange DEF TypeOK, FrameStates, TxStates
  <2>2. /\ frame' \in [Slots -> Frames]
        /\ \A k \in Slots : frame'[k] = frame[k] \/ frame'[k].state = "WAIT_CONF"
    BY <1>12, <2>1 DEF TxSend, TypeOK
  <2>3. phyTx' \in BOOLEAN
    BY <1>12 DEF TxSend
  <2>4. TypeOK'
    BY <1>12, <2>2, <2>3, NodeAssumption
    DEF TxSend, TxAt, TypeOK, Slots, reqVars, timers, bounds
  <2>5. TimersCover'
    BY <1>12, <2>2, TimersStillCover DEF TxSend, timers
  <2> QED BY <2>4, <2>5
<1>13. ASSUME NEW i \in Slots, TxSent(i)
       PROVE  TypeOK' /\ TimersCover'
  <2>1. /\ [frame[i] EXCEPT !.state = "WAIT_ACK", !.timeout = AckTicks] \in Frames
        /\ [frame[i] EXCEPT !.state = "CONFIRM"] \in Frames
    BY NodeAssumption DEF TypeOK, Frames, FrameStates, TxStates
  <2>2. frame' \in [Slots -> Frames] /\ ackTimer' \in BOOLEAN
    BY <1>13, <2>1 DEF TxSent, TypeOK
  <2>3. TypeOK'
    BY <1>13, <2>2, NodeAssumption
    DEF TxSent, TxAt, TypeOK, Slots, reqVars, phyVars, bounds
  <2>4. \A k \in Slots :
          \/ frame'[k] = frame[k]
          \/ frame'[k].state \notin {"WAIT_DELAY", "WAIT_ACK"}
          \/ frame'[k].state = "WAIT_ACK" /\ frame'[k].timeout > 0 /\ ackTimer'
    <3>1. CASE /\ frame' = [frame EXCEPT ![i] = [@ EXCEPT !.state = "WAIT_ACK", !.timeout = AckTicks]]
               /\ ackTimer' = TRUE
      BY <3>1, NodeAssumption DEF TypeOK, Frames
    <3>2. CASE frame' = [frame EXCEPT ![i].state = "CONFIRM"]
      BY <3>2 DEF TypeOK, Frames
    <3> QED BY <1>13, <3>1, <3>2 DEF TxSent
  <2>5. ackTimer => ackTimer'
    BY <1>13 DEF TxSent
  <2>6. TimersCover'
    BY <1>13, <2>4, <2>5 DEF TxSent, TimersCover
  <2> QED BY <2>3, <2>6
<1>14. ASSUME NEW i \in Slots, TxConfirm(i)
       PROVE  TypeOK' /\ TimersCover'
  <2>1. /\ frame' \in [Slots -> Frames] /\ lock' \in Int
        /\ \A k \in Slots : frame'[k] = frame[k] \/ frame'[k].state = "FREE"
    <3>1. frame' = [frame EXCEPT ![i] = FreeFrame] /\ lock' = lock - 1
      BY <1>14 DEF TxConfirm
    <3> QED BY <3>1 DEF TypeOK
  <2>2. req' \in [Reqs -> Requests]
    <3>1. \A r \in Reqs : [req[r] EXCEPT !.state = "CONFIRM", !.status = frame[i].status] \in Requests
      BY DEF TypeOK, Requests, ReqStates, Frames
    <3> QED BY <1>14, <3>1 DEF TxConfirm, TypeOK
  <2>3. TypeOK'
    <3>1. pc' = pc /\ cur' = i /\ UNCHANGED <<queue, phyVars, timers, bounds>>
      BY <1>14 DEF TxConfirm, TxAt
    <3> QED BY <3>1, <2>1, <2>2, NodeAssumption DEF TypeOK, Slots, phyVars, timers, bounds
  <2>4. TimersCover'
    BY <1>14, <2>1, TimersStillCover DEF TxConfirm, timers
  <2> QED BY <2>3, <2>4
<1>15. ASSUME NEW k \in DOMAIN queue, nwkDataReqSendFrame(k)
       PROVE  TypeOK' /\ TimersCover'
  <2>1. queue[k] \in Reqs /\ req[queue[k]] \in Requests
    BY DEF TypeOK
  <2>2. /\ frame' \in [Slots -> Frames] /\ lock' \in Int /\ req' \in [Reqs -> Requests]
        /\ \A i \in Slots : frame'[i] = frame[i] \/ frame'[i].state = "DELAY"
    <3>1. ASSUME NEW i \in Slots, NEW a \in BOOLEAN, NEW d \in TxDelays,
                 frame' = [frame EXCEPT ![i] = TxFrame(TRUE, a, d)],
                 req' = [req EXCEPT ![queue[k]] = [@ EXCEPT !.frame = i, !.state = "WAIT_CONF"]],
                 lock' = lock + 1
          PROVE  /\ frame' \in [Slots -> Frames] /\ lock' \in Int /\ req' \in [Reqs -> Requests]
                 /\ \A m \in Slots : frame'[m] = frame[m] \/ frame'[m].state = "DELAY"
      <4>1. TxFrame(TRUE, a, d) \in Frames /\ TxFrame(TRUE, a, d).state = "DELAY"
        BY TxFrameIsDelayed
      <4>2. [req[queue[k]] EXCEPT !.frame = i, !.state = "WAIT_CONF"] \in Requests
        <5>1. i \in 0..NBuffers
          BY NodeAssumption DEF Slots
        <5> QED BY <2>1, <5>1 DEF Requests, ReqStates
      <4>3. req' \in [Reqs -> Requests]
        BY <3>1, <4>2, <2>1 DEF TypeOK
      <4>4. frame' \in [Slots -> Frames]
        BY <3>1, <4>1 DEF TypeOK
      <4>4a. lock' \in Int
        BY <3>1 DEF TypeOK
      <4>5. \A m \in Slots : frame'[m] = frame[m] \/ frame'[m].state = "DELAY"
        BY <3>1, <4>1 DEF TypeOK
      <4> QED BY <4>3, <4>4, <4>4a, <4>5
    <3>2. CASE /\ req' = [req EXCEPT ![queue[k]] = [@ EXCEPT !.state = "CONFIRM", !.status = NoMemory]]
               /\ UNCHANGED <<frame, lock>>
      <4>1. [req[queue[k]] EXCEPT !.state = "CONFIRM", !.status = NoMemory] \in Requests
        BY <2>1 DEF Requests, ReqStates, Statuses
      <4> QED BY <3>2, <4>1 DEF TypeOK
    <3> QED BY <1>15, <3>1, <3>2 DEF nwkDataReqSendFrame
  <2>3. TypeOK'
    <3>1. pc' = "timer" /\ cur' = 0 /\ UNCHANGED <<queue, phyVars, timers, bounds>>
      BY <1>15 DEF nwkDataReqSendFrame
    <3> QED BY <3>1, <2>2, NodeAssumption DEF TypeOK, phyVars, timers, bounds
  <2>4. TimersCover'
    BY <1>15, <2>2, TimersStillCover DEF nwkDataReqSendFrame, timers
  <2> QED BY <2>3, <2>4
<1>16. ASSUME NEW k \in DOMAIN queue, nwkDataReqConfirm(k)
       PROVE  TypeOK' /\ TimersCover'
  <2>1. queue[k] \in Reqs /\ req[queue[k]] \in Requests
    BY DEF TypeOK
  <2>2. queue' \in Seq(Reqs)
    <3>1. queue \in Seq(Reqs) /\ k \in 1..Len(queue)
      BY DEF TypeOK
    <3>2. SubSeq(queue, 1, k - 1) \in Seq(Reqs) /\ SubSeq(queue, k + 1, Len(queue)) \in Seq(Reqs)
      BY <3>1
    <3> QED BY <1>16, <3>2 DEF nwkDataReqConfirm
  <2>3. req' \in [Reqs -> Requests]
    <3>1. [req[queue[k]] EXCEPT !.state = "IDLE"] \in Requests
      BY <2>1 DEF Requests, ReqStates
    <3> QED BY <1>16, <2>1, <3>1 DEF nwkDataReqConfirm, TypeOK
  <2>4. TypeOK'
    <3>1. /\ pc' = "timer" /\ cur' = 0 /\ lock' = lock - 1
          /\ UNCHANGED <<frame, phyVars, timers, bounds>>
      BY <1>16 DEF nwkDataReqConfirm
    <3> QED BY <3>1, <2>2, <2>3, NodeAssumption DEF TypeOK, phyVars, timers, bounds
  <2>5. TimersCover'
    BY <1>16 DEF nwkDataReqConfirm, TimersCover, timers
  <2> QED BY <2>4, <2>5
<1>17. CASE nwkTxDelayTimerHandler
  <2>1. \A k \in Slots :
          frame[k].state = "WAIT_DELAY" =>
            /\ Expired(frame[k]) \in Frames
            /\ Expired(frame[k]).state = "SEND"
            /\ frame[k].timeout # 1 =>
                 /\ [frame[k] EXCEPT !.timeout = @ - 1] \in Frames
                 /\ [frame[k] EXCEPT !.timeout = @ - 1].state = "WAIT_DELAY"
                 /\ [frame[k] EXCEPT !.timeout = @ - 1].timeout > 0
    BY ExpiredFrame, OneTickLess DEF TypeOK, TimersCover
  <2>2. \A k \in Slots :
          /\ frame'[k] \in Frames
          /\ \/ frame'[k] = frame[k] /\ frame[k].state # "WAIT_DELAY"
             \/ frame'[k].state = "SEND"
             \/ /\ frame'[k].state = "WAIT_DELAY" /\ frame'[k].timeout > 0
                /\ frame[k].state = "WAIT_DELAY"
    BY <1>17, <2>1 DEF nwkTxDelayTimerHandler, Countdown, TypeOK
  <2>3. frame' = [k \in Slots |-> frame'[k]]
    BY <1>17 DEF nwkTxDelayTimerHandler, Countdown
  <2>4. frame' \in [Slots -> Frames]
    BY <2>2, <2>3
  <2>5. delayTimer' \in BOOLEAN
    BY <1>17 DEF nwkTxDelayTimerHandler
  <2>6. TypeOK'
    BY <1>17, <2>4, <2>5
    DEF nwkTxDelayTimerHandler, TypeOK, loopVars, reqVars, phyVars, bounds
  <2>7. \A k \in Slots : frame[k].state = "WAIT_DELAY" => delayTimer'
    BY <1>17 DEF nwkTxDelayTimerHandler, InState
  <2>8. TimersCover'
    BY <1>17, <2>2, <2>7 DEF nwkTxDelayTimerHandler, TimersCover
  <2> QED BY <2>6, <2>8
<1>18. CASE nwkTxAckWaitTimerHandler
  <2>1. \A k \in Slots :
          frame[k].state = "WAIT_ACK" =>
            /\ Expired(frame[k]) \in Frames
            /\ Expired(frame[k]).state = "CONFIRM"
            /\ frame[k].timeout # 1 =>
                 /\ [frame[k] EXCEPT !.timeout = @ - 1] \in Frames
                 /\ [frame[k] EXCEPT !.timeout = @ - 1].state = "WAIT_ACK"
                 /\ [frame[k] EXCEPT !.timeout = @ - 1].timeout > 0
    BY ExpiredFrame, OneTickLess DEF TypeOK, TimersCover
  <2>2. \A k \in Slots :
          /\ frame'[k] \in Frames
          /\ \/ frame'[k] = frame[k] /\ frame[k].state # "WAIT_ACK"
             \/ frame'[k].state = "CONFIRM"
             \/ /\ frame'[k].state = "WAIT_ACK" /\ frame'[k].timeout > 0
                /\ frame[k].state = "WAIT_ACK"
    BY <1>18, <2>1 DEF nwkTxAckWaitTimerHandler, Countdown, TypeOK
  <2>3. frame' = [k \in Slots |-> frame'[k]]
    BY <1>18 DEF nwkTxAckWaitTimerHandler, Countdown
  <2>4. frame' \in [Slots -> Frames]
    BY <2>2, <2>3
  <2>5. ackTimer' \in BOOLEAN
    BY <1>18 DEF nwkTxAckWaitTimerHandler
  <2>6. TypeOK'
    BY <1>18, <2>4, <2>5
    DEF nwkTxAckWaitTimerHandler, TypeOK, loopVars, reqVars, phyVars, bounds
  <2>7. \A k \in Slots : frame[k].state = "WAIT_ACK" => ackTimer'
    BY <1>18 DEF nwkTxAckWaitTimerHandler, InState
  <2>8. TimersCover'
    BY <1>18, <2>2, <2>7 DEF nwkTxAckWaitTimerHandler, TimersCover
  <2> QED BY <2>6, <2>8
<1>19. CASE UNCHANGED vars
  BY <1>19 DEF vars, loopVars, reqVars, phyVars, timers, bounds, TypeOK, TimersCover
<1> QED
  BY <1>1, <1>2, <1>3, <1>4, <1>5, <1>6, <1>7, <1>8, <1>9, <1>10, <1>11, <1>12, <1>13, <1>14,
     <1>15, <1>16, <1>17, <1>18, <1>19
  DEF Next, SYS_TaskHandler, RxIteration, TxIteration

\* Every variable of the node keeps its type: in particular the 16-bit timeouts
\* of nwkTx.c never count below zero.
THEOREM TypeCorrect == Spec => []TypeOK
<1>1. TimedInv => TypeOK
  BY DEF TimedInv
<1> QED BY <1>1, InitTimed, NextTimed, PTL DEF Spec

\* nwkTxDelayTimer and nwkTxAckWaitTimer run as long as any frame counts on them.
THEOREM TimersAlwaysCover == Spec => []TimersCover
<1>1. TimedInv => TimersCover
  BY DEF TimedInv
<1> QED BY <1>1, InitTimed, NextTimed, PTL DEF Spec

-----------------------------------------------------------------------------
(***************************************************************************)
(* What the actions do to the buffers, one state to another: shared by the *)
(* proofs below.                                                           *)
(***************************************************************************)
LEMMA ReceivedEffect ==
  ASSUME TypeOK, NEW i \in Slots, nwkRxHandleReceivedFrame(i)
  PROVE  \A k \in Slots : \/ frame'[k] = frame[k]
                          \/ frame[k].state = "RECEIVED" /\ frame'[k].state \in RxStates
                          \/ frame[k].state = "FREE" /\ frame'[k].state = "DELAY"
<1> DEFINE next == IF frame[i].class \in {Drop, Relay} THEN "FINISH"
                   ELSE IF frame[i].class = Route THEN "ROUTE" ELSE "INDICATE"
           handled == [frame EXCEPT ![i].state = next]
<1>1. next \in RxStates /\ next # "FREE"
  BY DEF RxStates
<1>2. frame[i].state = "RECEIVED"
  BY DEF nwkRxHandleReceivedFrame, RxAt
<1>3. \A k \in Slots : \/ handled[k] = frame[k]
                       \/ /\ frame[k].state = "RECEIVED" /\ handled[k].state \in RxStates
                          /\ handled[k].state # "FREE"
  <2> HIDE DEF next
  <2> QED BY <1>1, <1>2 DEF TypeOK, Frames
<1>4. CASE frame' = handled
  BY <1>3, <1>4
<1>5. CASE \E j \in Jitters : AllocInto(handled, TxFrame(FALSE, FALSE, j))
  <2>1. PICK j \in Jitters : AllocInto(handled, TxFrame(FALSE, FALSE, j))
    BY <1>5
  <2>2. TxFrame(FALSE, FALSE, j).state = "DELAY"
    BY DelaysAreNat, TxFrameIsDelayed
  <2>3. DOMAIN handled = Slots
    BY DEF TypeOK
  <2> HIDE DEF handled
  <2> QED BY <2>1, <2>2, <2>3, <1>3 DEF AllocInto, FirstFree
<1> QED BY <1>4, <1>5 DEF nwkRxHandleReceivedFrame

LEMMA IndicationEffect ==
  ASSUME TypeOK, NEW i \in Slots, nwkRxHandleIndication(i)
  PROVE  \A k \in Slots : \/ frame'[k] = frame[k]
                          \/ frame[k].state = "INDICATE" /\ frame'[k].state = "FINISH"
                          \/ frame[k].state = "WAIT_ACK" /\ frame'[k].state = "CONFIRM"
                          \/ frame[k].state = "FREE" /\ frame'[k].state = "DELAY"
<1>1. PICK f \in nwkRxServiceDataInd(i), d \in TxDelays :
        LET done == [f EXCEPT ![i].state = "FINISH"]
        IN AllocInto(done, TxFrame(FALSE, FALSE, d)) \/ frame' = done
  BY DEF nwkRxHandleIndication, nwkRxSendAck
<1> DEFINE done == [f EXCEPT ![i].state = "FINISH"]
<1>2. frame[i].state = "INDICATE"
  BY DEF nwkRxHandleIndication, RxAt
<1>3. /\ DOMAIN f = Slots
      /\ \A k \in Slots : \/ f[k] = frame[k]
                          \/ frame[k].state = "WAIT_ACK" /\ f[k] = [frame[k] EXCEPT !.state = "CONFIRM"]
  BY DEF AckReceived, nwkRxServiceDataInd, TypeOK
<1>4. /\ DOMAIN done = Slots
      /\ \A k \in Slots : \/ done[k] = frame[k]
                          \/ frame[k].state = "WAIT_ACK" /\ done[k].state = "CONFIRM"
                          \/ frame[k].state = "INDICATE" /\ done[k].state = "FINISH"
  <2>1. f[i] = frame[i]
    BY <1>2, <1>3
  <2> QED BY <1>2, <1>3, <2>1 DEF TypeOK, Frames
<1>5. TxFrame(FALSE, FALSE, d).state = "DELAY"
  BY DelaysAreNat, TxFrameIsDelayed
<1> HIDE DEF done
<1>6. CASE frame' = done
  BY <1>4, <1>6
<1>7. CASE AllocInto(done, TxFrame(FALSE, FALSE, d))
  <2>1. CASE frame' = done
    BY <1>4, <2>1
  <2>2. ASSUME NEW m \in Slots, FirstFree(done, m),
               frame' = [done EXCEPT ![m] = TxFrame(FALSE, FALSE, d)]
        PROVE  \A k \in Slots : \/ frame'[k] = frame[k]
                                \/ frame[k].state = "INDICATE" /\ frame'[k].state = "FINISH"
                                \/ frame[k].state = "WAIT_ACK" /\ frame'[k].state = "CONFIRM"
                                \/ frame[k].state = "FREE" /\ frame'[k].state = "DELAY"
    <3>1. done[m].state = "FREE" /\ frame[m].state = "FREE"
      BY <2>2, <1>4 DEF FirstFree
    <3>2. \A k \in Slots : frame'[k] = IF k = m THEN TxFrame(FALSE, FALSE, d) ELSE done[k]
      BY <2>2, <1>4
    <3> QED BY <3>1, <3>2, <1>4, <1>5
  <2> QED BY <1>7, <2>1, <2>2 DEF AllocInto
<1> QED BY <1>1, <1>6, <1>7 DEF done

LEMMA RouteErrorEffect ==
  ASSUME TypeOK, NEW i \in Slots, RouteError(i)
  PROVE  \A k \in Slots : \/ frame'[k] = frame[k]
                          \/ frame[k].state = "ROUTE" /\ frame'[k].state = "FREE"
                          \/ frame[k].state = "FREE" /\ frame'[k].state = "DELAY"
<1>1. frame[i].state = "ROUTE"
  BY DEF RouteError, RxAt
<1>2. ASSUME NEW k \in Slots, NEW d \in TxDelays, FirstFree(frame, k),
             frame' = [frame EXCEPT ![k] = TxFrame(FALSE, FALSE, d), ![i] = FreeFrame]
      PROVE  \A m \in Slots : \/ frame'[m] = frame[m]
                              \/ frame[m].state = "ROUTE" /\ frame'[m].state = "FREE"
                              \/ frame[m].state = "FREE" /\ frame'[m].state = "DELAY"
  <2>1. TxFrame(FALSE, FALSE, d).state = "DELAY"
    BY DelaysAreNat, TxFrameIsDelayed
  <2> QED BY <1>1, <1>2, <2>1, FreeFrameIsFree DEF FirstFree, TypeOK
<1>3. CASE frame' = [frame EXCEPT ![i] = FreeFrame]
  BY <1>1, <1>3, FreeFrameIsFree DEF TypeOK
<1> QED BY <1>2, <1>3 DEF RouteError

LEMMA TxEffect ==
  ASSUME TypeOK, NEW i \in Slots, TxDelay(i) \/ TxSent(i)
  PROVE  \A k \in Slots :
           \/ frame'[k] = frame[k]
           \/ /\ frame[k].state \in {"DELAY", "SENT"}
              /\ frame'[k].state \in {"WAIT_DELAY", "SEND", "WAIT_ACK", "CONFIRM"}
<1>1. CASE TxDelay(i)
  BY <1>1 DEF TxDelay, TxAt, TypeOK, Frames
<1>2. CASE TxSent(i)
  <2>1. frame[i].state = "SENT"
    BY <1>2 DEF TxSent, TxAt
  <2>2. CASE frame' = [frame EXCEPT ![i] = [@ EXCEPT !.state = "WAIT_ACK", !.timeout = AckTicks]]
    BY <2>1, <2>2 DEF TypeOK, Frames
  <2>3. CASE frame' = [frame EXCEPT ![i].state = "CONFIRM"]
    BY <2>1, <2>3 DEF TypeOK, Frames
  <2> QED BY <1>2, <2>2, <2>3 DEF TxSent
<1> QED BY <1>1, <1>2

LEMMA SendFrameEffect ==
  ASSUME TypeOK, NEW n \in DOMAIN queue, nwkDataReqSendFrame(n)
  PROVE  \A k \in Slots : \/ frame'[k] = frame[k]
                          \/ frame[k].state = "FREE" /\ frame'[k].state = "DELAY"
<1>1. ASSUME NEW i \in Slots, NEW a \in BOOLEAN, NEW d \in TxDelays, FirstFree(frame, i),
             frame' = [frame EXCEPT ![i] = TxFrame(TRUE, a, d)]
      PROVE  \A k \in Slots : \/ frame'[k] = frame[k]
                              \/ frame[k].state = "FREE" /\ frame'[k].state = "DELAY"
  <2>1. TxFrame(TRUE, a, d).state = "DELAY"
    BY DelaysAreNat, TxFrameIsDelayed
  <2> QED BY <1>1, <2>1 DEF FirstFree, TypeOK
<1> QED BY <1>1 DEF nwkDataReqSendFrame

LEMMA TimerEffect ==
  ASSUME TypeOK, nwkTxDelayTimerHandler \/ nwkTxAckWaitTimerHandler
  PROVE  \A k \in Slots :
           \/ frame'[k] = frame[k]
           \/ /\ frame[k].state \in {"WAIT_DELAY", "WAIT_ACK"}
              /\ frame'[k].state \in {"WAIT_DELAY", "WAIT_ACK", "SEND", "CONFIRM"}
<1>1. PICK s \in {"WAIT_DELAY", "WAIT_ACK"} : frame' = Countdown(s)
  BY DEF nwkTxDelayTimerHandler, nwkTxAckWaitTimerHandler
<1>2. \A k \in Slots : frame[k].state = s =>
        /\ Expired(frame[k]).state \in {"SEND", "CONFIRM"}
        /\ [frame[k] EXCEPT !.timeout = @ - 1].state = s
  BY ExpiredFrame DEF TypeOK, Frames
<1> QED BY <1>1, <1>2 DEF Countdown

-----------------------------------------------------------------------------
(***************************************************************************)
(* The owner of the radio. Only TxSend and PHY_DataConf move a frame into  *)
(* and out of WAIT_CONF; the other actions leave such a frame alone.       *)
(***************************************************************************)
LEMMA RadioUndisturbed ==
  ASSUME RadioOwned, UNCHANGED phyVars,
         \A k \in Slots :
           \/ frame'[k] = frame[k]
           \/ frame[k].state # "WAIT_CONF" /\ frame'[k].state # "WAIT_CONF"
  PROVE  RadioOwned'
  BY DEF RadioOwned, phyVars

LEMMA NextRadio == TypeOK /\ RadioOwned /\ [Next]_vars => RadioOwned'
<1> SUFFICES ASSUME TypeOK, RadioOwned, [Next]_vars PROVE RadioOwned'
  OBVIOUS
<1> USE FreeFrameIsFree, DelaysAreNat
<1>1. CASE \/ PhyNothing \/ RxDone \/ TxDone \/ DataReqNothing \/ TimersDone \/ UNCHANGED vars
           \/ \E r \in Reqs : NWK_DataReq(r)
           \/ \E i \in Slots : RxSkip(i) \/ TxSkip(i)
           \/ \E k \in DOMAIN queue : nwkDataReqConfirm(k)
  <2>1. frame' = frame /\ UNCHANGED phyVars
    BY <1>1 DEF PhyNothing, PollEnds, RxDone, TxDone, DataReqNothing, TimersDone, vars,
       NWK_DataReq, RxSkip, TxSkip, nwkDataReqConfirm
  <2> QED BY <2>1, RadioUndisturbed
<1>2. ASSUME NEW c \in Arriving, PHY_DataInd(c) PROVE RadioOwned'
  <2>1. RxFrame(c).state = "RECEIVED"
    BY RxFrameIsReceived, NodeAssumption
  <2>2. \A k \in Slots : \/ frame'[k] = frame[k]
                         \/ frame[k].state = "FREE" /\ frame'[k] = RxFrame(c)
    BY <1>2 DEF PHY_DataInd, AllocInto, FirstFree, TypeOK
  <2> QED BY <1>2, <2>1, <2>2, RadioUndisturbed DEF PHY_DataInd
<1>3. ASSUME NEW s \in PhyStatuses, PHY_DataConf(s) PROVE RadioOwned'
  <2>1. active \in Slots /\ active' = 0 /\ phyTx' = FALSE
    BY <1>3, NodeAssumption DEF PHY_DataConf, RadioOwned, TypeOK, Slots
  <2>2. \A k \in Slots : \/ k # active /\ frame'[k] = frame[k]
                         \/ k = active /\ frame'[k].state = "SENT"
    BY <1>3 DEF PHY_DataConf, TypeOK, Frames
  <2>3. \A k \in Slots : frame'[k].state # "WAIT_CONF"
    BY <2>1, <2>2 DEF RadioOwned
  <2>4. \A k \in Slots : active' # k
    BY <2>1, NodeAssumption DEF Slots
  <2> QED BY <2>1, <2>3, <2>4 DEF RadioOwned
<1>4. ASSUME NEW i \in Slots, nwkRxHandleReceivedFrame(i) PROVE RadioOwned'
  <2>1. \A k \in Slots : \/ frame'[k] = frame[k]
                         \/ frame[k].state = "RECEIVED" /\ frame'[k].state \in RxStates
                         \/ frame[k].state = "FREE" /\ frame'[k].state = "DELAY"
    BY <1>4, ReceivedEffect
  <2> QED BY <1>4, <2>1, RadioUndisturbed DEF nwkRxHandleReceivedFrame, RxStates
<1>5. ASSUME NEW i \in Slots, nwkRxHandleIndication(i) PROVE RadioOwned'
  <2>1. \A k \in Slots : \/ frame'[k] = frame[k]
                         \/ frame[k].state = "INDICATE" /\ frame'[k].state = "FINISH"
                         \/ frame[k].state = "WAIT_ACK" /\ frame'[k].state = "CONFIRM"
                         \/ frame[k].state = "FREE" /\ frame'[k].state = "DELAY"
    BY <1>5, IndicationEffect
  <2> QED BY <1>5, <2>1, RadioUndisturbed DEF nwkRxHandleIndication
<1>6. ASSUME NEW i \in Slots, RouteOnwards(i) PROVE RadioOwned'
  <2>1. TxFrame(FALSE, FALSE, 0).state = "DELAY"
    BY TxFrameIsDelayed
  <2>2. \A k \in Slots : \/ frame'[k] = frame[k]
                         \/ frame[k].state = "ROUTE" /\ frame'[k].state = "DELAY"
    BY <1>6, <2>1 DEF RouteOnwards, RxAt, TypeOK
  <2> QED BY <1>6, <2>2, RadioUndisturbed DEF RouteOnwards
<1>7. ASSUME NEW i \in Slots, RouteError(i) PROVE RadioOwned'
  <2>1. \A k \in Slots : \/ frame'[k] = frame[k]
                         \/ frame[k].state = "ROUTE" /\ frame'[k].state = "FREE"
                         \/ frame[k].state = "FREE" /\ frame'[k].state = "DELAY"
    BY <1>7, RouteErrorEffect
  <2> QED BY <1>7, <2>1, RadioUndisturbed DEF RouteError
<1>8. ASSUME NEW i \in Slots, RxFinish(i) PROVE RadioOwned'
  <2>1. \A k \in Slots : \/ frame'[k] = frame[k]
                         \/ frame[k].state = "FINISH" /\ frame'[k].state = "FREE"
    BY <1>8 DEF RxFinish, RxAt, TypeOK
  <2> QED BY <1>8, <2>1, RadioUndisturbed DEF RxFinish
<1>9. ASSUME NEW i \in Slots, TxDelay(i) \/ TxSent(i) PROVE RadioOwned'
  <2>1. \A k \in Slots : \/ frame'[k] = frame[k]
                         \/ /\ frame[k].state \in {"DELAY", "SENT"}
                            /\ frame'[k].state \in {"WAIT_DELAY", "SEND", "WAIT_ACK", "CONFIRM"}
    BY <1>9, TxEffect
  <2> QED BY <1>9, <2>1, RadioUndisturbed DEF TxDelay, TxSent
<1>10. ASSUME NEW i \in Slots, TxSend(i) PROVE RadioOwned'
  <2>1. \A k \in Slots : \/ k # i /\ frame'[k] = frame[k]
                         \/ k = i /\ frame'[k].state = "WAIT_CONF"
    BY <1>10 DEF TxSend, TypeOK, Frames
  <2>2. active = 0 /\ active' = i /\ phyTx' = TRUE /\ i # 0
    BY <1>10, NodeAssumption DEF TxSend, Slots
  <2>3. \A k \in Slots : frame'[k].state = "WAIT_CONF" <=> k = i
    BY <2>1, <2>2, NodeAssumption DEF RadioOwned, Slots
  <2> QED BY <2>2, <2>3 DEF RadioOwned
<1>11. ASSUME NEW i \in Slots, TxConfirm(i) PROVE RadioOwned'
  <2>1. frame[i].state = "CONFIRM" /\ frame' = [frame EXCEPT ![i] = FreeFrame] /\ UNCHANGED phyVars
    BY <1>11 DEF TxConfirm, TxAt
  <2>2. \A k \in Slots : \/ frame'[k] = frame[k]
                         \/ frame[k].state = "CONFIRM" /\ frame'[k].state = "FREE"
    BY <2>1 DEF TypeOK
  <2> QED BY <2>1, <2>2, RadioUndisturbed
<1>12. ASSUME NEW n \in DOMAIN queue, nwkDataReqSendFrame(n) PROVE RadioOwned'
  <2>1. \A k \in Slots : \/ frame'[k] = frame[k]
                         \/ frame[k].state = "FREE" /\ frame'[k].state = "DELAY"
    BY <1>12, SendFrameEffect
  <2>2. UNCHANGED phyVars
    BY <1>12 DEF nwkDataReqSendFrame
  <2> QED BY <2>1, <2>2, RadioUndisturbed
<1>13. CASE nwkTxDelayTimerHandler \/ nwkTxAckWaitTimerHandler
  <2>1. \A k \in Slots : \/ frame'[k] = frame[k]
                         \/ /\ frame[k].state \in {"WAIT_DELAY", "WAIT_ACK"}
                            /\ frame'[k].state \in {"WAIT_DELAY", "WAIT_ACK", "SEND", "CONFIRM"}
    BY <1>13, TimerEffect
  <2>2. UNCHANGED phyVars
    BY <1>13 DEF nwkTxDelayTimerHandler, nwkTxAckWaitTimerHandler
  <2> QED BY <2>1, <2>2, RadioUndisturbed
<1> QED
  BY <1>1, <1>2, <1>3, <1>4, <1>5, <1>6, <1>7, <1>8, <1>9, <1>10, <1>11, <1>12, <1>13
  DEF Next, SYS_TaskHandler, RxIteration, TxIteration

LEMMA InitRadio == Init => RadioOwned
  BY NodeAssumption, FreeFrameIsFree DEF Init, nwkTxInit, nwkFrameInit, nwkDataReqInit, RadioOwned, Slots

\* One transmission at a time, and PHY_DataConf always finds the frame it is for.
THEOREM RadioAlwaysOwned == Spec => []RadioOwned
<1>1. Init => RadioOwned
  BY InitRadio
<1>2. TypeOK /\ RadioOwned /\ [Next]_vars => RadioOwned'
  BY NextRadio
<1> QED BY <1>1, <1>2, TypeCorrect, PTL DEF Spec

-----------------------------------------------------------------------------
(***************************************************************************)
(* The lock counter. Busy(f) is the set of buffers in use in the pool f;   *)
(* each action changes it by one buffer more, one less, or not at all, and *)
(* the lock by as much.                                                    *)
(***************************************************************************)
Busy(f) == {k \in Slots : f[k].state # "FREE"}
InUse(f) == Cardinality(Busy(f))

LEMMA InUseIsNat == \A f : IsFiniteSet(Busy(f)) /\ InUse(f) \in Nat
<1> TAKE f
<1>1. IsFiniteSet(Slots)
  BY FS_Interval, NodeAssumption DEF Slots
<1>2. Busy(f) \in SUBSET Slots
  BY DEF Busy
<1> QED BY <1>1, <1>2, FS_Subset, FS_CardinalityType DEF InUse

LEMMA SameInUse ==
  ASSUME NEW f, NEW g, \A k \in Slots : f[k].state = "FREE" <=> g[k].state = "FREE"
  PROVE  InUse(g) = InUse(f)
<1>1. Busy(g) = Busy(f)
  BY DEF Busy
<1> QED BY <1>1 DEF InUse

LEMMA OneMoreInUse ==
  ASSUME NEW f \in [Slots -> Frames], NEW i \in Slots, NEW fr, f[i].state = "FREE", fr.state # "FREE"
  PROVE  InUse([f EXCEPT ![i] = fr]) = InUse(f) + 1
<1>1. Busy([f EXCEPT ![i] = fr]) = Busy(f) \cup {i}
  BY DEF Busy
<1>2. i \notin Busy(f)
  BY DEF Busy
<1> QED BY <1>1, <1>2, InUseIsNat, FS_AddElement DEF InUse

LEMMA OneLessInUse ==
  ASSUME NEW f \in [Slots -> Frames], NEW i \in Slots, f[i].state # "FREE"
  PROVE  InUse([f EXCEPT ![i] = FreeFrame]) = InUse(f) - 1
<1>1. Busy([f EXCEPT ![i] = FreeFrame]) = Busy(f) \ {i}
  BY FreeFrameIsFree DEF Busy
<1>2. i \in Busy(f)
  BY DEF Busy
<1> QED BY <1>1, <1>2, InUseIsNat, FS_RemoveElement DEF InUse

\* nwkFrameAlloc takes a lock exactly when it takes a buffer.
LEMMA AllocCounts ==
  ASSUME NEW f \in [Slots -> Frames], NEW fr, fr.state # "FREE", lock \in Int, AllocInto(f, fr)
  PROVE  lock' - InUse(frame') = lock - InUse(f)
<1>1. CASE frame' = f /\ lock' = lock
  BY <1>1
<1>2. ASSUME NEW k \in Slots, FirstFree(f, k), frame' = [f EXCEPT ![k] = fr], lock' = lock + 1
      PROVE  lock' - InUse(frame') = lock - InUse(f)
  <2>1. InUse(frame') = InUse(f) + 1
    BY <1>2, OneMoreInUse DEF FirstFree
  <2> QED BY <1>2, <2>1, InUseIsNat
<1> QED BY <1>1, <1>2 DEF AllocInto

\* A step that changes the lock by what it changes in use, and no more.
LEMMA LockStaysExact ==
  ASSUME TypeOK, LockExact, lock' - InUse(frame') = lock - InUse(frame), lock' \in Int,
         Len(queue') = Len(queue), active' = active
  PROVE  LockExact'
<1>1. lock = InUse(frame) + Len(queue) + (IF active = 0 THEN 0 ELSE 1)
  BY DEF LockExact, InUse, Busy, Allocated
<1>2. lock' = InUse(frame') + Len(queue') + (IF active' = 0 THEN 0 ELSE 1)
  BY <1>1, InUseIsNat DEF TypeOK
<1> QED BY <1>2 DEF LockExact, InUse, Busy, Allocated

LEMMA NextLock == TypeOK /\ RadioOwned /\ LockExact /\ TypeOK' /\ [Next]_vars => LockExact'
<1> SUFFICES ASSUME TypeOK, RadioOwned, LockExact, TypeOK', [Next]_vars PROVE LockExact'
  OBVIOUS
<1>a. lock \in Int /\ lock' \in Int /\ frame \in [Slots -> Frames] /\ frame' \in [Slots -> Frames]
  BY DEF TypeOK
<1>b. lock = InUse(frame) + Len(queue) + (IF active = 0 THEN 0 ELSE 1)
  BY DEF LockExact, InUse, Busy, Allocated
<1>c. ASSUME lock' = InUse(frame') + Len(queue') + (IF active' = 0 THEN 0 ELSE 1)
      PROVE  LockExact'
  BY <1>c DEF LockExact, InUse, Busy, Allocated
<1>1. CASE \/ PhyNothing \/ RxDone \/ TxDone \/ DataReqNothing \/ TimersDone \/ UNCHANGED vars
           \/ \E i \in Slots : RxSkip(i) \/ TxSkip(i)
  <2>1. UNCHANGED <<frame, lock, queue, active>>
    BY <1>1 DEF PhyNothing, PollEnds, RxDone, TxDone, DataReqNothing, TimersDone, vars,
       RxSkip, TxSkip, reqVars, phyVars
  <2> QED BY <2>1, <1>a, <1>b, <1>c
<1>2. ASSUME NEW r \in Reqs, NWK_DataReq(r) PROVE LockExact'
  <2>1. UNCHANGED <<frame, active>> /\ lock' = lock + 1 /\ queue' = <<r>> \o queue
    BY <1>2 DEF NWK_DataReq, phyVars
  <2>2. Len(queue') = Len(queue) + 1
    BY <2>1 DEF TypeOK
  <2>3. Len(queue) \in Nat
    BY DEF TypeOK
  <2>4. InUse(frame') = InUse(frame) /\ active' = active /\ lock' = lock + 1
    BY <2>1
  <2> QED BY <2>2, <2>3, <2>4, <1>b, <1>c, InUseIsNat
<1>3. ASSUME NEW c \in Arriving, PHY_DataInd(c) PROVE LockExact'
  <2>1. RxFrame(c).state # "FREE"
    BY RxFrameIsReceived, NodeAssumption
  <2>2. AllocInto(frame, RxFrame(c)) /\ UNCHANGED <<queue, active>>
    BY <1>3 DEF PHY_DataInd, reqVars, phyVars
  <2> QED BY <2>1, <2>2, <1>a, AllocCounts, LockStaysExact
<1>4. ASSUME NEW s \in PhyStatuses, PHY_DataConf(s) PROVE LockExact'
  <2>1. active \in Slots /\ active' = 0 /\ lock' = lock - 1 /\ queue' = queue
    BY <1>4, NodeAssumption DEF PHY_DataConf, RadioOwned, TypeOK, Slots, reqVars
  <2>2. \A k \in Slots : frame[k].state = "FREE" <=> frame'[k].state = "FREE"
    BY <1>4, <2>1 DEF PHY_DataConf, RadioOwned, TypeOK, Frames
  <2>3. InUse(frame') = InUse(frame)
    BY <2>2, SameInUse
  <2>4. active # 0 /\ Len(queue) \in Nat
    BY <2>1, NodeAssumption DEF Slots, TypeOK
  <2> QED BY <2>1, <2>3, <2>4, <1>a, <1>b, <1>c, InUseIsNat
<1>5. ASSUME NEW i \in Slots, nwkRxHandleReceivedFrame(i) PROVE LockExact'
  <2> DEFINE next == IF frame[i].class \in {Drop, Relay} THEN "FINISH"
                     ELSE IF frame[i].class = Route THEN "ROUTE" ELSE "INDICATE"
             handled == [frame EXCEPT ![i].state = next]
  <2>1. next \in RxStates /\ next # "FREE" /\ frame[i].state # "FREE"
    BY <1>5 DEF RxStates, nwkRxHandleReceivedFrame, RxAt
  <2>2. handled \in [Slots -> Frames] /\ InUse(handled) = InUse(frame)
    <3> HIDE DEF next
    <3>1. [frame[i] EXCEPT !.state = next] \in Frames /\ [frame[i] EXCEPT !.state = next].state = next
      BY <2>1, StateChange DEF TypeOK, FrameStates
    <3>2. \A k \in Slots : frame[k].state = "FREE" <=> handled[k].state = "FREE"
      BY <2>1, <3>1 DEF TypeOK
    <3> HIDE DEF handled
    <3>3. InUse(handled) = InUse(frame)
      BY <3>2, SameInUse
    <3> QED BY <3>1, <3>3 DEF handled, TypeOK
  <2> HIDE DEF handled
  <2>3. lock' - InUse(frame') = lock - InUse(frame)
    <3>1. CASE frame' = handled /\ lock' = lock
      BY <3>1, <2>2
    <3>2. ASSUME NEW j \in Jitters, AllocInto(handled, TxFrame(FALSE, FALSE, j))
          PROVE  lock' - InUse(frame') = lock - InUse(frame)
      <4>1. TxFrame(FALSE, FALSE, j).state # "FREE"
        BY TxFrameIsDelayed, DelaysAreNat
      <4>2. lock' - InUse(frame') = lock - InUse(handled)
        BY <3>2, <4>1, <2>2, <1>a, AllocCounts
      <4> QED BY <4>2, <2>2
    <3> QED BY <1>5, <3>1, <3>2 DEF nwkRxHandleReceivedFrame, handled
  <2> QED BY <1>5, <2>3, <1>a, LockStaysExact DEF nwkRxHandleReceivedFrame, reqVars, phyVars
<1>6. ASSUME NEW i \in Slots, nwkRxHandleIndication(i) PROVE LockExact'
  <2>1. PICK f \in nwkRxServiceDataInd(i), d \in TxDelays :
          LET done == [f EXCEPT ![i].state = "FINISH"]
          IN \/ AllocInto(done, TxFrame(FALSE, FALSE, d))
             \/ frame' = done /\ lock' = lock
    BY <1>6 DEF nwkRxHandleIndication, nwkRxSendAck
  <2> DEFINE done == [f EXCEPT ![i].state = "FINISH"]
  <2>2. frame[i].state = "INDICATE"
    BY <1>6 DEF nwkRxHandleIndication, RxAt
  <2>3. f \in [Slots -> Frames] /\ f[i].state # "FREE"
        /\ \A k \in Slots : frame[k].state = "FREE" <=> f[k].state = "FREE"
    <3>1. CASE f = frame
      BY <3>1, <2>2, <1>a
    <3>2. ASSUME NEW k \in Slots, frame[k].state = "WAIT_ACK", f = [frame EXCEPT ![k].state = "CONFIRM"]
          PROVE  <2>3
      <4>1. [frame[k] EXCEPT !.state = "CONFIRM"] \in Frames
            /\ [frame[k] EXCEPT !.state = "CONFIRM"].state = "CONFIRM"
        BY StateChange, <1>a DEF FrameStates, TxStates
      <4> QED BY <3>2, <4>1, <2>2, <1>a
    <3> QED BY <3>1, <3>2 DEF AckReceived, nwkRxServiceDataInd
  <2>4. done \in [Slots -> Frames] /\ InUse(done) = InUse(frame)
    <3>1. [f[i] EXCEPT !.state = "FINISH"] \in Frames /\ [f[i] EXCEPT !.state = "FINISH"].state = "FINISH"
      BY <2>3, StateChange DEF FrameStates, RxStates
    <3>2. \A k \in Slots : frame[k].state = "FREE" <=> done[k].state = "FREE"
      BY <2>2, <2>3, <3>1
    <3>3. done \in [Slots -> Frames]
      BY <2>3, <3>1
    <3> HIDE DEF done
    <3> QED BY <3>2, <3>3, SameInUse
  <2> HIDE DEF done
  <2>5. lock' - InUse(frame') = lock - InUse(frame)
    <3>1. TxFrame(FALSE, FALSE, d).state # "FREE"
      BY TxFrameIsDelayed, DelaysAreNat
    <3>2. CASE AllocInto(done, TxFrame(FALSE, FALSE, d))
      <4>1. lock' - InUse(frame') = lock - InUse(done)
        BY <3>1, <3>2, <2>4, <1>a, AllocCounts
      <4> QED BY <4>1, <2>4
    <3>3. CASE frame' = done /\ lock' = lock
      BY <3>3, <2>4
    <3> QED BY <2>1, <3>2, <3>3 DEF done
  <2> QED BY <1>6, <2>5, <1>a, LockStaysExact DEF nwkRxHandleIndication, reqVars, phyVars
<1>7. ASSUME NEW i \in Slots, RouteOnwards(i) PROVE LockExact'
  <2>1. frame[i].state = "ROUTE" /\ TxFrame(FALSE, FALSE, 0).state = "DELAY"
    BY <1>7, TxFrameIsDelayed DEF RouteOnwards, RxAt
  <2>2. \A k \in Slots : frame[k].state = "FREE" <=> frame'[k].state = "FREE"
    BY <1>7, <2>1, <1>a DEF RouteOnwards
  <2>3. InUse(frame') = InUse(frame) /\ lock' = lock
    BY <1>7, <2>2, SameInUse DEF RouteOnwards
  <2> QED BY <1>7, <2>3, <1>a, LockStaysExact DEF RouteOnwards, reqVars, phyVars
<1>8. ASSUME NEW i \in Slots, RouteError(i) PROVE LockExact'
  <2>1. frame[i].state = "ROUTE"
    BY <1>8 DEF RouteError, RxAt
  <2>2. lock' - InUse(frame') = lock - InUse(frame)
    <3>1. ASSUME NEW k \in Slots, NEW d \in TxDelays, FirstFree(frame, k), lock' = lock,
                 frame' = [frame EXCEPT ![k] = TxFrame(FALSE, FALSE, d), ![i] = FreeFrame]
          PROVE  lock' - InUse(frame') = lock - InUse(frame)
      <4> DEFINE g == [frame EXCEPT ![k] = TxFrame(FALSE, FALSE, d)]
      <4>1. TxFrame(FALSE, FALSE, d) \in Frames /\ TxFrame(FALSE, FALSE, d).state = "DELAY"
        BY TxFrameIsDelayed, DelaysAreNat
      <4>2. frame[k].state = "FREE" /\ k # i
        BY <3>1, <2>1 DEF FirstFree
      <4>3. g \in [Slots -> Frames] /\ g[i].state # "FREE" /\ InUse(g) = InUse(frame) + 1
        BY <4>1, <4>2, <2>1, <1>a, OneMoreInUse
      <4>4. frame' = [g EXCEPT ![i] = FreeFrame]
        BY <3>1, <4>2
      <4> HIDE DEF g
      <4>5. InUse(frame') = InUse(g) - 1
        BY <4>3, <4>4, OneLessInUse
      <4> QED BY <3>1, <4>3, <4>5, <1>a, InUseIsNat
    <3>2. CASE frame' = [frame EXCEPT ![i] = FreeFrame] /\ lock' = lock - 1
      <4>1. InUse(frame') = InUse(frame) - 1
        BY <3>2, <2>1, <1>a, OneLessInUse
      <4> QED BY <3>2, <4>1, <1>a, InUseIsNat
    <3> QED BY <1>8, <3>1, <3>2 DEF RouteError
  <2> QED BY <1>8, <2>2, <1>a, LockStaysExact DEF RouteError, reqVars, phyVars
<1>9. ASSUME NEW i \in Slots, RxFinish(i) \/ TxConfirm(i) PROVE LockExact'
  <2>1. /\ frame[i].state # "FREE" /\ frame' = [frame EXCEPT ![i] = FreeFrame]
        /\ lock' = lock - 1 /\ UNCHANGED <<queue, active>>
    BY <1>9 DEF RxFinish, TxConfirm, RxAt, TxAt, reqVars, phyVars
  <2>2. InUse(frame') = InUse(frame) - 1
    BY <2>1, <1>a, OneLessInUse
  <2>3. lock' - InUse(frame') = lock - InUse(frame)
    BY <2>1, <2>2, <1>a, InUseIsNat
  <2> QED BY <2>1, <2>3, <1>a, LockStaysExact
<1>10. ASSUME NEW i \in Slots, TxDelay(i) \/ TxSent(i) PROVE LockExact'
  <2>1. \A k \in Slots : frame[k].state = "FREE" <=> frame'[k].state = "FREE"
    BY <1>10, TxEffect
  <2>2. InUse(frame') = InUse(frame) /\ lock' = lock /\ UNCHANGED <<queue, active>>
    BY <1>10, <2>1, SameInUse DEF TxDelay, TxSent, reqVars, phyVars
  <2> QED BY <2>2, <1>a, LockStaysExact
<1>11. ASSUME NEW i \in Slots, TxSend(i) PROVE LockExact'
  <2>1. /\ frame[i].state = "SEND" /\ active = 0 /\ active' = i /\ i # 0 /\ queue' = queue
        /\ frame' = [frame EXCEPT ![i].state = "WAIT_CONF"] /\ lock' = lock + 1
    BY <1>11, NodeAssumption DEF TxSend, TxAt, reqVars, Slots
  <2>2. \A k \in Slots : frame[k].state = "FREE" <=> frame'[k].state = "FREE"
    BY <2>1, <1>a DEF Frames
  <2>3. InUse(frame') = InUse(frame) /\ Len(queue) \in Nat
    BY <2>2, SameInUse DEF TypeOK
  <2> QED BY <2>1, <2>3, <1>a, <1>b, <1>c, InUseIsNat
<1>12. ASSUME NEW n \in DOMAIN queue, nwkDataReqSendFrame(n) PROVE LockExact'
  <2>1. lock' - InUse(frame') = lock - InUse(frame)
    <3>1. ASSUME NEW i \in Slots, NEW a \in BOOLEAN, NEW d \in TxDelays, FirstFree(frame, i),
                 frame' = [frame EXCEPT ![i] = TxFrame(TRUE, a, d)], lock' = lock + 1
          PROVE  lock' - InUse(frame') = lock - InUse(frame)
      <4>1. TxFrame(TRUE, a, d).state # "FREE"
        BY TxFrameIsDelayed, DelaysAreNat
      <4>2. InUse(frame') = InUse(frame) + 1
        BY <3>1, <4>1, <1>a, OneMoreInUse DEF FirstFree
      <4> QED BY <3>1, <4>2, <1>a, InUseIsNat
    <3>2. CASE UNCHANGED <<frame, lock>>
      BY <3>2
    <3> QED BY <1>12, <3>1, <3>2 DEF nwkDataReqSendFrame
  <2>2. UNCHANGED <<queue, active>>
    BY <1>12 DEF nwkDataReqSendFrame, phyVars
  <2> QED BY <2>1, <2>2, <1>a, LockStaysExact
<1>13. ASSUME NEW n \in DOMAIN queue, nwkDataReqConfirm(n) PROVE LockExact'
  <2>1. /\ lock' = lock - 1 /\ UNCHANGED <<frame, active>>
        /\ queue' = SubSeq(queue, 1, n - 1) \o SubSeq(queue, n + 1, Len(queue))
    BY <1>13 DEF nwkDataReqConfirm, phyVars
  <2>2. queue \in Seq(Reqs) /\ n \in 1..Len(queue) /\ Len(queue) \in Nat
    BY DEF TypeOK
  <2>3. Len(queue') = Len(queue) - 1
    <3>1. SubSeq(queue, 1, n - 1) \in Seq(Reqs) /\ Len(SubSeq(queue, 1, n - 1)) = n - 1
      BY <2>2
    <3>2. SubSeq(queue, n + 1, Len(queue)) \in Seq(Reqs)
          /\ Len(SubSeq(queue, n + 1, Len(queue))) = Len(queue) - n
      BY <2>2
    <3>3. \A a, b \in Seq(Reqs) : Len(a \o b) = Len(a) + Len(b)
      OBVIOUS
    <3>4. Len(queue') = (n - 1) + (Len(queue) - n)
      BY <2>1, <3>1, <3>2, <3>3
    <3> QED BY <2>2, <3>4
  <2>4. InUse(frame') = InUse(frame) /\ active' = active /\ lock' = lock - 1
    BY <2>1
  <2>5. Len(queue) \in Nat
    BY <2>2
  <2> QED BY <2>3, <2>4, <2>5, <1>a, <1>b, <1>c, InUseIsNat
<1>14. CASE nwkTxDelayTimerHandler \/ nwkTxAckWaitTimerHandler
  <2>1. \A k \in Slots : frame[k].state = "FREE" <=> frame'[k].state = "FREE"
    BY <1>14, TimerEffect
  <2>2. InUse(frame') = InUse(frame) /\ lock' = lock /\ UNCHANGED <<queue, active>>
    BY <1>14, <2>1, SameInUse DEF nwkTxDelayTimerHandler, nwkTxAckWaitTimerHandler, reqVars, phyVars
  <2> QED BY <2>2, <1>a, LockStaysExact
<1> QED
  BY <1>1, <1>2, <1>3, <1>4, <1>5, <1>6, <1>7, <1>8, <1>9, <1>10, <1>11, <1>12, <1>13, <1>14
  DEF Next, SYS_TaskHandler, RxIteration, TxIteration

LEMMA InitLock == Init => LockExact
<1> SUFFICES ASSUME Init PROVE LockExact
  OBVIOUS
<1>1. Allocated = {}
  BY FreeFrameIsFree DEF Init, nwkTxInit, nwkFrameInit, nwkDataReqInit, Allocated
<1>2. Len(queue) = 0 /\ active = 0 /\ lock = 0
  BY DEF Init, nwkTxInit, nwkFrameInit, nwkDataReqInit
<1> QED BY <1>1, <1>2, FS_EmptySet DEF LockExact

\* NWK_Busy() tells the truth for any number of buffers and requests: the lock
\* counter is zero exactly when no buffer, request or transmission is outstanding.
THEOREM LockAlwaysExact == Spec => []LockExact
<1>1. TypeOK /\ RadioOwned /\ LockExact /\ TypeOK' /\ [Next]_vars => LockExact'
  BY NextLock
<1> QED BY <1>1, InitLock, TypeCorrect, RadioAlwaysOwned, PTL DEF Spec


-----------------------------------------------------------------------------
(***************************************************************************)
(* Requests and the buffers that carry them. The two properties of the     *)
(* runs are not inductive on their own: they lean on the queue holding     *)
(* exactly the requests that are not idle, each once; on a waiting request *)
(* being the FIRST of the queue that points to its buffer, although        *)
(* confirmed ones behind it may still do so; and on a buffer with a        *)
(* tx.confirm callback being in the transmit machine.                      *)
(***************************************************************************)
Honest(f) == /\ f.byReq => f.state \in TxStates
             /\ f.status # NoMemory

FramesHonest == \A i \in Slots : Honest(frame[i])

QueueMatches ==
  /\ \A k, m \in DOMAIN queue : queue[k] = queue[m] => k = m
  /\ \A r \in Reqs : r \in Queued <=> req[r].state # "IDLE"

WaitersOwn ==
  \A k \in DOMAIN queue :
    req[queue[k]].state = "WAIT_CONF" =>
      /\ req[queue[k]].frame \in Slots
      /\ frame[req[queue[k]].frame].byReq
      /\ IsOwner(k, req[queue[k]].frame)

RequestsInv == FramesHonest /\ QueueMatches /\ WaitersOwn /\ ConfirmReachesOwner

\* What an action that is not about a request does to a buffer.
Keeps(f, g) == Honest(g) /\ g.byReq = f.byReq

\* Only nwkDataReqSendFrame makes a buffer with a callback.
LEMMA NewFramesHonest ==
  /\ \A b, w \in BOOLEAN, d \in Nat : Honest(TxFrame(b, w, d)) /\ TxFrame(b, w, d).byReq = b
  /\ \A c \in Classes : Honest(RxFrame(c)) /\ RxFrame(c).byReq = FALSE
  /\ Honest(FreeFrame) /\ FreeFrame.byReq = FALSE
  BY DEF Honest, TxFrame, RxFrame, FreeFrame, Success, NoMemory, TxStates

LEMMA StateKeeps ==
  ASSUME NEW f \in Frames, NEW s \in FrameStates, Honest(f), f.byReq => s \in TxStates
  PROVE  Keeps(f, [f EXCEPT !.state = s])
  BY DEF Keeps, Honest, Frames

\* The buffer of an allocation had no callback before, and has none after it.
LEMMA AllocKeeps ==
  ASSUME TypeOK, NEW f, DOMAIN f = Slots, \A k \in Slots : Keeps(frame[k], f[k]),
         NEW fr, Honest(fr), fr.byReq = FALSE, AllocInto(f, fr)
  PROVE  \A k \in Slots : Keeps(frame[k], frame'[k])
<1>1. CASE frame' = f
  BY <1>1
<1>2. ASSUME NEW m \in Slots, FirstFree(f, m), frame' = [f EXCEPT ![m] = fr]
      PROVE  \A k \in Slots : Keeps(frame[k], frame'[k])
  <2>1. f[m].state = "FREE" /\ Keeps(frame[m], f[m])
    BY <1>2 DEF FirstFree
  <2>2. f[m].byReq = FALSE
    BY <2>1 DEF Keeps, Honest, TxStates, TypeOK, Frames
  <2>3. frame'[m] = fr /\ \A k \in Slots \ {m} : frame'[k] = f[k]
    BY <1>2
  <2> QED BY <2>1, <2>2, <2>3 DEF Keeps
<1> QED BY <1>1, <1>2 DEF AllocInto

\* The actions that are about no request.
PlainStep ==
  \/ PhyNothing \/ RxDone \/ TxDone \/ DataReqNothing \/ TimersDone
  \/ \E c \in Arriving : PHY_DataInd(c)
  \/ \E s \in PhyStatuses : PHY_DataConf(s)
  \/ \E i \in Slots : RxIteration(i)
  \/ \E i \in Slots : TxDelay(i) \/ TxSend(i) \/ TxSent(i) \/ TxSkip(i)
  \/ nwkTxDelayTimerHandler \/ nwkTxAckWaitTimerHandler

\* A buffer is received, handled, acknowledged, routed or freed by the receive
\* machine: none of those it touches has a callback, except one it confirms.
LEMMA RxKeeps ==
  ASSUME TypeOK, FramesHonest, NEW i \in Slots, RxIteration(i)
  PROVE  \A k \in Slots : Keeps(frame[k], frame'[k])
<1> USE NewFramesHonest, DelaysAreNat
<1>1. \A k \in Slots : /\ frame[k] \in Frames /\ Honest(frame[k]) /\ Keeps(frame[k], frame[k])
                       /\ frame[k].state \in RxStates \cup {"FREE"} => frame[k].byReq = FALSE
  <2>1. ASSUME NEW f \in Frames, Honest(f), f.state \in RxStates \cup {"FREE"} PROVE f.byReq = FALSE
    BY <2>1 DEF Frames, Honest, RxStates, TxStates
  <2> QED BY <2>1 DEF TypeOK, FramesHonest, Keeps
<1>2. DOMAIN frame = Slots
  BY DEF TypeOK
<1>3. ASSUME NEW k \in Slots, NEW s \in FrameStates, frame[k].state \in RxStates \/ s \in TxStates
      PROVE  Keeps(frame[k], [frame[k] EXCEPT !.state = s])
  <2>1. frame[k] \in Frames /\ Honest(frame[k]) /\ (frame[k].byReq => s \in TxStates)
    BY <1>1, <1>3
  <2> QED BY <2>1, StateKeeps
<1>4. \A fr : Honest(fr) /\ fr.byReq = FALSE /\ frame[i].state \in RxStates => Keeps(frame[i], fr)
  BY <1>1 DEF Keeps
<1>5. CASE nwkRxHandleReceivedFrame(i)
  <2> DEFINE next == IF frame[i].class \in {Drop, Relay} THEN "FINISH"
                     ELSE IF frame[i].class = Route THEN "ROUTE" ELSE "INDICATE"
             handled == [frame EXCEPT ![i].state = next]
  <2>1. next \in FrameStates
    BY DEF FrameStates, RxStates
  <2>2. frame[i].state \in RxStates
    BY <1>5 DEF nwkRxHandleReceivedFrame, RxAt, RxStates
  <2>3. frame' = handled \/ \E j \in Jitters : AllocInto(handled, TxFrame(FALSE, FALSE, j))
    BY <1>5 DEF nwkRxHandleReceivedFrame
  <2> HIDE DEF next
  <2>4. Keeps(frame[i], [frame[i] EXCEPT !.state = next])
    BY <2>1, <2>2, <1>3
  <2>5. DOMAIN handled = Slots /\ \A k \in Slots : Keeps(frame[k], handled[k])
    BY <2>4, <1>1, <1>2
  <2> HIDE DEF handled
  <2> QED BY <2>3, <2>5, AllocKeeps
<1>6. CASE nwkRxHandleIndication(i)
  <2>1. PICK f \in nwkRxServiceDataInd(i), d \in TxDelays :
          LET done == [f EXCEPT ![i].state = "FINISH"]
          IN AllocInto(done, TxFrame(FALSE, FALSE, d)) \/ frame' = done
    BY <1>6 DEF nwkRxHandleIndication, nwkRxSendAck
  <2> DEFINE done == [f EXCEPT ![i].state = "FINISH"]
  <2>2. frame[i].state = "INDICATE"
    BY <1>6 DEF nwkRxHandleIndication, RxAt
  <2>3. /\ DOMAIN f = Slots
        /\ \A k \in Slots : \/ f[k] = frame[k]
                            \/ frame[k].state = "WAIT_ACK" /\ f[k] = [frame[k] EXCEPT !.state = "CONFIRM"]
    BY <1>2 DEF AckReceived, nwkRxServiceDataInd
  <2>4. "CONFIRM" \in TxStates /\ "CONFIRM" \in FrameStates /\ "FINISH" \in FrameStates
    BY DEF TxStates, FrameStates, RxStates
  <2>5. \A k \in Slots : Keeps(frame[k], f[k])
    BY <2>3, <2>4, <1>1, <1>3
  <2>6. f[i] = frame[i] /\ Keeps(frame[i], [frame[i] EXCEPT !.state = "FINISH"])
    BY <2>2, <2>3, <2>4, <1>3 DEF RxStates
  <2>7. DOMAIN done = Slots /\ \A k \in Slots : Keeps(frame[k], done[k])
    BY <2>3, <2>5, <2>6
  <2>8. AllocInto(done, TxFrame(FALSE, FALSE, d)) \/ frame' = done
    BY <2>1
  <2> HIDE DEF done
  <2> QED BY <2>7, <2>8, AllocKeeps
<1>7. CASE RouteOnwards(i)
  <2>1. frame[i].state \in RxStates /\ frame' = [frame EXCEPT ![i] = TxFrame(FALSE, FALSE, 0)]
    BY <1>7 DEF RouteOnwards, RxAt, RxStates
  <2> QED BY <2>1, <1>1, <1>2, <1>4
<1>8. CASE RouteError(i)
  <2>1. frame[i].state \in RxStates
    BY <1>8 DEF RouteError, RxAt, RxStates
  <2>2. Keeps(frame[i], FreeFrame)
    BY <2>1, <1>4
  <2>3. CASE frame' = [frame EXCEPT ![i] = FreeFrame]
    BY <2>2, <2>3, <1>1, <1>2
  <2>4. ASSUME NEW m \in Slots, NEW d \in TxDelays, FirstFree(frame, m),
               frame' = [frame EXCEPT ![m] = TxFrame(FALSE, FALSE, d), ![i] = FreeFrame]
        PROVE  \A k \in Slots : Keeps(frame[k], frame'[k])
    <3>1. Keeps(frame[m], TxFrame(FALSE, FALSE, d))
      BY <2>4, <1>1 DEF FirstFree, Keeps
    <3> QED BY <3>1, <2>2, <2>4, <1>1, <1>2
  <2> QED BY <1>8, <2>3, <2>4 DEF RouteError
<1>9. CASE RxFinish(i)
  <2>1. frame[i].state \in RxStates /\ frame' = [frame EXCEPT ![i] = FreeFrame]
    BY <1>9 DEF RxFinish, RxAt, RxStates
  <2> QED BY <2>1, <1>1, <1>2, <1>4
<1>10. CASE RxSkip(i)
  BY <1>1, <1>10 DEF RxSkip
<1> QED BY <1>5, <1>6, <1>7, <1>8, <1>9, <1>10 DEF RxIteration

LEMMA PlainKeeps ==
  ASSUME TypeOK, RadioOwned, FramesHonest, PlainStep
  PROVE  UNCHANGED reqVars /\ \A k \in Slots : Keeps(frame[k], frame'[k])
<1> USE NewFramesHonest
<1>1. \A k \in Slots : frame[k] \in Frames /\ Honest(frame[k]) /\ Keeps(frame[k], frame[k])
  BY DEF TypeOK, FramesHonest, Honest, Keeps
<1>2. DOMAIN frame = Slots
  BY DEF TypeOK
<1>3. UNCHANGED reqVars
  BY DEF PlainStep, PhyNothing, RxDone, TxDone, DataReqNothing, TimersDone, PHY_DataInd, PHY_DataConf,
     RxIteration, nwkRxHandleReceivedFrame, nwkRxHandleIndication, RouteOnwards, RouteError, RxFinish,
     RxSkip, TxDelay, TxSend, TxSent, TxSkip, nwkTxDelayTimerHandler, nwkTxAckWaitTimerHandler
<1>4. CASE \/ PhyNothing \/ RxDone \/ TxDone \/ DataReqNothing \/ TimersDone
           \/ \E i \in Slots : TxSkip(i)
  <2>1. frame' = frame
    BY <1>4 DEF PhyNothing, RxDone, TxDone, DataReqNothing, TimersDone, TxSkip
  <2> QED BY <2>1, <1>1, <1>3
<1>5. ASSUME NEW c \in Arriving, PHY_DataInd(c) PROVE \A k \in Slots : Keeps(frame[k], frame'[k])
  <2>1. c \in Classes /\ AllocInto(frame, RxFrame(c))
    BY <1>5, NodeAssumption DEF PHY_DataInd
  <2> QED BY <2>1, <1>1, <1>2, AllocKeeps
<1>6. ASSUME NEW s \in PhyStatuses, PHY_DataConf(s) PROVE \A k \in Slots : Keeps(frame[k], frame'[k])
  <2>1. frame' = [frame EXCEPT ![active] = [@ EXCEPT !.status = s, !.state = "SENT"]]
    BY <1>6 DEF PHY_DataConf
  <2>2. ASSUME NEW f \in Frames PROVE Keeps(f, [f EXCEPT !.status = s, !.state = "SENT"])
    BY <2>2 DEF Frames, Keeps, Honest, PhyStatuses, Success, PhyError, NoMemory, TxStates
  <2> QED BY <2>1, <2>2, <1>1, <1>2
<1>7. ASSUME NEW i \in Slots, RxIteration(i) PROVE \A k \in Slots : Keeps(frame[k], frame'[k])
  BY <1>7, RxKeeps
<1>8. ASSUME NEW i \in Slots, TxDelay(i) \/ TxSend(i) \/ TxSent(i)
      PROVE  \A k \in Slots : Keeps(frame[k], frame'[k])
  <2>1. {"WAIT_DELAY", "SEND", "WAIT_CONF", "WAIT_ACK", "CONFIRM"} \subseteq TxStates \cap FrameStates
    BY DEF TxStates, FrameStates
  <2>2. \A s \in {"WAIT_DELAY", "SEND", "WAIT_CONF", "WAIT_ACK", "CONFIRM"} :
          Keeps(frame[i], [frame[i] EXCEPT !.state = s])
    BY <2>1, <1>1, StateKeeps
  <2>3. Keeps(frame[i], [frame[i] EXCEPT !.state = "WAIT_ACK", !.timeout = AckTicks])
    BY <1>1 DEF Frames, Keeps, Honest, TxStates
  <2>4. \/ \E s \in {"WAIT_DELAY", "SEND", "WAIT_CONF", "WAIT_ACK", "CONFIRM"} :
             frame' = [frame EXCEPT ![i].state = s]
        \/ frame' = [frame EXCEPT ![i] = [@ EXCEPT !.state = "WAIT_ACK", !.timeout = AckTicks]]
    BY <1>8 DEF TxDelay, TxSend, TxSent
  <2> QED BY <2>2, <2>3, <2>4, <1>1, <1>2
<1>9. CASE nwkTxDelayTimerHandler \/ nwkTxAckWaitTimerHandler
  <2>1. PICK s \in {"WAIT_DELAY", "WAIT_ACK"} : frame' = Countdown(s)
    BY <1>9 DEF nwkTxDelayTimerHandler, nwkTxAckWaitTimerHandler
  <2>2. ASSUME NEW f \in Frames, Honest(f), f.state = s
        PROVE  Keeps(f, Expired(f)) /\ Keeps(f, [f EXCEPT !.timeout = @ - 1])
    BY <2>2 DEF Frames, Expired, Keeps, Honest, NoAck, NoMemory, TxStates
  <2>3. ASSUME NEW k \in Slots PROVE Keeps(frame[k], frame'[k])
    <3>1. \/ frame'[k] = frame[k]
          \/ frame[k].state = s /\ frame'[k] = Expired(frame[k])
          \/ frame[k].state = s /\ frame'[k] = [frame[k] EXCEPT !.timeout = @ - 1]
      BY <2>1 DEF Countdown
    <3> QED BY <3>1, <2>2, <1>1
  <2> QED BY <2>3, <1>3
<1> QED BY <1>3, <1>4, <1>5, <1>6, <1>7, <1>8, <1>9 DEF PlainStep

\* Such an action keeps what is known of the requests.
LEMMA PlainInvariant ==
  ASSUME RequestsInv, UNCHANGED reqVars, \A k \in Slots : Keeps(frame[k], frame'[k])
  PROVE  RequestsInv'
<1>1. FramesHonest'
  BY DEF FramesHonest, Keeps, Honest
<1>2. QueueMatches'
  BY DEF RequestsInv, QueueMatches, Queued, reqVars
<1>3. WaitersOwn'
  BY DEF RequestsInv, WaitersOwn, IsOwner, Keeps, reqVars
<1>4. ConfirmReachesOwner'
  BY DEF RequestsInv, ConfirmReachesOwner, IsOwner, Keeps, reqVars
<1> QED BY <1>1, <1>2, <1>3, <1>4 DEF RequestsInv

\* A buffer has at most one owner.
LEMMA OneOwner ==
  ASSUME TypeOK, NEW i, NEW k, NEW m, IsOwner(k, i), IsOwner(m, i)
  PROVE  k = m
<1>1. DOMAIN queue = 1..Len(queue) /\ Len(queue) \in Nat
  BY DEF TypeOK
<1>2. k \in 1..Len(queue) /\ m \in 1..Len(queue)
  BY <1>1 DEF IsOwner
<1>3. ~(k < m) /\ ~(m < k)
  BY <1>2 DEF IsOwner
<1> QED BY <1>2, <1>3

\* NWK_DataReq: the new request is at the head, and points to no buffer.
LEMMA RequestInvariant ==
  ASSUME TypeOK, RequestsInv, NEW r \in Reqs, NWK_DataReq(r)
  PROVE  RequestsInv'
<1> DEFINE fresh == [state |-> "INITIAL", frame |-> 0, status |-> Success]
<1>1. /\ r \notin Queued /\ frame' = frame
      /\ req' = [req EXCEPT ![r] = fresh]
      /\ queue' = <<r>> \o queue
  BY DEF NWK_DataReq
<1>2. queue \in Seq(Reqs) /\ req \in [Reqs -> Requests]
  BY DEF TypeOK
<1>3. /\ Len(queue) \in Nat /\ DOMAIN queue = 1..Len(queue)
      /\ DOMAIN queue' = 1..(Len(queue) + 1)
      /\ Len(queue') = Len(queue) + 1
      /\ queue'[1] = r
      /\ \A k \in DOMAIN queue : queue'[k + 1] = queue[k] /\ queue[k] \in Queued
  BY <1>1, <1>2 DEF Queued
<1>4. /\ req'[r] = fresh
      /\ \A q \in Reqs : q # r => req'[q] = req[q]
      /\ \A k \in DOMAIN queue : queue[k] # r /\ queue[k] \in Reqs /\ req'[queue[k]] = req[queue[k]]
  BY <1>1, <1>2, <1>3
<1>5. \A k \in DOMAIN queue' : k = 1 \/ (k - 1 \in DOMAIN queue /\ queue'[k] = queue[k - 1])
  BY <1>3
<1>6. Queued' = Queued \cup {r}
  <2>1. \A q \in Queued' : q \in Queued \cup {r}
    BY <1>3, <1>5 DEF Queued
  <2>2. \A q \in Queued : q \in Queued'
    <3> TAKE q \in Queued
    <3>1. PICK k \in DOMAIN queue : queue[k] = q
      BY DEF Queued
    <3>2. k + 1 \in DOMAIN queue' /\ queue'[k + 1] = q
      BY <3>1, <1>3
    <3> QED BY <3>2 DEF Queued
  <2>3. r \in Queued'
    BY <1>3 DEF Queued
  <2> QED BY <2>1, <2>2, <2>3
<1>7. \A k \in DOMAIN queue, i \in Slots : IsOwner(k, i) => IsOwner(k + 1, i)'
  <2> TAKE k \in DOMAIN queue, i \in Slots
  <2> HAVE IsOwner(k, i)
  <2>1. /\ req[queue[k]].frame = i
        /\ \A m \in 1..(k - 1) : req[queue[m]].frame # i
    BY DEF IsOwner
  <2>2. k + 1 \in DOMAIN queue' /\ req'[queue'[k + 1]].frame = i
    BY <2>1, <1>3, <1>4
  <2>3. ASSUME NEW m \in 1..k PROVE req'[queue'[m]].frame # i
    <3>1. CASE m = 1
      BY <3>1, <1>3, <1>4, NodeAssumption DEF Slots
    <3>2. CASE m # 1
      <4>1. m - 1 \in DOMAIN queue /\ m - 1 \in 1..(k - 1) /\ queue'[m] = queue[m - 1]
        BY <3>2, <1>3
      <4> QED BY <4>1, <2>1, <1>4
    <3> QED BY <3>1, <3>2
  <2>4. (k + 1) - 1 = k
    BY <1>3
  <2> QED BY <2>2, <2>3, <2>4 DEF IsOwner
<1>8. FramesHonest'
  BY <1>1 DEF RequestsInv, FramesHonest, Honest
<1>9. QueueMatches'
  <2>1. ASSUME NEW k \in DOMAIN queue', NEW m \in DOMAIN queue', queue'[k] = queue'[m] PROVE k = m
    <3>1. CASE k = 1 /\ m = 1
      BY <3>1
    <3>2. CASE k # 1 /\ m # 1
      <4>1. /\ k - 1 \in DOMAIN queue /\ m - 1 \in DOMAIN queue
            /\ queue[k - 1] = queue[m - 1]
        BY <3>2, <2>1, <1>5
      <4>2. k - 1 = m - 1
        BY <4>1 DEF RequestsInv, QueueMatches
      <4> QED BY <4>2, <1>3
    <3>3. CASE (k = 1) # (m = 1)
      BY <3>3, <2>1, <1>3, <1>4, <1>5
    <3> QED BY <3>1, <3>2, <3>3
  <2>2. ASSUME NEW q \in Reqs PROVE q \in Queued' <=> req'[q].state # "IDLE"
    BY <1>4, <1>6 DEF RequestsInv, QueueMatches
  <2> QED BY <2>1, <2>2 DEF QueueMatches
<1>10. WaitersOwn'
  <2> SUFFICES ASSUME NEW k \in DOMAIN queue', req'[queue'[k]].state = "WAIT_CONF"
               PROVE  /\ req'[queue'[k]].frame \in Slots
                      /\ frame'[req'[queue'[k]].frame].byReq
                      /\ IsOwner(k, req[queue[k]].frame)'
    BY DEF WaitersOwn
  <2>1. k # 1
    BY <1>3, <1>4
  <2>2. k - 1 \in DOMAIN queue /\ queue'[k] = queue[k - 1] /\ req'[queue'[k]] = req[queue[k - 1]]
    BY <2>1, <1>4, <1>5
  <2>3. /\ req[queue[k - 1]].frame \in Slots
        /\ frame[req[queue[k - 1]].frame].byReq
        /\ IsOwner(k - 1, req[queue[k - 1]].frame)
    BY <2>2 DEF RequestsInv, WaitersOwn
  <2>4. PICK i \in Slots : i = req[queue[k - 1]].frame
    BY <2>3
  <2>5. IsOwner((k - 1) + 1, i)' /\ (k - 1) + 1 = k
    BY <2>2, <2>3, <2>4, <1>3, <1>7
  <2>6. IsOwner(k, i)' /\ req'[queue'[k]].frame = i
    BY <2>2, <2>4, <2>5
  <2> QED BY <2>2, <2>3, <2>6, <1>1 DEF IsOwner
<1>11. ConfirmReachesOwner'
  <2> SUFFICES ASSUME NEW i \in Slots, frame[i].byReq
               PROVE  \E k \in DOMAIN queue' : IsOwner(k, i)' /\ req'[queue'[k]].state = "WAIT_CONF"
    BY <1>1 DEF ConfirmReachesOwner
  <2>1. PICK k \in DOMAIN queue : IsOwner(k, i) /\ req[queue[k]].state = "WAIT_CONF"
    BY DEF RequestsInv, ConfirmReachesOwner
  <2>2. k + 1 \in DOMAIN queue' /\ IsOwner(k + 1, i)' /\ req'[queue'[k + 1]].state = "WAIT_CONF"
    BY <2>1, <1>3, <1>4, <1>7
  <2> QED BY <2>2
<1> QED BY <1>8, <1>9, <1>10, <1>11 DEF RequestsInv

\* nwkDataReqTxConf, as TxConfirm calls it: exactly the owner of the buffer is
\* answered, with the status of the buffer.
LEMMA ConfirmEffect ==
  ASSUME TypeOK, RequestsInv, NEW i \in Slots, TxConfirm(i), frame[i].byReq
  PROVE  \E k \in DOMAIN queue :
           /\ IsOwner(k, i) /\ req[queue[k]].state = "WAIT_CONF"
           /\ req' = [req EXCEPT ![queue[k]] = [@ EXCEPT !.state = "CONFIRM", !.status = frame[i].status]]
<1>1. PICK k \in DOMAIN queue : IsOwner(k, i) /\ req[queue[k]].state = "WAIT_CONF"
  BY DEF RequestsInv, ConfirmReachesOwner
<1>2. queue[k] \in Reqs /\ req \in [Reqs -> Requests]
  BY DEF TypeOK
<1>3. \A r \in Reqs : (\E m \in DOMAIN queue : queue[m] = r /\ IsOwner(m, i)) <=> r = queue[k]
  BY <1>1, OneOwner
<1>4. req' = [r \in Reqs |->
                IF \E m \in DOMAIN queue : queue[m] = r /\ IsOwner(m, i)
                  THEN [req[r] EXCEPT !.state = "CONFIRM", !.status = frame[i].status]
                  ELSE req[r]]
  BY DEF TxConfirm
<1>5. req' = [r \in Reqs |->
                IF r = queue[k]
                  THEN [req[r] EXCEPT !.state = "CONFIRM", !.status = frame[i].status]
                  ELSE req[r]]
  BY <1>3, <1>4
<1>6. req' = [req EXCEPT ![queue[k]] = [@ EXCEPT !.state = "CONFIRM", !.status = frame[i].status]]
  BY <1>2, <1>5
<1> QED BY <1>1, <1>6

LEMMA ConfirmInvariant ==
  ASSUME TypeOK, RequestsInv, NEW i \in Slots, TxConfirm(i)
  PROVE  RequestsInv'
<1>1. /\ frame' = [frame EXCEPT ![i] = FreeFrame] /\ queue' = queue
      /\ frame[i].state = "CONFIRM"
  BY DEF TxConfirm, TxAt
<1>2. /\ frame'[i] = FreeFrame
      /\ \A j \in Slots : j # i => frame'[j] = frame[j]
  BY <1>1 DEF TypeOK
<1>3. CASE frame[i].byReq = FALSE
  <2>1. UNCHANGED reqVars
    BY <1>1, <1>3 DEF TxConfirm, reqVars
  <2>2. \A k \in Slots : Keeps(frame[k], frame'[k])
    BY <1>2, <1>3, NewFramesHonest DEF RequestsInv, FramesHonest, Keeps
  <2> QED BY <2>1, <2>2, PlainInvariant
<1>4. CASE frame[i].byReq = TRUE
  <2>1. PICK k \in DOMAIN queue :
           /\ IsOwner(k, i) /\ req[queue[k]].state = "WAIT_CONF"
           /\ req' = [req EXCEPT ![queue[k]] = [@ EXCEPT !.state = "CONFIRM", !.status = frame[i].status]]
    BY <1>4, ConfirmEffect
  <2>2. queue \in Seq(Reqs) /\ req \in [Reqs -> Requests]
    BY DEF TypeOK
  <2>3. /\ \A r \in Reqs : r # queue[k] => req'[r] = req[r]
        /\ \A m \in DOMAIN queue : queue[m] \in Reqs
        /\ req'[queue[k]].state = "CONFIRM" /\ req'[queue[k]].frame = req[queue[k]].frame
    BY <2>1, <2>2 DEF Requests
  <2>4. \A m \in DOMAIN queue : req'[queue[m]].frame = req[queue[m]].frame
    BY <2>3
  <2>5. \A m \in DOMAIN queue, j \in Slots : IsOwner(m, j)' <=> IsOwner(m, j)
    <3> TAKE m \in DOMAIN queue, j \in Slots
    <3>1. \A n \in 1..(m - 1) : n \in DOMAIN queue
      BY <2>2
    <3> QED BY <3>1, <2>4, <1>1 DEF IsOwner
  <2>6. \A m \in DOMAIN queue : m # k => queue[m] # queue[k] /\ req'[queue[m]] = req[queue[m]]
    BY <2>3 DEF RequestsInv, QueueMatches
  <2>7. FramesHonest'
    BY <1>2, NewFramesHonest DEF RequestsInv, FramesHonest, Honest
  <2>8. QueueMatches'
    <3>1. \A r \in Reqs : req'[r].state # "IDLE" <=> req[r].state # "IDLE"
      BY <2>1, <2>3
    <3> QED BY <3>1, <1>1 DEF RequestsInv, QueueMatches, Queued
  <2>9. WaitersOwn'
    <3> SUFFICES ASSUME NEW m \in DOMAIN queue, req'[queue[m]].state = "WAIT_CONF"
                 PROVE  /\ req'[queue[m]].frame \in Slots
                        /\ frame'[req'[queue[m]].frame].byReq
                        /\ IsOwner(m, req[queue[m]].frame)'
      BY <1>1 DEF WaitersOwn
    <3>1. m # k /\ req'[queue[m]] = req[queue[m]]
      BY <2>3, <2>6
    <3>2. PICK j \in Slots : j = req[queue[m]].frame /\ frame[j].byReq /\ IsOwner(m, j)
      BY <3>1 DEF RequestsInv, WaitersOwn
    <3>3. j # i
      BY <3>1, <3>2, <2>1, OneOwner
    <3>4. frame'[j].byReq /\ IsOwner(m, j)' /\ req'[queue'[m]].frame = j
      BY <3>1, <3>2, <3>3, <1>1, <1>2, <2>5
    <3> QED BY <3>1, <3>2, <3>4 DEF IsOwner
  <2>10. ConfirmReachesOwner'
    <3> SUFFICES ASSUME NEW j \in Slots, frame'[j].byReq
                 PROVE  \E m \in DOMAIN queue : IsOwner(m, j)' /\ req'[queue[m]].state = "WAIT_CONF"
      BY <1>1 DEF ConfirmReachesOwner
    <3>1. j # i /\ frame[j].byReq
      BY <1>2, NewFramesHonest
    <3>2. PICK m \in DOMAIN queue : IsOwner(m, j) /\ req[queue[m]].state = "WAIT_CONF"
      BY <3>1 DEF RequestsInv, ConfirmReachesOwner
    <3>3. m # k
      BY <3>1, <3>2, <2>1 DEF IsOwner
    <3> QED BY <3>2, <3>3, <2>5, <2>6
  <2> QED BY <2>7, <2>8, <2>9, <2>10 DEF RequestsInv
<1> QED BY <1>3, <1>4 DEF TypeOK, Frames

\* The requests that are ahead of the one served wait, each for a buffer in use:
\* the buffer allocated is none of theirs.
LEMMA SendFrameInvariant ==
  ASSUME TypeOK, RequestsInv, NEW k \in DOMAIN queue, nwkDataReqSendFrame(k)
  PROVE  RequestsInv'
<1>1. /\ req[queue[k]].state = "INITIAL" /\ queue' = queue
      /\ \A m \in 1..(k - 1) : req[queue[m]].state = "WAIT_CONF"
  BY DEF nwkDataReqSendFrame, Serves
<1>2. queue \in Seq(Reqs) /\ req \in [Reqs -> Requests] /\ frame \in [Slots -> Frames]
  BY DEF TypeOK
<1>3. /\ \A m \in DOMAIN queue : queue[m] \in Reqs
      /\ \A m \in DOMAIN queue : m # k => queue[m] # queue[k]
      /\ \A m \in DOMAIN queue : m \in Nat /\ \A n \in 1..(m - 1) : n \in DOMAIN queue /\ n # m
  BY <1>2 DEF RequestsInv, QueueMatches
<1>4. ASSUME NEW i \in Slots, NEW a \in BOOLEAN, NEW d \in TxDelays, FirstFree(frame, i),
             frame' = [frame EXCEPT ![i] = TxFrame(TRUE, a, d)],
             req' = [req EXCEPT ![queue[k]] = [@ EXCEPT !.frame = i, !.state = "WAIT_CONF"]]
      PROVE  RequestsInv'
  <2>1. /\ frame'[i] = TxFrame(TRUE, a, d)
        /\ \A j \in Slots : j # i => frame'[j] = frame[j]
    BY <1>4, <1>2
  <2>2. Honest(frame'[i]) /\ frame'[i].byReq = TRUE
    BY <2>1, NewFramesHonest, DelaysAreNat
  <2>3. /\ req'[queue[k]].state = "WAIT_CONF" /\ req'[queue[k]].frame = i
        /\ \A r \in Reqs : r # queue[k] => req'[r] = req[r]
        /\ \A m \in DOMAIN queue : m # k => req'[queue[m]] = req[queue[m]]
    BY <1>2, <1>3, <1>4 DEF Requests
  <2>4. frame[i].state = "FREE" /\ ~frame[i].byReq
    BY <1>4 DEF FirstFree, RequestsInv, FramesHonest, Honest, TxStates
  <2>5. \A m \in DOMAIN queue, j \in Slots :
          IsOwner(m, j) /\ m # k /\ j # i => IsOwner(m, j)'
    <3> TAKE m \in DOMAIN queue, j \in Slots
    <3> HAVE IsOwner(m, j) /\ m # k /\ j # i
    <3>1. req'[queue[m]].frame = j
      BY <2>3 DEF IsOwner
    <3>2. \A n \in 1..(m - 1) : req'[queue[n]].frame # j
      BY <1>3, <2>3 DEF IsOwner
    <3> QED BY <3>1, <3>2, <1>1 DEF IsOwner
  <2>6. IsOwner(k, i)'
    <3>1. \A n \in 1..(k - 1) : req'[queue[n]].frame # i
      <4> TAKE n \in 1..(k - 1)
      <4>1. n \in DOMAIN queue /\ n # k /\ req[queue[n]].state = "WAIT_CONF"
        BY <1>1, <1>3
      <4>2. frame[req[queue[n]].frame].byReq
        BY <4>1 DEF RequestsInv, WaitersOwn
      <4> QED BY <4>1, <4>2, <2>3, <2>4
    <3> QED BY <3>1, <2>3, <1>1 DEF IsOwner
  <2>7. FramesHonest'
    BY <2>1, <2>2 DEF RequestsInv, FramesHonest, Honest
  <2>8. QueueMatches'
    <3>1. \A r \in Reqs : req'[r].state # "IDLE" <=> req[r].state # "IDLE"
      BY <1>1, <2>3
    <3> QED BY <3>1, <1>1 DEF RequestsInv, QueueMatches, Queued
  <2>9. WaitersOwn'
    <3> SUFFICES ASSUME NEW m \in DOMAIN queue, req'[queue[m]].state = "WAIT_CONF"
                 PROVE  /\ req'[queue[m]].frame \in Slots
                        /\ frame'[req'[queue[m]].frame].byReq
                        /\ IsOwner(m, req[queue[m]].frame)'
      BY <1>1 DEF WaitersOwn
    <3>1. CASE m = k
      BY <3>1, <2>2, <2>3, <2>6, <1>1 DEF IsOwner
    <3>2. CASE m # k
      <4>1. req'[queue[m]] = req[queue[m]]
        BY <3>2, <2>3
      <4>2. PICK j \in Slots : j = req[queue[m]].frame /\ frame[j].byReq /\ IsOwner(m, j)
        BY <4>1 DEF RequestsInv, WaitersOwn
      <4>3. j # i
        BY <4>2, <2>4
      <4>4. frame'[j].byReq /\ IsOwner(m, j)' /\ req'[queue'[m]].frame = j
        BY <3>2, <4>1, <4>2, <4>3, <1>1, <2>1, <2>5
      <4> QED BY <4>1, <4>2, <4>4 DEF IsOwner
    <3> QED BY <3>1, <3>2
  <2>10. ConfirmReachesOwner'
    <3> SUFFICES ASSUME NEW j \in Slots, frame'[j].byReq
                 PROVE  \E m \in DOMAIN queue : IsOwner(m, j)' /\ req'[queue[m]].state = "WAIT_CONF"
      BY <1>1 DEF ConfirmReachesOwner
    <3>1. CASE j = i
      BY <3>1, <2>3, <2>6
    <3>2. CASE j # i
      <4>1. PICK m \in DOMAIN queue : IsOwner(m, j) /\ req[queue[m]].state = "WAIT_CONF"
        BY <3>2, <2>1 DEF RequestsInv, ConfirmReachesOwner
      <4>2. m # k
        BY <4>1, <1>1
      <4> QED BY <3>2, <4>1, <4>2, <2>3, <2>5
    <3> QED BY <3>1, <3>2
  <2> QED BY <2>7, <2>8, <2>9, <2>10 DEF RequestsInv
<1>5. ASSUME frame' = frame,
             req' = [req EXCEPT ![queue[k]] = [@ EXCEPT !.state = "CONFIRM", !.status = NoMemory]]
      PROVE  RequestsInv'
  <2>1. /\ req'[queue[k]].state = "CONFIRM" /\ req'[queue[k]].frame = req[queue[k]].frame
        /\ \A r \in Reqs : r # queue[k] => req'[r] = req[r]
        /\ \A m \in DOMAIN queue : m # k => req'[queue[m]] = req[queue[m]]
    BY <1>2, <1>3, <1>5 DEF Requests
  <2>2. \A m \in DOMAIN queue : req'[queue[m]].frame = req[queue[m]].frame
    BY <2>1
  <2>3. \A m \in DOMAIN queue, j \in Slots : IsOwner(m, j)' <=> IsOwner(m, j)
    BY <1>1, <1>3, <2>2 DEF IsOwner
  <2>4. FramesHonest'
    BY <1>5 DEF RequestsInv, FramesHonest, Honest
  <2>5. QueueMatches'
    <3>1. \A r \in Reqs : req'[r].state # "IDLE" <=> req[r].state # "IDLE"
      BY <1>1, <2>1
    <3> QED BY <3>1, <1>1 DEF RequestsInv, QueueMatches, Queued
  <2>6. WaitersOwn'
    <3> SUFFICES ASSUME NEW m \in DOMAIN queue, req'[queue[m]].state = "WAIT_CONF"
                 PROVE  /\ req'[queue[m]].frame \in Slots
                        /\ frame'[req'[queue[m]].frame].byReq
                        /\ IsOwner(m, req[queue[m]].frame)'
      BY <1>1 DEF WaitersOwn
    <3>1. m # k /\ req'[queue[m]] = req[queue[m]]
      BY <2>1
    <3>2. PICK j \in Slots : j = req[queue[m]].frame /\ frame[j].byReq /\ IsOwner(m, j)
      BY <3>1 DEF RequestsInv, WaitersOwn
    <3>3. IsOwner(m, j)' /\ req'[queue'[m]].frame = j
      BY <3>1, <3>2, <1>1, <2>3
    <3> QED BY <3>1, <3>2, <3>3, <1>5 DEF IsOwner
  <2>7. ConfirmReachesOwner'
    <3> SUFFICES ASSUME NEW j \in Slots, frame[j].byReq
                 PROVE  \E m \in DOMAIN queue : IsOwner(m, j)' /\ req'[queue[m]].state = "WAIT_CONF"
      BY <1>1, <1>5 DEF ConfirmReachesOwner
    <3>1. PICK m \in DOMAIN queue : IsOwner(m, j) /\ req[queue[m]].state = "WAIT_CONF"
      BY DEF RequestsInv, ConfirmReachesOwner
    <3>2. m # k
      BY <3>1, <1>1
    <3> QED BY <3>1, <3>2, <2>1, <2>3
  <2> QED BY <2>4, <2>5, <2>6, <2>7 DEF RequestsInv
<1> QED BY <1>4, <1>5 DEF nwkDataReqSendFrame

\* A request taken out of the queue: those behind it move up by one.
Moved(m, k) == IF m < k THEN m ELSE m - 1
Origin(m, k) == IF m < k THEN m ELSE m + 1

LEMMA TakenOut ==
  ASSUME NEW S, NEW s \in Seq(S), NEW k \in DOMAIN s
  PROVE  LET t == SubSeq(s, 1, k - 1) \o SubSeq(s, k + 1, Len(s))
         IN /\ DOMAIN t = 1..(Len(s) - 1)
            /\ \A m \in DOMAIN t : t[m] = s[Origin(m, k)]
<1> DEFINE a == SubSeq(s, 1, k - 1)
           b == SubSeq(s, k + 1, Len(s))
           t == a \o b
<1>1. Len(s) \in Nat /\ k \in 1..Len(s)
  OBVIOUS
<1>2. a \in Seq(S) /\ Len(a) = k - 1 /\ \A m \in 1..(k - 1) : a[m] = s[m]
  BY <1>1
<1>3. b \in Seq(S) /\ Len(b) = Len(s) - k /\ \A m \in 1..(Len(s) - k) : b[m] = s[k + m]
  BY <1>1
<1> HIDE DEF a, b
<1>4. t \in Seq(S) /\ DOMAIN t = 1..(Len(s) - 1)
  BY <1>1, <1>2, <1>3
<1>5. ASSUME NEW m \in 1..(Len(s) - 1) PROVE t[m] = s[Origin(m, k)]
  <2>1. t[m] = IF m < k THEN a[m] ELSE b[m - (k - 1)]
    BY <1>1, <1>2, <1>3
  <2>2. CASE m < k
    BY <1>1, <1>2, <2>1, <2>2 DEF Origin
  <2>3. CASE ~(m < k)
    <3>1. m - (k - 1) \in 1..(Len(s) - k) /\ k + (m - (k - 1)) = m + 1
      BY <1>1, <2>3
    <3> QED BY <3>1, <1>3, <2>1, <2>3 DEF Origin
  <2> QED BY <2>2, <2>3
<1>6. DOMAIN t = 1..(Len(s) - 1) /\ \A m \in DOMAIN t : t[m] = s[Origin(m, k)]
  BY <1>4, <1>5
<1> HIDE DEF t
<1> QED BY <1>6 DEF t, a, b

\* nwkDataReqConfirm takes out a request that is not the owner of any buffer.
LEMMA TakenOutInvariant ==
  ASSUME TypeOK, RequestsInv, NEW k \in DOMAIN queue, nwkDataReqConfirm(k)
  PROVE  RequestsInv'
<1>1. /\ req[queue[k]].state = "CONFIRM" /\ frame' = frame
      /\ queue' = SubSeq(queue, 1, k - 1) \o SubSeq(queue, k + 1, Len(queue))
      /\ req' = [req EXCEPT ![queue[k]].state = "IDLE"]
  BY DEF nwkDataReqConfirm
<1>2. queue \in Seq(Reqs) /\ req \in [Reqs -> Requests]
  BY DEF TypeOK
<1>3. /\ DOMAIN queue' = 1..(Len(queue) - 1)
      /\ \A m \in DOMAIN queue' : queue'[m] = queue[Origin(m, k)]
  BY <1>1, <1>2, TakenOut
<1>4. /\ Len(queue) \in Nat /\ DOMAIN queue = 1..Len(queue) /\ k \in 1..Len(queue)
      /\ \A m \in DOMAIN queue : queue[m] \in Reqs
      /\ \A m \in DOMAIN queue : m # k => queue[m] # queue[k]
  BY <1>2 DEF RequestsInv, QueueMatches
<1>5. /\ \A m \in DOMAIN queue' : /\ Origin(m, k) \in DOMAIN queue /\ Origin(m, k) # k
                                  /\ Moved(Origin(m, k), k) = m
      /\ \A m \in DOMAIN queue : m # k => /\ Moved(m, k) \in DOMAIN queue'
                                          /\ Origin(Moved(m, k), k) = m
  BY <1>3, <1>4 DEF Moved, Origin
<1>6. /\ req'[queue[k]].state = "IDLE"
      /\ \A r \in Reqs : r # queue[k] => req'[r] = req[r]
      /\ \A m \in DOMAIN queue' : req'[queue'[m]] = req[queue[Origin(m, k)]]
  <2>1. req'[queue[k]].state = "IDLE" /\ \A r \in Reqs : r # queue[k] => req'[r] = req[r]
    BY <1>1, <1>2, <1>4 DEF Requests
  <2>2. ASSUME NEW m \in DOMAIN queue' PROVE req'[queue'[m]] = req[queue[Origin(m, k)]]
    <3>1. queue'[m] = queue[Origin(m, k)] /\ Origin(m, k) \in DOMAIN queue /\ Origin(m, k) # k
      BY <1>3, <1>5
    <3> QED BY <3>1, <1>4, <2>1
  <2> QED BY <2>1, <2>2
<1>7. ASSUME NEW m \in DOMAIN queue', NEW i \in Slots, IsOwner(Origin(m, k), i)
      PROVE  IsOwner(m, i)'
  <2>1. req'[queue'[m]].frame = i
    BY <1>6, <1>7 DEF IsOwner
  <2>2. ASSUME NEW n \in 1..(m - 1) PROVE req'[queue'[n]].frame # i
    <3>1. n \in DOMAIN queue' /\ Origin(n, k) \in 1..(Origin(m, k) - 1)
      BY <1>3, <1>4 DEF Origin
    <3> QED BY <3>1, <1>6, <1>7 DEF IsOwner
  <2> QED BY <2>1, <2>2 DEF IsOwner
<1>8. FramesHonest'
  BY <1>1 DEF RequestsInv, FramesHonest, Honest
<1>9. QueueMatches'
  <2>1. ASSUME NEW n \in DOMAIN queue', NEW m \in DOMAIN queue', queue'[n] = queue'[m] PROVE n = m
    <3>1. Origin(n, k) = Origin(m, k)
      BY <2>1, <1>3, <1>5 DEF RequestsInv, QueueMatches
    <3> QED BY <3>1, <1>5
  <2>2. \A r \in Reqs : r \in Queued' <=> r \in Queued /\ r # queue[k]
    <3> TAKE r \in Reqs
    <3>1. ASSUME r \in Queued' PROVE r \in Queued /\ r # queue[k]
      BY <3>1, <1>3, <1>4, <1>5 DEF Queued
    <3>2. ASSUME r \in Queued, r # queue[k] PROVE r \in Queued'
      <4>1. PICK m \in DOMAIN queue : queue[m] = r
        BY <3>2 DEF Queued
      <4>2. Moved(m, k) \in DOMAIN queue' /\ queue'[Moved(m, k)] = r
        BY <3>2, <4>1, <1>3, <1>5
      <4> QED BY <4>2 DEF Queued
    <3> QED BY <3>1, <3>2
  <2>3. \A r \in Reqs : req'[r].state # "IDLE" <=> req[r].state # "IDLE" /\ r # queue[k]
    BY <1>1, <1>6
  <2> QED BY <2>1, <2>2, <2>3 DEF RequestsInv, QueueMatches
<1>10. WaitersOwn'
  <2> SUFFICES ASSUME NEW m \in DOMAIN queue', req'[queue'[m]].state = "WAIT_CONF"
               PROVE  /\ req'[queue'[m]].frame \in Slots
                      /\ frame'[req'[queue'[m]].frame].byReq
                      /\ IsOwner(m, req[queue[m]].frame)'
    BY DEF WaitersOwn
  <2>1. PICK n \in DOMAIN queue : n = Origin(m, k) /\ req'[queue'[m]] = req[queue[n]]
    BY <1>5, <1>6
  <2>2. PICK i \in Slots : i = req[queue[n]].frame /\ frame[i].byReq /\ IsOwner(n, i)
    BY <2>1 DEF RequestsInv, WaitersOwn
  <2>3. IsOwner(m, i)' /\ req'[queue'[m]].frame = i
    BY <2>1, <2>2, <1>7
  <2> QED BY <2>2, <2>3, <1>1 DEF IsOwner
<1>11. ConfirmReachesOwner'
  <2> SUFFICES ASSUME NEW i \in Slots, frame[i].byReq
               PROVE  \E m \in DOMAIN queue' : IsOwner(m, i)' /\ req'[queue'[m]].state = "WAIT_CONF"
    BY <1>1 DEF ConfirmReachesOwner
  <2>1. PICK n \in DOMAIN queue : IsOwner(n, i) /\ req[queue[n]].state = "WAIT_CONF"
    BY DEF RequestsInv, ConfirmReachesOwner
  <2>2. n # k
    BY <2>1, <1>1
  <2>3. PICK m \in DOMAIN queue' : n = Origin(m, k)
    BY <2>2, <1>5
  <2> QED BY <2>1, <2>3, <1>6, <1>7
<1> QED BY <1>8, <1>9, <1>10, <1>11 DEF RequestsInv

LEMMA InitRequests == Init => RequestsInv
<1> SUFFICES ASSUME Init PROVE RequestsInv
  OBVIOUS
<1> USE DEF Init, nwkTxInit, nwkFrameInit, nwkDataReqInit
<1>1. DOMAIN queue = {} /\ \A i \in Slots : frame[i] = FreeFrame
  OBVIOUS
<1>2. FramesHonest /\ ConfirmReachesOwner
  BY <1>1, NewFramesHonest DEF FramesHonest, ConfirmReachesOwner
<1>3. QueueMatches
  BY <1>1 DEF QueueMatches, Queued
<1>4. WaitersOwn
  BY <1>1 DEF WaitersOwn
<1> QED BY <1>2, <1>3, <1>4 DEF RequestsInv

\* A step is about a request, or it is not.
LEMMA StepKinds ==
  ASSUME [Next]_vars
  PROVE  \/ UNCHANGED vars \/ PlainStep
         \/ \E r \in Reqs : NWK_DataReq(r)
         \/ \E i \in Slots : TxConfirm(i)
         \/ \E k \in DOMAIN queue : nwkDataReqSendFrame(k) \/ nwkDataReqConfirm(k)
  BY DEF Next, SYS_TaskHandler, TxIteration, PlainStep

LEMMA NextRequests == TypeOK /\ RadioOwned /\ RequestsInv /\ [Next]_vars => RequestsInv'
<1> SUFFICES ASSUME TypeOK, RadioOwned, RequestsInv, [Next]_vars PROVE RequestsInv'
  OBVIOUS
<1>1. CASE UNCHANGED vars
  BY <1>1 DEF vars, reqVars, RequestsInv, FramesHonest, QueueMatches, Queued, WaitersOwn,
     ConfirmReachesOwner, IsOwner
<1>2. CASE PlainStep
  <2>1. FramesHonest
    BY DEF RequestsInv
  <2>2. UNCHANGED reqVars /\ \A k \in Slots : Keeps(frame[k], frame'[k])
    BY <2>1, <1>2, PlainKeeps
  <2> QED BY <2>2, PlainInvariant
<1>3. CASE \E r \in Reqs : NWK_DataReq(r)
  BY <1>3, RequestInvariant
<1>4. CASE \E i \in Slots : TxConfirm(i)
  BY <1>4, ConfirmInvariant
<1>5. CASE \E k \in DOMAIN queue : nwkDataReqSendFrame(k) \/ nwkDataReqConfirm(k)
  BY <1>5, SendFrameInvariant, TakenOutInvariant
<1> QED BY <1>1, <1>2, <1>3, <1>4, <1>5, StepKinds

\* The data requests and the buffers agree: what every step of nwkDataReq.c and
\* of the transmit machine relies on.
THEOREM RequestsInvariant == Spec => []RequestsInv
<1> QED BY InitRequests, NextRequests, TypeCorrect, RadioAlwaysOwned, PTL DEF Spec

\* nwkDataReqTxConf reports a transmission to the request that made it, and that
\* request waits for it, however many confirmed requests still point to the buffer.
THEOREM ConfirmsReachOwner == Spec => []ConfirmReachesOwner
<1>1. RequestsInv => ConfirmReachesOwner
  BY DEF RequestsInv
<1> QED BY <1>1, RequestsInvariant, PTL

\* No request waits for a confirmation that cannot come: its buffer is in the
\* transmit machine, for it alone.
THEOREM WaitingAlwaysHasFrame == Spec => []WaitingHasFrame
<1>1. TypeOK /\ RequestsInv => WaitingHasFrame
  <2> SUFFICES ASSUME TypeOK, RequestsInv PROVE WaitingHasFrame
    OBVIOUS
  <2>1. \A k \in DOMAIN queue :
          req[queue[k]].state = "WAIT_CONF" =>
            /\ req[queue[k]].frame \in Slots
            /\ frame[req[queue[k]].frame].byReq
            /\ frame[req[queue[k]].frame].state \in TxStates
    BY DEF RequestsInv, WaitersOwn, FramesHonest, Honest
  <2>2. \A k, m \in DOMAIN queue :
          /\ req[queue[k]].state = "WAIT_CONF" /\ req[queue[m]].state = "WAIT_CONF"
          /\ req[queue[k]].frame = req[queue[m]].frame
          => k = m
    BY OneOwner DEF RequestsInv, WaitersOwn
  <2> QED BY <2>1, <2>2 DEF WaitingHasFrame
<1> QED BY <1>1, RequestsInvariant, TypeCorrect, PTL

-----------------------------------------------------------------------------
(***************************************************************************)
(* The node implements DataService. A step changes the service fields of   *)
(* at most one request; what it does to that request is a step of the data *)
(* service.                                                                *)
(***************************************************************************)
ServicesOf(rq) == [r \in Reqs |-> ServiceOf[rq[r].state]]
AnswersOf(rq) == [r \in Reqs |-> IF rq[r].state = "CONFIRM" THEN rq[r].status ELSE "none"]

LEMMA OneRequestChanges ==
  ASSUME req \in [Reqs -> Requests], NEW r \in Reqs, NEW v \in Requests, req' = [req EXCEPT ![r] = v]
  PROVE  /\ ServicesOf(req') = [ServicesOf(req) EXCEPT ![r] = ServiceOf[v.state]]
         /\ AnswersOf(req') = [AnswersOf(req) EXCEPT ![r] = IF v.state = "CONFIRM" THEN v.status ELSE "none"]
         /\ ServicesOf(req)[r] = ServiceOf[req[r].state]
         /\ req[r].state # "CONFIRM" => AnswersOf(req)[r] = "none"
<1>1. \A q \in Reqs : req'[q] = IF q = r THEN v ELSE req[q]
  OBVIOUS
<1>2. ServicesOf(req') = [ServicesOf(req) EXCEPT ![r] = ServiceOf[v.state]]
  BY <1>1 DEF ServicesOf
<1>3. AnswersOf(req') = [AnswersOf(req) EXCEPT ![r] = IF v.state = "CONFIRM" THEN v.status ELSE "none"]
  BY <1>1 DEF AnswersOf
<1>4. /\ ServicesOf(req)[r] = ServiceOf[req[r].state]
      /\ req[r].state # "CONFIRM" => AnswersOf(req)[r] = "none"
  BY DEF ServicesOf, AnswersOf
<1> QED BY <1>2, <1>3, <1>4

\* The answer of a request that has none does not change.
LEMMA SameAnswers ==
  ASSUME NEW r \in Reqs, AnswersOf(req)[r] = "none"
  PROVE  [AnswersOf(req) EXCEPT ![r] = "none"] = AnswersOf(req)
  BY DEF AnswersOf

LEMMA ServiceInit == Init => Service!Init
<1> SUFFICES ASSUME Init PROVE Service!Init
  OBVIOUS
<1>1. \A r \in Reqs : req[r].state = "IDLE"
  BY DEF Init, nwkDataReqInit
<1>2. ServiceOf["IDLE"] = "IDLE"
  BY DEF ServiceOf
<1> QED BY <1>1, <1>2 DEF Service!Init, Service!NoAnswer

\* The steps of the data service, in terms of the service fields of a request.
LEMMA ServiceMoves ==
  ASSUME req \in [Reqs -> Requests], NEW r \in Reqs, NEW v \in Requests, req' = [req EXCEPT ![r] = v],
         \/ req[r].state = "IDLE" /\ v.state = "INITIAL"
         \/ req[r].state = "INITIAL" /\ v.state = "WAIT_CONF"
         \/ req[r].state = "INITIAL" /\ v.state = "CONFIRM" /\ v.status = NoMemory
         \/ /\ req[r].state = "WAIT_CONF" /\ v.state = "CONFIRM"
            /\ v.status \in {Success, PhyError, NoAck}
         \/ req[r].state = "CONFIRM" /\ v.state = "IDLE"
  PROVE  Service!Next
<1>1. /\ ServicesOf(req') = [ServicesOf(req) EXCEPT ![r] = ServiceOf[v.state]]
      /\ AnswersOf(req') = [AnswersOf(req) EXCEPT ![r] = IF v.state = "CONFIRM" THEN v.status ELSE "none"]
      /\ ServicesOf(req)[r] = ServiceOf[req[r].state]
      /\ req[r].state # "CONFIRM" => AnswersOf(req)[r] = "none"
  BY OneRequestChanges
<1>2. /\ ServiceOf["IDLE"] = "IDLE" /\ ServiceOf["INITIAL"] = "QUEUED"
      /\ ServiceOf["WAIT_CONF"] = "CARRIED" /\ ServiceOf["CONFIRM"] = "ANSWERED"
  BY DEF ServiceOf
<1>3. CASE req[r].state = "IDLE" /\ v.state = "INITIAL"
  <2>1. AnswersOf(req') = AnswersOf(req)
    BY <1>1, <1>3, SameAnswers
  <2>2. Service!Moves(r, "IDLE", "QUEUED")
    BY <1>1, <1>2, <1>3 DEF Service!Moves, ServicesOf
  <2>3. Service!Request(r)
    BY <2>1, <2>2 DEF Service!Request, AnswersOf
  <2> QED BY <2>3 DEF Service!Next
<1>4. CASE req[r].state = "INITIAL" /\ v.state = "WAIT_CONF"
  <2>1. AnswersOf(req') = AnswersOf(req)
    BY <1>1, <1>4, SameAnswers
  <2>2. Service!Moves(r, "QUEUED", "CARRIED")
    BY <1>1, <1>2, <1>4 DEF Service!Moves, ServicesOf
  <2>3. Service!Carry(r)
    BY <2>1, <2>2 DEF Service!Carry, AnswersOf
  <2> QED BY <2>3 DEF Service!Next
<1>5. CASE req[r].state = "INITIAL" /\ v.state = "CONFIRM" /\ v.status = NoMemory
  <2>1. AnswersOf(req') = [AnswersOf(req) EXCEPT ![r] = NoMemory]
    BY <1>1, <1>5
  <2>2. Service!Moves(r, "QUEUED", "ANSWERED")
    BY <1>1, <1>2, <1>5 DEF Service!Moves, ServicesOf
  <2>3. Service!TurnDown(r)
    BY <2>1, <2>2 DEF Service!TurnDown, AnswersOf
  <2> QED BY <2>3 DEF Service!Next
<1>6. CASE /\ req[r].state = "WAIT_CONF" /\ v.state = "CONFIRM"
           /\ v.status \in {Success, PhyError, NoAck}
  <2>1. PICK s \in {Success, PhyError, NoAck} : s = v.status
    BY <1>6
  <2>2. AnswersOf(req') = [AnswersOf(req) EXCEPT ![r] = s]
    BY <1>1, <1>6, <2>1
  <2>3. Service!Moves(r, "CARRIED", "ANSWERED")
    BY <1>1, <1>2, <1>6 DEF Service!Moves, ServicesOf
  <2>4. Service!Answer(r)
    BY <2>2, <2>3 DEF Service!Answer, AnswersOf
  <2> QED BY <2>4 DEF Service!Next
<1>7. CASE req[r].state = "CONFIRM" /\ v.state = "IDLE"
  <2>1. AnswersOf(req') = [AnswersOf(req) EXCEPT ![r] = "none"]
    BY <1>1, <1>7
  <2>2. Service!Moves(r, "ANSWERED", "IDLE")
    BY <1>1, <1>2, <1>7 DEF Service!Moves, ServicesOf
  <2>3. Service!Confirm(r)
    BY <2>1, <2>2 DEF Service!Confirm, Service!NoAnswer, AnswersOf
  <2> QED BY <2>3 DEF Service!Next
<1> QED BY <1>3, <1>4, <1>5, <1>6, <1>7

\* A step of the node is a step of the data service, or changes no service field.
LEMMA ServiceStep ==
  ASSUME TypeOK, RadioOwned, RequestsInv, [Next]_vars
  PROVE  Service!Next \/ req' = req
<1>1. CASE UNCHANGED vars
  BY <1>1 DEF vars, reqVars
<1>2. CASE PlainStep
  BY <1>2, PlainKeeps DEF RequestsInv, reqVars
<1>3. queue \in Seq(Reqs) /\ req \in [Reqs -> Requests] /\ frame \in [Slots -> Frames]
  BY DEF TypeOK
<1>4. ASSUME NEW r \in Reqs, NWK_DataReq(r) PROVE Service!Next \/ req' = req
  <2> DEFINE v == [state |-> "INITIAL", frame |-> 0, status |-> Success]
  <2>1. req' = [req EXCEPT ![r] = v] /\ req[r].state = "IDLE"
    BY <1>4 DEF NWK_DataReq, RequestsInv, QueueMatches
  <2>2. v \in Requests /\ v.state = "INITIAL"
    BY NodeAssumption DEF Requests, ReqStates, Statuses
  <2> HIDE DEF v
  <2> QED BY <2>1, <2>2, <1>3, ServiceMoves
<1>5. ASSUME NEW i \in Slots, TxConfirm(i) PROVE Service!Next \/ req' = req
  <2>1. CASE frame[i].byReq = FALSE
    BY <1>5, <2>1 DEF TxConfirm
  <2>2. CASE frame[i].byReq = TRUE
    <3>1. PICK k \in DOMAIN queue :
            /\ req[queue[k]].state = "WAIT_CONF"
            /\ req' = [req EXCEPT ![queue[k]] = [@ EXCEPT !.state = "CONFIRM", !.status = frame[i].status]]
      BY <1>5, <2>2, ConfirmEffect
    <3> DEFINE v == [req[queue[k]] EXCEPT !.state = "CONFIRM", !.status = frame[i].status]
    <3>2. PICK r \in Reqs : r = queue[k]
      BY <1>3
    <3>3. frame[i].status \in {Success, PhyError, NoAck}
      BY <1>3 DEF RequestsInv, FramesHonest, Honest, Frames, Statuses
    <3>4. v \in Requests /\ v.state = "CONFIRM" /\ v.status = frame[i].status
      BY <1>3, <3>2, <3>3 DEF Requests, ReqStates, Statuses
    <3>5. req' = [req EXCEPT ![r] = v]
      BY <3>1, <3>2
    <3> HIDE DEF v
    <3> QED BY <3>1, <3>2, <3>3, <3>4, <3>5, <1>3, ServiceMoves
  <2> QED BY <2>1, <2>2, <1>3 DEF Frames
<1>6. ASSUME NEW k \in DOMAIN queue, nwkDataReqSendFrame(k) PROVE Service!Next \/ req' = req
  <2>1. PICK r \in Reqs : r = queue[k] /\ req[r].state = "INITIAL"
    <3>1. queue[k] \in Reqs
      BY <1>3
    <3>2. req[queue[k]].state = "INITIAL"
      BY <1>6 DEF nwkDataReqSendFrame
    <3> QED BY <3>1, <3>2
  <2>2. ASSUME NEW i \in Slots, req' = [req EXCEPT ![r] = [@ EXCEPT !.frame = i, !.state = "WAIT_CONF"]]
        PROVE  Service!Next
    <3> DEFINE v == [req[r] EXCEPT !.frame = i, !.state = "WAIT_CONF"]
    <3>1. req[r] \in Requests /\ i \in 0..NBuffers
      BY <1>3, NodeAssumption DEF Slots
    <3>2. v \in Requests /\ v.state = "WAIT_CONF"
      BY <3>1 DEF Requests, ReqStates
    <3>3. req' = [req EXCEPT ![r] = v]
      BY <2>2
    <3> HIDE DEF v
    <3> QED BY <3>2, <3>3, <2>1, <1>3, ServiceMoves
  <2>3. ASSUME req' = [req EXCEPT ![r] = [@ EXCEPT !.state = "CONFIRM", !.status = NoMemory]]
        PROVE  Service!Next
    <3> DEFINE v == [req[r] EXCEPT !.state = "CONFIRM", !.status = NoMemory]
    <3>1. v \in Requests /\ v.state = "CONFIRM" /\ v.status = NoMemory
      BY <1>3 DEF Requests, ReqStates, Statuses
    <3>2. req' = [req EXCEPT ![r] = v]
      BY <2>3
    <3> HIDE DEF v
    <3> QED BY <3>1, <3>2, <2>1, <1>3, ServiceMoves
  <2> QED BY <1>6, <2>1, <2>2, <2>3 DEF nwkDataReqSendFrame
<1>7. ASSUME NEW k \in DOMAIN queue, nwkDataReqConfirm(k) PROVE Service!Next \/ req' = req
  <2>1. PICK r \in Reqs : r = queue[k] /\ req[r].state = "CONFIRM"
    BY <1>3, <1>7 DEF nwkDataReqConfirm
  <2> DEFINE v == [req[r] EXCEPT !.state = "IDLE"]
  <2>2. v \in Requests /\ v.state = "IDLE"
    BY <1>3 DEF Requests, ReqStates
  <2>3. req' = [req EXCEPT ![r] = v]
    BY <1>7, <2>1 DEF nwkDataReqConfirm
  <2> HIDE DEF v
  <2> QED BY <2>1, <2>2, <2>3, <1>3, ServiceMoves
<1> QED BY <1>1, <1>2, <1>4, <1>5, <1>6, <1>7, StepKinds

\* NWK_DataReq keeps its promise to the application: every request is turned down
\* or carried, and gets one answer, its own, which stays until it is confirmed.
THEOREM DataServiceImplemented == Spec => ImplementsDataService
<1>1. Init => Service!Init
  BY ServiceInit
<1>2. TypeOK /\ RadioOwned /\ RequestsInv /\ [Next]_vars
      => [Service!Next]_<<ServicesOf(req), AnswersOf(req)>>
  <2> SUFFICES ASSUME TypeOK, RadioOwned, RequestsInv, [Next]_vars
               PROVE  [Service!Next]_<<ServicesOf(req), AnswersOf(req)>>
    OBVIOUS
  <2>1. CASE Service!Next
    BY <2>1
  <2>2. CASE req' = req
    BY <2>2 DEF ServicesOf, AnswersOf
  <2> QED BY <2>1, <2>2, ServiceStep
<1>3. [Service!Next]_<<ServicesOf(req), AnswersOf(req)>>
      <=> [Service!Next]_<<[r \in Reqs |-> ServiceOf[req[r].state]],
                           [r \in Reqs |-> IF req[r].state = "CONFIRM" THEN req[r].status ELSE "none"]>>
  BY DEF ServicesOf, AnswersOf
<1> QED
  BY <1>1, <1>2, <1>3, TypeCorrect, RadioAlwaysOwned, RequestsInvariant, PTL
  DEF Spec, ImplementsDataService, Service!Spec
=============================================================================
