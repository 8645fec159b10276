------------------------------ MODULE NwkNode ------------------------------
(***************************************************************************)
(* One node of the mesh: the life of a network frame buffer from its       *)
(* allocation to its release, as the cooperative main loop drives it.      *)
(*                                                                         *)
(*   sys/src/sys.c       SYS_TaskHandler, the order of the handlers        *)
(*   nwk/src/nwkFrame.c  the buffer pool                                   *)
(*   nwk/src/nwkRx.c     the receive state machine                         *)
(*   nwk/src/nwkTx.c     the transmit state machine and its two timers     *)
(*   nwk/src/nwkDataReq.c  the queue of application requests               *)
(*   phy/.../phy.c       the transmit/receive part the network layer sees  *)
(*                                                                         *)
(* The build modelled has NWK_ENABLE_ROUTING and none of the other options.*)
(* Header fields appear only through the path they select: what the route  *)
(* table and the duplicate table answer is a choice here (their own        *)
(* modules say which), and an acknowledgement is for any frame that waits  *)
(* for one, or for none.                                                   *)
(*                                                                         *)
(* The two loops over the buffers ("while (frame = nwkFrameNext(frame))")  *)
(* are modelled one iteration per step, with a cursor, because an          *)
(* iteration may allocate a buffer that the same loop then meets.          *)
(***************************************************************************)
EXTENDS Integers, Sequences, FiniteSets

CONSTANTS
  NBuffers,   \* NWK_BUFFERS_AMOUNT
  Reqs,       \* the application's NWK_DataReq_t structures
  MaxJitter,  \* largest broadcast delay, NWK_TX_DELAY_JITTER_MASK + 1
  AckTicks,   \* NWK_ACK_WAIT_TIME / NWK_TX_ACK_WAIT_TIMER_INTERVAL + 1
  Arriving,   \* the kinds of frames the neighbours send
  MaxPosts,   \* bound: requests the application makes
  MaxRx       \* bound: frames the radio receives

VARIABLES
  pc,         \* the handler SYS_TaskHandler is in
  cur,        \* index of the last buffer the loop of pc has visited, 0 at its start
  frame,      \* nwkFrameFrames
  active,     \* nwkTxPhyActiveFrame, 0 when NULL
  queue,      \* nwkDataReqQueue, head first
  req,        \* the service fields of the requests
  lock,       \* nwkIb.lock
  phyTx,      \* phyState = PHY_STATE_TX_WAIT_END (otherwise PHY_STATE_IDLE)
  delayTimer, \* nwkTxDelayTimer is in the list of running timers
  ackTimer,   \* nwkTxAckWaitTimer is in the list of running timers
  posts,      \* requests made so far
  rxs         \* frames received so far

loopVars == <<pc, cur>>
reqVars  == <<queue, req>>
phyVars  == <<active, phyTx>>
timers   == <<delayTimer, ackTimer>>
bounds   == <<posts, rxs>>
vars     == <<loopVars, frame, reqVars, lock, phyVars, timers, bounds>>

Slots == 1..NBuffers

(***************************************************************************)
(* Received frames are told apart by the path their header selects in      *)
(* nwkRxHandleReceivedFrame and nwkRxHandleIndication.                     *)
(***************************************************************************)
Drop     == "drop"      \* filtered out, from ourselves, or a duplicate
Local    == "local"     \* broadcast PAN or link-local broadcast
Unicast  == "unicast"   \* sent to this node, routed to this node
Flooded  == "flooded"   \* sent to this node in a MAC broadcast
Bcast    == "bcast"     \* network broadcast
Relay    == "relay"     \* MAC broadcast of a frame for another node
Route    == "route"     \* routed through this node
AckUni   == "ackUni"    \* acknowledgement command, routed
AckFlood == "ackFlood"  \* acknowledgement command in a MAC broadcast
Classes  == {Drop, Local, Unicast, Flooded, Bcast, Relay, Route, AckUni, AckFlood}
None     == "none"      \* not a received frame

ASSUME NodeAssumption ==
  /\ NBuffers \in Nat \ {0}
  /\ MaxJitter \in Nat \ {0}
  /\ AckTicks \in Nat \ {0}
  /\ MaxPosts \in Nat
  /\ MaxRx \in Nat
  /\ IsFiniteSet(Reqs)
  /\ Arriving \subseteq Classes

Success  == "SUCCESS"
PhyError == "PHY_ERROR" \* channel access failure, no MAC ack, or error
NoAck    == "NO_ACK"
NoMemory == "OUT_OF_MEMORY"
Statuses == {Success, PhyError, NoAck, NoMemory}
PhyStatuses == {Success, PhyError}

RxStates == {"RECEIVED", "INDICATE", "ROUTE", "FINISH"}
TxStates == {"DELAY", "WAIT_DELAY", "SEND", "WAIT_CONF", "SENT", "WAIT_ACK", "CONFIRM"}
FrameStates == {"FREE"} \cup RxStates \cup TxStates

\* The fields of NwkFrame_t the control depends on. wantAck stands for
\* "nwkSrcAddr is ours and nwkFcf.ackRequest"; byReq for tx.confirm # NULL.
Frames == [state : FrameStates, class : Classes \cup {None}, timeout : Nat,
           status : Statuses, byReq : BOOLEAN, wantAck : BOOLEAN]

FreeFrame == [state |-> "FREE", class |-> None, timeout |-> 0,
              status |-> Success, byReq |-> FALSE, wantAck |-> FALSE]

RxFrame(c) == [FreeFrame EXCEPT !.state = "RECEIVED", !.class = c]

\* nwkTxFrame: what the frame becomes when it is queued for transmission. A frame
\* whose MAC destination is the broadcast address is delayed by the jitter.
TxFrame(byReq, wantAck, jitter) ==
  [FreeFrame EXCEPT !.state = "DELAY", !.timeout = jitter,
                    !.byReq = byReq, !.wantAck = wantAck]
Jitters == 1..MaxJitter
TxDelays == {0} \cup Jitters

ReqStates == {"IDLE", "INITIAL", "WAIT_CONF", "CONFIRM"}
Requests == [state : ReqStates, frame : 0..NBuffers, status : Statuses]

-----------------------------------------------------------------------------
Allocated == {i \in Slots : frame[i].state # "FREE"}

\* nwkFrameNext(cur): the next allocated buffer of the loop, and its end.
IsNext(i) == /\ cur < i
             /\ i \in Allocated
             /\ \A j \in Slots : cur < j /\ j < i => j \notin Allocated
NoNext == \A j \in Slots : cur < j => j \notin Allocated

\* nwkFrameAlloc: the first free buffer of the pool f, if there is one.
FirstFree(f, i) == /\ f[i].state = "FREE"
                   /\ \A j \in Slots : j < i => f[j].state # "FREE"
Exhausted(f) == \A i \in Slots : f[i].state # "FREE"

\* Allocation of a buffer of pool f that becomes fr, or its failure, which
\* leaves the pool as f.
AllocInto(f, fr) ==
  \/ \E k \in Slots : /\ FirstFree(f, k)
                      /\ frame' = [f EXCEPT ![k] = fr]
                      /\ lock' = lock + 1
  \/ /\ Exhausted(f)
     /\ frame' = f
     /\ lock' = lock

nwkTxInit == active = 0 /\ delayTimer = FALSE /\ ackTimer = FALSE
nwkFrameInit == frame = [i \in Slots |-> FreeFrame]
nwkDataReqInit ==
  /\ queue = <<>>
  /\ req = [r \in Reqs |-> [state |-> "IDLE", frame |-> 0, status |-> Success]]

Init ==
  /\ pc = "phy" /\ cur = 0
  /\ nwkTxInit /\ nwkFrameInit /\ nwkDataReqInit
  /\ lock = 0
  /\ phyTx = FALSE
  /\ posts = 0 /\ rxs = 0

-----------------------------------------------------------------------------
(***************************************************************************)
(* The application calls NWK_DataReq from its own task, an endpoint, a     *)
(* confirmation or a timer callback, never while the request is queued.    *)
(***************************************************************************)
Queued == {queue[k] : k \in DOMAIN queue}

NWK_DataReq(r) ==
  /\ pc \in {"phy", "rx", "timer"}
  /\ posts < MaxPosts
  /\ r \notin Queued
  /\ req' = [req EXCEPT ![r] = [state |-> "INITIAL", frame |-> 0, status |-> Success]]
  /\ queue' = <<r>> \o queue
  /\ lock' = lock + 1
  /\ posts' = posts + 1
  /\ UNCHANGED <<loopVars, frame, phyVars, timers, rxs>>

-----------------------------------------------------------------------------
(***************************************************************************)
(* PHY_TaskHandler: polls TRX_END once per turn of the main loop. What the *)
(* radio has done by then is the environment's choice: nothing, a frame    *)
(* received, or the end of the transmission. (A frame that arrives between *)
(* the poll and PHY_DataReq, which clears the bit, is one not received.)   *)
(***************************************************************************)
PollEnds == pc = "phy" /\ pc' = "rx" /\ cur' = 0

PhyNothing ==
  /\ PollEnds
  /\ UNCHANGED <<frame, reqVars, lock, phyVars, timers, bounds>>

PHY_DataInd(c) ==
  /\ PollEnds
  /\ ~phyTx
  /\ rxs < MaxRx
  /\ rxs' = rxs + 1
  /\ AllocInto(frame, RxFrame(c))
  /\ UNCHANGED <<reqVars, phyVars, timers, posts>>

\* Faulty variant, for mutation: the lock of the transmission is not given back.
PHY_DataConf_KeepsLock(s) ==
  /\ PollEnds
  /\ phyTx
  /\ phyTx' = FALSE
  /\ frame' = [frame EXCEPT ![active] = [@ EXCEPT !.status = s, !.state = "SENT"]]
  /\ active' = 0
  /\ UNCHANGED <<lock, reqVars, timers, bounds>>

PHY_DataConf(s) ==
  /\ PollEnds
  /\ phyTx
  /\ phyTx' = FALSE
  /\ frame' = [frame EXCEPT ![active] = [@ EXCEPT !.status = s, !.state = "SENT"]]
  /\ active' = 0
  /\ lock' = lock - 1
  /\ UNCHANGED <<reqVars, timers, bounds>>

-----------------------------------------------------------------------------
(***************************************************************************)
(* nwkRxTaskHandler, one iteration of its loop per step.                   *)
(***************************************************************************)
RxAt(i, s) == pc = "rx" /\ IsNext(i) /\ frame[i].state = s /\ cur' = i /\ pc' = pc

\* nwkRxHandleReceivedFrame: a network broadcast, and a frame for another node
\* that came in a MAC broadcast, are copied for rebroadcast first.
nwkRxHandleReceivedFrame(i) ==
  LET c == frame[i].class
      next == IF c \in {Drop, Relay} THEN "FINISH"
              ELSE IF c = Route THEN "ROUTE" ELSE "INDICATE"
      handled == [frame EXCEPT ![i].state = next]
  IN /\ RxAt(i, "RECEIVED")
     /\ IF c \in {Bcast, Relay}
          THEN \E j \in Jitters : AllocInto(handled, TxFrame(FALSE, FALSE, j))
          ELSE frame' = handled /\ lock' = lock
     /\ UNCHANGED <<reqVars, phyVars, timers, bounds>>

\* The frame that waits for this acknowledgement, if any, has it.
AckReceived(i) ==
  {[frame EXCEPT ![k].state = "CONFIRM"] :
     k \in {k \in Slots : frame[i].class \in {AckUni, AckFlood} /\ frame[k].state = "WAIT_ACK"}}

\* The buffers after a command, or after data for an endpoint of the application.
nwkRxServiceDataInd(i) == {frame} \cup AckReceived(i)

\* The acknowledgement is a new frame; without a buffer for it there is none.
nwkRxSendAck(f, d) == AllocInto(f, TxFrame(FALSE, FALSE, d))

\* nwkRxHandleIndication: the endpoint decides on the acknowledgement of a routed
\* frame; one that was flooded is always acknowledged.
nwkRxHandleIndication(i) ==
  /\ RxAt(i, "INDICATE")
  /\ \E f \in nwkRxServiceDataInd(i), d \in TxDelays :
       LET done == [f EXCEPT ![i].state = "FINISH"]
       IN \/ /\ frame[i].class \in {Unicast, Flooded, AckFlood}
             /\ nwkRxSendAck(done, d)
          \/ /\ frame[i].class \notin {Flooded, AckFlood}
             /\ frame' = done /\ lock' = lock
  /\ UNCHANGED <<reqVars, phyVars, timers, bounds>>

\* nwkRouteFrame with a known next hop: the buffer itself is sent on.
RouteOnwards(i) ==
  /\ RxAt(i, "ROUTE")
  /\ frame' = [frame EXCEPT ![i] = TxFrame(FALSE, FALSE, 0)]
  /\ UNCHANGED <<lock, reqVars, phyVars, timers, bounds>>

\* nwkRouteFrame without one: a route error is allocated while the frame is
\* still held, then the frame is freed.
RouteError(i) ==
  /\ RxAt(i, "ROUTE")
  /\ \/ \E k \in Slots, d \in TxDelays :
          /\ FirstFree(frame, k)
          /\ frame' = [frame EXCEPT ![k] = TxFrame(FALSE, FALSE, d), ![i] = FreeFrame]
          /\ lock' = lock
     \/ /\ Exhausted(frame)
        /\ frame' = [frame EXCEPT ![i] = FreeFrame]
        /\ lock' = lock - 1
  /\ UNCHANGED <<reqVars, phyVars, timers, bounds>>

RxFinish(i) ==
  /\ RxAt(i, "FINISH")
  /\ frame' = [frame EXCEPT ![i] = FreeFrame]
  /\ lock' = lock - 1
  /\ UNCHANGED <<reqVars, phyVars, timers, bounds>>

RxSkip(i) ==
  /\ pc = "rx" /\ IsNext(i) /\ frame[i].state \in TxStates
  /\ cur' = i /\ pc' = pc
  /\ UNCHANGED <<frame, lock, reqVars, phyVars, timers, bounds>>

RxDone ==
  /\ pc = "rx" /\ NoNext
  /\ pc' = "tx" /\ cur' = 0
  /\ UNCHANGED <<frame, lock, reqVars, phyVars, timers, bounds>>

-----------------------------------------------------------------------------
(***************************************************************************)
(* nwkTxTaskHandler, one iteration of its loop per step.                   *)
(***************************************************************************)
TxAt(i, s) == pc = "tx" /\ IsNext(i) /\ frame[i].state = s /\ cur' = i /\ pc' = pc

\* Faulty variant, for mutation: the delay timer is expected to run already.
TxDelay_NoStart(i) ==
  /\ TxAt(i, "DELAY")
  /\ frame' = [frame EXCEPT ![i].state = IF frame[i].timeout > 0 THEN "WAIT_DELAY" ELSE "SEND"]
  /\ UNCHANGED <<lock, reqVars, phyVars, timers, bounds>>

TxDelay(i) ==
  /\ TxAt(i, "DELAY")
  /\ IF frame[i].timeout > 0
       THEN /\ frame' = [frame EXCEPT ![i].state = "WAIT_DELAY"]
            /\ delayTimer' = TRUE
       ELSE /\ frame' = [frame EXCEPT ![i].state = "SEND"]
            /\ delayTimer' = delayTimer
  /\ UNCHANGED <<lock, reqVars, phyVars, ackTimer, bounds>>

\* Faulty variant, for mutation: the radio is not checked to be free.
TxSend_AnyTime(i) ==
  /\ TxAt(i, "SEND")
  /\ active' = i
  /\ frame' = [frame EXCEPT ![i].state = "WAIT_CONF"]
  /\ phyTx' = TRUE
  /\ lock' = lock + 1
  /\ UNCHANGED <<reqVars, timers, bounds>>

TxSend(i) ==
  /\ TxAt(i, "SEND") /\ active = 0
  /\ active' = i
  /\ frame' = [frame EXCEPT ![i].state = "WAIT_CONF"]
  /\ phyTx' = TRUE
  /\ lock' = lock + 1
  /\ UNCHANGED <<reqVars, timers, bounds>>

\* Faulty variant, for mutation: the time to wait for the acknowledgement is not set.
TxSent_NoTimeout(i) ==
  /\ TxAt(i, "SENT")
  /\ LET waits == frame[i].status = Success /\ frame[i].wantAck
     IN /\ frame' = [frame EXCEPT ![i].state = IF waits THEN "WAIT_ACK" ELSE "CONFIRM"]
        /\ ackTimer' = (ackTimer \/ waits)
  /\ UNCHANGED <<lock, reqVars, phyVars, delayTimer, bounds>>

TxSent(i) ==
  /\ TxAt(i, "SENT")
  /\ IF frame[i].status = Success /\ frame[i].wantAck
       THEN /\ frame' = [frame EXCEPT ![i] = [@ EXCEPT !.state = "WAIT_ACK", !.timeout = AckTicks]]
            /\ ackTimer' = TRUE
       ELSE /\ frame' = [frame EXCEPT ![i].state = "CONFIRM"]
            /\ ackTimer' = ackTimer
  /\ UNCHANGED <<lock, reqVars, phyVars, delayTimer, bounds>>

\* Faulty variant, for mutation: the last request that points to the frame.
IsOwner_Last(k, i) == /\ k \in DOMAIN queue
                      /\ req[queue[k]].frame = i
                      /\ \A m \in (k + 1)..Len(queue) : req[queue[m]].frame # i

\* The request nwkDataReqTxConf finds for frame i: the first of the queue that
\* points to it. A confirmed request keeps its pointer until it is posted again.
IsOwner(k, i) == /\ k \in DOMAIN queue
                 /\ req[queue[k]].frame = i
                 /\ \A m \in 1..(k - 1) : req[queue[m]].frame # i

TxConfirm(i) ==
  /\ TxAt(i, "CONFIRM")
  /\ frame' = [frame EXCEPT ![i] = FreeFrame]
  /\ lock' = lock - 1
  /\ req' = IF frame[i].byReq
              THEN [r \in Reqs |->
                      IF \E k \in DOMAIN queue : queue[k] = r /\ IsOwner(k, i)
                        THEN [req[r] EXCEPT !.state = "CONFIRM", !.status = frame[i].status]
                        ELSE req[r]]
              ELSE req
  /\ UNCHANGED <<queue, phyVars, timers, bounds>>

TxSkip(i) ==
  /\ pc = "tx" /\ IsNext(i)
  /\ \/ frame[i].state \in RxStates \cup {"WAIT_DELAY", "WAIT_CONF", "WAIT_ACK"}
     \/ frame[i].state = "SEND" /\ active # 0
  /\ cur' = i /\ pc' = pc
  /\ UNCHANGED <<frame, lock, reqVars, phyVars, timers, bounds>>

TxDone ==
  /\ pc = "tx" /\ NoNext
  /\ pc' = "req" /\ cur' = 0
  /\ UNCHANGED <<frame, lock, reqVars, phyVars, timers, bounds>>

-----------------------------------------------------------------------------
(***************************************************************************)
(* nwkDataReqTaskHandler: serves the first request of the queue that is    *)
(* new or confirmed, and only that one.                                    *)
(***************************************************************************)
Serves(k) == /\ pc = "req"
             /\ k \in DOMAIN queue
             /\ \A m \in 1..(k - 1) : req[queue[m]].state = "WAIT_CONF"

\* Faulty variant, for mutation: the request waits although no buffer was free.
nwkDataReqSendFrame_Waits(k) ==
  LET r == queue[k]
  IN /\ Serves(k) /\ req[r].state = "INITIAL"
     /\ req' = [req EXCEPT ![r].state = "WAIT_CONF"]
     /\ Exhausted(frame)
     /\ pc' = "timer" /\ cur' = 0
     /\ UNCHANGED <<frame, lock, queue, phyVars, timers, bounds>>

\* Faulty variant, for mutation: the status of a request turned down is not set.
nwkDataReqSendFrame_NoStatus(k) ==
  LET r == queue[k]
  IN /\ Serves(k) /\ req[r].state = "INITIAL"
     /\ Exhausted(frame)
     /\ req' = [req EXCEPT ![r].state = "CONFIRM"]
     /\ pc' = "timer" /\ cur' = 0
     /\ UNCHANGED <<frame, lock, queue, phyVars, timers, bounds>>

nwkDataReqSendFrame(k) ==
  LET r == queue[k]
  IN /\ Serves(k) /\ req[r].state = "INITIAL"
     /\ \/ \E i \in Slots, a \in BOOLEAN, d \in TxDelays :
             /\ FirstFree(frame, i)
             /\ frame' = [frame EXCEPT ![i] = TxFrame(TRUE, a, d)]
             /\ req' = [req EXCEPT ![r] = [@ EXCEPT !.frame = i, !.state = "WAIT_CONF"]]
             /\ lock' = lock + 1
        \/ /\ Exhausted(frame)
           /\ req' = [req EXCEPT ![r] = [@ EXCEPT !.state = "CONFIRM", !.status = NoMemory]]
           /\ UNCHANGED <<frame, lock>>
     /\ pc' = "timer" /\ cur' = 0
     /\ UNCHANGED <<queue, phyVars, timers, bounds>>

nwkDataReqConfirm(k) ==
  LET r == queue[k]
  IN /\ Serves(k) /\ req[r].state = "CONFIRM"
     /\ queue' = SubSeq(queue, 1, k - 1) \o SubSeq(queue, k + 1, Len(queue))
     /\ req' = [req EXCEPT ![r].state = "IDLE"]
     /\ lock' = lock - 1
     /\ pc' = "timer" /\ cur' = 0
     /\ UNCHANGED <<frame, phyVars, timers, bounds>>

DataReqNothing ==
  /\ pc = "req" /\ \A k \in DOMAIN queue : req[queue[k]].state = "WAIT_CONF"
  /\ pc' = "timer" /\ cur' = 0
  /\ UNCHANGED <<frame, lock, reqVars, phyVars, timers, bounds>>

-----------------------------------------------------------------------------
(***************************************************************************)
(* SYS_TimerTaskHandler: calls the handler of every timer that is due. How *)
(* many ticks have passed is the environment's choice. A timer the handler *)
(* does not restart has left the list.                                     *)
(***************************************************************************)
\* What becomes of a frame whose count reaches zero.
Expired(f) == IF f.state = "WAIT_DELAY"
                THEN [f EXCEPT !.timeout = 0, !.state = "SEND"]
                ELSE [f EXCEPT !.timeout = 0, !.state = "CONFIRM", !.status = NoAck]

Countdown(s) ==
  [i \in Slots |-> IF frame[i].state # s THEN frame[i]
                   ELSE IF frame[i].timeout = 1 THEN Expired(frame[i])
                   ELSE [frame[i] EXCEPT !.timeout = @ - 1]]

InState(s) == {i \in Slots : frame[i].state = s}

nwkTxDelayTimerHandler ==
  /\ pc = "timer" /\ delayTimer
  /\ frame' = Countdown("WAIT_DELAY")
  /\ delayTimer' = (InState("WAIT_DELAY") # {})
  /\ UNCHANGED <<loopVars, lock, reqVars, phyVars, ackTimer, bounds>>

\* Faulty variant, for mutation: the one-shot timer is not started again.
nwkTxAckWaitTimerHandler_Once ==
  /\ pc = "timer" /\ ackTimer
  /\ frame' = Countdown("WAIT_ACK")
  /\ ackTimer' = FALSE
  /\ UNCHANGED <<loopVars, lock, reqVars, phyVars, delayTimer, bounds>>

nwkTxAckWaitTimerHandler ==
  /\ pc = "timer" /\ ackTimer
  /\ frame' = Countdown("WAIT_ACK")
  /\ ackTimer' = (InState("WAIT_ACK") # {})
  /\ UNCHANGED <<loopVars, lock, reqVars, phyVars, delayTimer, bounds>>

TimersDone ==
  /\ pc = "timer"
  /\ pc' = "phy" /\ cur' = 0
  /\ UNCHANGED <<frame, lock, reqVars, phyVars, timers, bounds>>

-----------------------------------------------------------------------------
RxIteration(i) == \/ nwkRxHandleReceivedFrame(i)
                  \/ nwkRxHandleIndication(i)
                  \/ RouteOnwards(i)
                  \/ RouteError(i)
                  \/ RxFinish(i)
                  \/ RxSkip(i)

TxIteration(i) == \/ TxDelay(i)
                  \/ TxSend(i)
                  \/ TxSent(i)
                  \/ TxConfirm(i)
                  \/ TxSkip(i)

\* One step of SYS_TaskHandler, which never blocks.
SYS_TaskHandler ==
  \/ PhyNothing
  \/ \E c \in Arriving : PHY_DataInd(c)
  \/ \E s \in PhyStatuses : PHY_DataConf(s)
  \/ \E i \in Slots : RxIteration(i)
  \/ RxDone
  \/ \E i \in Slots : TxIteration(i)
  \/ TxDone
  \/ \E k \in DOMAIN queue : nwkDataReqSendFrame(k) \/ nwkDataReqConfirm(k)
  \/ DataReqNothing
  \/ nwkTxDelayTimerHandler
  \/ nwkTxAckWaitTimerHandler
  \/ TimersDone

Next == SYS_TaskHandler \/ \E r \in Reqs : NWK_DataReq(r)

Spec == Init /\ [][Next]_vars

\* The main loop is called for ever. A transmission ends, and a timer that keeps
\* running comes due, at some turn of the loop. Nothing is assumed of the
\* application or of the frames received.
Fairness ==
  /\ WF_vars(SYS_TaskHandler)
  /\ SF_vars(\E s \in PhyStatuses : PHY_DataConf(s))
  /\ SF_vars(nwkTxDelayTimerHandler)
  /\ SF_vars(nwkTxAckWaitTimerHandler)

FairSpec == Spec /\ Fairness

-----------------------------------------------------------------------------
(***************************************************************************)
(* Properties.                                                             *)
(***************************************************************************)

\* Every variable has the type of the C variable it stands for.
TypeOK ==
  /\ pc \in {"phy", "rx", "tx", "req", "timer"}
  /\ cur \in 0..NBuffers
  /\ frame \in [Slots -> Frames]
  /\ active \in 0..NBuffers
  /\ queue \in Seq(Reqs)
  /\ req \in [Reqs -> Requests]
  /\ lock \in Int
  /\ phyTx \in BOOLEAN
  /\ delayTimer \in BOOLEAN
  /\ ackTimer \in BOOLEAN
  /\ posts \in Nat /\ rxs \in Nat

\* NWK_Busy() is exact: the lock counter is the number of buffers in use, of
\* requests queued and of transmissions in the radio, so it is zero exactly when
\* nothing is outstanding, and no path through the handlers leaks a lock.
LockExact ==
  lock = Cardinality(Allocated) + Len(queue) + (IF active = 0 THEN 0 ELSE 1)

\* The radio works for one frame at a time, and for the frame that is waiting for
\* it: PHY_DataConf never finds nwkTxPhyActiveFrame NULL or in another state.
RadioOwned ==
  /\ phyTx <=> active # 0
  /\ \A i \in Slots : frame[i].state = "WAIT_CONF" <=> active = i

\* A frame that counts down has something left to count, and its timer runs: the
\* shared one-shot timers of nwkTx.c are never lost while a frame needs them.
TimersCover ==
  \A i \in Slots :
    /\ frame[i].state = "WAIT_DELAY" => delayTimer /\ frame[i].timeout > 0
    /\ frame[i].state = "WAIT_ACK" => ackTimer /\ frame[i].timeout > 0

\* A transmission always reports to the request that made it: nwkDataReqTxConf
\* takes the first request of the queue that points to the buffer, and that one is
\* waiting, although confirmed requests further on may still point to it.
ConfirmReachesOwner ==
  \A i \in Slots :
    frame[i].byReq =>
      \E k \in DOMAIN queue : IsOwner(k, i) /\ req[queue[k]].state = "WAIT_CONF"

\* Conversely no request waits for a confirmation that cannot come: its buffer is
\* in the transmit machine, for it, and for no other waiting request.
WaitingHasFrame ==
  /\ \A k \in DOMAIN queue :
       req[queue[k]].state = "WAIT_CONF" =>
         /\ req[queue[k]].frame \in Slots
         /\ frame[req[queue[k]].frame].byReq
         /\ frame[req[queue[k]].frame].state \in TxStates
  /\ \A k, m \in DOMAIN queue :
       /\ req[queue[k]].state = "WAIT_CONF" /\ req[queue[m]].state = "WAIT_CONF"
       /\ req[queue[k]].frame = req[queue[m]].frame
       => k = m

\* The state and the status of a request as the application may count on them.
ServiceOf ==
  [IDLE |-> "IDLE", INITIAL |-> "QUEUED", WAIT_CONF |-> "CARRIED", CONFIRM |-> "ANSWERED"]

Service == INSTANCE DataService
             WITH CarriedStatuses <- {Success, PhyError, NoAck},
                  service <- [r \in Reqs |-> ServiceOf[req[r].state]],
                  answer <- [r \in Reqs |-> IF req[r].state = "CONFIRM" THEN req[r].status
                                            ELSE "none"]

\* The node implements the data service: a request gets one answer, from its own
\* transmission or for want of a buffer, and the answer stays until it is confirmed,
\* although a buffer is reused while old requests still point to it.
ImplementsDataService == Service!Spec

\* Every request the application makes is confirmed, with some status.
EveryRequestConfirmed ==
  \A r \in Reqs : req[r].state # "IDLE" ~> req[r].state = "IDLE"

\* When the application and the neighbours are quiet, the node becomes ready for
\* sleep and stays so: no buffer, request or transmission is outstanding for ever.
EventuallyIdle == <>[](lock = 0)
=============================================================================
