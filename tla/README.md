# A TLA+ model of the lightweight mesh network stack

This directory specifies the network stack of this repository (`src/`): a
cooperative, single-threaded C program for 8-bit and Cortex-M0+ microcontrollers
that builds a mesh network of 802.15.4 nodes. The specifications are translated
from the C source; TLC checks them on small instances and TLAPS proves
nearly all of their safety properties for every instance.

1. [Inventory](#1-inventory)
2. [What is hard about it](#2-what-is-hard-about-it)
3. [Modules](#3-modules)
4. [Runs: bounds, fairness, what they show](#4-runs)
5. [Proofs](#5-proofs)
6. [What is not modelled](#6-what-is-not-modelled)
7. [Plan](#7-plan)

Running it:

    tlc -workers 2 -config NwkNodeSafety.cfg            MCNwkNode
    tlc -workers 2 -config NwkNodeLiveness.cfg          MCNwkNode
    tlc -workers 2 -config NwkRoute.cfg                 MCNwkRoute
    tlc -workers 2 -config NwkDuplicates.cfg            NwkDuplicates
    tlc -workers 2 -config SysTimer.cfg                 MCSysTimer
    tlc -workers 2 -config NwkRouteDiscovery.cfg        MCNwkRouteDiscovery
    tlc -workers 2 -config NwkRouteDiscoveryPair.cfg    MCNwkRouteDiscovery
    tlc -workers 2 -config NwkRouteDiscoveryTimeout.cfg MCNwkRouteDiscovery
    tlc -workers 2 -config NwkSecurity.cfg              MCNwkSecurity
    tlc -workers 2 -config NwkMulticast.cfg             MCNwkMulticast
    tlc -workers 2 -config RadioSleep.cfg               RadioSleep
    tlc -workers 2 -config HalUart.cfg                  HalUart
    tlapm NwkNodeProofs.tla             tlapm NwkSecurityProofs.tla
    tlapm NwkRouteProofs.tla            tlapm NwkMulticastProofs.tla
    tlapm NwkDuplicatesProofs.tla       tlapm RadioSleepProofs.tla
    tlapm NwkRouteDiscoveryProofs.tla   tlapm HalUartProofs.tla

`NwkRouteDiscoveryTimeout.cfg` ends in a counterexample: it shows a bug of the code
(see [Runs](#4-runs)). All the others finish without an error.

`PROJECT.json` maps every definition to the lines it models, every property to a
faulty variant of the code that violates it, and every hazard to the properties
that cover it. Operators named `X_Something` and marked "Faulty variant" are those
variants of the operator `X`; no specification uses them. Drivers that exist in
several copies with the same text (`halUart.c`, `halSleep.c`, `phy.c`) are modelled
once, and each definition names its lines in one of the copies.

## 1. Inventory

Everything runs from one loop. `SYS_TaskHandler` (`sys/src/sys.c`) calls
`PHY_TaskHandler`, then `NWK_TaskHandler` - which calls the task handlers of the
receive machine, the transmit machine, the data requests and security, in this
order - and then `SYS_TimerTaskHandler`; the application's own task runs between
two calls. Nothing blocks: a job that must wait is a state in a buffer or a
request, and a later call of the handler goes on with it. Only the timer tick, the
UART and the sleep timer use interrupts.

| Part | State | Operations | Talks to |
|---|---|---|---|
| Main loop, `sys.c` | none | `SYS_Init`, `SYS_TaskHandler` | all |
| Buffer pool, `nwkFrame.c` | `nwkFrameFrames[]`, `nwkIb.lock` | alloc, free, next, command init | rx, tx, data requests, routing |
| Receive machine, `nwkRx.c` | frame states 0x20-0x24 | `PHY_DataInd`, `nwkRxTaskHandler` and its handlers | PHY calls it; it calls endpoints, routing, tx |
| Duplicate rejection, `nwkRx.c` | table of source, sequence number, mask, ttl; a timer | `nwkRxRejectDuplicate`, the timer handler | rx; removes routes |
| Transmit machine, `nwkTx.c` | frame states 0x10-0x19, `nwkTxPhyActiveFrame`, two timers | `nwkTxFrame`, `nwkTxBroadcastFrame`, `nwkTxAckReceived`, `PHY_DataConf`, `nwkTxTaskHandler`, the timer handlers | PHY, routing, `tx.confirm` callbacks |
| Data requests, `nwkDataReq.c` | linked list of the application's requests | `NWK_DataReq`, the task handler, `nwkDataReqTxConf` | pool, tx, application |
| Control block, `nwk.c` | `nwkIb` | init, addresses, endpoints, `NWK_Busy`, lock/unlock, sleep/wakeup | all |
| Routing, `nwkRoute.c` | `nwkRouteTable[]` | find, new, free, learn, rate, remove, normalise, route a frame, route errors | rx, tx, duplicate rejection |
| Route discovery, `nwkRouteDiscovery.c` | discovery table, a timer, frames in WAIT_FOR_ROUTE | request, reply, timeout | routing, tx, pool |
| Security, `nwkSecurity.c` | counter of frames, the active frame, the cipher state | process, task handler, `SYS_EncryptConf` | rx, tx, `sysEncrypt.c` or the radio's AES |
| Groups, `nwkGroup.c` | `nwkGroups[]` | add, remove, is-member | rx, routing |
| Timers, `sysTimer.c` | a list ordered by due time, each entry relative to the one before | start, stop, started, task handler | all; the tick interrupt |
| Radio, `phy.c` | `phyState`, `phyRxState`, the transceiver's registers | data request, poll, sleep/wakeup, receiver on/off | the transceiver; calls `PHY_DataInd`/`PHY_DataConf` |
| UART, `halUart.c` (8 copies) | two ring buffers, two flags | write, read, task handler, two interrupts | application |
| Sleep, `halSleep.c` (8 copies) | an event flag | `HAL_Sleep`, an interrupt | application |
| Encryption, `sysEncrypt.c`; board and LED headers; SPI | none worth mentioning | | |

What makes each part correct, in a line:

- *pool, lock*: no buffer and no lock leaks; `NWK_Busy` tells the truth;
- *receive*: every received frame is disposed of exactly once (indicated, relayed,
  routed or dropped);
- *duplicates*: the first copy of a frame is accepted and no other one;
- *transmit*: one frame at a time in the radio, every frame confirmed once, no
  frame waits on a timer that does not run;
- *data requests*: every request is confirmed, with the status of its own frame;
- *routing*: at most one route to a destination, through a node that relays, and
  given up only for good reason;
- *discovery*: every frame that waits for a route is sent or confirmed;
- *security*: every frame handed in comes back, one at a time;
- *timers*: a timer comes due once, neither before its interval nor never;
- *radio*: every transmission is confirmed, a received frame is not lost;
- *groups*: a multicast frame goes no further than its radii, and reaches the whole group
  if they allow for it;
- *UART, sleep*: no byte is reordered or duplicated, no wake-up is missed.

## 2. What is hard about it

- **Loops over buffers that change under them.** An iteration of the receive or
  transmit loop allocates or frees buffers; the loop then meets them, or does not,
  depending on their index.
- **Shared one-shot timers.** One timer serves all frames in a state; its handler
  must restart it exactly while one of them is left.
- **Pointers kept past the life of what they point to.** A confirmed request
  still holds its buffer's address; the radio's active frame is a bare pointer.
- **Exhaustion everywhere.** Five buffers, and every handler that needs one may
  find none: each has its own way of giving up.
- **8-bit arithmetic.** Sequence numbers wrap and are compared in mixed signed and
  unsigned arithmetic; ranks are halved to keep them from wrapping.
- **The network.** Frames are lost, duplicated and reordered, acknowledgements race
  with their timeouts, and the messages of one discovery overtake each other at
  nodes whose tables age independently.
- **Hardware that moves by itself.** The transceiver receives and acknowledges
  between two register accesses of its driver; interrupts come between two
  statements of the main loop.

`PROJECT.json` lists each hazard with its line, and the property that covers it or
the reason why none does yet.

## 3. Modules

| Module | What it is | Code |
|---|---|---|
| `DataService` | what a data request promises | `nwkDataReq.h` |
| `NwkNode` | one node: main loop, pool, receive and transmit machines, data requests, and of the radio and the timers what these see; implements `DataService` | `sys.c`, `nwkFrame.c`, `nwkRx.c`, `nwkTx.c`, `nwkDataReq.c`, `nwk.c` |
| `NwkRoute` | the routing table | `nwkRoute.c` |
| `NwkDuplicates` | the duplicate rejection table, with the senders it tells apart | `nwkRx.c` |
| `NwkRouteDiscovery` | route discovery among the nodes of a mesh | `nwkRouteDiscovery.c` |
| `NwkSecurity` | sealing and opening frames, a block at a time | `nwkSecurity.c`, `sysEncrypt.c` |
| `NwkMulticast` | one multicast frame on its way through a mesh, and the group tables | `nwkGroup.c`, `nwkRx.c`, `nwkDataReq.c` |
| `TimerService` | what the timers promise: instants, without a list | `sysTimer.h` |
| `SysTimer` | the list of relative timeouts and the tick counter; implements `TimerService` | `sysTimer.c`, `halTimer.c` |
| `Phy` | the radio driver with the transceiver | `phy.c` (AT86RF233, AT86RF231), `halPhy.c` |
| `HalSleep` | the sleep drivers with their timer | `halSleep.c` |
| `RadioSleep` | a sleeping node: `Phy` and `HalSleep` composed | `nwk.c` |
| `BoundedFifo` | what one direction of a UART promises | - |
| `HalUart` | the UART drivers with their interrupts; each direction implements `BoundedFifo` | `halUart.c` |
| `MC...` | values of the constants and symmetry sets for TLC | - |
| `NwkNodeProofs`, `NwkRouteProofs`, `NwkDuplicatesProofs`, `NwkRouteDiscoveryProofs`, `NwkSecurityProofs`, `NwkMulticastProofs`, `RadioSleepProofs`, `HalUartProofs` | theorems about the module of the name | - |

`NwkNode` models the build with `NWK_ENABLE_ROUTING` and no other option. The
other options have their own modules, which take from the receive and the transmit
machines the states and branches that the option adds.

### NwkNode and DataService

The state is that of the C program, field by field: `frame` is `nwkFrameFrames`
(state, `tx.timeout`, `tx.status`, whether `tx.confirm` is the data request's, and
whether an acknowledgement is wanted), `queue` and `req` are the list of requests,
`active` is `nwkTxPhyActiveFrame`, `lock` is `nwkIb.lock`, `phyTx` says that the
radio driver is in `PHY_STATE_TX_WAIT_END`, and `delayTimer` and `ackTimer` that the
timers of `nwkTx.c` are in the list. `pc` and `cur` are the place in
`SYS_TaskHandler` and in the loop over the buffers: one iteration of a loop is one
step, so that a buffer allocated by an iteration is met by a later one, as in the
code. One action stands for one `case` of a task handler with everything it calls:
`nwkRxHandleIndication`, say, includes the endpoint's verdict, the match of an
acknowledgement with the frame that waits for it, and the allocation and queueing
of the reply, or its failure.

Headers are abstracted to the path they select. Of a received frame there is its
`class` only: dropped, local, for us, flooded to us, broadcast, to be relayed, to
be routed, and the two ways an acknowledgement comes. Whether a route is known and
which frame an acknowledgement is for are choices, so `NwkNode` allows all that any
contents of the routing table and any received sequence number would give: more
behaviours than the code has, hence its safety properties carry over. `NwkRoute`
and `NwkDuplicates` say what these choices really are.

The environment: the application posts a request at any time except from inside
the receive and transmit loops of the stack other than through an endpoint, a
confirmation or a timer callback, and never one that is still queued; the radio
delivers a frame, or ends its transmission, whenever it is polled.

`DataService` is the application's view: a request is either turned down for want
of a buffer or carried, and gets one answer, which does not change until it is
confirmed. `ImplementsDataService` maps the states of the `NWK_DataReq_t` structures
to it; everything else `NwkNode` does is a stutter.

### NwkRoute

One variable, the table. `FindEntry(t, d, e)` and `NewEntry(t, e)` are relations
("the search returns `e`") rather than functions, which is also what makes them
easy to reason about. The actions are a frame received, a transmission finished, a
route removed (by a route error or a duplicate), a route replaced by route
discovery (`nwkRouteUpdateEntry`), and the application's setting and releasing of a
fixed route; the last two stand for code outside this repository that uses the
exported `NWK_Route...` functions. Ranks and scores are the code's with smaller
constants. A next hop that discovery writes relays because the nodes that do not ignore
the requests of others (`Forwards`), and so is an assumption of `NextHopRelays`, as is
what the application sets up; what the property says is that the check of
`nwkRouteFrameReceived` is enough for the rest, entries taken over included.
`nwkRouteUpdateEntry` also changes the next hop of a fixed route, as
in the code: `FixedRouteStays` speaks of the destination only.

There is no free flag in an entry: it is free if its destination is
`NWK_ROUTE_UNKNOWN`, which `NWK_RouteNewEntry` never looks at - it goes by rank. The
invariant behind most of this module is that the two agree: entries in use have a
rank of 2 at least, free ones of 1 at most, and `rank / 2 + 1` maps either kind into
itself.

### NwkDuplicates

`table` and `timer` are the code's. The senders number their frames 1, 2, 3, ...,
and the code sees these numbers modulo `SeqMod`; `heard` is a history variable that
records which frames were accepted, and the properties compare the code's verdict
with it. The verdict is an operator, `Rejects(s, n)`, that reads like the return
values of `nwkRxRejectDuplicate`.

Two assumptions on the network are explicit, because no window can work without
them: a copy is never `Window` or more frames behind the last one sent
(`InFlight`), and between two frames that a node accepts from a source, while the
entry lives, it misses at most `SeqMod - Window` (`Send`). With the code's numbers: 8 and
248 frames. A sender that restarts, and counts from zero again, breaks the second
one; it is listed as a hazard.

### NwkRouteDiscovery

`table`, `timer`, `route` and `frame` have a component for each node; `net` is the
set of requests and replies in the air. A message stays in `net` until it is
received, at any time and in any order, or for ever, which is its loss. The timer
handler visits one entry per step (`busy`, `at`), because it sends frames, which may
begin a new discovery, while it walks the table. Link quality is the code's 8-bit
product, `(lqa * lqb) / 256`.

- `nwkTxFrame`, `nwkRouteDiscoveryRequest`: a frame without a route waits for the
  discovery under way, begins one, or is given up for want of an entry. When there
  is no buffer for the request the frame is given up but the entry stays, as in the
  code: the next frame for the same destination then waits for a discovery that was
  never sent.
- `RequestReceived`, `ReplyReceived`: `nwkRouteDiscoveryRequestReceived` and
  `nwkRouteDiscoveryReplyReceived`, with all their early returns.
- `Ages`, `Expires`, `Ends`, `Skips`: what `nwkRouteDiscoveryTimerHandler` does with an
  entry. `Ends` is the bug of the finding below: an entry that was free already is
  treated as one that has just timed out.
- `nwkRouteRemove`: the network layer gives a route up.

An assumption: a flood is over (milliseconds) before the entries it has left expire
(a second); `Outlived` takes what is still in the air with them.

### NwkSecurity

`frames` is the pool as the module sees it; `activeFrames`, `active`, `size`, `offset`,
`encrypt`, `vector` are the static variables. The transmitter hands over a frame
(`ENCRYPT_PENDING`), the receiver another (`DECRYPT_PENDING`), and a turn of
`nwkSecurityTaskHandler` starts one, processes a block, or finishes one. A byte is a
bit and the MIC a single one, so that lengths, offsets and the chain are exact while
the contents stay small. Against this the module has a definition of a sealed
payload without the steps that make it (`IsSealed`, `Mic`), and the properties compare
the two. `Cipher` is a constant operator: XTEA and the transceiver's AES are alike to
the code, and `SYS_EncryptReq` confirms from within the call with either.

Assumptions: the application changes the key only when no frame is in the module
(`NWK_SetSecurityKey`), and a frame received was sealed with the same key and holds
its MIC. The cipher makes blocks of blocks (`CipherAssumption`).

### NwkMulticast

One frame to one group. `Send` is `nwkDataReqSendFrame` down to the address that
`nwkTxFrame` puts into the header: a member floods the frame, another node sends it along
its route, and without a route `NWK_ROUTE_UNKNOWN` is the broadcast address, so it floods
the frame as well (unless the build discovers routes: then the frame is one of the
former after all, or is given up). `Handle` is the multicast branch of
`nwkRxHandleReceivedFrame` at every node. What a non-member has to pass along its route
waits in `routing` until `nwkRouteFrame`, which asks again whether the node is a member
(`Prepared`), and frees the frame if there is no route.

A copy carries both radii, in 4-bit fields; `run`, a history variable of the copy, counts
the relays of one kind in a row, and `intact` remembers whether a flood has lost a copy
or seen a group change. Group tables are per node and change meanwhile. A node may have
a route to the group or none, and one to any neighbour, which is more than the routing
table allows. The duplicate table is a set: it outlasts the flood, and that alone ends
the flood, so no property is about its end.

### TimerService and SysTimer

`timers` is the linked list as a sequence, `timeout` and `interval` the fields, `irq` the
8-bit `halTimerIrqCount`, `elapsed` the local variable of `SYS_TimerTaskHandler`; `pc`
tells whether the program is in the handler's loop or in a callback. The tick
interrupt comes between any two steps. `SYS_TimerStart` and `SYS_TimerStop` are called
outside the handler and from callbacks, in the middle of the walk.

`TimerService` has instants instead of a list: a timer is due at one, timers fire in
that order and never before the counted ticks reach them. The refinement maps the
list to instants by adding the timeouts up. One assumption: a turn of the main loop
takes less than 256 ticks (`TimerInterrupt`).

### Phy, HalSleep and RadioSleep

`phyState`, `phyRxState` and the frontend are the driver's variables; `radio` and
`registers` are the transceiver, modelled from what the driver relies on: a state, the
TRX_END interrupt, the frame buffer and its protection, and the frame being
acknowledged. It moves between any two accesses of the driver. `result` and `cut` are
history variables: how the radio ended the last transmission, and the last frame
whose acknowledgement the driver interrupted.

`PHY_TaskHandler` is three steps - the status is read, the frame is read and
indicated, the driver waits until the transceiver is back - because the radio moves
in between. `PHY_RandomReq` and `PHY_EdReq` switch to the basic receive mode and back.
The two drivers have the same control; the test mode of the AT86RF233 is left out.

`HalSleep` counts the ticks of the asynchronous timer against the loop of
`HAL_Sleep`; the interrupt comes at any point of the loop, and so do wake-ups by other
interrupts. The drivers without such a timer wait a millisecond at a time
(`HAL_Sleep_Wait`). `asked` is the time the application asked for, in thousandths of a
tick, before the division: 31 ms are no whole tick and end at once, and
`SleepsItsTime` allows for that tick and not for more. The product and the local variables have
the code's widths (`Word`, `HalfWord`); that no interval overflows the product,
2^27 ms in the code, is the assumption `SleepAssumption`. `RadioSleep` conjoins the two: while the processor sleeps
(`Asleep`) neither the main loop nor the radio moves, and `WakesUp` joins the return of
`HAL_Sleep` and `PHY_Wakeup`.

Assumptions on the hardware: forcing the transceiver off ends the protection of the
frame buffer; a change of state succeeds within the retries of `phyTrxSetState`; the
8 x 2048 polls of `phyWaitState` outlast the acknowledgement and a frame; the code
between two sleeps takes less than a tick. On the application: it sleeps, measures
and changes settings only while `NWK_Busy` is false.

### HalUart and BoundedFifo

The two ring buffers are records with the code's indices; `udr` is the data register
and `dreOn` its interrupt's enable bit. A step of the main loop is what lies between
two points at which an interrupt may come, so an `ATOMIC_SECTION` is one step. The
families differ in their interrupts only, and one variable, `family`, selects them.
Bytes are numbered, which makes a lost, doubled or reordered one visible. A buffer has
room for a byte at least: the driver of the ATxmegaA4 is off by default (sizes of 0).

## 4. Runs

| Run | Instance | Checks |
|---|---|---|
| `node_safety` | 3 buffers, 2 requests posted twice in all, 2 received frames of all nine classes, jitter 1, acknowledgement wait 2 | `TypeOK`, `LockExact`, `RadioOwned`, `TimersCover`, `ConfirmReachesOwner`, `WaitingHasFrame`, `ImplementsDataService` |
| `node_liveness` | 2 buffers, 2 requests, 1 received frame of four classes | `EveryRequestConfirmed`, `EventuallyIdle` |
| `route_table` | 2 entries, 3 destinations of which one does not relay, score 2, ranks to 7 | `TypeOK`, `EntriesSound`, `OneRoute`, `NextHopRelays`, `EvictsOnlyWhenFull`, `FixedRouteStays` |
| `duplicates` | 3 sources, 2 entries, numbers modulo 4, window 2, 5 frames per source | `OneEntry`, `TimerCovers`, `DuplicatesRejected`, `FreshAccepted`, `TableFrees` |
| `discovery` | a diamond of 4 nodes, one origin, one entry, timeout 2, 2 frames | `WayBackAcyclic`, `RoutesAcyclic` |
| `discovery_wait` | 2 nodes, a destination that answers and one that is absent, 2 entries, timeout 2, 3 frames, a route lost | `WaitCovered`, `EveryWaitEnds` |
| `discovery_timeout` | the same with timeout 3 | `DiscoveryHasItsTime`, which fails |
| `security` | 2 buffers, 2 keys, blocks of 2, payloads of 0, 2 and 3, 3 frames | `CountExact`, `PayloadsRight`, `EveryFrameReturned` |
| `multicast` | 5 nodes, a triangle with a tail, radii 0 to 2, 2 group slots, 3 changes of groups | `RadiiRespected`, `FloodReachesAll` |
| `sys_timer` | 2 one-shot timers and a periodic one, intervals 1 and 3, a tick of 2, 3 ticks | `ImplementsService`, `OverdueIsCalled` |
| `phy` | 2 frames heard, 2 requests or settings, 3 ends of a transmission, sleeps of 0, 1, 2 and 3 ticks with rounds of 2 | `ConfirmAnswersRequest`, `IndicationIsFrame`, `IndicatedIsAcknowledged`, `RadioAsConfigured`, `SleepsItsTime`, `EventuallyIdle` |
| `uart` | 3 families, buffers of 2, 4 bytes each way | `ReceiverIsFifo`, `TransmitterIsFifo`, `EveryByteServed` |

Where a model's environment does a bounded number of things (`Max...`), the system
stops when they are done, and the configuration does not check deadlock; the node
and the tables, which never stop, are checked for it.

**Node, safety.** Three buffers are the least with which a received frame, its
rebroadcast or acknowledgement and a request's frame compete and the pool still
runs dry; two requests are needed for one to hold a stale pointer to a buffer that
the other one uses. `LockExact` says that the counter is what it should be in every
state, not just that it returns to zero. `ConfirmReachesOwner` is the subtle one:
`nwkDataReqTxConf` takes the *first* request whose `frame`
pointer matches. A confirmed request keeps its pointer until it is posted again, and
requests are pushed at the head, so a stale pointer could come first; it does not,
because a request takes a buffer only when every request ahead of it in the queue
is already waiting, so the request that takes a buffer again is always ahead of any
confirmed one that still points to it. `ImplementsDataService` is checked over the
same states.

**Node, liveness.** Fairness: the main loop runs for ever (WF of
`SYS_TaskHandler`); a transmission ends at some poll, and a running timer comes due
at some turn of the loop (SF, because each is possible at one place of the loop
only, so it is enabled again and again and not continuously). Nothing is assumed of
the application or the neighbours, whose activity is bounded (`MaxPosts`, `MaxRx`).
That bound matters: requests are served last in, first out, one per turn, so an
application that posts without end starves its first request. What is shown is that
the stack gets rid of its backlog, with fewer buffers than there are frames.

**Route table.** Two entries for three destinations make eviction, and ranks to 7
make normalisation, happen within a few frames; both also happen while the other
entry is free or fixed. `EvictsOnlyWhenFull` and `FixedRouteStays` are about steps.

**Duplicates.** Five frames with numbers modulo 4 wrap around; a window of two
gives every kind of verdict: in the window seen and unseen, ahead with the mask
kept in part and lost entirely. Three sources for two entries fill the table.
`TableFrees` uses the fairness of the timer alone.

**Discovery.** In the diamond the two relays hear each other, over links of different
quality, so requests overtake and improve on each other, and entries expire and are
made again while later messages are on their way. Links that could only bring a
request back to its origin are left out: it would be ignored. `RoutesAcyclic`
is about one origin and holds because a reply is only taken if it
tells of a better way than the last. With two origins that seek the same node it
does *not* hold: each origin's replies are compared with its own entry only. Two
neighbours that both lose the direct request to the node sought, and hear each
other's, are given a route each through the other when the two replies cross. The
code has nothing against this but duplicate rejection, which removes the route when
a frame comes back, and no document promises otherwise; TLC finds it at once in an
instance with `Origins = {a, b}` and three nodes all in reach of each other.

**Discovery, waiting.** The absent destination is what makes a discovery fail, and two
entries let one free entry stand before a live one. Fairness: an origin's timer
comes due and its handler runs to the end; nothing is assumed of the network, so
`EveryWaitEnds` holds even when every message is lost.

**Discovery, finding.** `discovery_timeout` finds a discovery that has just begun ended
by the timer handler (`nwkRouteDiscovery.c`, line 214): when a discovery for a node is
over, its entry keeps the destination with a timeout of 0; a new one for the same
node may be put in another entry, and the handler, which does not tell an entry that
was free from one that has just timed out, confirms the frames that wait with
`NWK_NO_ROUTE_STATUS`. `sysConfig.h` gives a discovery 1000 ms. `discovery_wait` shows
what holds nevertheless: the frames are all released.

**Security.** Payloads are empty, of one block, and of one and a half; frames are handed
over at any time between two blocks of another one, and the key changes in between.
The cipher of `MCNwkSecurity` has no fixed points that would hide a missing step. Fairness: the
task handler runs.

**Multicast.** The triangle makes ways of different lengths to the same node, and the tail
is long enough for members and others to alternate behind it, and for a radius of 2 to
be used up. Groups change while copies are in the air and frames wait for their route,
so a node may be a non-member when it receives and a member when it routes. No fairness.

**Timers.** Equal and different intervals, and a tick longer than the shorter one, give
timers that come due together, late, and during the walk. Fairness: the task handler
runs, and callbacks return.

**Radio and sleep.** Two frames are enough for one to arrive while the other is read,
and for one to be acknowledged while a transmission is requested; the settings share
the bound with the requests. The sleeps are 31, 62, 63 and 94 ms: less than a
tick, a rest alone, a whole round, and both; one other wake-up may hit the point at which a match is lost, which costs
one round of the timer and is in `SleepsItsTime`. Fairness: the main loop polls, what
the transceiver has begun ends, the processor goes on, and an application that went
to sleep wakes the radio up.

**UART.** Buffers of two bytes are full, empty and wrapped around within four bytes.
Nothing is assumed of the bytes received; the main loop runs, a callback returns, and
the transmitter and its interrupt work.

**Refinements.** `ImplementsDataService`, `ImplementsService`, `ReceiverIsFifo` and
`TransmitterIsFifo` are step simulation: the abstract specifications have no fairness,
the liveness is stated of the detailed ones.

## 5. Proofs

TLAPS proves every invariant and action property that the passing runs check, and the
refinements of the data service and of the UART, for all values of the constants. A module `XProofs`
extends `X`; what follows is the argument of each. The assumptions are the ASSUMEs of
the modules, which TLC also evaluates for the constants of each run.

A property is seldom inductive as it stands. Each proof module begins with the
invariant that is (`Inv` or a name of its own), shows that the initial states have it
and that each action keeps it, an action at a time, and gets the properties from it.

**Node** (`NwkNodeProofs`; any number of buffers but zero, any finite set of requests,
any jitter and waiting time). Four invariants, each proved with the help of those before:

- `TypeCorrect` and `TimersAlwaysCover`, together: `TypeOK` needs that no timeout is
  counted down from zero, and `TimersCover` says so. A frame enters a waiting state in
  the same step that starts the timer, and the handler leaves the timer stopped only
  if it found no frame to count;
- `RadioAlwaysOwned`: only the frame in `active` is in WAIT_CONF, so the other handlers
  cannot take it;
- `LockAlwaysExact`: `lock` is compared with a cardinality, so the proof goes through
  lemmas on what adding or removing one buffer or one request does to the cardinality
  and the length. `PHY_DataConf` gives back one lock because `active` is not 0;
- `RequestsInvariant`, from which `ConfirmsReachOwner` and `WaitingAlwaysHasFrame` follow.
  `RequestsInv` says that the queue holds exactly the requests that are not idle, each
  once (`QueueMatches`); that a buffer with a callback is in the transmit machine
  (`FramesHonest`); and that a waiting request is the *first* of the queue that points
  to its buffer (`WaitersOwn`). The last is the point: when a buffer is allocated, the
  requests ahead of the one served all wait, each for a buffer in use, so none of them
  points to a free one; the confirmed requests that do are all behind.

`DataServiceImplemented` is the refinement. A step changes the service fields of at most
one request (lemmas `StepKinds`, `ConfirmEffect`, `OneRequestChanges`), and `ServiceMoves`
turns that change into the step of `DataService`. It needs `RequestsInv`, because a
confirmation must find a request that waits, and a status that a transmission can have.

**Route table** (`NwkRouteProofs`; any table, nodes and limits with at least one entry and
2 <= default rank < maximal rank). The four invariants are proved as one, `Inv`: the
score does not underflow (`TypeOK`) because an entry in use has some left
(`EntriesSound`), and the entry that a search finds is the only one (`OneRoute`), so
removing it removes the route. All steps but the normalisation write one entry, and
lemma `EntryWritten` reduces them to a condition on that entry. The two step
properties follow from lemma `Destinations`: a step frees entries that are not fixed, or
gives the one that `NWK_RouteNewEntry` chose a new destination.

**Duplicates** (`NwkDuplicatesProofs`; any table, any window, any modulus of at least twice
the window). The properties speak of frames, the code of numbers modulo `SeqMod`. The
invariant (`Windows`) names, for every live entry, the newest frame heard and says that
bit `b` of the mask is the frame `b` before it; lemma `DiffIsExact` shows that the wrapped
difference of the numbers is the distance of the frames, for every frame that may
still come, which is where the two limits on the network are used. `DuplicatesAlwaysRejected`
and `FreshAlwaysAccepted` are then the two halves of one comparison.

**Discovery** (`NwkRouteDiscoveryProofs`; any mesh, any links and qualities, any table and
timeout). `WaitsAlwaysCovered` needs that a frame that waits has a live entry and that the
timer of a node with a live entry runs (`WaitEntry`, `LiveCovered`). That the way back has
no circle (`WayBackAlwaysAcyclic`) is not inductive: a request still in the air could
close one. The invariant speaks of each request (`RequestsBacked`): from its sender, the
way back passes only through nodes that would ignore it, because they know a link at
least as good. A node that takes the request is not among them, so making the sender
its successor closes no circle (`AcyclicRedirects`); and qualities only become worse
from hop to hop, so the claim also holds of the request that this node sends on. The
replies are symmetric (`RepliesBacked`), and give `RoutesAlwaysAcyclic`, whose hypothesis
is that one node looks for others and not for itself. That is the instance of the
`discovery` run; with two origins the property is false (section 4).

**Security** (`NwkSecurityProofs`; any buffers, payloads of any length, any block size, any
cipher that maps blocks to blocks, `CipherAssumption`). `CountAlwaysExact` follows from the
states alone. For `PayloadsAlwaysRight` the invariant (`InWork`) says of the frame worked on
that, after `n` blocks, its first bytes are those of the sealed (or opened) payload, the rest
are as handed over, and `vector` is that of block `n` of the chain. The chain is a
recursive function over a payload of any length: `SetInduction`, induction stated of a
set and derived from the well-foundedness of the natural numbers, shows that it exists
and what each of its blocks is.

**Multicast** (`NwkMulticastProofs`; any network, groups and radii). `RadiiRespected` says
nothing of what is left in a header. The invariant does, exactly (`RadiiCountRelays`): a
copy carries the radius of the kind under way less its row of relays, and the other
radius whole. `FloodAlwaysReachesAll` needs more than counting (`Spreads`): the relays that
a copy counts are different nodes that hang together (`Row`, `Counted`), because a node
relays once. A node that takes the copy makes the row one longer; the radii suffice
for that longer row, so what is left was not yet 0 and the node passes the copy on
(lemma `RadiusLasts`). It does not matter that a shorter way came too late.

**Radio and sleep** (`RadioSleepProofs`; any numbers of frames, requests and ticks, of the
composed specification). The invariant gives, for each place in the driver, the states
the transceiver may be in (`RadioState`), what TRX_END then stands for (`Transmission`,
`Reception`), and that a frame announced stays in the buffer until it is read. The
theorems on confirmations, indications, acknowledgements and settings are its parts.
`SleepsAlwaysItsTime` has an invariant of its own (`SleepInv`), on the rounds still to come
and the matches missed; lemma `NoOverflow` is where `SleepAssumption` is used.

**UART** (`HalUartProofs`; any size and any number of bytes). The invariant says that each
buffer is a ring (`Ring`: count and indices agree, the cells between them hold bytes) and
that the bytes in flight are consecutive (`InOrder`). `PushAppends` and `PopTakesFirst` show
that `Push` and `Pop` on a ring are `Append` and `Tail` on its content, for any size, and with
them every step is a step of `BoundedFifo` or a stutter: `ReceivingIsFifo`, `SendingIsFifo`.

Only model-checked are:

- the liveness properties (`EveryRequestConfirmed`, `EventuallyIdle`, `TableFrees`,
  `EveryWaitEnds`, `EveryFrameReturned`, `OverdueIsCalled`, `EveryByteServed`): the
  prover has no rules for fairness and ENABLED;
- `ImplementsService` of the timers. The instants are sums over the list of timeouts, and
  every action that inserts or removes a timer changes a sum in the middle: see the plan;
- `DiscoveryHasItsTime`, which the code violates.

## 6. What is not modelled

- XTEA (`sysEncrypt.c`): a stateless computation; nothing in the repository says
  what it should yield. It is the constant `Cipher`.
- Board and LED headers, SPI transfers, clock set-up, baud rates: pin and register
  writes. `HAL_Sleep` of the ATxmegaA4 is empty.
- `PHY_RunContinuousTest` of the AT86RF233: a test mode that only a reset ends.
- `NWK_OpenEndpoint`, `NWK_LinearizeLqi`, `NWK_SetAckControl` and the address filter of
  the receiver.
- Within `NwkNode`: payloads, sequence numbers and addresses (see above). `PHY_DataReq`
  clears TRX_END of a frame received just before; to `NwkNode` it is one not received,
  and `Phy` says which of them were acknowledged.
- Options in combination: a secured multicast frame, a multicast frame sent with
  `NWK_OPT_LINK_LOCAL`, discovery in a node whose pool
  is empty for other reasons than those of `NwkRouteDiscovery`.
- A node that restarts, and whole meshes that route data: see the plan.

Two things read off the code while modelling that no run is about: `NWK_GroupAdd` of
0xffff reports success and changes nothing, because that value marks a free slot; and
a discovery begun right after one has failed is not passed on by those neighbours
whose entries for the first one are still alive, since they know a link as good.

## 7. Plan

1. `ImplementsService`: lemmas on the sums over a list with an element inserted or taken
   out, by `SetInduction` as in `NwkSecurityProofs`, and with them the steps of
   `SYS_TimerStart`, `SYS_TimerStop` and the task handler.
2. `Mesh`: several nodes with `NwkRoute` and `NwkDuplicates` over a lossy medium by
   INSTANCE: a routed frame in a loop is stopped, a node that restarts is heard
   again.
