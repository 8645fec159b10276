------------------------- MODULE NwkRouteDiscovery -------------------------
(***************************************************************************)
(* Route discovery among the nodes of a mesh: nwk/src/nwkRouteDiscovery.c, *)
(* built with NWK_ENABLE_ROUTE_DISCOVERY.                                  *)
(*                                                                         *)
(* A node without a route floods a request; each node keeps the best way   *)
(* back to the source in a discovery entry and passes the request on when  *)
(* it has come by a better way than before; the node sought answers, and   *)
(* the answer retraces the entries, leaving routes behind. Meanwhile the   *)
(* frames for that node wait. Every node ages its entries by its own       *)
(* timer; frames in the air are lost or late.                              *)
(*                                                                         *)
(* Addresses and the multicast flag are folded into one name of what is    *)
(* sought; the route table is a function (NwkRoute has the table itself).  *)
(***************************************************************************)
EXTENDS Integers, FiniteSets

CONSTANTS
  Nodes,        \* the nodes of the mesh
  NonRouting,   \* those whose address has NWK_ROUTE_NON_ROUTING set
  Link,         \* the pairs <<a, b>> such that b hears a
  Origins,      \* the nodes whose applications send frames
  Targets,      \* unicast and group addresses that are sought
  Members,      \* Members[d]: the node with address d, or the members of group d
  NoNode,       \* NWK_BROADCAST_ADDR and NWK_ROUTE_UNKNOWN
  TableSize,    \* NWK_ROUTE_DISCOVERY_TABLE_SIZE
  Timeout,      \* NWK_ROUTE_DISCOVERY_TIMEOUT / NWK_ROUTE_DISCOVERY_TIMER_INTERVAL
  Lqis,         \* Lqis[l]: the quality indications of frames received over link l
  Frames,       \* the frame buffers of an origin
  MaxFrames,    \* bound: frames an application sends
  MaxRouteLosses \* bound: routes given up after failed transmissions

ASSUME DiscoveryAssumption ==
  /\ NonRouting \subseteq Nodes /\ Origins \subseteq Nodes
  /\ Link \subseteq Nodes \X Nodes
  /\ Members \in [Targets -> SUBSET Nodes]
  /\ NoNode \notin Nodes
  /\ {TableSize, Timeout} \subseteq Nat \ {0}
  /\ Lqis \in [Link -> SUBSET (0..255)]
  /\ {MaxFrames, MaxRouteLosses} \subseteq Nat

VARIABLES
  table,        \* nwkRouteDiscoveryTable of each node
  timer,        \* nwkRouteDiscoveryTimer of each node runs
  busy, at,     \* the node whose timer handler runs, if any, and the entry it is at
  route,        \* the next hop of each node to each source and target
  frame,        \* what has become of the frames of each origin
  net,          \* requests and replies in the air
  sent, lost    \* frames sent and routes lost so far

handler == <<busy, at>>
vars == <<table, timer, handler, route, frame, net, sent, lost>>

Slots == 1..TableSize
Goals == Origins \cup Targets     \* what a route may lead to

BestLinkQuality == 255
NoLink == 0
UpdateLq(lqa, lqb) == (lqa * lqb) \div 256

\* NwkRouteDiscoveryTableEntry_t; from is senderAddr.
Entries == [src : Origins \cup {NoNode}, dst : Targets \cup {NoNode},
            from : Nodes \cup {NoNode}, flq : 0..255, rlq : 0..255, timeout : 0..Timeout]
FreeEntry == [src |-> NoNode, dst |-> NoNode, from |-> NoNode,
              flq |-> NoLink, rlq |-> NoLink, timeout |-> 0]

\* A frame is given to nwkTxFrame, waits for a route, or has left for good: sent
\* along a route or confirmed with NWK_NO_ROUTE_STATUS.
FrameRecords == [state : {"IDLE", "WAIT_FOR_ROUTE", "SENT", "NO_ROUTE"},
                 dst : Targets \cup {NoNode}]

Waiting(n, d) == {f \in Frames : frame[n][f] = [state |-> "WAIT_FOR_ROUTE", dst |-> d]}

-----------------------------------------------------------------------------
\* nwkRouteDiscoveryFindEntry: the live entries of table t for a discovery.
FindEntry(t, s, d) == {k \in Slots : t[k].timeout > 0 /\ t[k].src = s /\ t[k].dst = d}

\* nwkRouteDiscoveryNewEntry: the first free entry of table t.
IsNewEntry(t, k) == t[k].timeout = 0 /\ \A j \in 1..(k - 1) : t[j].timeout > 0

NewEntry(s, d, sender, lq) == [src |-> s, dst |-> d, from |-> sender,
                               flq |-> lq, rlq |-> NoLink, timeout |-> Timeout]

Request(n, to, s, d, lq) ==
  [type |-> "ROUTE_REQUEST", from |-> n, to |-> to, src |-> s, dst |-> d, lq |-> lq]
Reply(n, to, s, d, flq) ==
  [type |-> "ROUTE_REPLY", from |-> n, to |-> to, src |-> s, dst |-> d, lq |-> flq]

\* nwkRouteDiscoverySendRequest: a link-local broadcast, one copy for every node in
\* reach. (A copy that is not received is never taken from net; so is a request or
\* reply a relay has no buffer for.)
Flood(n, s, d, lq) == {Request(n, m, s, d, lq) : m \in {m \in Nodes : <<n, m>> \in Link}}

\* nwkRouteDiscoverySendReply: to the sender of the best request.
SendReply(n, to, s, d, flq) == {Reply(n, to, s, d, flq)}

\* nwkRouteUpdateEntry
UpdateEntry(r, goal, hop) == [r EXCEPT ![goal] = hop]

\* A new discovery is begun for frame f of node n, whose table and frames are t and
\* fr, with the messages of air on their way. Without a buffer for the request the
\* frame is given up, but the entry stays.
Begin(n, d, t, fr, f, air) ==
  LET e == NewEntry(n, d, NoNode, NoLink)
  IN \E k \in Slots :
       /\ IsNewEntry(t, k)
       /\ table' = [table EXCEPT ![n] = [t EXCEPT ![k] = e]]
       /\ \/ /\ net' = air \cup Flood(n, n, d, BestLinkQuality)
             /\ frame' = [frame EXCEPT ![n] = fr]
          \/ /\ net' = air
             /\ frame' = [frame EXCEPT ![n] = [fr EXCEPT ![f].state = "NO_ROUTE"]]

Init ==
  /\ table = [n \in Nodes |-> [k \in Slots |-> FreeEntry]]
  /\ timer = [n \in Nodes |-> FALSE]
  /\ busy = NoNode /\ at = 0
  /\ route = [n \in Nodes |-> [g \in Goals |-> NoNode]]
  /\ frame = [n \in Origins |-> [f \in Frames |-> [state |-> "IDLE", dst |-> NoNode]]]
  /\ net = {}
  /\ sent = 0 /\ lost = 0

-----------------------------------------------------------------------------
\* A timer handler runs to its end before its node does anything else, and shares
\* no state with the others, which may as well wait.
Idle == busy = NoNode

\* A frame to be sent to d waits for the discovery under way, or begins one, or is
\* given up when the table is full.
nwkRouteDiscoveryRequest(n, f, d) ==
  LET fr == [frame[n] EXCEPT ![f] = [state |-> "WAIT_FOR_ROUTE", dst |-> d]]
  IN \/ /\ FindEntry(table[n], n, d) # {}
        /\ frame' = [frame EXCEPT ![n] = fr]
        /\ UNCHANGED <<table, timer, net>>
     \/ /\ FindEntry(table[n], n, d) = {}
        /\ Begin(n, d, table[n], fr, f, net)
        /\ timer' = [timer EXCEPT ![n] = TRUE]
     \/ /\ FindEntry(table[n], n, d) = {}
        /\ \A k \in Slots : table[n][k].timeout > 0
        /\ frame' = [frame EXCEPT ![n][f] = [state |-> "NO_ROUTE", dst |-> d]]
        /\ UNCHANGED <<table, timer, net>>

\* nwkTxFrame and nwkRoutePrepareTx for a new frame without a route.
nwkTxFrame(n, f, d) ==
  /\ Idle
  /\ frame[n][f].state # "WAIT_FOR_ROUTE"
  /\ route[n][d] = NoNode
  /\ sent < MaxFrames /\ sent' = sent + 1
  /\ nwkRouteDiscoveryRequest(n, f, d)
  /\ UNCHANGED <<handler, route, lost>>

\* nwkRouteFrameSent, nwkRouteErrorReceived: the network layer gives a route up.
nwkRouteRemove(n, d) ==
  /\ Idle
  /\ route[n][d] # NoNode
  /\ lost < MaxRouteLosses /\ lost' = lost + 1
  /\ route' = [route EXCEPT ![n][d] = NoNode]
  /\ UNCHANGED <<table, timer, handler, frame, net, sent>>

-----------------------------------------------------------------------------
\* Faulty variant, for mutation: every copy of a request is taken, the worse ones too.
Ignores_Own(n, m, lq) ==
  \/ m.src = n
  \/ n \in NonRouting /\ n \notin Members[m.dst]
  \/ FindEntry(table[n], m.src, m.dst) = {} /\ \A k \in Slots : table[n][k].timeout > 0

\* A request that is of no use to the node that hears it.
Ignores(n, m, lq) ==
  \/ m.src = n
  \/ n \in NonRouting /\ n \notin Members[m.dst]
  \/ \E k \in FindEntry(table[n], m.src, m.dst) : lq <= table[n][k].flq
  \/ FindEntry(table[n], m.src, m.dst) = {} /\ \A k \in Slots : table[n][k].timeout > 0

\* The entry a request is kept in: the one of its discovery, or a new one.
EntryFor(t, k, s, d) == k \in FindEntry(t, s, d) \/ (FindEntry(t, s, d) = {} /\ IsNewEntry(t, k))

RequestReceived(n, m, lqi) ==
  LET lq == UpdateLq(m.lq, lqi)
      back == IF n \in Members[m.dst] THEN SendReply(n, m.from, m.src, m.dst, lq)
              ELSE Flood(n, m.src, m.dst, lq)
  IN /\ Idle
     /\ \/ /\ Ignores(n, m, lq)
           /\ net' = net \ {m}
           /\ UNCHANGED <<table, timer, route>>
        \/ /\ ~Ignores(n, m, lq)
           /\ \E k \in Slots :
                /\ EntryFor(table[n], k, m.src, m.dst)
                /\ table' = [table EXCEPT ![n][k] =
                     IF @.timeout = 0 THEN NewEntry(m.src, m.dst, m.from, lq)
                     ELSE [@ EXCEPT !.from = m.from, !.flq = lq]]
           /\ timer' = [timer EXCEPT ![n] = TRUE]
           /\ route' = IF n \in Members[m.dst]
                         THEN [route EXCEPT ![n] = UpdateEntry(@, m.src, m.from)] ELSE route
           /\ net' = (net \ {m}) \cup back
     /\ UNCHANGED <<handler, frame, sent, lost>>

\* Faulty variant, for mutation: any reply replaces the route.
Better_Any(n, k, m) == k \in FindEntry(table[n], m.src, m.dst)

\* A reply counts if it tells of a better way than the last one.
Better(n, k, m) == k \in FindEntry(table[n], m.src, m.dst) /\ m.lq > table[n][k].rlq

ReplyReceived(n, m) ==
  /\ Idle
  /\ \/ /\ ~\E k \in Slots : Better(n, k, m)
        /\ net' = net \ {m}
        /\ UNCHANGED <<table, route>>
     \/ \E k \in Slots :
          LET forward == UpdateEntry(route[n], m.dst, m.from)
              sender == table[n][k].from
          IN /\ Better(n, k, m)
             /\ table' = [table EXCEPT ![n][k].rlq = m.lq]
             /\ \/ /\ m.src = n
                   /\ route' = [route EXCEPT ![n] = forward]
                   /\ net' = net \ {m}
                \/ /\ m.src # n
                   /\ route' = [route EXCEPT ![n] = UpdateEntry(forward, m.src, sender)]
                   /\ net' = (net \ {m}) \cup SendReply(n, sender, m.src, m.dst, m.lq)
  /\ UNCHANGED <<timer, handler, frame, sent, lost>>

-----------------------------------------------------------------------------
(***************************************************************************)
(* nwkRouteDiscoveryTimerHandler, one entry per step.                      *)
(***************************************************************************)
Visits(n, k) ==
  /\ IF k = 1 THEN Idle /\ timer[n] ELSE busy = n /\ at = k
  /\ IF k < TableSize THEN busy' = n /\ at' = k + 1 ELSE busy' = NoNode /\ at' = 0

\* Faulty variant, for mutation: the timer is not started again.
Restarts_Once(n, k) == timer' = [timer EXCEPT ![n] = FALSE]

\* The one-shot timer is started again at the end if an entry still counts down. (One
\* begun from within the handler counts down as well, and has started it already.)
Restarts(n, k) ==
  timer' = [timer EXCEPT ![n] = k = TableSize /\ \E j \in Slots : table'[n][j].timeout > 0]

Ages(n, k) ==
  /\ Visits(n, k)
  /\ table[n][k].timeout > 1
  /\ table' = [table EXCEPT ![n][k].timeout = @ - 1]
  /\ Restarts(n, k)
  /\ UNCHANGED <<route, frame, net, sent, lost>>

\* Assumption on the radio and the buffers: a flood does not outlive the entries it
\* leaves (milliseconds against a second): when one expires, what is still in the
\* air of that discovery counts as lost.
Outlived(n, e) == {m \in net : m.src = e.src /\ m.dst = e.dst}

\* nwkRouteDiscoveryDone for entry e of node n, whose table is t by now: the frames
\* for e.dst are given up, or given to nwkTxFrame, which sends them if there is a
\* route and else begins again.
Done(n, e, t, air) ==
  LET W == Waiting(n, e.dst)
      found == e.rlq # NoLink
      Leave(state) == frame' = [frame EXCEPT ![n] =
                        [f \in Frames |-> IF f \in W THEN [@[f] EXCEPT !.state = state] ELSE @[f]]]
      begins == W # {} /\ found /\ route[n][e.dst] = NoNode /\ FindEntry(t, n, e.dst) = {}
  IN \/ /\ ~begins
        /\ table' = [table EXCEPT ![n] = t]
        /\ net' = air
        /\ IF ~found THEN Leave("NO_ROUTE")
           ELSE IF route[n][e.dst] # NoNode THEN Leave("SENT") ELSE frame' = frame
     \/ /\ begins
        /\ \E f \in W : Begin(n, e.dst, t, frame[n], f, air)

\* An entry of the node's own discoveries ends. The code does not tell an entry that
\* has just timed out from one that was free already.
Ends(n, k) ==
  LET e == table[n][k]
  IN /\ Visits(n, k)
     /\ e.timeout = 0
     /\ e.src = n
     /\ Done(n, e, table[n], net)
     /\ Restarts(n, k)
     /\ UNCHANGED <<route, sent, lost>>

\* Faulty variant, for mutation: the frames of a discovery that ends are forgotten.
Expires_Silently(n, k) ==
  LET e == table[n][k]
  IN /\ Visits(n, k)
     /\ e.timeout = 1
     /\ net' = net \ Outlived(n, e)
     /\ table' = [table EXCEPT ![n][k].timeout = 0]
     /\ Restarts(n, k)
     /\ UNCHANGED <<route, frame, sent, lost>>

Expires(n, k) ==
  LET e == table[n][k]
      t == [table[n] EXCEPT ![k].timeout = 0]
  IN /\ Visits(n, k)
     /\ e.timeout = 1
     /\ IF e.src = n THEN Done(n, e, t, net \ Outlived(n, e))
        ELSE /\ table' = [table EXCEPT ![n] = t]
             /\ net' = net \ Outlived(n, e)
             /\ frame' = frame
     /\ Restarts(n, k)
     /\ UNCHANGED <<route, sent, lost>>

Skips(n, k) ==
  /\ Visits(n, k)
  /\ table[n][k].timeout = 0 /\ table[n][k].src # n
  /\ UNCHANGED <<table, route, frame, net, sent, lost>>
  /\ Restarts(n, k)

TimerHandler(n) ==
  \E k \in Slots : Ages(n, k) \/ Ends(n, k) \/ Expires(n, k) \/ Skips(n, k)

Next ==
  \/ \E n \in Origins, f \in Frames, d \in Targets : nwkTxFrame(n, f, d)
  \/ \E n \in Origins, d \in Targets : nwkRouteRemove(n, d)
  \/ \E m \in net : /\ m.type = "ROUTE_REQUEST"
                      /\ \E lqi \in Lqis[<<m.from, m.to>>] : RequestReceived(m.to, m, lqi)
  \/ \E m \in net : m.type = "ROUTE_REPLY" /\ ReplyReceived(m.to, m)
  \/ \E n \in Nodes : TimerHandler(n)

Spec == Init /\ [][Next]_vars

\* An origin's main loop runs and its timer comes due, and a handler that has begun
\* returns. Nothing else is assumed of the other nodes, and nothing of the frames in
\* the air: any of them may be lost.
Fairness == /\ \A n \in Origins : WF_vars(TimerHandler(n))
            /\ WF_vars(\E n \in Nodes : busy = n /\ TimerHandler(n))

FairSpec == Spec /\ Fairness

-----------------------------------------------------------------------------
(***************************************************************************)
(* Properties.                                                             *)
(***************************************************************************)

\* Every variable has the type of the C variable it stands for.
TypeOK ==
  /\ table \in [Nodes -> [Slots -> Entries]]
  /\ timer \in [Nodes -> BOOLEAN]
  /\ busy \in Nodes \cup {NoNode} /\ at \in 0..TableSize
  /\ route \in [Nodes -> [Goals -> Nodes \cup {NoNode}]]
  /\ frame \in [Origins -> [Frames -> FrameRecords]]
  /\ sent \in 0..MaxFrames /\ lost \in 0..MaxRouteLosses

\* A relation without a cycle: every set of nodes has one whose successors are
\* outside of it.
Acyclic(R) == \A S \in (SUBSET Nodes) \ {{}} : \E n \in S : \A m \in S : <<n, m>> \notin R

\* The steps of the way back to s, and of the routes to d.
Back(s, d) ==
  {e \in Nodes \X Nodes : \E k \in FindEntry(table[e[1]], s, d) : table[e[1]][k].from = e[2]}
Ways(d) == {e \in Nodes \X Nodes : route[e[1]][d] = e[2] /\ e[1] \notin Members[d]}

\* Wherever requests cross, improve on each other, expire and are repeated, the way
\* back they leave for the reply (nwkRouteDiscoveryRequestReceived's senderAddr)
\* never runs in a circle.
WayBackAcyclic == \A s \in Origins, d \in Targets : Acyclic(Back(s, d))

\* However replies overtake each other and arrive late, the routes they leave to the
\* node sought (nwkRouteDiscoveryReplyReceived's first nwkRouteUpdateEntry) never
\* run in a circle. This is about one origin: see README for two.
RoutesAcyclic == \A d \in Targets : Acyclic(Ways(d))

\* No frame waits without a discovery that will end: while a frame waits for d, the
\* table has a live entry of the node for d, and the one-shot timer runs or its handler
\* does. That the handler comes to the entry, or starts the timer again, is left to
\* EveryWaitEnds.
WaitCovered ==
  \A n \in Origins, d \in Targets :
    Waiting(n, d) # {} =>
      /\ FindEntry(table[n], n, d) # {}
      /\ timer[n] \/ busy = n

\* Every frame that waits for a route is sent or given up in the end, even when
\* every request and reply is lost.
EveryWaitEnds ==
  \A n \in Origins, f \in Frames :
    frame[n][f].state = "WAIT_FOR_ROUTE" ~> frame[n][f].state # "WAIT_FOR_ROUTE"

\* sysConfig.h gives a discovery NWK_ROUTE_DISCOVERY_TIMEOUT, 1000 ms: a frame is
\* not given up while a discovery for it has more than a timer interval to go.
DiscoveryHasItsTime ==
  [][\A n \in Origins, d \in Targets, f \in Frames :
       /\ f \in Waiting(n, d)
       /\ frame'[n][f].state = "NO_ROUTE"
       => \A k \in FindEntry(table[n], n, d) : table[n][k].timeout <= 1]_vars
=============================================================================
