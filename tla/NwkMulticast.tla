---------------------------- MODULE NwkMulticast ----------------------------
(***************************************************************************)
(* Multicast: one frame sent to a group, from nwkDataReqSendFrame through  *)
(* the multicast branch of nwkRxHandleReceivedFrame at every node it       *)
(* reaches, with the group tables of nwkGroup.c.                           *)
(*                                                                         *)
(* A member floods the frame; another node sends it along its route to the *)
(* group until a member takes it or the route ends. Without a route and    *)
(* without route discovery it floods the frame as well. The flood has a    *)
(* radius for members and one for other nodes, and each is restored by a   *)
(* relay of the other kind. A node takes one copy only: the duplicate      *)
(* table outlasts the flood. Any copy may be lost, also for want of a      *)
(* buffer, and they arrive in any order. A node may have a route or none,  *)
(* and a route may lead to any neighbour.                                  *)
(***************************************************************************)
EXTENDS Integers, FiniteSets

CONSTANTS
  Node,
  Neighbours,     \* [Node -> SUBSET Node]: who hears whom
  GroupSlots,     \* NWK_GROUPS_AMOUNT
  Radii,          \* the radii asked for: subset of 0..15
  MaxChanges      \* bound: calls that change a group table

Nobody == "nobody"

ASSUME MulticastAssumption ==
  /\ Nobody \notin Node
  /\ Neighbours \in [Node -> SUBSET Node]
  /\ {GroupSlots, MaxChanges} \subseteq Nat
  /\ Radii \subseteq 0..15

VARIABLES
  nwkGroups,      \* nwkGroups of each node
  src,            \* nwkSrcAddr of the frame, Nobody before it is sent
  maxRadius,      \* maxMemberRadius and maxNonMemberRadius of its header
  air,            \* copies on their way
  routing,        \* frames in NWK_RX_STATE_ROUTE
  seen,           \* nodes whose duplicate table holds the frame
  indicated,      \* nodes that have taken it for their endpoint, as members
  intact,         \* its sender flooded it, and no copy has been lost and no group
                  \* has changed since
  changes

vars == <<nwkGroups, src, maxRadius, air, routing, seen, indicated, intact, changes>>

Group == "group"             \* the group the frame is sent to
NWK_GROUP_FREE == "free"
Kinds == {"member", "nonMember"}

\* A copy on its way to one node: flooded, or along the route. run counts the relays
\* of the kind of the last one that have passed it on without one of the other kind.
Copies == [to : Node, flooded : BOOLEAN, radius : [Kinds -> 0..15],
           kind : Kinds, run : 0..16]

\* A frame that waits at a node for nwkRouteFrame.
Routed == [at : Node, radius : [Kinds -> 0..15]]

Init ==
  /\ nwkGroups = [n \in Node |-> [i \in 1..GroupSlots |-> NWK_GROUP_FREE]]
  /\ src = Nobody
  /\ maxRadius \in [Kinds -> Radii]
  /\ air = {} /\ routing = {} /\ seen = {} /\ indicated = {}
  /\ intact = TRUE /\ changes = 0

-----------------------------------------------------------------------------
(***************************************************************************)
(* The group table.                                                        *)
(***************************************************************************)
NWK_GroupIsMember(n) == \E i \in 1..GroupSlots : nwkGroups[n][i] = Group

KindOf(n) == IF NWK_GroupIsMember(n) THEN "member" ELSE "nonMember"

\* The first entry that is "from"; when there is none the call fails.
nwkGroupSwitch(n, from, to) ==
  \E i \in 1..GroupSlots :
    /\ nwkGroups[n][i] = from /\ \A j \in 1..(i - 1) : nwkGroups[n][j] # from
    /\ nwkGroups' = [nwkGroups EXCEPT ![n][i] = to]

Change(n, from, to) ==
  /\ changes < MaxChanges /\ changes' = changes + 1
  /\ nwkGroupSwitch(n, from, to)
  /\ intact' = (intact /\ src = Nobody)
  /\ UNCHANGED <<src, maxRadius, air, routing, seen, indicated>>

NWK_GroupAdd(n) == Change(n, NWK_GROUP_FREE, Group)
NWK_GroupRemove(n) == Change(n, Group, NWK_GROUP_FREE)

-----------------------------------------------------------------------------
Flood(n, radius, kind, run) ==
  {[to |-> m, flooded |-> TRUE, radius |-> radius, kind |-> kind, run |-> run] :
     m \in Neighbours[n]}

Unicast(m, radius) ==
  [to |-> m, flooded |-> FALSE, radius |-> radius, kind |-> "nonMember", run |-> 0]

\* nwkRoutePrepareTx, for a node that finds a route: the copies it sends. It asks again
\* whether the node is a member.
Prepared(n, radius) ==
  IF NWK_GroupIsMember(n) THEN {Flood(n, radius, "member", 0)}
  ELSE {{Unicast(m, radius)} : m \in Neighbours[n]}

\* nwkDataReqSendFrame. Without a route macDstAddr is NWK_ROUTE_UNKNOWN, the broadcast
\* address, unless a route is discovered first.
Send(n) ==
  /\ src = Nobody /\ src' = n
  /\ air' \in Prepared(n, maxRadius) \cup {Flood(n, maxRadius, KindOf(n), 0)}
  /\ intact' = \A copy \in air' : copy.flooded
  /\ UNCHANGED <<nwkGroups, maxRadius, routing, seen, indicated, changes>>

Less(radius) == (radius - 1) % 16    \* the fields are 4 bits wide

\* The copies of a relay of the kind, which leaves the radii.
Relay(n, copy, kind, radius) ==
  IF copy.radius[kind] = 0 THEN {}
  ELSE Flood(n, radius, kind, IF copy.kind = kind THEN copy.run + 1 ELSE 1)

\* Faulty variant, for mutation: a relay restores its own radius too.
Relayed_RestoresBoth(n, copy) == Relay(n, copy, KindOf(n), maxRadius)

\* Faulty variant, for mutation: a relay does not restore the radius of the other kind.
Relayed_RestoresNone(n, copy) ==
  LET kind == KindOf(n)
  IN Relay(n, copy, kind, [copy.radius EXCEPT ![kind] = Less(copy.radius[kind])])

\* A flooded copy is passed on if the radius of the relay's kind is not used up; the
\* other radius is restored.
Relayed(n, copy) ==
  LET kind == KindOf(n)
  IN Relay(n, copy, kind, [maxRadius EXCEPT ![kind] = Less(copy.radius[kind])])

nwkRxRejectDuplicate(n) == n \in seen

\* nwkRxHandleReceivedFrame, for a copy that has not been rejected. The member that
\* takes it from the route floods it with the radii it carries.
Handle(n, copy, rest) ==
  /\ seen' = seen \cup {n}
  /\ indicated' = IF NWK_GroupIsMember(n) THEN indicated \cup {n} ELSE indicated
  /\ \/ copy.flooded /\ air' = rest \cup Relayed(n, copy) /\ UNCHANGED routing
     \/ /\ ~copy.flooded /\ NWK_GroupIsMember(n)
        /\ air' = rest \cup Flood(n, copy.radius, "member", 0) /\ UNCHANGED routing
     \/ /\ ~copy.flooded /\ ~NWK_GroupIsMember(n)
        /\ air' = rest /\ routing' = routing \cup {[at |-> n, radius |-> copy.radius]}

Receive(copy) ==
  LET n == copy.to
  IN /\ IF n = src \/ nwkRxRejectDuplicate(n)
          THEN air' = air \ {copy} /\ UNCHANGED <<routing, seen, indicated>>
          ELSE Handle(n, copy, air \ {copy})
     /\ UNCHANGED <<nwkGroups, src, maxRadius, intact, changes>>

\* nwkRouteFrame: without a route the frame is freed, and its sender told.
nwkRouteFrame(frame) ==
  /\ routing' = routing \ {frame}
  /\ \/ \E copies \in Prepared(frame.at, frame.radius) : air' = air \cup copies
     \/ UNCHANGED air
  /\ UNCHANGED <<nwkGroups, src, maxRadius, seen, indicated, intact, changes>>

Lose(copy) ==
  /\ air' = air \ {copy} /\ intact' = FALSE
  /\ UNCHANGED <<nwkGroups, src, maxRadius, routing, seen, indicated, changes>>

Next ==
  \/ \E n \in Node : NWK_GroupAdd(n) \/ NWK_GroupRemove(n) \/ Send(n)
  \/ \E copy \in air : Receive(copy) \/ Lose(copy)
  \/ \E frame \in routing : nwkRouteFrame(frame)

Spec == Init /\ [][Next]_vars

-----------------------------------------------------------------------------
(***************************************************************************)
(* Properties.                                                             *)
(***************************************************************************)

\* Every variable has the type of the C variable it stands for.
TypeOK ==
  /\ nwkGroups \in [Node -> [1..GroupSlots -> {Group, NWK_GROUP_FREE}]]
  /\ src \in Node \cup {Nobody}
  /\ maxRadius \in [Kinds -> Radii]
  /\ air \subseteq Copies /\ routing \subseteq Routed
  /\ seen \subseteq Node /\ indicated \subseteq seen
  /\ intact \in BOOLEAN /\ changes \in 0..MaxChanges

\* No copy has been passed on by more members in a row, or by more other nodes in a
\* row, than the radii asked for, whoever sends it, however the two kinds follow each
\* other, copies overtake each other and nodes join and leave meanwhile.
RadiiRespected == \A copy \in air : copy.flooded => copy.run <= maxRadius[copy.kind]

\* Nodes that hang together.
Connected(S) ==
  \A T \in (SUBSET S) \ {{}, S} :
    \E m \in T, n \in S \ T : m \in Neighbours[n] \/ n \in Neighbours[m]

\* No more nodes of one kind hang together than its radius.
RadiiSuffice ==
  \A S \in SUBSET (Node \ {src}), kind \in Kinds :
    Connected(S) /\ (\A n \in S : KindOf(n) = kind) => Cardinality(S) <= maxRadius[kind]

\* A flood that is over has come to every node that hangs together with its sender, and
\* every member among them has it, if nothing was lost and the radii allow for the
\* longest row of each kind: although a node relays only the first copy it gets, which
\* need not have come the shortest way.
FloodReachesAll ==
  LET taken == seen \cup {src}
  IN src # Nobody /\ intact /\ air = {} /\ RadiiSuffice =>
       /\ \A n \in taken : Neighbours[n] \subseteq taken
       /\ \A n \in seen : NWK_GroupIsMember(n) => n \in indicated
=============================================================================
