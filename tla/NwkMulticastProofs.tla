------------------------- MODULE NwkMulticastProofs -------------------------
(***************************************************************************)
(* Proofs about NwkMulticast, for any network, any number of group slots   *)
(* and any radii a header can hold.                                        *)
(***************************************************************************)
EXTENDS NwkMulticast, FiniteSetTheorems, TLAPS

-----------------------------------------------------------------------------
(***************************************************************************)
(* The inductive invariant: what is left of the radius of a copy is what   *)
(* its relays have not spent. RadiiRespected alone says nothing of what is *)
(* left, and of the radius of the other kind.                              *)
(***************************************************************************)
Spent(copy, kind) == IF copy.kind = kind THEN copy.run ELSE 0

Accounted(copy) ==
  /\ \A kind \in Kinds : copy.radius[kind] + Spent(copy, kind) = maxRadius[kind]
  /\ ~copy.flooded => copy.run = 0

RadiiSpent == \A copy \in air : Accounted(copy)

Unspent == \A frame \in routing : frame.radius = maxRadius

Inv == TypeOK /\ RadiiSpent /\ Unspent

LEMMA KindsAre == \A n \in Node : KindOf(n) \in Kinds
BY DEF Kinds, KindOf

LEMMA RadiiFit ==
  ASSUME TypeOK
  PROVE  /\ maxRadius \in [Kinds -> 0..15] /\ Neighbours \in [Node -> SUBSET Node]
         /\ \A copy \in air : /\ copy.to \in Node /\ copy.flooded \in BOOLEAN
                              /\ copy.radius \in [Kinds -> 0..15]
                              /\ copy.kind \in Kinds /\ copy.run \in 0..16
BY MulticastAssumption DEF TypeOK, Copies

\* A radius that is not used up is one less after a relay.
LEMMA LessIsOneLess == \A radius \in 0..15 : radius # 0 => Less(radius) = radius - 1
BY DEF Less

\* The copies of a flood that no relay has passed on.
LEMMA FloodIsAccounted ==
  ASSUME NEW n \in Node, NEW radius \in [Kinds -> 0..15], NEW kind \in Kinds, NEW run \in 0..16,
         Neighbours \in [Node -> SUBSET Node],
         \A k \in Kinds : radius[k] + (IF kind = k THEN run ELSE 0) = maxRadius[k]
  PROVE  \A copy \in Flood(n, radius, kind, run) : copy \in Copies /\ Accounted(copy)
<1> TAKE copy \in Flood(n, radius, kind, run)
<1>1. PICK m \in Neighbours[n] :
        copy = [to |-> m, flooded |-> TRUE, radius |-> radius, kind |-> kind, run |-> run]
  BY DEF Flood
<1>2. m \in Node
  OBVIOUS
<1>3. copy \in Copies
  BY <1>1, <1>2 DEF Copies
<1>4. copy.flooded = TRUE /\ copy.radius = radius /\ copy.kind = kind /\ copy.run = run
  BY <1>1
<1> QED BY <1>3, <1>4 DEF Accounted, Spent

LEMMA UnicastIsAccounted ==
  ASSUME NEW m \in Node, maxRadius \in [Kinds -> 0..15]
  PROVE  Unicast(m, maxRadius) \in Copies /\ Accounted(Unicast(m, maxRadius))
<1>1. "nonMember" \in Kinds
  BY DEF Kinds
<1>2. Unicast(m, maxRadius) \in Copies
  BY <1>1 DEF Unicast, Copies
<1> QED BY <1>1, <1>2 DEF Unicast, Accounted, Spent

\* The copies of a node that sends a frame which no relay has passed on.
LEMMA PreparedIsAccounted ==
  ASSUME NEW n \in Node, Neighbours \in [Node -> SUBSET Node], maxRadius \in [Kinds -> 0..15],
         NEW copies \in Prepared(n, maxRadius) \cup {Flood(n, maxRadius, KindOf(n), 0)}
  PROVE  \A copy \in copies : copy \in Copies /\ Accounted(copy)
<1>1. "member" \in Kinds /\ KindOf(n) \in Kinds /\ 0 \in 0..16
  BY KindsAre DEF Kinds
<1>2. \A kind, k \in Kinds : maxRadius[k] + (IF kind = k THEN 0 ELSE 0) = maxRadius[k]
  OBVIOUS
<1>3. \A kind \in Kinds : \A c \in Flood(n, maxRadius, kind, 0) : c \in Copies /\ Accounted(c)
  BY <1>1, <1>2, FloodIsAccounted
<1>4. \A m \in Neighbours[n] : Unicast(m, maxRadius) \in Copies /\ Accounted(Unicast(m, maxRadius))
  BY UnicastIsAccounted
<1>5. CASE copies \in {Flood(n, maxRadius, "member", 0), Flood(n, maxRadius, KindOf(n), 0)}
  BY <1>1, <1>3, <1>5
<1>6. CASE \E m \in Neighbours[n] : copies = {Unicast(m, maxRadius)}
  BY <1>4, <1>6
<1> QED BY <1>5, <1>6 DEF Prepared

\* A relay pays for its copies with the radius of its own kind.
LEMMA RelayIsAccounted ==
  ASSUME Inv, NEW copy \in air
  PROVE  \A c \in Relayed(copy.to, copy) : c \in Copies /\ Accounted(c)
<1> DEFINE kind == KindOf(copy.to)
           radius == [maxRadius EXCEPT ![kind] = Less(copy.radius[kind])]
           run == IF copy.kind = kind THEN copy.run + 1 ELSE 1
<1>1. kind \in Kinds
  BY RadiiFit, KindsAre DEF Inv
<1>2. /\ maxRadius \in [Kinds -> 0..15] /\ Neighbours \in [Node -> SUBSET Node]
      /\ copy.to \in Node /\ copy.radius \in [Kinds -> 0..15]
      /\ copy.kind \in Kinds /\ copy.run \in 0..16
  BY RadiiFit DEF Inv
<1>3. copy.radius[kind] + (IF copy.kind = kind THEN copy.run ELSE 0) = maxRadius[kind]
  BY <1>1 DEF Inv, RadiiSpent, Accounted, Spent
<1>4. Relayed(copy.to, copy) = IF copy.radius[kind] = 0 THEN {} ELSE Flood(copy.to, radius, kind, run)
  BY DEF Relayed, Relay
<1> HIDE DEF kind
<1> SUFFICES ASSUME copy.radius[kind] # 0
             PROVE  \A c \in Flood(copy.to, radius, kind, run) : c \in Copies /\ Accounted(c)
  BY <1>4
<1>5. Less(copy.radius[kind]) = copy.radius[kind] - 1 /\ copy.radius[kind] \in 1..15
      /\ maxRadius[kind] \in 0..15
  BY <1>1, <1>2, LessIsOneLess
<1>6. /\ radius \in [Kinds -> 0..15] /\ radius[kind] = copy.radius[kind] - 1
      /\ \A k \in Kinds : k # kind => radius[k] = maxRadius[k]
  <2>1. copy.radius[kind] - 1 \in 0..15
    BY <1>5
  <2> QED BY <1>1, <1>2, <1>5, <2>1
<1> HIDE DEF radius
<1>7. run \in 0..16 /\ run + radius[kind] = maxRadius[kind]
  <2>1. CASE copy.kind = kind
    BY <2>1, <1>2, <1>3, <1>5, <1>6
  <2>2. CASE copy.kind # kind
    BY <2>2, <1>3, <1>5, <1>6
  <2> QED BY <2>1, <2>2
<1> HIDE DEF run
<1>8. ASSUME NEW k \in Kinds PROVE radius[k] + (IF kind = k THEN run ELSE 0) = maxRadius[k]
  <2>1. CASE kind = k
    BY <1>6, <1>7, <2>1, <1>5
  <2>2. CASE kind # k
    BY <1>2, <1>6, <2>2
  <2> QED BY <2>1, <2>2
<1> QED BY <1>1, <1>2, <1>6, <1>7, <1>8, FloodIsAccounted

-----------------------------------------------------------------------------
(***************************************************************************)
(* Each action keeps the invariant.                                        *)
(***************************************************************************)
LEMMA InitInv == Init => Inv
<1> SUFFICES ASSUME Init PROVE Inv
  OBVIOUS
<1>1. MaxChanges \in Nat
  BY MulticastAssumption
<1> QED BY <1>1 DEF Init, Inv, TypeOK, RadiiSpent, Unspent

\* A step that changes no more than the copies on their way and what was heard.
LEMMA CopiesChange ==
  ASSUME Inv, UNCHANGED <<nwkGroups, maxRadius, changes>>, src' \in Node \cup {Nobody},
         seen' \subseteq Node, indicated' \subseteq seen', intact' \in BOOLEAN,
         \A c \in air' : c \in air \/ (c \in Copies /\ Accounted(c)),
         \A f \in routing' : f \in routing \/ (f \in Routed /\ f.radius = maxRadius)
  PROVE  Inv'
<1>1. air' \subseteq Copies /\ routing' \subseteq Routed
  BY DEF Inv, TypeOK
<1>2. TypeOK'
  BY <1>1 DEF Inv, TypeOK
<1>3. RadiiSpent' /\ Unspent'
  BY DEF Inv, RadiiSpent, Unspent, Accounted, Spent
<1> QED BY <1>2, <1>3 DEF Inv

LEMMA ChangeInv ==
  ASSUME Inv, NEW n \in Node, NEW from, NEW to \in {Group, NWK_GROUP_FREE}, Change(n, from, to)
  PROVE  Inv'
<1>1. PICK i \in 1..GroupSlots : nwkGroups' = [nwkGroups EXCEPT ![n][i] = to]
  BY DEF Change, nwkGroupSwitch
<1>2. nwkGroups \in [Node -> [1..GroupSlots -> {Group, NWK_GROUP_FREE}]]
  BY DEF Inv, TypeOK
<1>3. nwkGroups' \in [Node -> [1..GroupSlots -> {Group, NWK_GROUP_FREE}]]
  BY <1>1, <1>2
<1>4. /\ changes' \in 0..MaxChanges /\ intact' \in BOOLEAN
      /\ UNCHANGED <<src, maxRadius, air, routing, seen, indicated>>
  BY MulticastAssumption DEF Inv, TypeOK, Change
<1>5. TypeOK'
  BY <1>3, <1>4 DEF Inv, TypeOK
<1>6. RadiiSpent' /\ Unspent'
  BY <1>4 DEF Inv, RadiiSpent, Unspent, Accounted, Spent
<1> QED BY <1>5, <1>6 DEF Inv

LEMMA SendInv ==
  ASSUME Inv, NEW n \in Node, Send(n)
  PROVE  Inv'
<1>1. maxRadius \in [Kinds -> 0..15] /\ Neighbours \in [Node -> SUBSET Node]
  BY RadiiFit DEF Inv
<1>2. \A c \in air' : c \in Copies /\ Accounted(c)
  BY <1>1, PreparedIsAccounted DEF Send
<1>3. seen \subseteq Node /\ indicated \subseteq seen /\ intact' \in BOOLEAN
  BY DEF Inv, TypeOK, Send
<1> QED BY <1>2, <1>3, CopiesChange DEF Send

LEMMA ReceiveInv ==
  ASSUME Inv, NEW copy \in air, Receive(copy)
  PROVE  Inv'
<1> DEFINE n == copy.to
<1>1. /\ maxRadius \in [Kinds -> 0..15] /\ Neighbours \in [Node -> SUBSET Node]
      /\ n \in Node /\ copy.radius \in [Kinds -> 0..15]
  BY RadiiFit DEF Inv
<1>2. ~copy.flooded => copy.radius = maxRadius
  <2> SUFFICES ASSUME ~copy.flooded PROVE copy.radius = maxRadius
    OBVIOUS
  <2>1. ASSUME NEW k \in Kinds PROVE copy.radius[k] = maxRadius[k]
    BY <1>1 DEF Inv, RadiiSpent, Accounted, Spent
  <2> QED BY <1>1, <2>1
<1>3. /\ seen \subseteq Node /\ indicated \subseteq seen /\ src \in Node \cup {Nobody}
      /\ intact \in BOOLEAN
  BY DEF Inv, TypeOK
<1>4. UNCHANGED <<nwkGroups, src, maxRadius, intact, changes>>
  BY DEF Receive
<1>5. CASE air' = air \ {copy} /\ UNCHANGED <<routing, seen, indicated>>
  BY <1>3, <1>4, <1>5, CopiesChange
<1>6. CASE Handle(n, copy, air \ {copy})
  <2>1. seen' \subseteq Node /\ indicated' \subseteq seen'
    BY <1>1, <1>3, <1>6 DEF Handle
  <2>2. \A c \in Relayed(n, copy) : c \in Copies /\ Accounted(c)
    BY RelayIsAccounted
  <2>3. ~copy.flooded /\ NWK_GroupIsMember(n) =>
          \A c \in Flood(n, copy.radius, "member", 0) : c \in Copies /\ Accounted(c)
    <3>1. NWK_GroupIsMember(n) => Flood(n, maxRadius, "member", 0) \in Prepared(n, maxRadius)
      BY DEF Prepared
    <3> QED BY <1>1, <1>2, <3>1, PreparedIsAccounted
  <2>4. ~copy.flooded => [at |-> n, radius |-> copy.radius] \in Routed
    BY <1>1 DEF Routed
  <2>5. \A c \in air' : c \in air \/ (c \in Copies /\ Accounted(c))
    BY <1>6, <2>2, <2>3 DEF Handle
  <2>6. \A f \in routing' : f \in routing \/ (f \in Routed /\ f.radius = maxRadius)
    BY <1>2, <1>6, <2>4 DEF Handle
  <2> QED BY <1>3, <1>4, <2>1, <2>5, <2>6, CopiesChange
<1> QED BY <1>5, <1>6 DEF Receive

LEMMA RouteInv ==
  ASSUME Inv, NEW frame \in routing, nwkRouteFrame(frame)
  PROVE  Inv'
<1>1. /\ maxRadius \in [Kinds -> 0..15] /\ Neighbours \in [Node -> SUBSET Node]
      /\ frame.at \in Node /\ frame.radius = maxRadius
  BY RadiiFit DEF Inv, TypeOK, Routed, Unspent
<1>2. \A copies \in Prepared(frame.at, maxRadius) : \A c \in copies : c \in Copies /\ Accounted(c)
  BY <1>1, PreparedIsAccounted
<1>3. \A c \in air' : c \in air \/ (c \in Copies /\ Accounted(c))
  BY <1>1, <1>2 DEF nwkRouteFrame
<1>4. /\ seen \subseteq Node /\ indicated \subseteq seen /\ src \in Node \cup {Nobody}
      /\ intact \in BOOLEAN
  BY DEF Inv, TypeOK
<1> QED BY <1>3, <1>4, CopiesChange DEF nwkRouteFrame

LEMMA NextInv == Inv /\ [Next]_vars => Inv'
<1> SUFFICES ASSUME Inv, [Next]_vars PROVE Inv'
  OBVIOUS
<1>1. /\ seen \subseteq Node /\ indicated \subseteq seen /\ src \in Node \cup {Nobody}
      /\ intact \in BOOLEAN
  BY DEF Inv, TypeOK
<1>2. ASSUME NEW n \in Node, NWK_GroupAdd(n) \/ NWK_GroupRemove(n) PROVE Inv'
  BY <1>2, ChangeInv DEF NWK_GroupAdd, NWK_GroupRemove
<1>3. ASSUME NEW n \in Node, Send(n) PROVE Inv'
  BY <1>3, SendInv
<1>4. ASSUME NEW copy \in air, Receive(copy) PROVE Inv'
  BY <1>4, ReceiveInv
<1>5. ASSUME NEW copy \in air, Lose(copy) PROVE Inv'
  BY <1>1, <1>5, CopiesChange DEF Lose
<1>6. ASSUME NEW frame \in routing, nwkRouteFrame(frame) PROVE Inv'
  BY <1>6, RouteInv
<1>7. CASE UNCHANGED vars
  BY <1>1, <1>7, CopiesChange DEF vars
<1> QED BY <1>2, <1>3, <1>4, <1>5, <1>6, <1>7 DEF Next

-----------------------------------------------------------------------------
\* Whatever copies of a multicast frame are in the air, in whatever order they arrive
\* (nwkRxHandleReceivedFrame): the inductive invariant.
THEOREM MulticastInvariant == Spec => []Inv
<1>1. Init => Inv
  BY InitInv
<1>2. Inv /\ [Next]_vars => Inv'
  BY NextInv
<1> QED BY <1>1, <1>2, PTL DEF Spec

\* The radii of a copy in the air tell exactly how far it has come: what is left of the
\* radius of its last relay's kind and the relays of that kind in a row behind it make
\* the radius asked for, and the other radius is whole. So a relay is never charged
\* twice, and the copy is never sent whose radius went below zero.
THEOREM RadiiCountRelays == Spec => []RadiiSpent
<1>1. Inv => RadiiSpent
  BY DEF Inv
<1> QED BY <1>1, MulticastInvariant, PTL

\* nwkRxHandleReceivedFrame respects both radii in any network: no copy is passed on by
\* more members in a row, or more other nodes in a row, than the header asks for.
THEOREM RadiiAlwaysRespected == Spec => []RadiiRespected
<1>1. Inv => RadiiRespected
  <2> SUFFICES ASSUME Inv, NEW copy \in air PROVE copy.run <= maxRadius[copy.kind]
    BY DEF RadiiRespected
  <2>1. copy.radius[copy.kind] \in 0..15 /\ copy.run \in 0..16 /\ maxRadius[copy.kind] \in 0..15
        /\ copy.kind \in Kinds
    BY RadiiFit DEF Inv
  <2> QED BY <2>1 DEF Inv, RadiiSpent, Accounted, Spent
<1> QED BY <1>1, MulticastInvariant, PTL

-----------------------------------------------------------------------------
(***************************************************************************)
(* The flood of a frame that nothing is lost of. Its invariant: the relays *)
(* that a copy counts are different nodes that hang together, so its       *)
(* radius lasts while there is another such node; and whoever has not yet  *)
(* taken the frame, but hears one that has, has a copy on its way.         *)
(***************************************************************************)
Flooding == src # Nobody /\ intact

\* The nodes of the row of relays that end with m.
Row(S, m, kind, run) ==
  /\ S \subseteq seen \ {src} /\ IsFiniteSet(S) /\ Cardinality(S) = run /\ Connected(S)
  /\ \A n \in S : KindOf(n) = kind
  /\ m \in S

Counted(copy) ==
  copy.run > 0 => \E S \in SUBSET Node, m \in Node :
                    Row(S, m, copy.kind, copy.run) /\ copy.to \in Neighbours[m]

Reached(m) == m = src \/ m \in seen \/ \E copy \in air : copy.to = m

Spreads ==
  /\ src = Nobody => air = {} /\ routing = {} /\ seen = {}
  /\ src \notin seen
  /\ Flooding =>
       /\ routing = {}
       /\ \A copy \in air : copy.flooded /\ Counted(copy)
       /\ RadiiSuffice => \A n \in seen \cup {src} : \A m \in Neighbours[n] : Reached(m)
       /\ \A n \in seen : NWK_GroupIsMember(n) => n \in indicated

LEMMA OneHangsTogether == ASSUME NEW n PROVE Connected({n})
BY DEF Connected

LEMMA OneMoreHangsTogether ==
  ASSUME NEW S, NEW m \in S, NEW n, n \in Neighbours[m], Connected(S)
  PROVE  Connected(S \cup {n})
<1> DEFINE R == S \cup {n}
<1> SUFFICES ASSUME NEW T \in SUBSET R, T # {}, T # R
             PROVE  \E x \in T, y \in R \ T : x \in Neighbours[y] \/ y \in Neighbours[x]
  BY DEF Connected
<1>1. CASE T \cap S = {}
  <2>1. n \in T /\ m \in R \ T
    BY <1>1
  <2> QED BY <2>1
<1>2. CASE T \cap S = S
  <2>1. m \in T /\ n \in R \ T
    BY <1>2
  <2> QED BY <2>1
<1>3. CASE T \cap S # {} /\ T \cap S # S
  <2> DEFINE U == T \cap S
  <2>1. U \in (SUBSET S) \ {{}, S}
    BY <1>3
  <2>2. PICK x \in U, y \in S \ U : x \in Neighbours[y] \/ y \in Neighbours[x]
    BY <2>1 DEF Connected
  <2>3. x \in T /\ y \in R \ T
    BY <2>2
  <2> QED BY <2>2, <2>3
<1> QED BY <1>1, <1>2, <1>3

\* The node that takes a copy makes the row of its kind longer, or begins one.
LEMMA RowGrows ==
  ASSUME Inv, Spreads, Flooding, NEW copy \in air, copy.to \notin seen \cup {src},
         seen' = seen \cup {copy.to}, UNCHANGED <<nwkGroups, src, maxRadius>>
  PROVE  \E S \in SUBSET Node :
           Row(S, copy.to, KindOf(copy.to),
               IF copy.kind = KindOf(copy.to) THEN copy.run + 1 ELSE 1)'
<1> DEFINE n == copy.to
<1>1. /\ n \in Node /\ copy.run \in 0..16 /\ n \in seen' \ {src'}
      /\ seen \subseteq seen' /\ src' = src
  BY RadiiFit DEF Inv
<1>2. \A k : KindOf(k)' = KindOf(k)
  BY DEF KindOf, NWK_GroupIsMember
<1>3. \A S : Connected(S)' = Connected(S)
  BY DEF Connected
<1>4. CASE copy.kind = KindOf(n) /\ copy.run > 0
  <2>1. PICK S \in SUBSET Node, m \in Node : Row(S, m, copy.kind, copy.run) /\ n \in Neighbours[m]
    BY <1>4 DEF Spreads, Counted
  <2> DEFINE R == S \cup {n}
  <2>2. /\ S \subseteq seen \ {src} /\ IsFiniteSet(S) /\ Cardinality(S) = copy.run /\ Connected(S)
        /\ (\A k \in S : KindOf(k) = copy.kind) /\ m \in S
    BY <2>1 DEF Row
  <2>3. n \notin S
    BY <2>2
  <2>4. IsFiniteSet(R) /\ Cardinality(R) = copy.run + 1
    BY <2>2, <2>3, FS_AddElement
  <2>5. Connected(R)
    BY <2>1, <2>2, OneMoreHangsTogether
  <2>6. R \subseteq seen' \ {src'} /\ n \in R /\ R \in SUBSET Node
    BY <1>1, <2>2
  <2>7. \A k \in R : KindOf(k)' = KindOf(n)
    BY <1>2, <1>4, <2>2
  <2>8. Connected(R)'
    BY <1>3, <2>5
  <2> HIDE DEF R
  <2>9. Row(R, n, KindOf(n), copy.run + 1)'
    BY <1>2, <2>4, <2>6, <2>7, <2>8 DEF Row
  <2> QED BY <1>2, <1>4, <2>6, <2>9
<1>5. CASE ~(copy.kind = KindOf(n) /\ copy.run > 0)
  <2>1. IsFiniteSet({n}) /\ Cardinality({n}) = 1
    BY FS_Singleton
  <2>2. Connected({n})'
    BY <1>3, OneHangsTogether
  <2>3. Row({n}, n, KindOf(n), 1)'
    BY <1>1, <1>2, <2>1, <2>2 DEF Row
  <2>4. (IF copy.kind = KindOf(n) THEN copy.run + 1 ELSE 1) = 1
    BY <1>1, <1>5
  <2> QED BY <1>1, <1>2, <2>3, <2>4
<1> QED BY <1>4, <1>5

\* While the radii suffice no relay finds its radius used up.
LEMMA RadiusLasts ==
  ASSUME Inv, Spreads, Flooding, RadiiSuffice, NEW copy \in air, copy.to \notin seen \cup {src},
         seen' = seen \cup {copy.to}, UNCHANGED <<nwkGroups, src, maxRadius>>
  PROVE  copy.radius[KindOf(copy.to)] # 0
<1> DEFINE kind == KindOf(copy.to)
           run == IF copy.kind = kind THEN copy.run + 1 ELSE 1
<1>1. /\ kind \in Kinds /\ copy.run \in 0..16 /\ copy.radius[kind] \in 0..15
      /\ maxRadius[kind] \in 0..15
  BY RadiiFit, KindsAre DEF Inv
<1>2. copy.radius[kind] + (IF copy.kind = kind THEN copy.run ELSE 0) = maxRadius[kind]
  BY <1>1 DEF Inv, RadiiSpent, Accounted, Spent
<1>3. PICK S \in SUBSET Node : Row(S, copy.to, kind, run)'
  BY RowGrows
<1>4. /\ S \in SUBSET (Node \ {src}) /\ Cardinality(S) = run /\ Connected(S)
      /\ \A n \in S : KindOf(n) = kind
  <2>1. \A n : KindOf(n)' = KindOf(n)
    BY DEF KindOf, NWK_GroupIsMember
  <2>2. Connected(S)' = Connected(S)
    BY DEF Connected
  <2>3. kind' = kind /\ kind = KindOf(copy.to)
    BY <1>3, <2>1 DEF Row
  <2> QED BY <1>3, <2>1, <2>2, <2>3 DEF Row
<1>5. run <= maxRadius[kind]
  BY <1>1, <1>4 DEF RadiiSuffice
<1> QED BY <1>1, <1>2, <1>5

LEMMA SpreadsChange ==
  ASSUME Spreads, ~Flooding', UNCHANGED <<src, seen>>, src = Nobody => UNCHANGED <<air, routing>>
  PROVE  Spreads'
BY DEF Spreads

LEMMA SendSpreads ==
  ASSUME Spreads, Inv, NEW n \in Node, Send(n)
  PROVE  Spreads'
<1>1. /\ src' = n /\ seen = {} /\ seen' = {} /\ routing' = {} /\ src' # Nobody
  BY MulticastAssumption DEF Spreads, Send
<1> SUFFICES ASSUME Flooding'
             PROVE  /\ \A copy \in air' : copy.flooded /\ copy.run = 0
                    /\ \A m \in Neighbours[n] : \E copy \in air' : copy.to = m
  BY <1>1, \A copy \in air' : copy.run = 0 => Counted(copy)' DEF Spreads, Reached, Counted
<1>2. \A copy \in air' : copy.flooded
  BY DEF Send, Flooding
<1>3. PICK kind \in Kinds : air' = Flood(n, maxRadius, kind, 0)
  <2>1. CASE air' = Flood(n, maxRadius, KindOf(n), 0)
    BY <2>1, KindsAre
  <2>2. CASE air' = Flood(n, maxRadius, "member", 0)
    BY <2>2 DEF Kinds
  <2>3. ASSUME NEW m \in Neighbours[n], air' = {Unicast(m, maxRadius)} PROVE FALSE
    BY <1>2, <2>3 DEF Unicast
  <2> QED BY <2>1, <2>2, <2>3 DEF Send, Prepared
<1>4. \A copy \in air' : copy.run = 0
  BY <1>3 DEF Flood
<1>5. ASSUME NEW m \in Neighbours[n] PROVE \E copy \in air' : copy.to = m
  <2> DEFINE copy == [to |-> m, flooded |-> TRUE, radius |-> maxRadius, kind |-> kind, run |-> 0]
  <2>1. copy \in air' /\ copy.to = m
    BY <1>3 DEF Flood
  <2> QED BY <2>1
<1> QED BY <1>2, <1>4, <1>5

\* The copies of a relay go to all its neighbours and lengthen the row.
LEMMA RelaySpreads ==
  ASSUME Inv, Spreads, Flooding, NEW copy \in air, copy.to \notin seen \cup {src},
         seen' = seen \cup {copy.to}, UNCHANGED <<nwkGroups, src, maxRadius>>
  PROVE  /\ \A c \in Relayed(copy.to, copy) : c.flooded /\ Counted(c)'
         /\ RadiiSuffice => \A m \in Neighbours[copy.to] : \E c \in Relayed(copy.to, copy) : c.to = m
<1> DEFINE n == copy.to
           kind == KindOf(n)
           radius == [maxRadius EXCEPT ![kind] = Less(copy.radius[kind])]
           run == IF copy.kind = kind THEN copy.run + 1 ELSE 1
<1>1. Relayed(n, copy) = IF copy.radius[kind] = 0 THEN {} ELSE Flood(n, radius, kind, run)
  BY DEF Relayed, Relay
<1>2. n \in Node
  BY RadiiFit DEF Inv
<1>3. PICK S \in SUBSET Node : Row(S, n, kind, run)'
  BY RowGrows
<1>4. kind' = kind /\ run' = run /\ n' = n
  BY DEF KindOf, NWK_GroupIsMember
<1>5. RadiiSuffice => copy.radius[kind] # 0
  BY RadiusLasts
<1> HIDE DEF n, kind, radius, run
<1>6. ASSUME NEW c \in Relayed(n, copy) PROVE c.flooded /\ Counted(c)'
  <2>1. PICK m \in Neighbours[n] :
          c = [to |-> m, flooded |-> TRUE, radius |-> radius, kind |-> kind, run |-> run]
    BY <1>1, <1>6 DEF Flood
  <2>2. c.flooded /\ c.to \in Neighbours[n] /\ c.kind = kind /\ c.run = run
    BY <2>1
  <2>3. Row(S, n, c.kind, c.run)'
    BY <1>3, <1>4, <2>2 DEF Row
  <2>4. \E T \in SUBSET Node, k \in Node : Row(T, k, c.kind, c.run)' /\ c.to \in Neighbours[k]
    BY <1>2, <2>2, <2>3, <1>4
  <2> QED BY <2>2, <2>4 DEF Counted
<1>7. ASSUME RadiiSuffice, NEW m \in Neighbours[n] PROVE \E c \in Relayed(n, copy) : c.to = m
  <2> DEFINE c == [to |-> m, flooded |-> TRUE, radius |-> radius, kind |-> kind, run |-> run]
  <2>1. c \in Relayed(n, copy)
    BY <1>1, <1>5, <1>7 DEF Flood
  <2> QED BY <2>1
<1> QED BY <1>6, <1>7 DEF n

LEMMA ReceiveSpreads ==
  ASSUME Inv, Spreads, NEW copy \in air, Receive(copy)
  PROVE  Spreads'
<1> DEFINE n == copy.to
<1>1. src # Nobody /\ UNCHANGED <<nwkGroups, src, maxRadius, intact>> /\ src \notin seen
  BY DEF Spreads, Receive
<1>2. /\ \A k : NWK_GroupIsMember(k)' = NWK_GroupIsMember(k)
      /\ \A k : KindOf(k)' = KindOf(k)
      /\ \A S : Connected(S)' = Connected(S)
      /\ RadiiSuffice' = RadiiSuffice
  BY <1>1 DEF NWK_GroupIsMember, KindOf, Connected, RadiiSuffice
<1>3. CASE n \in seen \cup {src} /\ air' = air \ {copy} /\ UNCHANGED <<routing, seen, indicated>>
  <2>1. \A m : Reached(m) => Reached(m)'
    BY <1>1, <1>3 DEF Reached
  <2>2. \A c : Counted(c)' = Counted(c)
    BY <1>1, <1>2, <1>3 DEF Counted, Row
  <2> QED BY <1>1, <1>2, <1>3, <2>1, <2>2 DEF Spreads, Flooding
<1>4. CASE n \notin seen \cup {src} /\ Handle(n, copy, air \ {copy})
  <2>1. seen' = seen \cup {n} /\ src' \notin seen' /\ src' # Nobody
    BY <1>1, <1>4 DEF Handle
  <2> SUFFICES ASSUME Flooding
               PROVE  /\ routing' = {}
                      /\ \A c \in air' : c.flooded /\ Counted(c)'
                      /\ RadiiSuffice => \A k \in seen' \cup {src'} : \A m \in Neighbours[k] : Reached(m)'
                      /\ \A k \in seen' : NWK_GroupIsMember(k) => k \in indicated'
    BY <1>1, <1>2, <2>1 DEF Spreads, Flooding
  <2>2. /\ routing = {} /\ (\A c \in air : c.flooded /\ Counted(c))
        /\ RadiiSuffice => \A k \in seen \cup {src} : \A m \in Neighbours[k] : Reached(m)
        /\ \A k \in seen : NWK_GroupIsMember(k) => k \in indicated
    BY DEF Spreads
  <2>3. /\ routing' = {} /\ air' = (air \ {copy}) \cup Relayed(n, copy)
        /\ indicated' = IF NWK_GroupIsMember(n) THEN indicated \cup {n} ELSE indicated
    BY <1>4, <2>2 DEF Handle
  <2>4. /\ \A c \in Relayed(n, copy) : c.flooded /\ Counted(c)'
        /\ RadiiSuffice => \A m \in Neighbours[n] : \E c \in Relayed(n, copy) : c.to = m
    BY <1>1, <1>4, <2>1, RelaySpreads
  <2>5. \A c \in air : Counted(c)'
    <3> SUFFICES ASSUME NEW c \in air, c.run > 0
                 PROVE  \E S \in SUBSET Node, m \in Node :
                          Row(S, m, c.kind, c.run)' /\ c.to \in Neighbours[m]
      BY DEF Counted
    <3>1. PICK S \in SUBSET Node, m \in Node : Row(S, m, c.kind, c.run) /\ c.to \in Neighbours[m]
      BY <2>2 DEF Counted
    <3>2. Row(S, m, c.kind, c.run)'
      BY <1>1, <1>2, <2>1, <3>1 DEF Row
    <3> QED BY <3>1, <3>2
  <2>6. \A m : Reached(m) => Reached(m)'
    BY <1>1, <2>1, <2>3 DEF Reached
  <2>7. RadiiSuffice => \A m \in Neighbours[n] : Reached(m)'
    BY <2>3, <2>4 DEF Reached
  <2>8. \A k \in seen' : NWK_GroupIsMember(k) => k \in indicated'
    BY <2>1, <2>2, <2>3
  <2> QED BY <1>1, <2>1, <2>2, <2>3, <2>4, <2>5, <2>6, <2>7, <2>8
<1> QED BY <1>3, <1>4 DEF Receive, nwkRxRejectDuplicate

LEMMA NextSpreads == Inv /\ Spreads /\ [Next]_vars => Spreads'
<1> SUFFICES ASSUME Inv, Spreads, [Next]_vars PROVE Spreads'
  OBVIOUS
<1>1. ASSUME NEW n \in Node, NEW from, NEW to, Change(n, from, to) PROVE Spreads'
  <2>1. UNCHANGED <<src, air, routing, seen>> /\ intact' = (intact /\ src = Nobody)
    BY <1>1 DEF Change
  <2> QED BY <2>1, SpreadsChange DEF Flooding
<1>2. ASSUME NEW n \in Node, Send(n) PROVE Spreads'
  BY <1>2, SendSpreads
<1>3. ASSUME NEW copy \in air, Receive(copy) PROVE Spreads'
  BY <1>3, ReceiveSpreads
<1>4. ASSUME NEW copy \in air, Lose(copy) PROVE Spreads'
  <2>1. src # Nobody /\ UNCHANGED <<src, seen>> /\ ~intact'
    BY <1>4 DEF Lose, Spreads
  <2> QED BY <2>1, SpreadsChange DEF Flooding
<1>5. ASSUME NEW frame \in routing, nwkRouteFrame(frame) PROVE Spreads'
  <2>1. src # Nobody /\ ~Flooding /\ UNCHANGED <<src, seen, intact>>
    BY <1>5 DEF nwkRouteFrame, Spreads
  <2> QED BY <2>1, SpreadsChange DEF Flooding
<1>6. CASE UNCHANGED vars
  BY <1>6 DEF vars, Spreads, Flooding, Counted, Row, Reached, RadiiSuffice, Connected, KindOf,
       NWK_GroupIsMember
<1> QED BY <1>1, <1>2, <1>3, <1>4, <1>5, <1>6 DEF Next, NWK_GroupAdd, NWK_GroupRemove

\* A flood that is over, of which nothing was lost (nwkRxHandleReceivedFrame,
\* nwkTxBroadcastFrame), has come to all nodes that hang together with its sender, in
\* any network whose rows of members and of others the radii allow for.
THEOREM FloodAlwaysReachesAll == Spec => []FloodReachesAll
<1>1. Init => Spreads
  BY DEF Init, Spreads, Flooding
<1>2. Spreads => FloodReachesAll
  BY DEF Spreads, Flooding, Reached, FloodReachesAll
<1> QED BY <1>1, <1>2, NextSpreads, MulticastInvariant, PTL DEF Spec
=============================================================================
