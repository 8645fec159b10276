--------------------------- MODULE NwkRouteProofs ---------------------------
(***************************************************************************)
(* Proofs about NwkRoute for tables, ranks and scores of any size.         *)
(*                                                                         *)
(* The four invariants are proved together: a failed transmission keeps    *)
(* the score within its field only because a route in use has some left,   *)
(* and a new entry is the only one for its destination only because the    *)
(* search misses none. Every action but one writes a single entry, so the  *)
(* proof is about the new contents of an entry (EntryWritten); the other   *)
(* is the normalisation, which changes ranks only (Normalized).            *)
(***************************************************************************)
EXTENDS NwkRoute, TLAPS

Inv == TypeOK /\ EntriesSound /\ OneRoute /\ NextHopRelays

\* What an entry must be for the invariants, apart from the other entries.
Good(x) ==
  /\ x \in EntryType
  /\ Live(x) => x.score > 0
  /\ ~Live(x) => x.dst = Unknown /\ ~x.fixed
  /\ Live(x) /\ x.dst # Unknown => x.next = x.dst \/ x.next \notin NonRouting

\* The invariants are a condition on each entry, and one on pairs of them.
LEMMA InvByEntry ==
  Inv <=> /\ table \in [Entries -> EntryType]
          /\ \A e \in Entries : Good(table[e])
          /\ OneRoute
BY DEF Inv, TypeOK, EntriesSound, NextHopRelays, Good

\* A step that writes one good entry, whose destination no other entry has,
\* preserves the invariants.
LEMMA EntryWritten ==
  ASSUME Inv, NEW e \in Entries, NEW x, Good(x),
         table' = [table EXCEPT ![e] = x],
         x.dst # Unknown => \A f \in Entries \ {e} : table[f].dst # x.dst
  PROVE  Inv'
<1>1. x \in EntryType
  BY DEF Good
<1>2. /\ table \in [Entries -> EntryType]
      /\ \A f \in Entries : Good(table[f])
  BY InvByEntry
<1>3. /\ table'[e] = x
      /\ \A f \in Entries \ {e} : table'[f] = table[f]
  BY <1>2
<1>4. table' \in [Entries -> EntryType]
  BY <1>1, <1>2
<1>5. \A f \in Entries : Good(table'[f])
  BY <1>2, <1>3
<1>6. OneRoute'
  BY <1>3 DEF Inv, OneRoute
<1> QED
  BY <1>4, <1>5, <1>6 DEF Inv, TypeOK, EntriesSound, OneRoute, NextHopRelays, Good

\* Halving keeps a rank within its field, and on its side of the line between
\* the entries in use and the free ones.
LEMMA HalvedBounds ==
  ASSUME NEW rank \in 0..MaxRank
  PROVE  /\ Halved(rank) \in 0..(MaxRank - 1)
         /\ Halved(rank) >= 2 <=> rank >= 2
BY RouteAssumption DEF Halved

\* The route table of a node that has just started holds no route.
LEMMA InitInv == Init => Inv
<1> SUFFICES ASSUME Init PROVE Inv
  OBVIOUS
<1> DEFINE free == [dst |-> Unknown, next |-> Unknown, score |-> 0,
                    rank |-> 0, fixed |-> FALSE, lqi |-> 0]
<1>1. table = [e \in Entries |-> free]
  BY DEF Init
<1>2. free \in EntryType
  BY RouteAssumption DEF EntryType, Addresses, Lqis
<1>3. free.dst = Unknown /\ ~free.fixed /\ free.rank = 0
  OBVIOUS
<1>4. ~Live(free)
  BY <1>3 DEF Live
<1> HIDE DEF free
<1>5. \A e \in Entries : table[e] = free
  BY <1>1
<1> QED
  BY <1>1, <1>2, <1>3, <1>4, <1>5 DEF Inv, TypeOK, EntriesSound, OneRoute, NextHopRelays

\* What is known of an entry while the invariants hold, field by field.
Facts(e) ==
  /\ table[e].dst \in Addresses
  /\ table[e].next \in Addresses
  /\ table[e].score \in 0..DefaultScore
  /\ table[e].rank \in 0..(MaxRank - 1)
  /\ table[e].fixed \in BOOLEAN
  /\ table[e].lqi \in Lqis
  /\ table[e] \in EntryType
  /\ table[e].rank >= 2 => table[e].score > 0
  /\ ~(table[e].rank >= 2) => table[e].dst = Unknown /\ ~table[e].fixed
  /\ table[e].rank >= 2 /\ table[e].dst # Unknown
       => table[e].next = table[e].dst \/ table[e].next \notin NonRouting

LEMMA EntryFacts ==
  ASSUME Inv, NEW e \in Entries
  PROVE  Facts(e)
<1>1. table[e] \in EntryType
  BY DEF Inv, TypeOK
<1>2. Good(table[e])
  BY InvByEntry
<1> QED
  BY <1>1, <1>2 DEF Good, Live, EntryType, Facts

\* A new entry is good if its route leads through a node that relays.
LEMMA FreshGood ==
  ASSUME NEW x \in EntryType, NEW d \in Nodes, NEW n \in Nodes, NEW lqi \in Lqis,
         n = d \/ n \notin NonRouting
  PROVE  Good(Fresh(x, d, n, lqi)) /\ Fresh(x, d, n, lqi).dst = d
<1> DEFINE y == Fresh(x, d, n, lqi)
<1>1. /\ d \in Addresses /\ n \in Addresses
      /\ DefaultScore \in 0..DefaultScore /\ DefaultRank \in 0..(MaxRank - 1)
  BY RouteAssumption DEF Addresses
<1>2. y \in EntryType
  BY <1>1 DEF Fresh, EntryType
<1>3. y.dst = d /\ y.next = n /\ y.score = DefaultScore /\ y.rank = DefaultRank
  BY DEF Fresh, EntryType
<1> HIDE DEF y
<1>4. Good(y) /\ y.dst = d
  BY <1>2, <1>3, RouteAssumption DEF Good, Live
<1> QED
  BY <1>4 DEF y

\* A frame received writes the entry of its source, found or new.
LEMMA ReceivedStep ==
  ASSUME Inv, NEW src \in Nodes, NEW via \in Nodes, NEW lqi \in Lqis, NEW discovery \in BOOLEAN,
         nwkRouteFrameReceived(src, via, lqi, discovery)
  PROVE  Inv'
<1>1. via = src \/ via \notin NonRouting
  BY DEF nwkRouteFrameReceived, Learns
<1>2. src # Unknown /\ src \in Addresses /\ via \in Addresses
  BY RouteAssumption DEF Addresses
<1>3. CASE \E e \in Entries : /\ FindEntry(table, src, e)
                              /\ \/ table' = [table EXCEPT ![e] = [[@ EXCEPT !.lqi = lqi]
                                                 EXCEPT !.next = via, !.score = DefaultScore]]
                                 \/ table' = [table EXCEPT ![e] = [@ EXCEPT !.lqi = lqi]]
  <2>1. PICK e \in Entries : /\ FindEntry(table, src, e)
                             /\ \/ table' = [table EXCEPT ![e] = [[@ EXCEPT !.lqi = lqi]
                                                 EXCEPT !.next = via, !.score = DefaultScore]]
                                \/ table' = [table EXCEPT ![e] = [@ EXCEPT !.lqi = lqi]]
    BY <1>3
  <2>0. Facts(e)
    BY EntryFacts
  <2>2. table[e].dst = src /\ table[e].rank >= 2
    BY <2>1, <1>2, <2>0, RouteAssumption DEF FindEntry, Facts
  <2>3. \A f \in Entries \ {e} : table[f].dst # src
    BY <2>2, <1>2 DEF Inv, OneRoute
  <2>4. CASE table' = [table EXCEPT ![e] = [[@ EXCEPT !.lqi = lqi]
                                 EXCEPT !.next = via, !.score = DefaultScore]]
    <3> DEFINE heard == [table[e] EXCEPT !.lqi = lqi]
               x == [heard EXCEPT !.next = via, !.score = DefaultScore]
    <3>0. table' = [table EXCEPT ![e] = x]
      BY <2>4
    <3>1. /\ heard \in EntryType
          /\ heard.dst = src /\ heard.rank = table[e].rank
      BY <2>2, <2>0 DEF Facts, EntryType
    <3> HIDE DEF heard
    <3>2. DefaultScore \in 0..DefaultScore
      BY RouteAssumption
    <3>3. x \in EntryType
      BY <3>1, <3>2, <1>2 DEF EntryType
    <3>4. x.dst = src /\ x.next = via /\ x.score = DefaultScore /\ x.rank = table[e].rank
      BY <3>1 DEF EntryType
    <3> HIDE DEF x
    <3>5. Good(x)
      BY <3>3, <3>4, <2>2, <1>1, RouteAssumption DEF Good, Live
    <3> QED
      BY <3>0, <3>4, <3>5, <2>3, EntryWritten
  <2>5. CASE table' = [table EXCEPT ![e] = [@ EXCEPT !.lqi = lqi]]
    <3> DEFINE x == [table[e] EXCEPT !.lqi = lqi]
    <3>1. /\ x \in EntryType
          /\ x.dst = src /\ x.next = table[e].next
          /\ x.score = table[e].score /\ x.rank = table[e].rank
      BY <2>2, <2>0 DEF Facts, EntryType
    <3>2. table' = [table EXCEPT ![e] = x]
      BY <2>5
    <3> HIDE DEF x
    <3>3. Good(x)
      BY <3>1, <2>2, <2>0, <1>2 DEF Good, Live, Facts
    <3>4. x.dst = src
      BY <3>1
    <3> QED
      BY <3>2, <3>3, <3>4, <2>3, EntryWritten
  <2> QED
    BY <2>1, <2>4, <2>5
<1>4. CASE NotFound(table, src) /\ \E e \in Entries :
             /\ NewEntry(table, e)
             /\ table' = [table EXCEPT ![e] = Fresh(@, src, via, lqi)]
  <2>1. PICK e \in Entries : table' = [table EXCEPT ![e] = Fresh(table[e], src, via, lqi)]
    BY <1>4 DEF Inv, TypeOK
  <2>0. Facts(e)
    BY EntryFacts
  <2>3. Good(Fresh(table[e], src, via, lqi)) /\ Fresh(table[e], src, via, lqi).dst = src
    BY <2>0, <1>1, <1>2, FreshGood DEF Facts
  <2>5. \A f \in Entries \ {e} : table[f].dst # src
    BY <1>4 DEF NotFound
  <2> QED
    BY <2>1, <2>3, <2>5, EntryWritten
<1> QED
  BY <1>3, <1>4 DEF nwkRouteFrameReceived

\* Freeing an entry keeps the invariants.
LEMMA FreedStep ==
  ASSUME Inv, NEW e \in Entries, table[e].rank >= 2, NEW s \in 0..DefaultScore,
         s > 0 \/ ~table[e].fixed,
         table' = [table EXCEPT ![e] = Freed([table[e] EXCEPT !.score = s])]
  PROVE  Inv'
<1> DEFINE rated == [table[e] EXCEPT !.score = s]
<1>0. Facts(e)
  BY EntryFacts
<1>1. /\ rated \in EntryType
      /\ rated.dst = table[e].dst /\ rated.next = table[e].next /\ rated.score = s
      /\ rated.rank = table[e].rank /\ rated.fixed = table[e].fixed
  BY <1>0 DEF Facts, EntryType
<1>2. table' = [table EXCEPT ![e] = Freed(rated)]
  OBVIOUS
<1> HIDE DEF rated
<1>3. CASE table[e].fixed
  <2>1. Freed(rated) = rated
    BY <1>1, <1>3 DEF Freed
  <2>2. Good(rated)
    BY <1>1, <1>3, <1>0, RouteAssumption DEF Good, Live, Facts
  <2>3. rated.dst # Unknown => \A f \in Entries \ {e} : table[f].dst # rated.dst
    BY <1>1 DEF Inv, OneRoute
  <2>4. table' = [table EXCEPT ![e] = rated]
    BY <1>2, <2>1
  <2> QED
    BY <2>2, <2>3, <2>4, EntryWritten
<1>4. CASE ~table[e].fixed
  <2> DEFINE y == [rated EXCEPT !.dst = Unknown, !.rank = 0]
  <2>1. table' = [table EXCEPT ![e] = y]
    BY <1>1, <1>2, <1>4 DEF Freed
  <2>2. Unknown \in Addresses /\ 0 \in 0..(MaxRank - 1)
    BY RouteAssumption DEF Addresses
  <2>3. y \in EntryType
    BY <1>1, <2>2 DEF EntryType
  <2>4. y.dst = Unknown /\ y.rank = 0 /\ y.fixed = table[e].fixed
    BY <1>1 DEF EntryType
  <2> HIDE DEF y
  <2>5. Good(y)
    BY <2>3, <2>4, <1>4 DEF Good, Live
  <2> QED
    BY <2>1, <2>4, <2>5, EntryWritten
<1> QED
  BY <1>3, <1>4

\* An entry as the normalisation meets it: its rank may have reached the maximum.
Counted == [dst : Addresses, next : Addresses, score : 0..DefaultScore,
            rank : 0..MaxRank, fixed : BOOLEAN, lqi : Lqis]

\* The normalisation changes the ranks only, and none across the line.
LEMMA Normalized ==
  ASSUME Inv, NEW e \in Entries, table[e].rank >= 2, NEW x \in Counted,
         x.dst = table[e].dst, x.next = table[e].next, x.fixed = table[e].fixed,
         x.score = DefaultScore, x.rank = MaxRank,
         table' = NormalizeRanks([table EXCEPT ![e] = x])
  PROVE  Inv'
<1> DEFINE rated == [table EXCEPT ![e] = x]
<1>0. table \in [Entries -> EntryType]
  BY DEF Inv, TypeOK
<1>1. \A f \in Entries \ {e} : rated[f] = table[f]
  BY <1>0
<1>2. rated[e] = x
  BY <1>0
<1>3. table' = [f \in Entries |-> [rated[f] EXCEPT !.rank = Halved(rated[f].rank)]]
  BY DEF NormalizeRanks
<1> HIDE DEF rated
<1>4. ASSUME NEW f \in Entries
      PROVE  /\ Good(table'[f])
             /\ table'[f].dst = table[f].dst
  <2>0. Facts(f)
    BY EntryFacts
  <2>1. /\ rated[f].dst = table[f].dst /\ rated[f].next = table[f].next
        /\ rated[f].fixed = table[f].fixed
        /\ rated[f].rank \in 0..MaxRank
        /\ rated[f].rank >= 2 <=> table[f].rank >= 2
        /\ rated[f].rank >= 2 => rated[f].score > 0
        /\ rated[f] \in Counted
    <3>1. CASE f = e
      BY <3>1, <1>2, RouteAssumption
    <3>2. CASE f # e
      <4>1. rated[f] = table[f]
        BY <3>2, <1>1
      <4>2. table[f].rank \in 0..MaxRank
        BY <2>0, RouteAssumption DEF Facts
      <4>3. table[f] \in Counted
        BY <4>2, <2>0 DEF Facts, EntryType, Counted
      <4> QED
        BY <4>1, <4>2, <4>3, <2>0 DEF Facts
    <3> QED
      BY <3>1, <3>2
  <2>2. /\ Halved(rated[f].rank) \in 0..(MaxRank - 1)
        /\ Halved(rated[f].rank) >= 2 <=> table[f].rank >= 2
    BY <2>1, HalvedBounds
  <2>3. table'[f] = [rated[f] EXCEPT !.rank = Halved(rated[f].rank)]
    BY <1>3
  <2> DEFINE k == Halved(rated[f].rank)
  <2>4. /\ k \in 0..(MaxRank - 1)
        /\ k >= 2 <=> table[f].rank >= 2
        /\ table'[f] = [rated[f] EXCEPT !.rank = k]
    BY <2>2, <2>3
  <2> HIDE DEF k
  <2>5. /\ table'[f] \in EntryType
        /\ table'[f].dst = table[f].dst /\ table'[f].next = table[f].next
        /\ table'[f].fixed = table[f].fixed /\ table'[f].rank = k
        /\ table'[f].score = rated[f].score
    BY <2>1, <2>4 DEF EntryType, Counted
  <2>6. Live(table'[f]) <=> table[f].rank >= 2
    BY <2>4, <2>5 DEF Live
  <2> QED
    BY <2>0, <2>1, <2>5, <2>6 DEF Good, Facts
<1>5. table' \in [Entries -> EntryType]
  <2>1. \A f \in Entries : table'[f] \in EntryType
    BY <1>4 DEF Good
  <2> QED
    BY <2>1, <1>3
<1>6. OneRoute'
  BY <1>4 DEF Inv, OneRoute
<1> QED
  BY <1>4, <1>5, <1>6 DEF Inv, TypeOK, EntriesSound, OneRoute, NextHopRelays, Good

\* The end of a transmission writes the entry of the destination, or normalises.
LEMMA SentStep ==
  ASSUME Inv, NEW d \in Nodes, nwkRouteFrameSent(d)
  PROVE  Inv'
<1>1. PICK e \in Entries : /\ FindEntry(table, d, e)
                           /\ ~table[e].fixed
                           /\ FrameDelivered(e) \/ FrameFailed(e)
  BY DEF nwkRouteFrameSent
<1>0. Facts(e)
  BY <1>1, EntryFacts
<1>2. table[e].dst = d /\ d # Unknown
  BY <1>1, RouteAssumption DEF FindEntry
<1>3. table[e].rank >= 2
  BY <1>2, <1>0, RouteAssumption DEF Facts
<1>4. table[e].score - 1 \in 0..DefaultScore
  BY <1>3, <1>0, RouteAssumption DEF Facts
<1>5. \A f \in Entries \ {e} : table[f].dst # d
  BY <1>2 DEF Inv, OneRoute
<1>6. ASSUME FrameFailed(e) PROVE Inv'
  <2> DEFINE s == table[e].score - 1
             rated == [table[e] EXCEPT !.score = s]
  <2>1. table' = [table EXCEPT ![e] = IF rated.score = 0 THEN Freed(rated) ELSE rated]
    BY <1>6 DEF FrameFailed
  <2>2. /\ rated \in EntryType
        /\ rated.dst = d /\ rated.next = table[e].next
        /\ rated.score = s /\ rated.rank = table[e].rank
    BY <1>2, <1>4, <1>0 DEF Facts, EntryType
  <2>3. CASE s = 0
    <3>1. table' = [table EXCEPT ![e] = Freed([table[e] EXCEPT !.score = s])]
      BY <2>1, <2>2, <2>3
    <3> HIDE DEF s
    <3>2. s \in 0..DefaultScore
      BY <1>4 DEF s
    <3> QED
      BY <3>1, <3>2, <1>1, <1>3, FreedStep
  <2>4. CASE s # 0
    <3>1. table' = [table EXCEPT ![e] = rated]
      <4>1. rated.score # 0
        BY <2>2, <2>4
      <4> HIDE DEF rated
      <4> QED
        BY <2>1, <4>1
    <3>2. s \in 0..DefaultScore
      BY <1>4
    <3> HIDE DEF s, rated
    <3>3. Good(rated)
      BY <2>2, <2>4, <3>2, <1>2, <1>3, <1>0, RouteAssumption DEF Good, Live, Facts
    <3>4. rated.dst = d
      BY <2>2
    <3> QED
      BY <3>1, <3>3, <3>4, <1>5, EntryWritten
  <2> QED
    BY <2>3, <2>4
<1>7. ASSUME FrameDelivered(e) PROVE Inv'
  <2> DEFINE x == [table[e] EXCEPT !.score = DefaultScore, !.rank = table[e].rank + 1]
             k == table[e].rank + 1
  <2>1. table' = IF x.rank = MaxRank THEN NormalizeRanks([table EXCEPT ![e] = x])
                 ELSE [table EXCEPT ![e] = x]
    BY <1>7 DEF FrameDelivered
  <2>2. k \in 0..MaxRank /\ k >= 2 /\ DefaultScore \in 0..DefaultScore
    BY <1>0, <1>3, RouteAssumption DEF Facts
  <2>3. x = [table[e] EXCEPT !.score = DefaultScore, !.rank = k]
    OBVIOUS
  <2> HIDE DEF x, k
  <2>4. /\ x.rank = k /\ x.score = DefaultScore
        /\ x.dst = d /\ x.next = table[e].next /\ x.fixed = table[e].fixed
    BY <2>3, <1>2, <1>0 DEF Facts, EntryType
  <2>5. x \in Counted
    BY <2>2, <2>3, <1>0 DEF Facts, EntryType, Counted
  <2>6. CASE k = MaxRank
    <3>1. table' = NormalizeRanks([table EXCEPT ![e] = x])
      BY <2>1, <2>4, <2>6
    <3> QED
      BY <2>4, <2>5, <2>6, <3>1, <1>2, <1>3, Normalized
  <2>7. CASE k # MaxRank
    <3>1. table' = [table EXCEPT ![e] = x]
      BY <2>1, <2>4, <2>7
    <3>2. k \in 0..(MaxRank - 1)
      BY <2>2, <2>7, RouteAssumption
    <3>3. x \in EntryType
      BY <2>3, <3>2, <2>2, <1>0 DEF Facts, EntryType
    <3>4. Good(x)
      BY <2>2, <2>4, <3>3, <1>2, <1>3, <1>0, RouteAssumption DEF Good, Live, Facts
    <3> QED
      BY <2>4, <3>1, <3>4, <1>5, EntryWritten
  <2> QED
    BY <2>6, <2>7
<1> QED
  BY <1>1, <1>6, <1>7

\* Route errors and duplicates free the entry of a destination.
LEMMA RemoveStep ==
  ASSUME Inv, NEW d \in Nodes, nwkRouteRemove(d)
  PROVE  Inv'
<1>1. PICK e \in Entries : /\ FindEntry(table, d, e)
                           /\ table' = [table EXCEPT ![e] = Freed(table[e])]
  BY DEF nwkRouteRemove, Inv, TypeOK
<1>0. Facts(e)
  BY <1>1, EntryFacts
<1>2. table[e].rank >= 2
  BY <1>1, <1>0, RouteAssumption DEF FindEntry, Facts
<1>3. /\ table[e].score \in 0..DefaultScore /\ table[e].score > 0
      /\ table[e] = [table[e] EXCEPT !.score = table[e].score]
  <2>1. table[e] \in EntryType
    BY DEF Inv, TypeOK
  <2> QED
    BY <2>1, <1>2, <1>0 DEF EntryType, Facts
<1>4. table' = [table EXCEPT ![e] = Freed([table[e] EXCEPT !.score = table[e].score])]
  BY <1>1, <1>3
<1> QED
  BY <1>2, <1>3, <1>4, FreedStep

\* A route discovered is the only one for its destination.
LEMMA UpdateStep ==
  ASSUME Inv, NEW d \in Nodes, NEW n \in Nodes, NEW lqi \in Lqis,
         nwkRouteUpdateEntry(d, n, lqi)
  PROVE  Inv'
<1>1. PICK e \in Entries :
        /\ FindEntry(table, d, e) \/ (NotFound(table, d) /\ NewEntry(table, e))
        /\ table' = [table EXCEPT ![e] = Fresh(table[e], d, n, lqi)]
  BY DEF nwkRouteUpdateEntry, Inv, TypeOK
<1>2. d # Unknown /\ (n = d \/ n \notin NonRouting)
  BY RouteAssumption DEF nwkRouteUpdateEntry, Forwards
<1>3. \A f \in Entries \ {e} : table[f].dst # d
  BY <1>1, <1>2 DEF FindEntry, NotFound, Inv, OneRoute
<1> DEFINE x == Fresh(table[e], d, n, lqi)
<1>4. table[e] \in EntryType
  BY DEF Inv, TypeOK
<1>5. Good(x) /\ x.dst = d
  BY <1>2, <1>4, FreshGood
<1>6. table' = [table EXCEPT ![e] = x]
  BY <1>1
<1> HIDE DEF x
<1> QED
  BY <1>3, <1>5, <1>6, EntryWritten

\* The application's fixed routes are single and lead to a node that relays.
LEMMA FixStep ==
  ASSUME Inv, NEW d \in Nodes, NEW n \in Nodes, AppFixRoute(d, n)
  PROVE  Inv'
<1>1. PICK e \in Entries :
        /\ FindEntry(table, d, e) \/ (NotFound(table, d) /\ NewEntry(table, e))
        /\ table' = [table EXCEPT ![e] =
             [(IF table[e].dst = d THEN table[e] ELSE Fresh(table[e], d, n, table[e].lqi))
                EXCEPT !.next = n, !.fixed = TRUE]]
  BY DEF AppFixRoute
<1>0. Facts(e)
  BY <1>1, EntryFacts
<1>2. d # Unknown /\ d \in Addresses /\ n \in Addresses /\ (n = d \/ n \notin NonRouting)
  BY RouteAssumption DEF Addresses, AppFixRoute
<1>3. \A f \in Entries \ {e} : table[f].dst # d
  BY <1>1, <1>2 DEF FindEntry, NotFound, Inv, OneRoute
<1> DEFINE x == [(IF table[e].dst = d THEN table[e] ELSE Fresh(table[e], d, n, table[e].lqi))
                   EXCEPT !.next = n, !.fixed = TRUE]
<1> DEFINE b == IF table[e].dst = d THEN table[e] ELSE Fresh(table[e], d, n, table[e].lqi)
<1>4. b \in EntryType /\ b.dst = d /\ b.rank >= 2 /\ b.score > 0
  <2>1. CASE table[e].dst = d
    BY <2>1, <1>2, <1>0, RouteAssumption DEF Facts
  <2>2. CASE table[e].dst # d
    <3> DEFINE y == Fresh(table[e], d, n, table[e].lqi)
    <3>1. Good(y) /\ y.dst = d
      BY <1>2, <1>0, FreshGood DEF Facts
    <3>2. b = y
      BY <2>2
    <3> HIDE DEF y, b
    <3>3. y.rank \in Int
      BY <3>1, RouteAssumption DEF Good, EntryType
    <3> QED
      BY <3>1, <3>2, <3>3, <1>2 DEF Good, Live
  <2> QED
    BY <2>1, <2>2
<1>5. table' = [table EXCEPT ![e] = x]
  BY <1>1
<1>6. x = [b EXCEPT !.next = n, !.fixed = TRUE]
  OBVIOUS
<1> HIDE DEF b, x
<1>7. /\ x \in EntryType
      /\ x.dst = d /\ x.next = n /\ x.score = b.score /\ x.rank = b.rank
  BY <1>2, <1>4, <1>6 DEF EntryType
<1>8. Good(x)
  BY <1>2, <1>4, <1>7 DEF Good, Live
<1> QED
  BY <1>2, <1>3, <1>5, <1>7, <1>8, EntryWritten

\* A fixed route that is released becomes an ordinary one.
LEMMA ReleaseStep ==
  ASSUME Inv, NEW e \in Entries, AppReleaseRoute(e)
  PROVE  Inv'
<1> DEFINE x == [table[e] EXCEPT !.fixed = FALSE]
<1>0. Facts(e)
  BY EntryFacts
<1>1. table' = [table EXCEPT ![e] = x]
  BY DEF AppReleaseRoute
<1>2. /\ x \in EntryType
      /\ x.dst = table[e].dst /\ x.next = table[e].next
      /\ x.score = table[e].score /\ x.rank = table[e].rank /\ ~x.fixed
  BY <1>0 DEF Facts, EntryType
<1> HIDE DEF x
<1>3. Good(x)
  BY <1>2, <1>0 DEF Good, Live, Facts
<1>4. x.dst # Unknown => \A f \in Entries \ {e} : table[f].dst # x.dst
  BY <1>2 DEF Inv, OneRoute
<1> QED
  BY <1>1, <1>3, <1>4, EntryWritten

LEMMA StepInv == Inv /\ [Next]_table => Inv'
<1> SUFFICES ASSUME Inv, [Next]_table PROVE Inv'
  OBVIOUS
<1>1. CASE UNCHANGED table
  BY <1>1 DEF Inv, TypeOK, EntriesSound, OneRoute, NextHopRelays
<1>2. CASE \E src \in Nodes, via \in Nodes, lqi \in Lqis, discovery \in BOOLEAN :
             nwkRouteFrameReceived(src, via, lqi, discovery)
  BY <1>2, ReceivedStep
<1>3. CASE \E d \in Nodes : nwkRouteFrameSent(d)
  BY <1>3, SentStep
<1>4. CASE \E d \in Nodes : nwkRouteRemove(d)
  BY <1>4, RemoveStep
<1>5. CASE \E d \in Nodes, n \in Nodes : AppFixRoute(d, n)
  BY <1>5, FixStep
<1>6. CASE \E e \in Entries : AppReleaseRoute(e)
  BY <1>6, ReleaseStep
<1>7. CASE \E d \in Nodes, n \in Nodes, lqi \in Lqis : nwkRouteUpdateEntry(d, n, lqi)
  BY <1>7, UpdateStep
<1> QED
  BY <1>1, <1>2, <1>3, <1>4, <1>5, <1>6, <1>7 DEF Next

LEMMA Invariance == Spec => []Inv
BY InitInv, StepInv, PTL DEF Spec

\* The ranks and scores never leave their fields.
THEOREM RouteTypeCorrect == Spec => []TypeOK
<1>1. Inv => TypeOK
  BY DEF Inv
<1> QED
  BY <1>1, Invariance, PTL

\* Rank, score, fixed flag and destination of an entry agree on whether it is free.
THEOREM RouteEntriesSound == Spec => []EntriesSound
<1>1. Inv => EntriesSound
  BY DEF Inv
<1> QED
  BY <1>1, Invariance, PTL

\* No destination ever has two entries.
THEOREM RouteIsUnique == Spec => []OneRoute
<1>1. Inv => OneRoute
  BY DEF Inv
<1> QED
  BY <1>1, Invariance, PTL

\* No route ever leads through a node that does not relay, if discovery and the
\* application set up none.
THEOREM RoutesRelay == Spec => []NextHopRelays
<1>1. Inv => NextHopRelays
  BY DEF Inv
<1> QED
  BY <1>1, Invariance, PTL

\* A step that writes a single entry leaves the others alone.
LEMMA OthersKept ==
  ASSUME TypeOK, NEW e \in Entries, NEW x, table' = [table EXCEPT ![e] = x]
  PROVE  /\ table'[e] = x
         /\ \A f \in Entries \ {e} : table'[f] = table[f]
BY DEF TypeOK

\* NWK_RouteNewEntry takes an entry in use only when all those it may take are.
LEMMA NewEntryEvicts ==
  ASSUME Inv, NEW e \in Entries, NewEntry(table, e), Live(table[e])
  PROVE  \A f \in Entries : ~table[f].fixed => Live(table[f])
<1> SUFFICES ASSUME NEW f \in Entries, ~table[f].fixed PROVE Live(table[f])
  OBVIOUS
<1>1. Facts(e) /\ Facts(f)
  BY EntryFacts
<1>2. table[e].rank <= table[f].rank
  BY <1>1, RouteAssumption DEF NewEntry, Facts
<1> QED
  BY <1>1, <1>2, RouteAssumption DEF Live, Facts

\* An entry keeps its destination in a step, unless it is freed.
Keeps(f) == table'[f].dst = table[f].dst \/ (~table[f].fixed /\ ~Live(table'[f]))

\* What a step may do to destinations: free some, or give one entry, that
\* NWK_RouteNewEntry chose, a new one.
Reassigns == \E e \in Entries : NewEntry(table, e) /\ \A f \in Entries \ {e} : Keeps(f)

LEMMA FreedKeeps ==
  ASSUME Inv, NEW e \in Entries, NEW x \in EntryType, x.dst = table[e].dst, x.fixed = table[e].fixed,
         table' = [table EXCEPT ![e] = Freed(x)]
  PROVE  \A f \in Entries : Keeps(f)
<1>1. \A f \in Entries \ {e} : table'[f] = table[f]
  BY OthersKept DEF Inv
<1>2. table'[e] = Freed(x)
  BY OthersKept DEF Inv
<1>3. CASE x.fixed
  BY <1>1, <1>2, <1>3 DEF Freed, Keeps
<1>4. CASE ~x.fixed
  <2> DEFINE y == [x EXCEPT !.dst = Unknown, !.rank = 0]
  <2>1. y.rank = 0
    BY DEF EntryType
  <2>2. table'[e] = y
    BY <1>2, <1>4 DEF Freed
  <2> HIDE DEF y
  <2>3. ~Live(table'[e]) /\ ~table[e].fixed
    BY <2>1, <2>2, <1>4 DEF Live
  <2> QED
    BY <1>1, <2>3 DEF Keeps
<1> QED
  BY <1>3, <1>4

LEMMA Destinations ==
  ASSUME Inv, Next
  PROVE  (\A f \in Entries : Keeps(f)) \/ Reassigns
<1>1. ASSUME NEW src \in Nodes, NEW via \in Nodes, NEW lqi \in Lqis, NEW discovery \in BOOLEAN,
             nwkRouteFrameReceived(src, via, lqi, discovery)
      PROVE  (\A f \in Entries : Keeps(f)) \/ Reassigns
  <2>1. CASE \E e \in Entries : NewEntry(table, e)
                /\ table' = [table EXCEPT ![e] = Fresh(table[e], src, via, lqi)]
    BY <2>1, OthersKept DEF Inv, Reassigns, Keeps
  <2>2. ASSUME NEW e \in Entries, NEW h \in EntryType, h = [table[e] EXCEPT !.lqi = lqi],
               \/ table' = [table EXCEPT ![e] = [h EXCEPT !.next = via, !.score = DefaultScore]]
               \/ table' = [table EXCEPT ![e] = h]
        PROVE  \A f \in Entries : Keeps(f)
    <3>1. table[e] \in EntryType
      BY DEF Inv, TypeOK
    <3>2. h.dst = table[e].dst
      BY <2>2, <3>1 DEF EntryType
    <3> DEFINE y == [h EXCEPT !.next = via, !.score = DefaultScore]
    <3>3. y.dst = h.dst
      BY DEF EntryType
    <3>4. table' = [table EXCEPT ![e] = y] \/ table' = [table EXCEPT ![e] = h]
      BY <2>2
    <3> HIDE DEF y
    <3>5. table'[e].dst = table[e].dst /\ \A f \in Entries \ {e} : table'[f] = table[f]
      BY <3>2, <3>3, <3>4, OthersKept DEF Inv
    <3> QED
      BY <3>5 DEF Keeps
  <2>3. CASE \E e \in Entries :
               \/ table' = [table EXCEPT ![e] = [[table[e] EXCEPT !.lqi = lqi]
                                EXCEPT !.next = via, !.score = DefaultScore]]
               \/ table' = [table EXCEPT ![e] = [table[e] EXCEPT !.lqi = lqi]]
    <3>1. PICK e \in Entries :
               \/ table' = [table EXCEPT ![e] = [[table[e] EXCEPT !.lqi = lqi]
                                EXCEPT !.next = via, !.score = DefaultScore]]
               \/ table' = [table EXCEPT ![e] = [table[e] EXCEPT !.lqi = lqi]]
      BY <2>3
    <3> DEFINE h == [table[e] EXCEPT !.lqi = lqi]
    <3>2. h \in EntryType
      BY DEF Inv, TypeOK, EntryType
    <3>3. \/ table' = [table EXCEPT ![e] = [h EXCEPT !.next = via, !.score = DefaultScore]]
          \/ table' = [table EXCEPT ![e] = h]
      BY <3>1
    <3>4. h = [table[e] EXCEPT !.lqi = lqi]
      OBVIOUS
    <3> HIDE DEF h
    <3> QED
      BY <3>2, <3>3, <3>4, <2>2
  <2> QED
    BY <1>1, <2>1, <2>3 DEF nwkRouteFrameReceived
<1>2. ASSUME NEW d \in Nodes, nwkRouteFrameSent(d)
      PROVE  \A f \in Entries : Keeps(f)
  <2>1. PICK e \in Entries : FrameDelivered(e) \/ FrameFailed(e)
    BY <1>2 DEF nwkRouteFrameSent
  <2>0. Facts(e) /\ table \in [Entries -> EntryType]
    BY EntryFacts DEF Inv, TypeOK
  <2>2. ASSUME FrameFailed(e)
        PROVE  \A f \in Entries : Keeps(f)
    <3> DEFINE s == table[e].score - 1
               x == [table[e] EXCEPT !.score = s]
    <3>1. table' = [table EXCEPT ![e] = IF x.score = 0 THEN Freed(x) ELSE x]
      BY <2>2 DEF FrameFailed
    <3>2. x.dst = table[e].dst /\ x.fixed = table[e].fixed /\ x.score = s
      BY <2>0 DEF EntryType
    <3>3. CASE s = 0
      <4>1. x \in EntryType
        <5>1. s \in 0..DefaultScore
          BY <3>3, RouteAssumption
        <5> HIDE DEF s
        <5> QED
          BY <5>1, <2>0 DEF EntryType
      <4> HIDE DEF x, s
      <4>2. table' = [table EXCEPT ![e] = Freed(x)]
        BY <3>1, <3>2, <3>3
      <4> QED
        BY <3>2, <4>1, <4>2, FreedKeeps
    <3>4. CASE s # 0
      <4> HIDE DEF x, s
      <4>1. table' = [table EXCEPT ![e] = x]
        BY <3>1, <3>2, <3>4
      <4> QED
        BY <3>2, <4>1, OthersKept DEF Inv, Keeps
    <3> QED
      BY <3>3, <3>4
  <2>3. ASSUME FrameDelivered(e)
        PROVE  \A f \in Entries : Keeps(f)
    <3> DEFINE x == [table[e] EXCEPT !.score = DefaultScore, !.rank = table[e].rank + 1]
               u == [table EXCEPT ![e] = x]
    <3>1. table' = NormalizeRanks(u) \/ table' = u
      BY <2>3 DEF FrameDelivered
    <3>2. x \in Counted /\ x.dst = table[e].dst
      <4>1. table[e].rank + 1 \in 0..MaxRank /\ DefaultScore \in 0..DefaultScore
        BY <2>0, RouteAssumption DEF Facts
      <4> DEFINE k == table[e].rank + 1
      <4>2. x = [table[e] EXCEPT !.score = DefaultScore, !.rank = k] /\ k \in 0..MaxRank
        BY <4>1
      <4> HIDE DEF x, k
      <4> QED
        BY <4>1, <4>2, <2>0 DEF EntryType, Counted
    <3> HIDE DEF x
    <3>3. u[e] = x /\ \A f \in Entries \ {e} : u[f] = table[f]
      BY <2>0
    <3>4. ASSUME NEW f \in Entries PROVE u[f].dst = table[f].dst
      BY <3>2, <3>3
    <3>5. ASSUME NEW f \in Entries
          PROVE  [u[f] EXCEPT !.rank = Halved(u[f].rank)].dst = table[f].dst
      <4>1. u[f] \in Counted \/ u[f] \in EntryType
        BY <3>2, <3>3, <2>0
      <4> HIDE DEF u
      <4> QED
        BY <3>4, <4>1 DEF EntryType, Counted
    <3> HIDE DEF u
    <3>6. ASSUME NEW f \in Entries PROVE table'[f].dst = table[f].dst
      <4>1. CASE table' = u
        BY <4>1, <3>4
      <4>2. CASE table' = NormalizeRanks(u)
        <5>1. table'[f] = [u[f] EXCEPT !.rank = Halved(u[f].rank)]
          BY <4>2 DEF NormalizeRanks
        <5> QED
          BY <5>1, <3>5
      <4> QED
        BY <3>1, <4>1, <4>2
    <3> QED
      BY <3>6 DEF Keeps
  <2> QED
    BY <2>1, <2>2, <2>3
<1>3. ASSUME NEW d \in Nodes, nwkRouteRemove(d)
      PROVE  \A f \in Entries : Keeps(f)
  <2>1. PICK e \in Entries : table' = [table EXCEPT ![e] = Freed(table[e])]
    BY <1>3 DEF nwkRouteRemove, Inv, TypeOK
  <2>2. table[e] \in EntryType
    BY DEF Inv, TypeOK
  <2> QED
    BY <2>1, <2>2, FreedKeeps
<1>4. ASSUME NEW d \in Nodes, NEW n \in Nodes, AppFixRoute(d, n)
      PROVE  (\A f \in Entries : Keeps(f)) \/ Reassigns
  <2>1. PICK e \in Entries :
          /\ FindEntry(table, d, e) \/ NewEntry(table, e)
          /\ table' = [table EXCEPT ![e] =
               [(IF table[e].dst = d THEN table[e] ELSE Fresh(table[e], d, n, table[e].lqi))
                  EXCEPT !.next = n, !.fixed = TRUE]]
    BY <1>4 DEF AppFixRoute
  <2>2. \A f \in Entries \ {e} : table'[f] = table[f]
    BY <2>1, OthersKept DEF Inv
  <2>3. CASE NewEntry(table, e)
    BY <2>2, <2>3 DEF Reassigns, Keeps
  <2>4. CASE FindEntry(table, d, e)
    <3> DEFINE x == [table[e] EXCEPT !.next = n, !.fixed = TRUE]
    <3>1. table' = [table EXCEPT ![e] = x]
      BY <2>1, <2>4 DEF FindEntry
    <3>2. x.dst = table[e].dst
      BY DEF Inv, TypeOK, EntryType
    <3> HIDE DEF x
    <3> QED
      BY <2>2, <3>1, <3>2, OthersKept DEF Inv, Keeps
  <2> QED
    BY <2>1, <2>3, <2>4
<1>5. ASSUME NEW e \in Entries, AppReleaseRoute(e)
      PROVE  \A f \in Entries : Keeps(f)
  <2> DEFINE x == [table[e] EXCEPT !.fixed = FALSE]
  <2>1. table' = [table EXCEPT ![e] = x]
    BY <1>5 DEF AppReleaseRoute
  <2>2. x.dst = table[e].dst
    BY DEF Inv, TypeOK, EntryType
  <2> HIDE DEF x
  <2> QED
    BY <2>1, <2>2, OthersKept DEF Inv, Keeps
<1>6. ASSUME NEW d \in Nodes, NEW n \in Nodes, NEW lqi \in Lqis,
             nwkRouteUpdateEntry(d, n, lqi)
      PROVE  (\A f \in Entries : Keeps(f)) \/ Reassigns
  <2>1. PICK e \in Entries :
          /\ FindEntry(table, d, e) \/ NewEntry(table, e)
          /\ table' = [table EXCEPT ![e] = Fresh(table[e], d, n, lqi)]
    BY <1>6 DEF nwkRouteUpdateEntry, Inv, TypeOK
  <2>2. \A f \in Entries \ {e} : table'[f] = table[f]
    BY <2>1, OthersKept DEF Inv
  <2>3. CASE NewEntry(table, e)
    BY <2>2, <2>3 DEF Reassigns, Keeps
  <2>4. CASE FindEntry(table, d, e)
    <3> DEFINE x == Fresh(table[e], d, n, lqi)
    <3>1. table' = [table EXCEPT ![e] = x]
      BY <2>1
    <3>2. x.dst = table[e].dst
      BY <2>4 DEF Inv, TypeOK, EntryType, FindEntry, Fresh
    <3> HIDE DEF x
    <3> QED
      BY <2>2, <3>1, <3>2, OthersKept DEF Inv, Keeps
  <2> QED
    BY <2>1, <2>3, <2>4
<1> QED
  BY <1>1, <1>2, <1>3, <1>4, <1>5, <1>6 DEF Next

\* No route is ever given up for another while an entry is free.
THEOREM RouteEvictsOnlyWhenFull == Spec => EvictsOnlyWhenFull
<1> DEFINE Evicts == \A e \in Entries :
             Live(table[e]) /\ Live(table'[e]) /\ table'[e].dst # table[e].dst
               => \A f \in Entries : ~table[f].fixed => Live(table[f])
<1>1. Inv /\ Next => Evicts
  BY Destinations, NewEntryEvicts DEF Reassigns, Keeps
<1>2. Inv /\ [Next]_table => [Evicts]_table
  BY <1>1
<1> QED
  BY <1>2, Invariance, PTL DEF Spec, EvictsOnlyWhenFull

\* A fixed route keeps its destination until the application releases it.
THEOREM RouteFixedStays == Spec => FixedRouteStays
<1> DEFINE Stays == \A e \in Entries : table[e].fixed => table'[e].dst = table[e].dst
<1>1. Inv /\ Next => Stays
  BY Destinations DEF Reassigns, Keeps, NewEntry
<1>2. Inv /\ [Next]_table => [Stays]_table
  BY <1>1
<1> QED
  BY <1>2, Invariance, PTL DEF Spec, FixedRouteStays
=============================================================================
