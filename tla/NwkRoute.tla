------------------------------ MODULE NwkRoute ------------------------------
(***************************************************************************)
(* The routing table of one node (nwk/src/nwkRoute.c), without multicast:  *)
(* routes are learnt, rated by the frames sent, removed by route errors    *)
(* and duplicates, and evicted by rank. A build learns them from the       *)
(* frames received or, with route discovery, from the replies to its       *)
(* requests; here both may happen, which includes the behaviours of each.  *)
(*                                                                         *)
(* There is no "free" flag in an entry: a free entry is one whose dstAddr  *)
(* is NWK_ROUTE_UNKNOWN, and NWK_RouteNewEntry tells it from the others by *)
(* its rank only. The ranks are those of an 8-bit counter, halved when one *)
(* of them is full; the constants scale them down.                         *)
(***************************************************************************)
EXTENDS Integers

CONSTANTS
  TableSize,    \* NWK_ROUTE_TABLE_SIZE
  Nodes,        \* the addresses of the other nodes
  Unknown,      \* NWK_ROUTE_UNKNOWN, the address 0xffff that no node has
  NonRouting,   \* the nodes whose address has the NWK_ROUTE_NON_ROUTING bit
  DefaultScore, \* NWK_ROUTE_DEFAULT_SCORE
  DefaultRank,  \* NWK_ROUTE_DEFAULT_RANK
  MaxRank,      \* NWK_ROUTE_MAX_RANK
  MaxLqi        \* link qualities are 0..MaxLqi, 255 in the code

ASSUME RouteAssumption ==
  /\ TableSize \in Nat \ {0}
  /\ Unknown \notin Nodes
  /\ NonRouting \subseteq Nodes
  /\ DefaultScore \in Nat \ {0}
  /\ DefaultRank \in Nat /\ MaxRank \in Nat
  /\ 2 <= DefaultRank /\ DefaultRank < MaxRank
  /\ MaxLqi \in Nat

VARIABLE table \* nwkRouteTable

Entries == 1..TableSize
Lqis == 0..MaxLqi

Addresses == Nodes \cup {Unknown}

EntryType == [dst : Addresses, next : Addresses, score : 0..DefaultScore,
              rank : 0..(MaxRank - 1), fixed : BOOLEAN, lqi : Lqis]

Init == table = [e \in Entries |-> [dst |-> Unknown, next |-> Unknown, score |-> 0,
                                    rank |-> 0, fixed |-> FALSE, lqi |-> 0]]

-----------------------------------------------------------------------------
(***************************************************************************)
(* The functions of nwkRoute.c on a table t.                               *)
(***************************************************************************)

\* Faulty variant, for mutation: the search stops before the last entry.
NotFound_Short(t, d) == \A e \in Entries : e < TableSize => t[e].dst # d

\* NWK_RouteFindEntry returns entry e for the destination d, or NULL.
FindEntry(t, d, e) == /\ t[e].dst = d
                      /\ \A f \in Entries : f < e => t[f].dst # d
NotFound(t, d) == \A e \in Entries : t[e].dst # d

\* Faulty variant, for mutation: the first entry that is not fixed.
NewEntry_First(t, e) ==
  /\ ~t[e].fixed
  /\ \A f \in Entries : f < e => t[f].fixed

\* NWK_RouteNewEntry returns entry e: the first of rank 0, else of the lowest rank,
\* among those that are not fixed.
NewEntry(t, e) ==
  /\ ~t[e].fixed
  /\ \A f \in Entries :
       ~t[f].fixed => t[e].rank < t[f].rank \/ (t[e].rank = t[f].rank /\ e <= f)

\* What NWK_RouteNewEntry and its caller make of an entry.
Fresh(entry, d, n, lqi) ==
  [entry EXCEPT !.dst = d, !.next = n, !.lqi = lqi,
                !.score = DefaultScore, !.rank = DefaultRank]

\* Faulty variant, for mutation: a fixed route is freed too.
Freed_Fixed(entry) == [entry EXCEPT !.dst = Unknown, !.rank = 0]

\* NWK_RouteFreeEntry
Freed(entry) == IF entry.fixed THEN entry
                ELSE [entry EXCEPT !.dst = Unknown, !.rank = 0]

\* Faulty variant, for mutation: the ranks are only halved.
Halved_ToZero(rank) == rank \div 2

\* nwkRouteNormalizeRanks, on one rank
Halved(rank) == rank \div 2 + 1

NormalizeRanks(t) == [e \in Entries |-> [t[e] EXCEPT !.rank = Halved(@)]]

-----------------------------------------------------------------------------
(***************************************************************************)
(* nwkRouteFrameReceived: src sent the frame, via is the neighbour it came *)
(* from, and discovery says that it came in a MAC broadcast for this node. *)
(***************************************************************************)
\* Faulty variant, for mutation: what a non-routing node sends on is learnt from.
Learns_FromAll(src, via) == TRUE

Learns(src, via) == ~(via \in NonRouting /\ via # src)

nwkRouteFrameReceived(src, via, lqi, discovery) ==
  /\ Learns(src, via)
  /\ \/ \E e \in Entries :
          /\ FindEntry(table, src, e)
          /\ LET better == \/ table[e].next # via /\ lqi > table[e].lqi
                           \/ discovery
                 heard == [table[e] EXCEPT !.lqi = lqi]
             IN table' = [table EXCEPT ![e] =
                  IF better THEN [heard EXCEPT !.next = via, !.score = DefaultScore]
                  ELSE heard]
     \/ /\ NotFound(table, src)
        /\ \E e \in Entries :
             /\ NewEntry(table, e)
             /\ table' = [table EXCEPT ![e] = Fresh(@, src, via, lqi)]

\* Faulty variant, for mutation: a failure never frees the route.
FrameFailed_KeepsRoute(e) ==
  table' = [table EXCEPT ![e].score = @ - 1]

\* A failed transmission costs a point of the score, and the last one the route.
FrameFailed(e) ==
  LET rated == [table[e] EXCEPT !.score = @ - 1]
  IN table' = [table EXCEPT ![e] = IF rated.score = 0 THEN Freed(rated) ELSE rated]

FrameDelivered(e) ==
  LET rated == [table[e] EXCEPT !.score = DefaultScore, !.rank = @ + 1]
      updated == [table EXCEPT ![e] = rated]
  IN table' = IF rated.rank = MaxRank THEN NormalizeRanks(updated) ELSE updated

\* nwkRouteFrameSent, at the end of the transmission of a frame for d.
nwkRouteFrameSent(d) ==
  \E e \in Entries :
    /\ FindEntry(table, d, e)
    /\ ~table[e].fixed
    /\ FrameDelivered(e) \/ FrameFailed(e)

\* nwkRouteRemove, for a route error received and for a duplicate received.
nwkRouteRemove(d) ==
  \E e \in Entries : /\ FindEntry(table, d, e)
                     /\ table' = [table EXCEPT ![e] = Freed(@)]

\* The neighbours from which route discovery hears of d: d itself, which sends the
\* request or the reply, and the nodes that pass them on, which those with the
\* NWK_ROUTE_NON_ROUTING bit do not. A reply comes back through the same nodes.
Forwards(n, d) == n = d \/ n \notin NonRouting

\* nwkRouteUpdateEntry, for a route reply or request. It also changes the next hop of a
\* fixed route.
nwkRouteUpdateEntry(d, n, lqi) ==
  /\ Forwards(n, d)
  /\ \E e \in Entries :
       /\ FindEntry(table, d, e) \/ (NotFound(table, d) /\ NewEntry(table, e))
       /\ table' = [table EXCEPT ![e] = Fresh(@, d, n, lqi)]

-----------------------------------------------------------------------------
(***************************************************************************)
(* The application sets up a fixed route through NWK_RouteFindEntry and    *)
(* NWK_RouteNewEntry, through a node that relays, and leaves at least one  *)
(* entry to the network layer: NWK_RouteNewEntry cannot do without.        *)
(***************************************************************************)
AppFixRoute(d, n) ==
  /\ n = d \/ n \notin NonRouting
  /\ \E e \in Entries :
       /\ FindEntry(table, d, e) \/ (NotFound(table, d) /\ NewEntry(table, e))
       /\ \E f \in Entries \ {e} : ~table[f].fixed
       /\ table' = [table EXCEPT ![e] =
            [(IF table[e].dst = d THEN table[e] ELSE Fresh(table[e], d, n, table[e].lqi))
               EXCEPT !.next = n, !.fixed = TRUE]]

AppReleaseRoute(e) == /\ table[e].fixed
                      /\ table' = [table EXCEPT ![e].fixed = FALSE]

Next ==
  \/ \E src \in Nodes, via \in Nodes, lqi \in Lqis, discovery \in BOOLEAN :
       nwkRouteFrameReceived(src, via, lqi, discovery)
  \/ \E d \in Nodes : nwkRouteFrameSent(d)
  \/ \E d \in Nodes : nwkRouteRemove(d)
  \/ \E d \in Nodes, n \in Nodes, lqi \in Lqis : nwkRouteUpdateEntry(d, n, lqi)
  \/ \E d \in Nodes, n \in Nodes : AppFixRoute(d, n)
  \/ \E e \in Entries : AppReleaseRoute(e)

Spec == Init /\ [][Next]_table

-----------------------------------------------------------------------------
(***************************************************************************)
(* Properties.                                                             *)
(***************************************************************************)

\* The ranks and scores stay within their fields: the 8-bit rank never wraps.
TypeOK == table \in [Entries -> EntryType]

\* An entry that holds a route has a rank of 2 at least and one that is free has
\* less, through any number of normalisations.
Live(entry) == entry.rank >= 2

\* A route in use has not used up its score; an entry that is free is not fixed
\* and has no destination.
EntriesSound ==
  \A e \in Entries :
    /\ Live(table[e]) => table[e].score > 0
    /\ ~Live(table[e]) => table[e].dst = Unknown /\ ~table[e].fixed

\* No destination has two entries, so the one NWK_RouteFindEntry finds is the one
\* that was learnt, rated and will be removed.
OneRoute ==
  \A e, f \in Entries : table[e].dst = table[f].dst /\ table[e].dst # Unknown => e = f

\* A route leads through a node that relays, or straight to its destination: the check
\* of nwkRouteFrameReceived keeps it so while entries are evicted, removed and learnt
\* again. Of the routes that discovery or the application sets up it is assumed.
NextHopRelays ==
  \A e \in Entries : Live(table[e]) /\ table[e].dst # Unknown
                       => table[e].next = table[e].dst \/ table[e].next \notin NonRouting

\* A route is given up for another one only when no entry is free: ranks that were
\* normalised do not make a free entry look used, nor a used one free.
EvictsOnlyWhenFull ==
  [][\A e \in Entries :
       Live(table[e]) /\ Live(table'[e]) /\ table'[e].dst # table[e].dst
         => \A f \in Entries : ~table[f].fixed => Live(table[f])]_table

\* A fixed route keeps its destination until the application releases it.
FixedRouteStays ==
  [][\A e \in Entries : table[e].fixed => table'[e].dst = table[e].dst]_table
=============================================================================
