---------------------- MODULE NwkRouteDiscoveryProofs ----------------------
(***************************************************************************)
(* Proofs about NwkRouteDiscovery, for any mesh, any number of discoveries *)
(* and tables of any size: no frame waits in vain, the way back a request  *)
(* leaves has no circle, nor, for one origin, have the routes a reply      *)
(* leaves.                                                                 *)
(***************************************************************************)
EXTENDS NwkRouteDiscovery, TLAPS

-----------------------------------------------------------------------------
(***************************************************************************)
(* The inductive invariant.                                                *)
(***************************************************************************)

\* What is in the air; a request has come over a link.
Messages == [type : {"ROUTE_REQUEST", "ROUTE_REPLY"}, from : Nodes, to : Nodes,
             src : Origins, dst : Targets, lq : 0..255]

MessageOK(m) == m \in Messages /\ (m.type = "ROUTE_REQUEST" => <<m.from, m.to>> \in Link)

NetOK == \A m \in net : MessageOK(m)

\* A live entry is of some discovery. A node has come by its own from nobody, by the
\* others from a node.
EntryOK(n, e) ==
  /\ e.timeout > 0 => e.src \in Origins
  /\ e.src \in Origins => e.dst \in Targets
  /\ e.src = n => e.from = NoNode
  /\ e.src \in Origins \ {n} => e.from \in Nodes

\* A discovery has at most one live entry at a node.
TableOK(n, t) ==
  /\ t \in [Slots -> Entries]
  /\ \A k \in Slots : EntryOK(n, t[k])
  /\ \A s \in Origins, d \in Targets :
       \A j, k \in Slots : j \in FindEntry(t, s, d) /\ k \in FindEntry(t, s, d) => j = k

TablesOK == \A n \in Nodes : TableOK(n, table[n])

\* Whatever counts down is looked at again.
LiveCovered ==
  \A n \in Nodes : (\E k \in Slots : table[n][k].timeout > 0) => timer[n] \/ busy = n

\* The nodes that a request of quality l has nothing better to offer to.
High(s, d, l) ==
  {n \in Nodes : n = s \/ \E k \in FindEntry(table[n], s, d) : table[n][k].flq >= l}

\* A frame that waits has its discovery.
WaitEntry ==
  \A n \in Origins, d \in Targets : Waiting(n, d) # {} => FindEntry(table[n], n, d) # {}

\* Following R from q one never leaves H.
Leads(R, q, H) ==
  \E S \in SUBSET H : q \in S /\ \A p \in S, m \in Nodes : <<p, m>> \in R => m \in S

\* The way back from the sender of a request passes only through nodes that would
\* ignore it.
Backed(m) == Leads(Back(m.src, m.dst), m.from, High(m.src, m.dst, m.lq))

RequestsBacked == \A m \in net : m.type = "ROUTE_REQUEST" => Backed(m)

\* The same for a reply, the routes to the node sought, and the quality of replies.
Told(s, d, l) ==
  {n \in Nodes : n \in Members[d] \/ \E k \in FindEntry(table[n], s, d) : table[n][k].rlq >= l}

ReplyBacked(m) == Leads(Ways(m.dst), m.from, Told(m.src, m.dst, m.lq))

RepliesBacked == \A m \in net : m.type = "ROUTE_REPLY" => ReplyBacked(m)

Inv ==
  /\ TypeOK /\ NetOK /\ TablesOK
  /\ LiveCovered /\ WaitEntry
  /\ RequestsBacked /\ WayBackAcyclic

RepliesInv == RepliesBacked /\ RoutesAcyclic

-----------------------------------------------------------------------------
(***************************************************************************)
(* Relations between nodes. In a step node n gets q as its only successor; *)
(* the rest of the relation can only become smaller.                       *)
(***************************************************************************)
Redirects(R, R2, n, q) ==
  \A p \in Nodes, m \in Nodes : <<p, m>> \in R2 => IF p = n THEN m = q ELSE <<p, m>> \in R

Shrinks(R, R2) == \A p \in Nodes, m \in Nodes : <<p, m>> \in R2 => <<p, m>> \in R

LEMMA AcyclicShrinks ==
  ASSUME NEW R, NEW R2, Acyclic(R), Shrinks(R, R2)
  PROVE  Acyclic(R2)
BY DEF Acyclic, Shrinks

\* Whoever is not led to itself from q may follow q.
LEMMA AcyclicRedirects ==
  ASSUME NEW R, NEW R2, NEW n \in Nodes, NEW q \in Nodes, NEW H \in SUBSET Nodes,
         Acyclic(R), Redirects(R, R2, n, q), Leads(R, q, H), n \notin H
  PROVE  Acyclic(R2)
<1>1. PICK S \in SUBSET H : q \in S /\ \A p \in S, m \in Nodes : <<p, m>> \in R => m \in S
  BY DEF Leads
<1>2. S \subseteq Nodes /\ n \notin S
  BY <1>1
<1>0. \A T \in SUBSET Nodes : T # {} => \E p \in T : \A m \in T : <<p, m>> \notin R
  BY DEF Acyclic
<1> SUFFICES ASSUME NEW T \in SUBSET Nodes, T # {}
             PROVE  \E p \in T : \A m \in T : <<p, m>> \notin R2
  BY Zenon DEF Acyclic
<1>3. CASE n \notin T
  <2>1. PICK p \in T : \A m \in T : <<p, m>> \notin R
    BY <1>0
  <2> QED BY <1>3, <2>1 DEF Redirects
<1>4. CASE n \in T /\ T \cap S = {}
  <2>1. \A m \in T : <<n, m>> \notin R2
    BY <1>1, <1>4 DEF Redirects
  <2> QED BY <1>4, <2>1
<1>5. CASE n \in T /\ T \cap S # {}
  <2>1. T \cap S \in SUBSET Nodes /\ T \cap S # {}
    BY <1>2, <1>5
  <2>2. PICK p \in T \cap S : \A m \in T \cap S : <<p, m>> \notin R
    BY <1>0, <2>1
  <2>3. p # n /\ p \in Nodes
    BY <1>2, <2>2
  <2>4. \A m \in T : <<p, m>> \notin R
    BY <1>1, <2>2
  <2> QED BY <2>2, <2>3, <2>4 DEF Redirects
<1> QED BY <1>3, <1>4, <1>5

LEMMA LeadsShrinks ==
  ASSUME NEW R, NEW R2, NEW q, NEW H \in SUBSET Nodes, NEW H2,
         Leads(R, q, H), Shrinks(R, R2), H \subseteq H2
  PROVE  Leads(R2, q, H2)
BY DEF Leads, Shrinks

\* A node that follows q leads where q has led.
LEMMA LeadsRedirects ==
  ASSUME NEW R, NEW R2, NEW n \in Nodes, NEW q, NEW r,
         NEW G \in SUBSET Nodes, NEW H \in SUBSET Nodes, NEW H2,
         Redirects(R, R2, n, q), Leads(R, q, G), Leads(R, r, H),
         H \subseteq H2, n \in H => G \subseteq H2
  PROVE  Leads(R2, r, H2)
<1>1. PICK S \in SUBSET G : q \in S /\ \A p \in S, m \in Nodes : <<p, m>> \in R => m \in S
  BY DEF Leads
<1>2. PICK T \in SUBSET H : r \in T /\ \A p \in T, m \in Nodes : <<p, m>> \in R => m \in T
  BY DEF Leads
<1>3. CASE n \in T
  <2>1. T \cup S \in SUBSET H2 /\ r \in T \cup S
    BY <1>1, <1>2, <1>3
  <2>2. ASSUME NEW p \in T \cup S, NEW m \in Nodes, <<p, m>> \in R2 PROVE m \in T \cup S
    <3>1. p \in Nodes
      BY <1>1, <1>2
    <3> QED BY <1>1, <1>2, <2>2, <3>1 DEF Redirects
  <2> QED BY <2>1, <2>2 DEF Leads
<1>4. CASE n \notin T
  <2>1. T \in SUBSET H2
    BY <1>2
  <2>2. ASSUME NEW p \in T, NEW m \in Nodes, <<p, m>> \in R2 PROVE m \in T
    <3>1. p \in Nodes /\ p # n
      BY <1>2, <1>4
    <3> QED BY <1>2, <2>2, <3>1 DEF Redirects
  <2> QED BY <1>2, <2>1, <2>2 DEF Leads
<1> QED BY <1>3, <1>4

LEMMA LeadsFrom ==
  ASSUME NEW R, NEW R2, NEW n \in Nodes, NEW q, NEW G \in SUBSET Nodes, NEW H2,
         Redirects(R, R2, n, q), Leads(R, q, G), n \in H2, G \subseteq H2
  PROVE  Leads(R2, n, H2)
<1>1. PICK S \in SUBSET G : q \in S /\ \A p \in S, m \in Nodes : <<p, m>> \in R => m \in S
  BY DEF Leads
<1>2. S \cup {n} \in SUBSET H2
  BY <1>1
<1>3. ASSUME NEW p \in S \cup {n}, NEW m \in Nodes, <<p, m>> \in R2 PROVE m \in S \cup {n}
  <2>1. p \in Nodes
    BY <1>1
  <2> QED BY <1>1, <1>3, <2>1 DEF Redirects
<1> QED BY <1>2, <1>3 DEF Leads

\* A node without a successor leads nowhere.
LEMMA LeadsNowhere ==
  ASSUME NEW R, NEW n, NEW H, n \in H, \A m \in Nodes : <<n, m>> \notin R
  PROVE  Leads(R, n, H)
<1>1. {n} \in SUBSET H
  OBVIOUS
<1> QED BY <1>1 DEF Leads

-----------------------------------------------------------------------------
(***************************************************************************)
(* The quality of a link never makes a request look better.                *)
(***************************************************************************)
LEMMA UpdateLqIs ==
  ASSUME NEW a \in 0..255, NEW b \in 0..255
  PROVE  UpdateLq(a, b) \in 0..255 /\ UpdateLq(a, b) <= a
<1> DEFINE p == a * b
           q == p \div 256
<1>1. p \in Nat /\ p <= a * 255
  <2>1. a * (255 - b) >= 0
    OBVIOUS
  <2>2. a * (255 - b) = a * 255 - a * b
    OBVIOUS
  <2>3. a * b \in Nat
    OBVIOUS
  <2> QED BY <2>1, <2>2, <2>3
<1> HIDE DEF p
<1>2. q \in Int /\ 256 * q <= p /\ p < 256 * q + 256
  BY <1>1
<1> HIDE DEF q
<1>3. q >= 0 /\ q <= a
  BY <1>1, <1>2
<1> QED BY <1>3, <1>2 DEF UpdateLq, p, q


-----------------------------------------------------------------------------
(***************************************************************************)
(* Tables: one entry is written.                                           *)
(***************************************************************************)
LEMMA EntryFields ==
  ASSUME NEW e \in Entries
  PROVE  /\ e.src \in Origins \cup {NoNode} /\ e.dst \in Targets \cup {NoNode}
         /\ e.from \in Nodes \cup {NoNode}
         /\ e.flq \in 0..255 /\ e.rlq \in 0..255 /\ e.timeout \in 0..Timeout
         /\ e.timeout \in Nat /\ e.flq \in Nat /\ e.rlq \in Nat
BY DiscoveryAssumption DEF Entries

LEMMA FindIs ==
  ASSUME NEW t \in [Slots -> Entries], NEW s, NEW d, NEW k \in Slots, NEW e2 \in Entries
  PROVE  FindEntry([t EXCEPT ![k] = e2], s, d) =
           (FindEntry(t, s, d) \ {k}) \cup
           (IF e2.timeout > 0 /\ e2.src = s /\ e2.dst = d THEN {k} ELSE {})
BY DEF FindEntry

LEMMA TableSet ==
  ASSUME NEW n, NEW t, TableOK(n, t), NEW k \in Slots, NEW e2 \in Entries, EntryOK(n, e2),
         e2.timeout > 0 => FindEntry(t, e2.src, e2.dst) \subseteq {k}
  PROVE  TableOK(n, [t EXCEPT ![k] = e2])
<1> DEFINE t2 == [t EXCEPT ![k] = e2]
<1>1. t \in [Slots -> Entries] /\ \A j \in Slots : EntryOK(n, t[j])
  BY DEF TableOK
<1>2. t2 \in [Slots -> Entries] /\ \A j \in Slots : EntryOK(n, t2[j])
  BY <1>1
<1>3. ASSUME NEW s \in Origins, NEW d \in Targets, NEW i \in Slots, NEW j \in Slots,
             i \in FindEntry(t2, s, d), j \in FindEntry(t2, s, d)
      PROVE  i = j
  <2>1. FindEntry(t2, s, d) = (FindEntry(t, s, d) \ {k}) \cup
                              (IF e2.timeout > 0 /\ e2.src = s /\ e2.dst = d THEN {k} ELSE {})
    BY <1>1 DEF FindEntry
  <2> HIDE DEF t2
  <2>2. i \in FindEntry(t, s, d) /\ j \in FindEntry(t, s, d) => i = j
    BY DEF TableOK
  <2> QED BY <1>3, <2>1, <2>2
<1> QED BY <1>2, <1>3 DEF TableOK

\* What a table t2 that replaces t may do to the ways back, and what it keeps.
NoNewWay(t, t2, s, d) ==
  \A k \in FindEntry(t2, s, d) :
    t2[k].from \in Nodes => k \in FindEntry(t, s, d) /\ t2[k].from = t[k].from

NoLoss(t, t2, s, d) ==
  \A k \in FindEntry(t, s, d) :
    k \in FindEntry(t2, s, d) /\ t2[k].flq >= t[k].flq /\ t2[k].rlq >= t[k].rlq

LEMMA BackIs ==
  ASSUME NEW s, NEW d, NEW p \in Nodes, NEW m \in Nodes
  PROVE  /\ <<p, m>> \in Back(s, d) <=> \E k \in FindEntry(table[p], s, d) : table[p][k].from = m
         /\ <<p, m>> \in Back(s, d)' <=> \E k \in FindEntry(table'[p], s, d) : table'[p][k].from = m
BY DEF Back

LEMMA BackShrinks ==
  ASSUME NEW s, NEW d, \A p \in Nodes : NoNewWay(table[p], table'[p], s, d)
  PROVE  Shrinks(Back(s, d), Back(s, d)')
BY BackIs DEF Shrinks, NoNewWay

LEMMA BackRedirects ==
  ASSUME NEW s, NEW d, NEW n \in Nodes, NEW q,
         \A p \in Nodes \ {n} : NoNewWay(table[p], table'[p], s, d),
         \A k \in FindEntry(table'[n], s, d) : table'[n][k].from = q
  PROVE  Redirects(Back(s, d), Back(s, d)', n, q)
<1> SUFFICES ASSUME NEW p \in Nodes, NEW m \in Nodes, <<p, m>> \in Back(s, d)'
             PROVE  IF p = n THEN m = q ELSE <<p, m>> \in Back(s, d)
  BY DEF Redirects
<1>1. PICK k \in FindEntry(table'[p], s, d) : table'[p][k].from = m
  BY DEF Back
<1>2. CASE p = n
  BY <1>1, <1>2
<1>3. CASE p # n
  <2>1. k \in FindEntry(table[p], s, d) /\ table[p][k].from = m
    BY <1>1, <1>3 DEF NoNewWay
  <2> QED BY <1>3, <2>1, BackIs
<1> QED BY <1>2, <1>3

LEMMA HighGrows ==
  ASSUME NEW s, NEW d, NEW l \in Nat,
         table \in [Nodes -> [Slots -> Entries]], table' \in [Nodes -> [Slots -> Entries]],
         \A p \in Nodes : NoLoss(table[p], table'[p], s, d)
  PROVE  High(s, d, l) \subseteq High(s, d, l)' /\ Told(s, d, l) \subseteq Told(s, d, l)'
<1>1. ASSUME NEW p \in Nodes, NEW k \in FindEntry(table[p], s, d)
      PROVE  /\ k \in FindEntry(table'[p], s, d)
             /\ table[p][k].flq >= l => table'[p][k].flq >= l
             /\ table[p][k].rlq >= l => table'[p][k].rlq >= l
  <2>1. k \in Slots
    BY DEF FindEntry
  <2>2. table[p][k] \in Entries /\ table'[p][k] \in Entries
    BY <2>1
  <2>3. /\ table[p][k].flq \in Nat /\ table'[p][k].flq \in Nat
        /\ table[p][k].rlq \in Nat /\ table'[p][k].rlq \in Nat
    BY <2>2, EntryFields
  <2>4. k \in FindEntry(table'[p], s, d) /\ table'[p][k].flq >= table[p][k].flq
        /\ table'[p][k].rlq >= table[p][k].rlq
    BY DEF NoLoss
  <2> QED BY <2>3, <2>4
<1>2. High(s, d, l) \subseteq High(s, d, l)'
  BY <1>1 DEF High
<1>3. Told(s, d, l) \subseteq Told(s, d, l)'
  BY <1>1 DEF Told
<1> QED BY <1>2, <1>3


LEMMA SlotNoNewWay ==
  ASSUME NEW t \in [Slots -> Entries], NEW k \in Slots, NEW e2 \in Entries, NEW s, NEW d,
         e2.timeout > 0 /\ e2.from \in Nodes =>
           t[k].timeout > 0 /\ t[k].src = e2.src /\ t[k].dst = e2.dst /\ t[k].from = e2.from
  PROVE  NoNewWay(t, [t EXCEPT ![k] = e2], s, d)
BY DEF NoNewWay, FindEntry

LEMMA SlotNoLoss ==
  ASSUME NEW t \in [Slots -> Entries], NEW k \in Slots, NEW e2 \in Entries, NEW s, NEW d,
         t[k].timeout > 0 /\ t[k].src = s /\ t[k].dst = d =>
           /\ e2.timeout > 0 /\ e2.src = s /\ e2.dst = d
           /\ e2.flq >= t[k].flq /\ e2.rlq >= t[k].rlq
  PROVE  NoLoss(t, [t EXCEPT ![k] = e2], s, d)
<1> SUFFICES ASSUME NEW j \in FindEntry(t, s, d)
             PROVE  /\ j \in FindEntry([t EXCEPT ![k] = e2], s, d)
                    /\ [t EXCEPT ![k] = e2][j].flq >= t[j].flq
                    /\ [t EXCEPT ![k] = e2][j].rlq >= t[j].rlq
  BY DEF NoLoss
<1>1. j \in Slots /\ t[j].timeout > 0 /\ t[j].src = s /\ t[j].dst = d
  BY DEF FindEntry
<1>2. CASE j = k
  BY <1>1, <1>2 DEF FindEntry
<1>3. CASE j # k
  <2>1. [t EXCEPT ![k] = e2][j] = t[j]
    BY <1>1, <1>3
  <2>2. t[j] \in Entries
    BY <1>1
  <2>3. t[j].flq \in Nat /\ t[j].rlq \in Nat
    BY <2>2, EntryFields
  <2> QED BY <1>1, <2>1, <2>3 DEF FindEntry
<1> QED BY <1>2, <1>3

-----------------------------------------------------------------------------
(***************************************************************************)
(* The operations on a table.                                              *)
(***************************************************************************)

\* What a table that replaces t may be, whatever it drops.
Quiet(n, t, t2) ==
  /\ TableOK(n, t2)
  /\ \A s \in Origins, d \in Targets : NoNewWay(t, t2, s, d)

LEMMA QuietSelf ==
  ASSUME NEW n, NEW t, TableOK(n, t)
  PROVE  Quiet(n, t, t) /\ \A s, d : NoLoss(t, t, s, d)
<1>1. \A s, d : NoNewWay(t, t, s, d)
  BY DEF NoNewWay
<1>2. ASSUME NEW s, NEW d, NEW k \in FindEntry(t, s, d) PROVE t[k].flq >= t[k].flq /\ t[k].rlq >= t[k].rlq
  <2>1. t[k] \in Entries
    BY DEF TableOK, FindEntry
  <2> QED BY <2>1, EntryFields
<1> QED BY <1>1, <1>2 DEF Quiet, NoLoss

\* An entry counts down, or comes to its end.
Aged(n, t, t2, k, i) ==
  /\ Quiet(n, t, t2)
  /\ \A s, d : i > 0 \/ t[k].src # s \/ t[k].dst # d => NoLoss(t, t2, s, d)

LEMMA TableAges ==
  ASSUME NEW n, NEW t, TableOK(n, t), NEW k \in Slots, NEW i \in 0..Timeout,
         i > 0 => t[k].timeout > 0
  PROVE  Aged(n, t, [t EXCEPT ![k] = [t[k] EXCEPT !.timeout = i]], k, i)
<1> DEFINE e == t[k]
           e2 == [e EXCEPT !.timeout = i]
           t2 == [t EXCEPT ![k] = e2]
<1>1. t \in [Slots -> Entries] /\ e \in Entries /\ EntryOK(n, e)
  BY DEF TableOK
<1> HIDE DEF e
<1>2. /\ e2 \in Entries /\ e2.src = e.src /\ e2.dst = e.dst /\ e2.from = e.from
      /\ e2.flq = e.flq /\ e2.rlq = e.rlq /\ e2.timeout = i
  BY <1>1 DEF Entries
<1>3. i > 0 => e.timeout > 0
  BY DEF e
<1>4. EntryOK(n, e2)
  BY <1>1, <1>2, <1>3 DEF EntryOK
<1>5. e.flq \in Nat /\ e.rlq \in Nat /\ e.timeout \in Nat /\ i \in Nat
  BY <1>1, EntryFields, DiscoveryAssumption
<1> HIDE DEF e2
<1>6. t[k] = e
  BY DEF e
<1>7. TableOK(n, t2)
  <2>1. ASSUME e2.timeout > 0, NEW j \in FindEntry(t, e2.src, e2.dst) PROVE j = k
    <3>1. k \in FindEntry(t, e2.src, e2.dst)
      BY <1>2, <1>3, <1>6, <2>1 DEF FindEntry
    <3>2. j \in Slots
      BY DEF FindEntry
    <3>3. e2.src \in Origins /\ e2.dst \in Targets
      BY <1>4, <2>1 DEF EntryOK
    <3> QED BY <3>1, <3>2, <3>3 DEF TableOK
  <2> QED BY <1>2, <1>4, <2>1, TableSet
<1>8. \A s, d : NoNewWay(t, t2, s, d)
  BY <1>1, <1>2, <1>3, <1>6, SlotNoNewWay
<1>9. ASSUME NEW s, NEW d, i > 0 \/ t[k].src # s \/ t[k].dst # d
      PROVE  NoLoss(t, t2, s, d)
  <2>1. t[k].timeout > 0 /\ t[k].src = s /\ t[k].dst = d =>
          /\ e2.timeout > 0 /\ e2.src = s /\ e2.dst = d
          /\ e2.flq >= t[k].flq /\ e2.rlq >= t[k].rlq
    BY <1>2, <1>5, <1>6, <1>9
  <2> QED BY <1>1, <1>2, <2>1, SlotNoLoss
<1>10. Aged(n, t, t2, k, i)
  BY <1>7, <1>8, <1>9 DEF Quiet, Aged
<1>11. t2 = [t EXCEPT ![k] = [t[k] EXCEPT !.timeout = i]]
  BY DEF e2, e
<1> HIDE DEF t2
<1> QED BY <1>10, <1>11, Zenon


\* A discovery gets a new entry in a free slot.
Renewed(n, t, t2, k, s, d, sender, lq) ==
  /\ TableOK(n, t2)
  /\ \A s2, d2 : NoLoss(t, t2, s2, d2)
  /\ \A s2, d2 : s2 # s \/ d2 # d \/ s = n => NoNewWay(t, t2, s2, d2)
  /\ k \in FindEntry(t2, s, d) /\ t2[k].from = sender /\ t2[k].flq = lq

LEMMA TableNew ==
  ASSUME NEW n \in Nodes, NEW t, TableOK(n, t), NEW k \in Slots, t[k].timeout = 0,
         NEW s \in Origins, NEW d \in Targets, FindEntry(t, s, d) = {},
         NEW sender, NEW lq \in 0..255,
         s = n => sender = NoNode, s # n => sender \in Nodes
  PROVE  Renewed(n, t, [t EXCEPT ![k] = NewEntry(s, d, sender, lq)], k, s, d, sender, lq)
<1> DEFINE e2 == NewEntry(s, d, sender, lq)
           t2 == [t EXCEPT ![k] = e2]
<1>1. t \in [Slots -> Entries]
  BY DEF TableOK
<1>2. Timeout \in 0..Timeout /\ Timeout > 0 /\ Origins \subseteq Nodes /\ NoNode \notin Nodes
  BY DiscoveryAssumption
<1>3. /\ e2 \in Entries /\ e2.src = s /\ e2.dst = d /\ e2.from = sender /\ e2.flq = lq /\ e2.timeout = Timeout
      /\ EntryOK(n, e2)
  <2>1. sender \in Nodes \cup {NoNode}
    OBVIOUS
  <2>2. /\ e2.src = s /\ e2.dst = d /\ e2.from = sender /\ e2.flq = lq /\ e2.rlq = NoLink
        /\ e2.timeout = Timeout
    BY DEF NewEntry
  <2>3. e2 \in Entries
    BY <1>2, <2>1 DEF NewEntry, Entries, NoLink
  <2> QED BY <2>2, <2>3 DEF EntryOK
<1> HIDE DEF e2
<1>4. TableOK(n, t2)
  BY <1>3, TableSet
<1>5. \A s2, d2 : NoLoss(t, t2, s2, d2)
  <2>1. ~(t[k].timeout > 0)
    OBVIOUS
  <2> QED BY <1>1, <1>3, <2>1, SlotNoLoss
<1>6. ASSUME NEW s2, NEW d2, s2 # s \/ d2 # d \/ s = n PROVE NoNewWay(t, t2, s2, d2)
  <2>1. CASE s = n
    <3>1. ~(e2.from \in Nodes)
      BY <1>2, <1>3, <2>1
    <3> QED BY <1>1, <1>3, <3>1, SlotNoNewWay
  <2>2. CASE s2 # s \/ d2 # d
    BY <1>1, <1>3, <2>2 DEF NoNewWay, FindEntry
  <2> QED BY <1>6, <2>1, <2>2
<1>7. k \in FindEntry(t2, s, d) /\ t2[k] = e2
  BY <1>1, <1>2, <1>3 DEF FindEntry
<1>8. t2 = [t EXCEPT ![k] = NewEntry(s, d, sender, lq)]
  BY DEF e2
<1> HIDE DEF t2
<1>9. Renewed(n, t, t2, k, s, d, sender, lq)
  BY <1>3, <1>4, <1>5, <1>6, <1>7 DEF Renewed
<1> QED BY <1>8, <1>9, Zenon

\* A discovery has come by a better way, which its entry keeps.
LEMMA TableBetter ==
  ASSUME NEW n \in Nodes, NEW t, TableOK(n, t), NEW s \in Origins, NEW d \in Targets,
         NEW k \in FindEntry(t, s, d), s # n,
         NEW sender \in Nodes, NEW lq \in 0..255, lq > t[k].flq
  PROVE  Renewed(n, t, [t EXCEPT ![k] = [t[k] EXCEPT !.from = sender, !.flq = lq]], k, s, d, sender, lq)
<1> DEFINE e == t[k]
           e2 == [e EXCEPT !.from = sender, !.flq = lq]
           t2 == [t EXCEPT ![k] = e2]
<1>1. t \in [Slots -> Entries] /\ k \in Slots /\ e \in Entries /\ EntryOK(n, e)
      /\ e.src = s /\ e.dst = d /\ e.timeout > 0
  BY DEF TableOK, FindEntry
<1>2. lq > e.flq /\ t[k] = e
  OBVIOUS
<1> HIDE DEF e
<1>3. e.flq \in Nat /\ e.rlq \in Nat
  BY <1>1, EntryFields
<1>4. /\ e2.src = s /\ e2.dst = d /\ e2.from = sender /\ e2.flq = lq /\ e2.rlq = e.rlq
      /\ e2.timeout = e.timeout /\ e2 \in Entries
  <2> DEFINE f == [e EXCEPT !.from = sender]
  <2>1. f \in Entries /\ f.src = e.src /\ f.dst = e.dst /\ f.from = sender /\ f.rlq = e.rlq /\ f.timeout = e.timeout
    BY <1>1 DEF Entries
  <2> HIDE DEF f
  <2>2. [f EXCEPT !.flq = lq] \in Entries /\ [f EXCEPT !.flq = lq].src = f.src
        /\ [f EXCEPT !.flq = lq].dst = f.dst /\ [f EXCEPT !.flq = lq].from = f.from
        /\ [f EXCEPT !.flq = lq].flq = lq /\ [f EXCEPT !.flq = lq].rlq = f.rlq
        /\ [f EXCEPT !.flq = lq].timeout = f.timeout
    BY <2>1 DEF Entries
  <2>3. e2 = [f EXCEPT !.flq = lq]
    BY DEF f
  <2> QED BY <1>1, <2>1, <2>2, <2>3
<1> HIDE DEF e2
<1>5. EntryOK(n, e2)
  BY <1>1, <1>4 DEF EntryOK
<1>6. TableOK(n, t2)
  <2>1. FindEntry(t, s, d) \subseteq {k}
    BY <1>1 DEF TableOK, FindEntry
  <2> QED BY <1>1, <1>4, <1>5, <2>1, TableSet
<1>7. ASSUME NEW s2, NEW d2 PROVE NoLoss(t, t2, s2, d2)
  <2>1. t[k].timeout > 0 /\ t[k].src = s2 /\ t[k].dst = d2 =>
          /\ e2.timeout > 0 /\ e2.src = s2 /\ e2.dst = d2
          /\ e2.flq >= t[k].flq /\ e2.rlq >= t[k].rlq
    BY <1>1, <1>2, <1>3, <1>4
  <2> QED BY <1>1, <1>4, <2>1, SlotNoLoss
<1>8. ASSUME NEW s2, NEW d2, s2 # s \/ d2 # d PROVE NoNewWay(t, t2, s2, d2)
  BY <1>1, <1>4, <1>8 DEF NoNewWay, FindEntry
<1>9. k \in FindEntry(t2, s, d) /\ t2[k] = e2
  BY <1>1, <1>4 DEF FindEntry
<1>10. t2 = [t EXCEPT ![k] = [t[k] EXCEPT !.from = sender, !.flq = lq]]
  BY DEF e2, e
<1> HIDE DEF t2
<1>11. Renewed(n, t, t2, k, s, d, sender, lq)
  BY <1>4, <1>6, <1>7, <1>8, <1>9 DEF Renewed
<1> QED BY <1>10, <1>11, Zenon

\* A reply has told of a better way.
Raised(n, t, t2, k, lq) ==
  /\ Quiet(n, t, t2)
  /\ \A s, d : NoLoss(t, t2, s, d)
  /\ \A s, d : FindEntry(t2, s, d) = FindEntry(t, s, d)
  /\ t2[k].rlq = lq

LEMMA TableTold ==
  ASSUME NEW n \in Nodes, NEW t, TableOK(n, t), NEW k \in Slots,
         NEW lq \in 0..255, lq > t[k].rlq
  PROVE  Raised(n, t, [t EXCEPT ![k] = [t[k] EXCEPT !.rlq = lq]], k, lq)
<1> DEFINE e == t[k]
           e2 == [e EXCEPT !.rlq = lq]
           t2 == [t EXCEPT ![k] = e2]
<1>1. t \in [Slots -> Entries] /\ e \in Entries /\ EntryOK(n, e)
  BY DEF TableOK
<1>2. lq > e.rlq /\ t[k] = e
  OBVIOUS
<1> HIDE DEF e
<1>3. e.flq \in Nat /\ e.rlq \in Nat /\ e.timeout \in Nat
  BY <1>1, EntryFields
<1>4. /\ e2 \in Entries /\ e2.src = e.src /\ e2.dst = e.dst /\ e2.from = e.from
      /\ e2.flq = e.flq /\ e2.rlq = lq /\ e2.timeout = e.timeout
  BY <1>1 DEF Entries
<1> HIDE DEF e2
<1>5. EntryOK(n, e2)
  BY <1>1, <1>4 DEF EntryOK
<1>6. TableOK(n, t2)
  <2>1. ASSUME e2.timeout > 0, NEW j \in FindEntry(t, e2.src, e2.dst) PROVE j = k
    <3>1. k \in FindEntry(t, e2.src, e2.dst)
      BY <1>2, <1>4, <2>1 DEF FindEntry
    <3>2. j \in Slots
      BY DEF FindEntry
    <3>3. e2.src \in Origins /\ e2.dst \in Targets
      BY <1>5, <2>1 DEF EntryOK
    <3> QED BY <3>1, <3>2, <3>3 DEF TableOK
  <2> QED BY <1>4, <1>5, <2>1, TableSet
<1>7. \A s, d : NoNewWay(t, t2, s, d)
  <2>1. e2.timeout > 0 /\ e2.from \in Nodes =>
          t[k].timeout > 0 /\ t[k].src = e2.src /\ t[k].dst = e2.dst /\ t[k].from = e2.from
    BY <1>2, <1>4
  <2> QED BY <1>1, <1>4, <2>1, SlotNoNewWay
<1>8. ASSUME NEW s, NEW d PROVE NoLoss(t, t2, s, d)
  <2>1. t[k].timeout > 0 /\ t[k].src = s /\ t[k].dst = d =>
          /\ e2.timeout > 0 /\ e2.src = s /\ e2.dst = d
          /\ e2.flq >= t[k].flq /\ e2.rlq >= t[k].rlq
    BY <1>1, <1>2, <1>3, <1>4
  <2> QED BY <1>1, <1>4, <2>1, SlotNoLoss
<1>9. ASSUME NEW s, NEW d PROVE FindEntry(t2, s, d) = FindEntry(t, s, d)
  BY <1>1, <1>2, <1>4 DEF FindEntry
<1>10. t2[k].rlq = lq
  BY <1>1, <1>4
<1>11. Quiet(n, t, t2)
  BY <1>6, <1>7 DEF Quiet
<1>12. t2 = [t EXCEPT ![k] = [t[k] EXCEPT !.rlq = lq]]
  BY DEF e2, e
<1> HIDE DEF t2
<1>13. Raised(n, t, t2, k, lq)
  BY <1>8, <1>9, <1>10, <1>11 DEF Raised
<1> QED BY <1>12, <1>13, Zenon


-----------------------------------------------------------------------------
(***************************************************************************)
(* What a step of one node means for the ways back and the requests in the *)
(* air.                                                                    *)
(***************************************************************************)
LEMMA TypesOfTables ==
  ASSUME TablesOK, table \in [Nodes -> [Slots -> Entries]], NEW n \in Nodes, NEW t2, TableOK(n, t2),
         table' = [table EXCEPT ![n] = t2]
  PROVE  /\ TablesOK' /\ table' \in [Nodes -> [Slots -> Entries]]
         /\ table'[n] = t2 /\ \A p \in Nodes \ {n} : table'[p] = table[p]
<1>1. t2 \in [Slots -> Entries]
  BY DEF TableOK
<1>2. /\ table' \in [Nodes -> [Slots -> Entries]]
      /\ table'[n] = t2 /\ \A p \in Nodes \ {n} : table'[p] = table[p]
  BY <1>1
<1>3. \A p \in Nodes : TableOK(p, table'[p])
  BY <1>2 DEF TablesOK
<1> QED BY <1>2, <1>3 DEF TablesOK

LEMMA QuietStep ==
  ASSUME Inv, NEW n \in Nodes, NEW t2, Quiet(n, table[n], t2), table' = [table EXCEPT ![n] = t2]
  PROVE  /\ TablesOK' /\ table' \in [Nodes -> [Slots -> Entries]] /\ WayBackAcyclic'
         /\ \A m \in net : m.type = "ROUTE_REQUEST" /\ NoLoss(table[n], t2, m.src, m.dst) => Backed(m)'
<1>1. TablesOK /\ table \in [Nodes -> [Slots -> Entries]]
  BY DEF Inv, TypeOK
<1>2. /\ TablesOK' /\ table' \in [Nodes -> [Slots -> Entries]]
      /\ table'[n] = t2 /\ \A p \in Nodes \ {n} : table'[p] = table[p]
  BY <1>1, TypesOfTables DEF Quiet
<1>3. ASSUME NEW p \in Nodes
      PROVE  Quiet(p, table[p], table[p]) /\ \A s, d : NoLoss(table[p], table[p], s, d)
  BY <1>1, QuietSelf DEF TablesOK
<1>4. ASSUME NEW s \in Origins, NEW d \in Targets PROVE Shrinks(Back(s, d), Back(s, d)')
  <2>1. \A p \in Nodes : NoNewWay(table[p], table'[p], s, d)
    BY <1>2, <1>3 DEF Quiet
  <2> QED BY <2>1, BackShrinks
<1>5. WayBackAcyclic'
  <2>1. ASSUME NEW s \in Origins, NEW d \in Targets PROVE Acyclic(Back(s, d)')
    <3>1. Acyclic(Back(s, d))
      BY DEF Inv, WayBackAcyclic
    <3> QED BY <1>4, <3>1, AcyclicShrinks
  <2> QED BY <2>1 DEF WayBackAcyclic
<1>6. ASSUME NEW m \in net, m.type = "ROUTE_REQUEST", NoLoss(table[n], t2, m.src, m.dst)
      PROVE  Backed(m)'
  <2>1. m \in Messages
    BY DEF Inv, NetOK, MessageOK
  <2>2. m.src \in Origins /\ m.dst \in Targets /\ m.lq \in Nat
    BY <2>1 DEF Messages
  <2>3. Leads(Back(m.src, m.dst), m.from, High(m.src, m.dst, m.lq))
    BY <1>6 DEF Inv, RequestsBacked, Backed
  <2>4. \A p \in Nodes : NoLoss(table[p], table'[p], m.src, m.dst)
    BY <1>2, <1>3, <1>6
  <2>5. High(m.src, m.dst, m.lq) \subseteq High(m.src, m.dst, m.lq)'
    BY <1>1, <1>2, <2>2, <2>4, HighGrows
  <2>6. High(m.src, m.dst, m.lq) \in SUBSET Nodes
    BY DEF High
  <2>7. Shrinks(Back(m.src, m.dst), Back(m.src, m.dst)')
    BY <1>4, <2>2
  <2>8. Leads(Back(m.src, m.dst)', m.from, High(m.src, m.dst, m.lq)')
    BY <2>3, <2>5, <2>6, <2>7, LeadsShrinks
  <2> QED BY <2>8 DEF Backed
<1> QED BY <1>2, <1>5, <1>6

\* An origin that begins a discovery is where the way back ends.
LEMMA OwnFlood ==
  ASSUME TablesOK', NEW n \in Origins, NEW d \in Targets,
         NEW m \in Flood(n, n, d, BestLinkQuality)
  PROVE  MessageOK(m) /\ m.type = "ROUTE_REQUEST" /\ m.src = n /\ m.dst = d /\ Backed(m)'
<1>1. n \in Nodes /\ NoNode \notin Nodes
  BY DiscoveryAssumption
<1>2. PICK p \in Nodes : <<n, p>> \in Link /\ m = Request(n, p, n, d, BestLinkQuality)
  BY DEF Flood
<1>3. /\ m.type = "ROUTE_REQUEST" /\ m.from = n /\ m.to = p /\ m.src = n /\ m.dst = d
      /\ m.lq = BestLinkQuality
  BY <1>2 DEF Request
<1>4. MessageOK(m)
  BY <1>1, <1>2, <1>3 DEF MessageOK, Messages, Request, BestLinkQuality
<1>5. n \in High(n, d, BestLinkQuality)'
  BY <1>1 DEF High
<1>6. ASSUME NEW q \in Nodes PROVE <<n, q>> \notin Back(n, d)'
  <2>1. SUFFICES ASSUME NEW k \in FindEntry(table'[n], n, d) PROVE table'[n][k].from # q
    BY <1>1 DEF Back
  <2>2. k \in Slots /\ table'[n][k].src = n
    BY DEF FindEntry
  <2>3. EntryOK(n, table'[n][k])
    BY <1>1, <2>2 DEF TablesOK, TableOK
  <2> QED BY <1>1, <2>2, <2>3 DEF EntryOK
<1>7. Leads(Back(n, d)', n, High(n, d, BestLinkQuality)')
  BY <1>5, <1>6, LeadsNowhere
<1> QED BY <1>3, <1>4, <1>7 DEF Backed

LEMMA MessageFields ==
  ASSUME NEW m, MessageOK(m)
  PROVE  /\ m.type \in {"ROUTE_REQUEST", "ROUTE_REPLY"} /\ m.from \in Nodes /\ m.to \in Nodes
         /\ m.src \in Origins /\ m.dst \in Targets /\ m.lq \in 0..255
BY DEF MessageOK, Messages


\* A node takes a request m and follows its sender: whatever the way back from there
\* passes is nearer to the source than this node was.
LEMMA TakenStep ==
  ASSUME Inv, NEW m \in net, m.type = "ROUTE_REQUEST",
         NEW n \in Nodes, n # m.src, NEW lq \in 0..255, lq <= m.lq,
         \A k \in FindEntry(table[n], m.src, m.dst) : lq > table[n][k].flq,
         NEW t2, NEW k, Renewed(n, table[n], t2, k, m.src, m.dst, m.from, lq), table' = [table EXCEPT ![n] = t2]
  PROVE  /\ TablesOK' /\ table' \in [Nodes -> [Slots -> Entries]] /\ WayBackAcyclic'
         /\ \A m2 \in net : m2.type = "ROUTE_REQUEST" => Backed(m2)'
         /\ \A m2 \in Flood(n, m.src, m.dst, lq) : MessageOK(m2) /\ Backed(m2)'
<1> DEFINE s == m.src
           d == m.dst
           R == Back(s, d)
           R2 == Back(s, d)'
           G == High(s, d, m.lq)
<1>1. TablesOK /\ table \in [Nodes -> [Slots -> Entries]] /\ TableOK(n, t2)
  BY DEF Inv, TypeOK, Renewed
<1>2. /\ TablesOK' /\ table' \in [Nodes -> [Slots -> Entries]]
      /\ table'[n] = t2 /\ \A p \in Nodes \ {n} : table'[p] = table[p]
  BY <1>1, TypesOfTables
<1>3. MessageOK(m) /\ Leads(R, m.from, G)
  BY DEF Inv, NetOK, RequestsBacked, Backed
<1>4. m.from \in Nodes /\ m.to \in Nodes /\ s \in Origins /\ d \in Targets /\ m.lq \in 0..255
  BY <1>3, MessageFields
<1>5. ASSUME NEW p \in Nodes
      PROVE  /\ Quiet(p, table[p], table[p]) /\ \A s2, d2 : NoLoss(table[p], table[p], s2, d2)
  BY <1>1, QuietSelf DEF TablesOK
<1>6. ASSUME NEW s2 \in Origins, NEW d2 \in Targets, NEW p \in Nodes,
             p # n \/ s2 # s \/ d2 # d
      PROVE  NoNewWay(table[p], table'[p], s2, d2)
  <2>1. CASE p # n
    BY <1>2, <1>5, <2>1 DEF Quiet
  <2>2. CASE p = n /\ (s2 # s \/ d2 # d)
    BY <1>2, <2>2 DEF Renewed
  <2> QED BY <1>6, <2>1, <2>2
<1>7. \A p \in Nodes : \A s2, d2 : NoLoss(table[p], table'[p], s2, d2)
  BY <1>2, <1>5 DEF Renewed
<1>8. Redirects(R, R2, n, m.from)
  <2>1. \A j \in FindEntry(table'[n], s, d) : table'[n][j].from = m.from
    <3>1. \A j \in FindEntry(t2, s, d) : j \in Slots
      BY DEF FindEntry
    <3>2. k \in FindEntry(t2, s, d) /\ t2[k].from = m.from
      BY DEF Renewed
    <3>3. \A j \in FindEntry(t2, s, d) : j = k
      BY <1>1, <1>4, <3>1, <3>2 DEF TableOK
    <3> QED BY <1>2, <3>2, <3>3
  <2>2. \A p \in Nodes \ {n} : NoNewWay(table[p], table'[p], s, d)
    BY <1>4, <1>6
  <2> QED BY <2>1, <2>2, BackRedirects
<1>9. G \in SUBSET Nodes /\ n \notin G
  <2>1. G \in SUBSET Nodes
    BY DEF High
  <2>2. ASSUME NEW j \in FindEntry(table[n], s, d) PROVE ~(table[n][j].flq >= m.lq)
    <3>1. table[n][j] \in Entries
      BY <1>1 DEF FindEntry
    <3>2. table[n][j].flq \in Nat /\ lq > table[n][j].flq
      BY <3>1, EntryFields
    <3> QED BY <1>4, <3>2
  <2>3. n \notin G
    BY <2>2 DEF High
  <2> QED BY <2>1, <2>3
<1>10. n \in High(s, d, lq)'
  <2>1. k \in FindEntry(table'[n], s, d) /\ table'[n][k].flq = lq
    BY <1>2 DEF Renewed
  <2>2. table'[n][k].flq >= lq
    BY <2>1
  <2> QED BY <2>1, <2>2 DEF High
\* Those that would ignore m would ignore all that is worse, also afterwards.
<1>11. ASSUME NEW l \in Nat, l <= m.lq PROVE G \subseteq High(s, d, l)'
  <2>1. G \subseteq High(s, d, l)
    <3>1. ASSUME NEW p \in Nodes, NEW j \in FindEntry(table[p], s, d), table[p][j].flq >= m.lq
          PROVE  table[p][j].flq >= l
      <4>1. table[p][j] \in Entries
        BY <1>1 DEF FindEntry
      <4>2. table[p][j].flq \in Nat
        BY <4>1, EntryFields
      <4> QED BY <1>4, <1>11, <3>1, <4>2
    <3> QED BY <3>1 DEF High
  <2>2. High(s, d, l) \subseteq High(s, d, l)'
    BY <1>1, <1>2, <1>7, HighGrows
  <2> QED BY <2>1, <2>2
<1>12. lq \in Nat /\ m.lq \in Nat
  BY <1>4
<1>13. WayBackAcyclic'
  <2>1. ASSUME NEW s2 \in Origins, NEW d2 \in Targets PROVE Acyclic(Back(s2, d2)')
    <3>1. Acyclic(Back(s2, d2))
      BY DEF Inv, WayBackAcyclic
    <3>2. CASE s2 = s /\ d2 = d
      <4>1. Acyclic(R)
        BY <3>1, <3>2
      <4> HIDE DEF R, R2, G
      <4>2. Acyclic(R2)
        BY <1>3, <1>4, <1>8, <1>9, <4>1, AcyclicRedirects
      <4> QED BY <3>2, <4>2 DEF R2
    <3>3. CASE s2 # s \/ d2 # d
      <4>1. Shrinks(Back(s2, d2), Back(s2, d2)')
        BY <1>6, <3>3, BackShrinks
      <4> QED BY <3>1, <4>1, AcyclicShrinks
    <3> QED BY <3>2, <3>3
  <2> QED BY <2>1 DEF WayBackAcyclic
<1>14. ASSUME NEW m2 \in net, m2.type = "ROUTE_REQUEST" PROVE Backed(m2)'
  <2> DEFINE H == High(m2.src, m2.dst, m2.lq)
             H2 == High(m2.src, m2.dst, m2.lq)'
  <2>1. MessageOK(m2) /\ Leads(Back(m2.src, m2.dst), m2.from, H)
    BY <1>14 DEF Inv, NetOK, RequestsBacked, Backed
  <2>2. m2.src \in Origins /\ m2.dst \in Targets /\ m2.lq \in Nat
    BY <2>1, MessageFields
  <2>3. H \in SUBSET Nodes
    BY DEF High
  <2>4. H \subseteq H2
    BY <1>1, <1>2, <1>7, <2>2, HighGrows
  <2>5. CASE m2.src = s /\ m2.dst = d
    <3>1. ASSUME n \in H PROVE G \subseteq H2
      <4>1. PICK j \in FindEntry(table[n], s, d) : table[n][j].flq >= m2.lq
        BY <2>5, <3>1 DEF High
      <4>2. table[n][j] \in Entries
        BY <1>1 DEF FindEntry
      <4>3. table[n][j].flq \in Nat /\ lq > table[n][j].flq
        BY <4>2, EntryFields
      <4>4. m2.lq <= m.lq
        BY <1>12, <2>2, <4>1, <4>3
      <4> QED BY <1>11, <2>2, <2>5, <4>4
    <3>2. Leads(R, m2.from, H)
      BY <2>1, <2>5
    <3> HIDE DEF R, R2, G, H, H2
    <3>3. Leads(R2, m2.from, H2)
      BY <1>3, <1>8, <1>9, <2>3, <2>4, <3>1, <3>2, LeadsRedirects
    <3> QED BY <2>5, <3>3 DEF R2, H2, Backed
  <2>6. CASE m2.src # s \/ m2.dst # d
    <3>1. Shrinks(Back(m2.src, m2.dst), Back(m2.src, m2.dst)')
      BY <1>6, <2>2, <2>6, BackShrinks
    <3>2. Leads(Back(m2.src, m2.dst)', m2.from, H2)
      BY <2>1, <2>3, <2>4, <3>1, LeadsShrinks
    <3> QED BY <3>2 DEF Backed
  <2> QED BY <2>5, <2>6
<1>15. ASSUME NEW m2 \in Flood(n, s, d, lq) PROVE MessageOK(m2) /\ Backed(m2)'
  <2>1. PICK p \in Nodes : <<n, p>> \in Link /\ m2 = Request(n, p, s, d, lq)
    BY DEF Flood
  <2>2. m2.type = "ROUTE_REQUEST" /\ m2.from = n /\ m2.to = p /\ m2.src = s /\ m2.dst = d /\ m2.lq = lq
    BY <2>1 DEF Request
  <2>3. MessageOK(m2)
    BY <1>4, <2>1, <2>2 DEF MessageOK, Messages, Request
  <2>4. G \subseteq High(s, d, lq)'
    BY <1>11, <1>12
  <2>5. Leads(R2, n, High(s, d, lq)')
    <3> HIDE DEF R, R2, G
    <3> QED BY <1>3, <1>8, <1>9, <1>10, <2>4, LeadsFrom
  <2> QED BY <2>2, <2>3, <2>5 DEF Backed
<1> QED BY <1>2, <1>13, <1>14, <1>15


-----------------------------------------------------------------------------
(***************************************************************************)
(* A step that finds no new way back: what stays in the air has lost no    *)
(* entry, what is new is a flood of the node's own or a reply.             *)
(***************************************************************************)
Core == TablesOK /\ table \in [Nodes -> [Slots -> Entries]] /\ NetOK /\ RequestsBacked /\ WayBackAcyclic

QuietNet(n, t2) ==
  \A m \in net' : \/ m \in net /\ NoLoss(table[n], t2, m.src, m.dst)
                  \/ n \in Origins /\ \E d \in Targets : m \in Flood(n, n, d, BestLinkQuality)
                  \/ MessageOK(m) /\ m.type = "ROUTE_REPLY"

LEMMA QuietCore ==
  ASSUME Inv, NEW n \in Nodes, NEW t2, Quiet(n, table[n], t2), table' = [table EXCEPT ![n] = t2],
         QuietNet(n, t2)
  PROVE  Core'
<1>1. /\ TablesOK' /\ table' \in [Nodes -> [Slots -> Entries]] /\ WayBackAcyclic'
      /\ \A m \in net : m.type = "ROUTE_REQUEST" /\ NoLoss(table[n], t2, m.src, m.dst) => Backed(m)'
  BY QuietStep
<1>2. ASSUME NEW m \in net'
      PROVE  MessageOK(m) /\ (m.type = "ROUTE_REQUEST" => Backed(m)')
  <2>1. CASE m \in net /\ NoLoss(table[n], t2, m.src, m.dst)
    BY <1>1, <2>1 DEF Inv, NetOK
  <2>2. CASE n \in Origins /\ \E d \in Targets : m \in Flood(n, n, d, BestLinkQuality)
    BY <1>1, <2>2, OwnFlood
  <2>3. CASE MessageOK(m) /\ m.type = "ROUTE_REPLY"
    BY <2>3
  <2> QED BY <2>1, <2>2, <2>3 DEF QuietNet
<1>3. NetOK' /\ RequestsBacked'
  BY <1>2 DEF NetOK, RequestsBacked, MessageOK
<1> QED BY <1>1, <1>3 DEF Core

LEMMA CoreKept ==
  ASSUME Inv, UNCHANGED table, net' \subseteq net
  PROVE  Core'
<1>1. \A s, d : Back(s, d)' = Back(s, d)
  BY DEF Back
<1>2. \A s, d, l : High(s, d, l)' = High(s, d, l)
  BY DEF High
<1>3. TablesOK' /\ table' \in [Nodes -> [Slots -> Entries]] /\ NetOK'
  BY DEF Inv, TypeOK, TablesOK, NetOK
<1>4. WayBackAcyclic'
  BY <1>1 DEF Inv, WayBackAcyclic
<1>5. RequestsBacked'
  <2>1. ASSUME NEW m \in net', m.type = "ROUTE_REQUEST" PROVE Backed(m)'
    <3>1. Leads(Back(m.src, m.dst), m.from, High(m.src, m.dst, m.lq))
      BY <2>1 DEF Inv, RequestsBacked, Backed
    <3>2. Leads(Back(m.src, m.dst)', m.from, High(m.src, m.dst, m.lq)')
      BY <1>1, <1>2, <3>1
    <3> QED BY <3>2 DEF Backed
  <2> QED BY <2>1 DEF RequestsBacked
<1> QED BY <1>3, <1>4, <1>5 DEF Core

LEMMA QuietChain ==
  ASSUME NEW n, NEW t, NEW t1, NEW t2, Quiet(n, t, t1), Quiet(n, t1, t2)
  PROVE  Quiet(n, t, t2)
BY DEF Quiet, NoNewWay

LEMMA NoLossChain ==
  ASSUME NEW t \in [Slots -> Entries], NEW t1 \in [Slots -> Entries], NEW t2 \in [Slots -> Entries],
         NEW s, NEW d, NoLoss(t, t1, s, d), NoLoss(t1, t2, s, d)
  PROVE  NoLoss(t, t2, s, d)
<1> SUFFICES ASSUME NEW k \in FindEntry(t, s, d)
             PROVE  k \in FindEntry(t2, s, d) /\ t2[k].flq >= t[k].flq /\ t2[k].rlq >= t[k].rlq
  BY DEF NoLoss
<1>1. k \in Slots /\ k \in FindEntry(t1, s, d)
  BY DEF NoLoss, FindEntry
<1>2. t[k] \in Entries /\ t1[k] \in Entries /\ t2[k] \in Entries
  BY <1>1
<1>3. /\ t[k].flq \in Nat /\ t1[k].flq \in Nat /\ t2[k].flq \in Nat
      /\ t[k].rlq \in Nat /\ t1[k].rlq \in Nat /\ t2[k].rlq \in Nat
  BY <1>2, EntryFields
<1>4. t1[k].flq >= t[k].flq /\ t1[k].rlq >= t[k].rlq
  BY DEF NoLoss
<1>5. k \in FindEntry(t2, s, d) /\ t2[k].flq >= t1[k].flq /\ t2[k].rlq >= t1[k].rlq
  BY <1>1 DEF NoLoss
<1> QED BY <1>3, <1>4, <1>5

\* What a discovery that is begun does to the table, the air and the frames.
Begun(n, d, t, fr, f, air, t2) ==
  /\ Quiet(n, t, t2) /\ \A s2, d2 : NoLoss(t, t2, s2, d2)
  /\ FindEntry(t2, n, d) # {}
  /\ table' = [table EXCEPT ![n] = t2]
  /\ net' \subseteq air \cup Flood(n, n, d, BestLinkQuality)
  /\ \/ frame' = [frame EXCEPT ![n] = fr]
     \/ frame' = [frame EXCEPT ![n] = [fr EXCEPT ![f].state = "NO_ROUTE"]]

LEMMA BeginIs ==
  ASSUME NEW n \in Origins, NEW d \in Targets, NEW t, TableOK(n, t), FindEntry(t, n, d) = {},
         NEW fr, NEW f, NEW air, Begin(n, d, t, fr, f, air)
  PROVE  \E t2 : Begun(n, d, t, fr, f, air, t2)
<1>1. n \in Nodes /\ NoLink \in 0..255
  BY DiscoveryAssumption DEF NoLink
<1>2. PICK k \in Slots :
        /\ IsNewEntry(t, k)
        /\ table' = [table EXCEPT ![n] = [t EXCEPT ![k] = NewEntry(n, d, NoNode, NoLink)]]
        /\ \/ /\ net' = air \cup Flood(n, n, d, BestLinkQuality)
              /\ frame' = [frame EXCEPT ![n] = fr]
           \/ /\ net' = air
              /\ frame' = [frame EXCEPT ![n] = [fr EXCEPT ![f].state = "NO_ROUTE"]]
  BY DEF Begin
<1> DEFINE t2 == [t EXCEPT ![k] = NewEntry(n, d, NoNode, NoLink)]
<1>3. t[k].timeout = 0
  BY <1>2 DEF IsNewEntry
<1>4. /\ TableOK(n, t2)
      /\ \A s2, d2 : NoLoss(t, t2, s2, d2)
      /\ \A s2, d2 : NoNewWay(t, t2, s2, d2)
      /\ k \in FindEntry(t2, n, d)
  <2>1. Renewed(n, t, t2, k, n, d, NoNode, NoLink)
    BY <1>1, <1>3, TableNew
  <2> QED BY <2>1 DEF Renewed
<1>5. table' = [table EXCEPT ![n] = t2]
  BY <1>2
<1> HIDE DEF t2
<1>6. Quiet(n, t, t2)
  BY <1>4 DEF Quiet
<1>7. Begun(n, d, t, fr, f, air, t2)
  BY <1>2, <1>4, <1>5, <1>6 DEF Begun
<1> QED BY <1>7


-----------------------------------------------------------------------------
(***************************************************************************)
(* The steps of an application and of the network layer.                   *)
(***************************************************************************)

\* What remains to be shown when Core' is.
Rest == /\ timer \in [Nodes -> BOOLEAN] /\ busy \in Nodes \cup {NoNode} /\ at \in 0..TableSize
        /\ route \in [Nodes -> [Goals -> Nodes \cup {NoNode}]]
        /\ frame \in [Origins -> [Frames -> FrameRecords]]
        /\ sent \in 0..MaxFrames /\ lost \in 0..MaxRouteLosses

LEMMA InvIsCore == Inv <=> Core /\ Rest /\ LiveCovered /\ WaitEntry
BY DEF Inv, Core, Rest, TypeOK

LEMMA InvIsCorePrime == Inv' <=> Core' /\ Rest' /\ LiveCovered' /\ WaitEntry'
BY DEF Inv, Core, Rest, TypeOK

\* The replies in the air are new ones, or old ones with the entries they are about
\* still there.
RepliesLeft(new) ==
  \E p \in Nodes : \E t2 \in [Slots -> Entries] :
    /\ table' = [table EXCEPT ![p] = t2]
    /\ \A m \in net' : m.type = "ROUTE_REPLY" =>
         m \in new \/ (m \in net /\ NoLoss(table[p], t2, m.src, m.dst))

LEMMA LeftAlone ==
  ASSUME Inv, NEW n \in Nodes, UNCHANGED table, net' \subseteq net, NEW new
  PROVE  RepliesLeft(new)
<1>1. TableOK(n, table[n]) /\ table \in [Nodes -> [Slots -> Entries]]
  BY DEF Inv, TypeOK, TablesOK
<1>2. table' = [table EXCEPT ![n] = table[n]] /\ \A s, d : NoLoss(table[n], table[n], s, d)
  BY <1>1, QuietSelf
<1> QED BY <1>1, <1>2 DEF RepliesLeft

LEMMA FloodIs ==
  ASSUME NEW n, NEW s, NEW d, NEW l, NEW m \in Flood(n, s, d, l)
  PROVE  m.type = "ROUTE_REQUEST"
<1>1. PICK p \in Nodes : m = Request(n, p, s, d, l)
  BY DEF Flood
<1> QED BY <1>1 DEF Request

\* Only the frames of node n change, or none; whichever waits has an entry.
LEMMA WaitStep ==
  ASSUME WaitEntry, NEW n \in Nodes, NEW t2, table \in [Nodes -> [Slots -> Entries]],
         table' = [table EXCEPT ![n] = t2], t2 \in [Slots -> Entries],
         \A p \in Origins \ {n} : frame'[p] = frame[p],
         n \in Origins => \A d \in Targets : Waiting(n, d)' # {} => FindEntry(t2, n, d) # {}
  PROVE  WaitEntry'
<1> SUFFICES ASSUME NEW p \in Origins, NEW d \in Targets, Waiting(p, d)' # {}
             PROVE  FindEntry(table'[p], p, d) # {}
  BY DEF WaitEntry
<1>1. p \in Nodes
  BY DiscoveryAssumption
<1>2. CASE p = n
  BY <1>2
<1>3. CASE p # n
  <2>1. Waiting(p, d)' = Waiting(p, d) /\ table'[p] = table[p]
    BY <1>1, <1>3 DEF Waiting
  <2> QED BY <2>1 DEF WaitEntry
<1> QED BY <1>2, <1>3

\* A table that has lost no entry keeps those frames wait for.
LEMMA WaitKept ==
  ASSUME WaitEntry, NEW n \in Origins, NEW t2, NEW d \in Targets, NoLoss(table[n], t2, n, d),
         Waiting(n, d) # {}
  PROVE  FindEntry(t2, n, d) # {}
BY DEF WaitEntry, NoLoss

\* The timer of a node whose table may have got an entry runs.
LEMMA LiveStep ==
  ASSUME LiveCovered, NEW n \in Nodes, NEW t2, table \in [Nodes -> [Slots -> Entries]],
         table' = [table EXCEPT ![n] = t2], t2 \in [Slots -> Entries], UNCHANGED busy,
         \A p \in Nodes \ {n} : timer'[p] = timer[p],
         timer'[n] \/ busy = n
  PROVE  LiveCovered'
<1> SUFFICES ASSUME NEW p \in Nodes, \E k \in Slots : table'[p][k].timeout > 0
             PROVE  timer'[p] \/ busy = p
  BY DEF LiveCovered
<1>1. CASE p = n
  BY <1>1
<1>2. CASE p # n
  <2>1. table'[p] = table[p]
    BY <1>2
  <2> QED BY <1>2, <2>1 DEF LiveCovered
<1> QED BY <1>1, <1>2

LEMMA TxFrameKeeps ==
  ASSUME Inv, NEW n \in Origins, NEW f \in Frames, NEW d \in Targets, nwkTxFrame(n, f, d)
  PROVE  Inv' /\ RepliesLeft({})
<1> DEFINE rec == [state |-> "WAIT_FOR_ROUTE", dst |-> d]
           fr == [frame[n] EXCEPT ![f] = rec]
           non == [state |-> "NO_ROUTE", dst |-> d]
<1>1. /\ n \in Nodes /\ TableOK(n, table[n]) /\ table \in [Nodes -> [Slots -> Entries]]
      /\ frame \in [Origins -> [Frames -> FrameRecords]] /\ timer \in [Nodes -> BOOLEAN]
      /\ WaitEntry /\ LiveCovered
  BY DiscoveryAssumption DEF Inv, TypeOK, TablesOK
<1>2. /\ sent' \in 0..MaxFrames /\ UNCHANGED <<busy, at, route, lost>>
      /\ nwkRouteDiscoveryRequest(n, f, d)
  BY DiscoveryAssumption DEF Inv, TypeOK, nwkTxFrame, handler
<1>3. /\ rec \in FrameRecords /\ non \in FrameRecords /\ fr \in [Frames -> FrameRecords]
      /\ fr[f] = rec /\ \A g \in Frames \ {f} : fr[g] = frame[n][g]
  BY <1>1 DEF FrameRecords
<1>4. \A t2 : UNCHANGED table /\ t2 = table[n] => table' = [table EXCEPT ![n] = t2]
  BY <1>1
\* Whatever the frame's fate, the others wait for what they waited for.
<1>5. ASSUME NEW d2 \in Targets, NEW fs, frame' = [frame EXCEPT ![n] = fs],
             \A g \in Frames \ {f} : fs[g] = frame[n][g],
             fs[f].state = "WAIT_FOR_ROUTE" => fs[f].dst = d,
             Waiting(n, d2)' # {}
      PROVE  Waiting(n, d2) # {} \/ (d2 = d /\ fs[f].state = "WAIT_FOR_ROUTE")
  <2>1. PICK g \in Frames : frame'[n][g] = [state |-> "WAIT_FOR_ROUTE", dst |-> d2]
    BY <1>5 DEF Waiting
  <2>2. fs[g] = [state |-> "WAIT_FOR_ROUTE", dst |-> d2]
    BY <1>1, <1>5, <2>1
  <2>3. CASE g = f
    BY <1>5, <2>2, <2>3
  <2>4. CASE g # f
    <3>1. frame[n][g] = [state |-> "WAIT_FOR_ROUTE", dst |-> d2]
      BY <1>5, <2>2, <2>4
    <3>2. g \in Waiting(n, d2)
      BY <3>1 DEF Waiting
    <3>3. Waiting(n, d2) # {}
      BY <3>2
    <3> QED BY <3>3
  <2> QED BY <2>3, <2>4
<1> HIDE DEF rec, non
<1>6. CASE FindEntry(table[n], n, d) # {} /\ frame' = [frame EXCEPT ![n] = fr] /\ UNCHANGED <<table, timer, net>>
  <2>1. Core'
    BY <1>6, CoreKept
  <2>2. Rest'
    BY <1>1, <1>2, <1>3, <1>6 DEF Inv, TypeOK, Rest
  <2>3. LiveCovered'
    BY <1>1, <1>2, <1>6 DEF LiveCovered
  <2>4. WaitEntry'
    <3>1. ASSUME NEW d2 \in Targets, Waiting(n, d2)' # {} PROVE FindEntry(table[n], n, d2) # {}
      <4>1. fr[f].dst = d
        BY <1>3 DEF rec
      <4>2. Waiting(n, d2) # {} \/ d2 = d
        BY <1>3, <1>5, <1>6, <3>1, <4>1
      <4> QED BY <1>1, <1>6, <4>2 DEF WaitEntry
    <3>2. table' = [table EXCEPT ![n] = table[n]] /\ table[n] \in [Slots -> Entries]
      BY <1>1, <1>6
    <3>3. \A p \in Origins \ {n} : frame'[p] = frame[p]
      BY <1>1, <1>6
    <3> QED BY <1>1, <3>1, <3>2, <3>3, WaitStep
  <2>5. RepliesLeft({})
    BY <1>1, <1>6, LeftAlone
  <2> QED BY <2>1, <2>2, <2>3, <2>4, <2>5, InvIsCorePrime
<1>7. CASE /\ FindEntry(table[n], n, d) = {}
           /\ Begin(n, d, table[n], fr, f, net)
           /\ timer' = [timer EXCEPT ![n] = TRUE]
  <2>1. PICK t2 : Begun(n, d, table[n], fr, f, net, t2)
    BY <1>1, <1>7, BeginIs
  <2>2. /\ Quiet(n, table[n], t2) /\ \A s2, d2 : NoLoss(table[n], t2, s2, d2)
        /\ FindEntry(t2, n, d) # {} /\ table' = [table EXCEPT ![n] = t2]
        /\ net' \subseteq net \cup Flood(n, n, d, BestLinkQuality)
    BY <2>1 DEF Begun
  <2>3. t2 \in [Slots -> Entries]
    BY <2>2 DEF Quiet, TableOK
  <2>4. Core'
    <3>1. QuietNet(n, t2)
      BY <2>2 DEF QuietNet
    <3> QED BY <1>1, <2>2, <3>1, QuietCore
  <2>5. PICK fs \in [Frames -> FrameRecords] :
          /\ frame' = [frame EXCEPT ![n] = fs]
          /\ \A g \in Frames \ {f} : fs[g] = frame[n][g]
          /\ fs[f].state = "WAIT_FOR_ROUTE" => fs[f].dst = d
    <3>1. CASE frame' = [frame EXCEPT ![n] = fr]
      BY <1>3, <3>1 DEF rec
    <3>2. CASE frame' = [frame EXCEPT ![n] = [fr EXCEPT ![f].state = "NO_ROUTE"]]
      <4> DEFINE fs == [fr EXCEPT ![f].state = "NO_ROUTE"]
                 e == [rec EXCEPT !.state = "NO_ROUTE"]
      <4>1. e \in FrameRecords /\ e.state = "NO_ROUTE"
        BY <1>3 DEF FrameRecords
      <4>2. fs = [fr EXCEPT ![f] = e]
        BY <1>3
      <4> HIDE DEF e
      <4>3. fs \in [Frames -> FrameRecords] /\ fs[f] = e /\ \A g \in Frames \ {f} : fs[g] = frame[n][g]
        BY <1>3, <4>1, <4>2
      <4> QED BY <3>2, <4>1, <4>3
    <3> QED BY <2>1, <3>1, <3>2 DEF Begun
  <2>6. Rest'
    BY <1>1, <1>2, <1>7, <2>5 DEF Inv, TypeOK, Rest
  <2>7. LiveCovered'
    <3>1. timer'[n] /\ \A p \in Nodes \ {n} : timer'[p] = timer[p]
      BY <1>1, <1>7
    <3> QED BY <1>1, <1>2, <2>2, <2>3, <3>1, LiveStep
  <2>8. WaitEntry'
    <3>1. ASSUME NEW d2 \in Targets, Waiting(n, d2)' # {} PROVE FindEntry(t2, n, d2) # {}
      <4>1. Waiting(n, d2) # {} \/ d2 = d
        BY <1>5, <2>5, <3>1
      <4> QED BY <1>1, <2>2, <4>1, WaitKept
    <3>2. \A p \in Origins \ {n} : frame'[p] = frame[p]
      BY <1>1, <2>5
    <3> QED BY <1>1, <2>2, <2>3, <3>1, <3>2, WaitStep
  <2>9. RepliesLeft({})
    <3>1. \A m \in net' : m.type = "ROUTE_REPLY" => m \in net
      BY <2>2, FloodIs
    <3> QED BY <1>1, <2>2, <2>3, <3>1 DEF RepliesLeft
  <2> QED BY <2>4, <2>6, <2>7, <2>8, <2>9, InvIsCorePrime
<1>8. CASE frame' = [frame EXCEPT ![n][f] = [state |-> "NO_ROUTE", dst |-> d]] /\ UNCHANGED <<table, timer, net>>
  <2> DEFINE fs == [frame[n] EXCEPT ![f] = non]
  <2>1. frame' = [frame EXCEPT ![n] = fs]
    BY <1>1, <1>8 DEF non
  <2>2. fs \in [Frames -> FrameRecords] /\ fs[f] = non /\ \A g \in Frames \ {f} : fs[g] = frame[n][g]
    BY <1>1, <1>3
  <2> HIDE DEF fs
  <2>3. fs[f].state # "WAIT_FOR_ROUTE"
    BY <2>2 DEF non
  <2>4. Core'
    BY <1>8, CoreKept
  <2>5. Rest'
    BY <1>1, <1>2, <1>8, <2>1, <2>2 DEF Inv, TypeOK, Rest
  <2>6. LiveCovered'
    BY <1>1, <1>2, <1>8 DEF LiveCovered
  <2>7. WaitEntry'
    <3>1. ASSUME NEW d2 \in Targets, Waiting(n, d2)' # {} PROVE FindEntry(table[n], n, d2) # {}
      <4>1. Waiting(n, d2) # {}
        BY <1>5, <2>1, <2>2, <2>3, <3>1
      <4> QED BY <1>1, <4>1 DEF WaitEntry
    <3>2. table' = [table EXCEPT ![n] = table[n]] /\ table[n] \in [Slots -> Entries]
      BY <1>1, <1>8
    <3>3. \A p \in Origins \ {n} : frame'[p] = frame[p]
      BY <1>1, <2>1
    <3> QED BY <1>1, <3>1, <3>2, <3>3, WaitStep
  <2>8. RepliesLeft({})
    BY <1>1, <1>8, LeftAlone
  <2> QED BY <2>4, <2>5, <2>6, <2>7, <2>8, InvIsCorePrime
<1> QED BY <1>2, <1>6, <1>7, <1>8 DEF nwkRouteDiscoveryRequest, rec

LEMMA RouteRemoveKeeps ==
  ASSUME Inv, NEW n \in Origins, NEW d \in Targets, nwkRouteRemove(n, d)
  PROVE  Inv' /\ RepliesLeft({})
<1>1. /\ UNCHANGED <<table, timer, busy, at, frame, net, sent>>
      /\ lost' \in 0..MaxRouteLosses
      /\ route' = [route EXCEPT ![n][d] = NoNode]
  BY DiscoveryAssumption DEF nwkRouteRemove, handler, Inv, TypeOK
<1>2. Core'
  BY <1>1, CoreKept
<1>3. route' \in [Nodes -> [Goals -> Nodes \cup {NoNode}]]
  BY <1>1 DEF Inv, TypeOK
<1>4. Rest' /\ LiveCovered' /\ WaitEntry'
  BY <1>1, <1>3 DEF Inv, TypeOK, Rest, LiveCovered, WaitEntry, Waiting
<1>5. RepliesLeft({})
  BY <1>1, DiscoveryAssumption, LeftAlone
<1> QED BY <1>2, <1>4, <1>5, InvIsCorePrime


-----------------------------------------------------------------------------
(***************************************************************************)
(* A request or a reply is received.                                       *)
(***************************************************************************)

\* The frames are left alone, and so is what they wait for.
LEMMA FramesLeft ==
  ASSUME WaitEntry, NEW n \in Nodes, NEW t2, table \in [Nodes -> [Slots -> Entries]],
         table' = [table EXCEPT ![n] = t2], t2 \in [Slots -> Entries], UNCHANGED frame,
         \A s, d : NoLoss(table[n], t2, s, d)
  PROVE  WaitEntry'
<1>1. ASSUME n \in Origins, NEW d \in Targets, Waiting(n, d)' # {} PROVE FindEntry(t2, n, d) # {}
  <2>1. Waiting(n, d) # {}
    BY <1>1 DEF Waiting
  <2> QED BY <1>1, <2>1, WaitKept
<1> QED BY <1>1, WaitStep

LEMMA RequestFacts ==
  ASSUME Inv, NEW m \in net, m.type = "ROUTE_REQUEST", NEW lqi \in Lqis[<<m.from, m.to>>]
  PROVE  /\ m.from \in Nodes /\ m.to \in Nodes /\ m.src \in Origins /\ m.dst \in Targets
         /\ m.lq \in 0..255
         /\ UpdateLq(m.lq, lqi) \in 0..255 /\ UpdateLq(m.lq, lqi) <= m.lq
<1>1. MessageOK(m)
  BY DEF Inv, NetOK
<1>2. /\ m.from \in Nodes /\ m.to \in Nodes /\ m.src \in Origins /\ m.dst \in Targets
      /\ m.lq \in 0..255
  BY <1>1, MessageFields
<1>3. <<m.from, m.to>> \in Link
  BY <1>1 DEF MessageOK
<1>4. Lqis[<<m.from, m.to>>] \in SUBSET (0..255)
  BY <1>3, DiscoveryAssumption
<1>5. lqi \in 0..255
  BY <1>4
<1> QED BY <1>2, <1>5, UpdateLqIs

\* The reply of a node that is what a request seeks.
Answers(m, lq) ==
  IF m.to \in Members[m.dst] THEN SendReply(m.to, m.from, m.src, m.dst, lq) ELSE {}

LEMMA RequestKeeps ==
  ASSUME Inv, NEW m \in net, m.type = "ROUTE_REQUEST", NEW lqi \in Lqis[<<m.from, m.to>>],
         RequestReceived(m.to, m, lqi)
  PROVE  Inv' /\ RepliesLeft(Answers(m, UpdateLq(m.lq, lqi)))
<1> DEFINE n == m.to
           lq == UpdateLq(m.lq, lqi)
           s == m.src
           d == m.dst
           fresh == NewEntry(s, d, m.from, lq)
           better(e) == [e EXCEPT !.from = m.from, !.flq = lq]
           back == IF n \in Members[d] THEN SendReply(n, m.from, s, d, lq) ELSE Flood(n, s, d, lq)
<1>1. /\ m.from \in Nodes /\ n \in Nodes /\ s \in Origins /\ d \in Targets /\ m.lq \in 0..255
      /\ lq \in 0..255 /\ lq <= m.lq
  BY RequestFacts
<1>2. /\ TableOK(n, table[n]) /\ table \in [Nodes -> [Slots -> Entries]]
      /\ timer \in [Nodes -> BOOLEAN] /\ route \in [Nodes -> [Goals -> Nodes \cup {NoNode}]]
      /\ WaitEntry /\ LiveCovered
  BY <1>1 DEF Inv, TypeOK, TablesOK
<1>3. UNCHANGED <<busy, at, frame, sent, lost>>
  BY DEF RequestReceived, handler
<1>4. CASE Ignores(n, m, lq) /\ net' = net \ {m} /\ UNCHANGED <<table, timer, route>>
  <2>1. Core'
    BY <1>4, CoreKept
  <2>2. Rest' /\ LiveCovered' /\ WaitEntry'
    BY <1>3, <1>4 DEF Inv, TypeOK, Rest, LiveCovered, WaitEntry, Waiting
  <2>3. RepliesLeft(Answers(m, lq))
    BY <1>1, <1>4, LeftAlone
  <2> QED BY <2>1, <2>2, <2>3, InvIsCorePrime
<1>5. CASE /\ ~Ignores(n, m, lq)
           /\ \E k \in Slots :
                /\ EntryFor(table[n], k, s, d)
                /\ table' = [table EXCEPT ![n][k] = IF @.timeout = 0 THEN fresh ELSE better(@)]
           /\ timer' = [timer EXCEPT ![n] = TRUE]
           /\ route' = IF n \in Members[d]
                         THEN [route EXCEPT ![n] = UpdateEntry(@, s, m.from)] ELSE route
           /\ net' = (net \ {m}) \cup back
  <2>1. n # s /\ \A k \in FindEntry(table[n], s, d) : lq > table[n][k].flq
    <3>1. n # s /\ \A k \in FindEntry(table[n], s, d) : ~(lq <= table[n][k].flq)
      BY <1>5 DEF Ignores
    <3>2. ASSUME NEW k \in FindEntry(table[n], s, d) PROVE lq > table[n][k].flq
      <4>1. table[n][k] \in Entries
        BY <1>1, <1>2 DEF FindEntry
      <4>2. table[n][k].flq \in Nat /\ ~(lq <= table[n][k].flq)
        BY <3>1, <4>1, EntryFields
      <4> QED BY <1>1, <4>2
    <3> QED BY <3>1, <3>2
  <2>2. PICK k \in Slots :
          /\ EntryFor(table[n], k, s, d)
          /\ table' = [table EXCEPT ![n][k] = IF @.timeout = 0 THEN fresh ELSE better(@)]
    BY <1>5
  <2>3. PICK t2 : Renewed(n, table[n], t2, k, s, d, m.from, lq) /\ table' = [table EXCEPT ![n] = t2]
    <3>1. CASE k \in FindEntry(table[n], s, d)
      <4> DEFINE t2 == [table[n] EXCEPT ![k] = better(table[n][k])]
      <4>1. table[n][k].timeout # 0
        <5>1. table[n][k] \in Entries /\ table[n][k].timeout > 0
          BY <1>1, <1>2, <3>1 DEF FindEntry
        <5> QED BY <5>1, EntryFields
      <4>2. table' = [table EXCEPT ![n] = t2]
        BY <1>2, <2>2, <4>1
      <4>3. Renewed(n, table[n], t2, k, s, d, m.from, lq)
        <5>1. lq > table[n][k].flq
          BY <2>1, <3>1
        <5>2. TableOK(n, table[n]) /\ s # n
          BY <1>2, <2>1
        <5>3. n \in Nodes /\ s \in Origins /\ d \in Targets /\ lq \in 0..255
          BY <1>1
        <5> HIDE DEF n, lq, s, d
        <5>4. PICK from \in Nodes : from = m.from
          BY <1>1
        <5>5. Renewed(n, table[n], [table[n] EXCEPT ![k] = [table[n][k] EXCEPT !.from = from, !.flq = lq]],
                      k, s, d, from, lq)
          BY <3>1, <5>1, <5>2, <5>3, TableBetter
        <5> QED BY <5>4, <5>5
      <4> QED BY <4>2, <4>3
    <3>2. CASE FindEntry(table[n], s, d) = {} /\ IsNewEntry(table[n], k)
      <4> DEFINE t2 == [table[n] EXCEPT ![k] = fresh]
      <4>1. table[n][k].timeout = 0
        BY <3>2 DEF IsNewEntry
      <4>2. table' = [table EXCEPT ![n] = t2]
        BY <1>2, <2>2, <4>1
      <4>3. Renewed(n, table[n], t2, k, s, d, m.from, lq)
        <5>1. s # n /\ m.from \in Nodes
          BY <1>1, <2>1
        <5>2. TableOK(n, table[n]) /\ FindEntry(table[n], s, d) = {}
          BY <1>2, <3>2
        <5>3. n \in Nodes /\ s \in Origins /\ d \in Targets /\ lq \in 0..255
          BY <1>1
        <5> HIDE DEF n, lq, s, d
        <5>4. PICK from \in Nodes : from = m.from
          BY <5>1
        <5>5. Renewed(n, table[n], [table[n] EXCEPT ![k] = NewEntry(s, d, from, lq)], k, s, d, from, lq)
          BY <4>1, <5>1, <5>2, <5>3, TableNew
        <5> QED BY <5>4, <5>5
      <4> QED BY <4>2, <4>3
    <3> QED BY <2>2, <3>1, <3>2 DEF EntryFor
  <2>4. t2 \in [Slots -> Entries] /\ \A s2, d2 : NoLoss(table[n], t2, s2, d2)
    BY <2>3 DEF Renewed, TableOK
  <2>5. /\ TablesOK' /\ table' \in [Nodes -> [Slots -> Entries]] /\ WayBackAcyclic'
        /\ \A m2 \in net : m2.type = "ROUTE_REQUEST" => Backed(m2)'
        /\ \A m2 \in Flood(n, s, d, lq) : MessageOK(m2) /\ Backed(m2)'
    BY <1>1, <2>1, <2>3, TakenStep
  <2>6. ASSUME NEW m2 \in net' PROVE MessageOK(m2) /\ (m2.type = "ROUTE_REQUEST" => Backed(m2)')
    <3>1. CASE m2 \in net
      BY <2>5, <3>1 DEF Inv, NetOK
    <3>2. CASE m2 \in SendReply(n, m.from, s, d, lq)
      BY <1>1, <3>2 DEF SendReply, Reply, MessageOK, Messages
    <3>3. CASE m2 \in Flood(n, s, d, lq)
      BY <2>5, <3>3
    <3> QED BY <1>5, <3>1, <3>2, <3>3
  <2>7. Core'
    BY <2>5, <2>6 DEF Core, NetOK, RequestsBacked, MessageOK
  <2>8. Rest'
    <3>1. s \in Goals
      BY <1>1 DEF Goals
    <3>2. route' \in [Nodes -> [Goals -> Nodes \cup {NoNode}]]
      BY <1>1, <1>2, <1>5, <3>1 DEF UpdateEntry
    <3> QED BY <1>2, <1>3, <1>5, <3>2 DEF Inv, TypeOK, Rest
  <2>9. LiveCovered'
    <3>1. timer'[n] /\ \A p \in Nodes \ {n} : timer'[p] = timer[p]
      BY <1>1, <1>2, <1>5
    <3> QED BY <1>1, <1>2, <1>3, <2>3, <2>4, <3>1, LiveStep
  <2>10. WaitEntry'
    BY <1>1, <1>2, <1>3, <2>3, <2>4, FramesLeft
  <2>11. RepliesLeft(Answers(m, lq))
    <3>1. \A m2 \in Flood(n, s, d, lq) : m2.type = "ROUTE_REQUEST"
      BY FloodIs
    <3>2. ASSUME NEW m2 \in net', m2.type = "ROUTE_REPLY" PROVE m2 \in Answers(m, lq) \/ m2 \in net
      <4> HIDE DEF lq
      <4> QED BY <1>5, <3>1, <3>2 DEF Answers
    <3> HIDE DEF lq, n
    <3> QED BY <1>1, <2>3, <2>4, <3>2 DEF RepliesLeft
  <2> QED BY <2>7, <2>8, <2>9, <2>10, <2>11, InvIsCorePrime
<1> QED BY <1>4, <1>5 DEF RequestReceived


LEMMA ReplyKeeps ==
  ASSUME Inv, NEW m \in net, m.type = "ROUTE_REPLY", ReplyReceived(m.to, m)
  PROVE  Inv'
<1> DEFINE n == m.to
           s == m.src
           d == m.dst
           lq == m.lq
<1>1. /\ m.from \in Nodes /\ n \in Nodes /\ s \in Origins /\ d \in Targets /\ lq \in 0..255
  <2>1. MessageOK(m)
    BY DEF Inv, NetOK
  <2> QED BY <2>1, MessageFields
<1>2. /\ TableOK(n, table[n]) /\ table \in [Nodes -> [Slots -> Entries]]
      /\ route \in [Nodes -> [Goals -> Nodes \cup {NoNode}]]
      /\ WaitEntry /\ LiveCovered
  BY <1>1 DEF Inv, TypeOK, TablesOK
<1>3. UNCHANGED <<timer, busy, at, frame, sent, lost>>
  BY DEF ReplyReceived, handler
<1>4. CASE net' = net \ {m} /\ UNCHANGED <<table, route>>
  <2>1. Core'
    BY <1>4, CoreKept
  <2>2. Rest' /\ LiveCovered' /\ WaitEntry'
    BY <1>3, <1>4 DEF Inv, TypeOK, Rest, LiveCovered, WaitEntry, Waiting
  <2> QED BY <2>1, <2>2, InvIsCorePrime
<1>5. ASSUME NEW k \in Slots, Better(n, k, m),
             table' = [table EXCEPT ![n][k].rlq = lq],
             \/ /\ s = n
                /\ route' = [route EXCEPT ![n] = UpdateEntry(route[n], d, m.from)]
                /\ net' = net \ {m}
             \/ /\ s # n
                /\ route' = [route EXCEPT ![n] = UpdateEntry(UpdateEntry(route[n], d, m.from), s,
                                                             table[n][k].from)]
                /\ net' = (net \ {m}) \cup SendReply(n, table[n][k].from, s, d, lq)
      PROVE  Inv'
  <2> DEFINE t2 == [table[n] EXCEPT ![k] = [table[n][k] EXCEPT !.rlq = lq]]
  <2>1. k \in FindEntry(table[n], s, d) /\ lq > table[n][k].rlq
    BY <1>5 DEF Better
  <2>2. table' = [table EXCEPT ![n] = t2]
    BY <1>1, <1>2, <1>5
  <2>3. Raised(n, table[n], t2, k, lq)
    <3> HIDE DEF n, lq
    <3> QED BY <1>1, <1>2, <2>1, TableTold
  <2> HIDE DEF t2
  <2>4. t2 \in [Slots -> Entries] /\ Quiet(n, table[n], t2) /\ \A s2, d2 : NoLoss(table[n], t2, s2, d2)
    BY <2>3 DEF Raised, Quiet, TableOK
  <2>5. EntryOK(n, table[n][k]) /\ table[n][k].src = s /\ table[n][k].timeout > 0
    BY <1>2, <2>1 DEF TableOK, FindEntry
  <2>6. s # n => table[n][k].from \in Nodes
    BY <1>1, <2>5 DEF EntryOK
  <2>7. QuietNet(n, t2)
    <3>1. ASSUME s # n, NEW m2 \in SendReply(n, table[n][k].from, s, d, lq)
          PROVE  MessageOK(m2) /\ m2.type = "ROUTE_REPLY"
      BY <1>1, <2>6, <3>1 DEF SendReply, Reply, MessageOK, Messages
    <3> QED BY <1>5, <2>4, <3>1 DEF QuietNet
  <2>8. Core'
    BY <1>1, <2>2, <2>4, <2>7, QuietCore
  <2>9. Rest'
    <3>1. s \in Goals /\ d \in Goals
      BY <1>1 DEF Goals
    <3>2. UpdateEntry(route[n], d, m.from) \in [Goals -> Nodes \cup {NoNode}]
      BY <1>1, <1>2, <3>1 DEF UpdateEntry
    <3>3. s # n => UpdateEntry(UpdateEntry(route[n], d, m.from), s, table[n][k].from)
                     \in [Goals -> Nodes \cup {NoNode}]
      BY <1>1, <2>6, <3>1, <3>2 DEF UpdateEntry
    <3>4. route' \in [Nodes -> [Goals -> Nodes \cup {NoNode}]]
      BY <1>2, <1>5, <3>2, <3>3
    <3> QED BY <1>3, <3>4 DEF Inv, TypeOK, Rest
  <2>10. LiveCovered'
    <3>1. timer[n] \/ busy = n
      BY <1>1, <1>2, <1>5, <2>5 DEF LiveCovered
    <3> QED BY <1>1, <1>2, <1>3, <2>2, <2>4, <3>1, LiveStep
  <2>11. WaitEntry'
    BY <1>1, <1>2, <1>3, <2>2, <2>4, FramesLeft
  <2> QED BY <2>8, <2>9, <2>10, <2>11, InvIsCorePrime
<1> QED BY <1>4, <1>5 DEF ReplyReceived

-----------------------------------------------------------------------------
(***************************************************************************)
(* The timer handler.                                                      *)
(***************************************************************************)
LEMMA SlotsAre == Slots = 1..TableSize /\ TableSize \in Nat /\ TableSize > 0 /\ Timeout \in Nat
BY DiscoveryAssumption DEF Slots

LEMMA VisitLive ==
  ASSUME Inv, NEW n \in Nodes, NEW k \in Slots, Visits(n, k), Restarts(n, k),
         NEW t2 \in [Slots -> Entries], table' = [table EXCEPT ![n] = t2]
  PROVE  /\ LiveCovered' /\ timer' \in [Nodes -> BOOLEAN]
         /\ busy' \in Nodes \cup {NoNode} /\ at' \in 0..TableSize
<1>1. /\ timer \in [Nodes -> BOOLEAN] /\ table \in [Nodes -> [Slots -> Entries]] /\ LiveCovered
      /\ NoNode \notin Nodes /\ k \in 1..TableSize /\ TableSize \in Nat
  BY DiscoveryAssumption, SlotsAre DEF Inv, TypeOK
<1>2. busy' \in {n, NoNode} /\ at' \in 0..TableSize
  BY <1>1 DEF Visits
<1>3. busy = n \/ busy = NoNode
  BY DEF Visits, Idle
<1>4. /\ timer' \in [Nodes -> BOOLEAN] /\ \A p \in Nodes \ {n} : timer'[p] = timer[p]
      /\ timer'[n] <=> (k = TableSize /\ \E j \in Slots : table'[n][j].timeout > 0)
  BY <1>1 DEF Restarts
<1>5. ASSUME NEW p \in Nodes, \E j \in Slots : table'[p][j].timeout > 0
      PROVE  timer'[p] \/ busy' = p
  <2>1. CASE p = n /\ k = TableSize
    BY <1>4, <1>5, <2>1
  <2>2. CASE p = n /\ k # TableSize
    BY <1>1, <2>2 DEF Visits
  <2>3. CASE p # n
    <3>1. table'[p] = table[p]
      BY <1>1, <2>3
    <3>2. timer[p] \/ busy = p
      BY <1>1, <1>5, <3>1 DEF LiveCovered
    <3> QED BY <1>1, <1>3, <1>4, <2>3, <3>2
  <2> QED BY <2>1, <2>2, <2>3
<1> QED BY <1>1, <1>2, <1>4, <1>5 DEF LiveCovered

LEMMA AgesKeeps ==
  ASSUME Inv, NEW n \in Nodes, NEW k \in Slots, Ages(n, k)
  PROVE  Inv' /\ RepliesLeft({})
<1> DEFINE i == table[n][k].timeout - 1
           t2 == [table[n] EXCEPT ![k] = [table[n][k] EXCEPT !.timeout = i]]
<1>1. /\ TableOK(n, table[n]) /\ table \in [Nodes -> [Slots -> Entries]] /\ WaitEntry
      /\ table[n][k] \in Entries
  BY DEF Inv, TypeOK, TablesOK
<1>2. i \in 0..Timeout /\ i > 0 /\ table[n][k].timeout > 0
  <2>1. table[n][k].timeout \in 0..Timeout /\ table[n][k].timeout > 1
    BY <1>1, EntryFields DEF Ages
  <2> QED BY <2>1, SlotsAre
<1>3. table' = [table EXCEPT ![n] = t2]
  BY <1>1 DEF Ages
<1> HIDE DEF i
<1>4. Aged(n, table[n], t2, k, i)
  BY <1>1, <1>2, TableAges
<1> HIDE DEF t2
<1>5. t2 \in [Slots -> Entries] /\ Quiet(n, table[n], t2) /\ \A s, d : NoLoss(table[n], t2, s, d)
  BY <1>2, <1>4 DEF Aged, Quiet, TableOK
<1>6. /\ UNCHANGED <<route, frame, net, sent, lost>> /\ Visits(n, k) /\ Restarts(n, k)
  BY DEF Ages
<1>7. Core'
  <2>1. QuietNet(n, t2)
    BY <1>5, <1>6 DEF QuietNet
  <2> QED BY <1>3, <1>5, <2>1, QuietCore
<1>8. /\ LiveCovered' /\ timer' \in [Nodes -> BOOLEAN]
      /\ busy' \in Nodes \cup {NoNode} /\ at' \in 0..TableSize
  BY <1>3, <1>5, <1>6, VisitLive
<1>9. WaitEntry'
  BY <1>1, <1>3, <1>5, <1>6, FramesLeft
<1>10. Rest'
  BY <1>6, <1>8 DEF Inv, TypeOK, Rest
<1>11. RepliesLeft({})
  BY <1>3, <1>5, <1>6 DEF RepliesLeft
<1> QED BY <1>7, <1>8, <1>9, <1>10, <1>11, InvIsCorePrime

LEMMA SkipsKeeps ==
  ASSUME Inv, NEW n \in Nodes, NEW k \in Slots, Skips(n, k)
  PROVE  Inv' /\ RepliesLeft({})
<1>1. /\ TableOK(n, table[n]) /\ table \in [Nodes -> [Slots -> Entries]]
  BY DEF Inv, TypeOK, TablesOK
<1>2. UNCHANGED <<table, route, frame, net, sent, lost>> /\ Visits(n, k) /\ Restarts(n, k)
  BY DEF Skips
<1>3. Core'
  BY <1>2, CoreKept
<1>4. table[n] \in [Slots -> Entries] /\ table' = [table EXCEPT ![n] = table[n]]
  BY <1>1, <1>2
<1>5. /\ LiveCovered' /\ timer' \in [Nodes -> BOOLEAN]
      /\ busy' \in Nodes \cup {NoNode} /\ at' \in 0..TableSize
  BY <1>2, <1>4, VisitLive
<1>6. WaitEntry' /\ Rest'
  BY <1>2, <1>5 DEF Inv, TypeOK, Rest, WaitEntry, Waiting
<1>7. RepliesLeft({})
  BY <1>2, LeftAlone
<1> QED BY <1>3, <1>5, <1>6, <1>7, InvIsCorePrime


\* The end of a discovery: frames that still wait have one that is under way.
LEMMA DoneIs ==
  ASSUME Inv, NEW n \in Origins, NEW e, e.dst \in Targets, NEW t, NEW air, Done(n, e, t, air),
         Quiet(n, table[n], t), air \subseteq net,
         \A m \in air : NoLoss(table[n], t, m.src, m.dst),
         \A d \in Targets \ {e.dst} : NoLoss(table[n], t, n, d)
  PROVE  \E t2 \in [Slots -> Entries] :
           /\ table' = [table EXCEPT ![n] = t2]
           /\ Core' /\ WaitEntry' /\ frame' \in [Origins -> [Frames -> FrameRecords]]
           /\ RepliesLeft({})
<1> DEFINE W == Waiting(n, e.dst)
           begins == W # {} /\ e.rlq # NoLink /\ route[n][e.dst] = NoNode /\ FindEntry(t, n, e.dst) = {}
           left(state) == [f \in Frames |-> IF f \in W THEN [frame[n][f] EXCEPT !.state = state]
                                            ELSE frame[n][f]]
<1>1. /\ n \in Nodes /\ TableOK(n, table[n]) /\ table \in [Nodes -> [Slots -> Entries]]
      /\ frame \in [Origins -> [Frames -> FrameRecords]] /\ WaitEntry
      /\ TableOK(n, t) /\ t \in [Slots -> Entries] /\ table[n] \in [Slots -> Entries]
  BY DiscoveryAssumption DEF Inv, TypeOK, TablesOK, TableOK, Quiet
\* The frames of one record each: those that wait for another node are left alone.
<1>2. ASSUME NEW fs \in [Frames -> FrameRecords], frame' = [frame EXCEPT ![n] = fs],
             \A f \in Frames : fs[f] = frame[n][f] \/ fs[f].state # "WAIT_FOR_ROUTE",
             NEW t2 \in [Slots -> Entries], table' = [table EXCEPT ![n] = t2],
             \A d \in Targets \ {e.dst} : NoLoss(table[n], t2, n, d),
             FindEntry(t2, n, e.dst) # {} \/ \A f \in W : fs[f].state # "WAIT_FOR_ROUTE"
      PROVE  WaitEntry' /\ frame' \in [Origins -> [Frames -> FrameRecords]]
  <2>1. frame' \in [Origins -> [Frames -> FrameRecords]] /\ frame'[n] = fs
        /\ \A p \in Origins \ {n} : frame'[p] = frame[p]
    BY <1>1, <1>2
  <2>2. ASSUME NEW d \in Targets, Waiting(n, d)' # {} PROVE FindEntry(t2, n, d) # {}
    <3>1. PICK f \in Frames : fs[f] = [state |-> "WAIT_FOR_ROUTE", dst |-> d]
      BY <2>1, <2>2 DEF Waiting
    <3>2. fs[f].state = "WAIT_FOR_ROUTE"
      BY <3>1
    <3>3. fs[f] = frame[n][f]
      BY <1>2, <3>2
    <3>4. f \in Waiting(n, d)
      BY <3>1, <3>3 DEF Waiting
    <3>5. CASE d = e.dst
      BY <1>2, <3>2, <3>4, <3>5
    <3>6. CASE d # e.dst
      <4>1. NoLoss(table[n], t2, n, d) /\ Waiting(n, d) # {}
        BY <1>2, <3>4, <3>6
      <4> QED BY <1>1, <4>1, WaitKept
    <3> QED BY <3>5, <3>6
  <2>3. WaitEntry'
    BY <1>1, <1>2, <2>1, <2>2, WaitStep
  <2> QED BY <2>1, <2>3
<1>3. ASSUME NEW state \in {"SENT", "NO_ROUTE"}
      PROVE  /\ left(state) \in [Frames -> FrameRecords]
             /\ \A f \in Frames : left(state)[f] = frame[n][f] \/ left(state)[f].state # "WAIT_FOR_ROUTE"
             /\ \A f \in W : left(state)[f].state # "WAIT_FOR_ROUTE"
  <2>1. \A f \in Frames : frame[n][f] \in FrameRecords
    BY <1>1
  <2>2. ASSUME NEW r \in FrameRecords
        PROVE  [r EXCEPT !.state = state] \in FrameRecords /\ [r EXCEPT !.state = state].state = state
    BY <2>2 DEF FrameRecords
  <2>3. W \subseteq Frames
    BY DEF Waiting
  <2>4. left(state) \in [Frames -> FrameRecords]
    BY <2>1, <2>2
  <2>5. \A f \in W : left(state)[f].state = state
    BY <2>1, <2>2, <2>3
  <2>6. \A f \in Frames \ W : left(state)[f] = frame[n][f]
    OBVIOUS
  <2> HIDE DEF left, W
  <2> QED BY <2>4, <2>5, <2>6
<1>4. CASE ~begins
  <2>1. /\ table' = [table EXCEPT ![n] = t] /\ net' = air
        /\ IF ~(e.rlq # NoLink) THEN frame' = [frame EXCEPT ![n] = left("NO_ROUTE")]
           ELSE IF route[n][e.dst] # NoNode THEN frame' = [frame EXCEPT ![n] = left("SENT")]
                ELSE frame' = frame
    BY <1>4 DEF Done
  <2>2. Core'
    <3>1. QuietNet(n, t)
      BY <2>1 DEF QuietNet
    <3> QED BY <1>1, <2>1, <3>1, QuietCore
  <2>3. ASSUME NEW state \in {"SENT", "NO_ROUTE"}, frame' = [frame EXCEPT ![n] = left(state)]
        PROVE  WaitEntry' /\ frame' \in [Origins -> [Frames -> FrameRecords]]
    <3> HIDE DEF left
    <3> QED BY <1>1, <1>2, <1>3, <2>1, <2>3
  <2>4. ASSUME e.rlq # NoLink, route[n][e.dst] = NoNode, frame' = frame
        PROVE  WaitEntry' /\ frame' \in [Origins -> [Frames -> FrameRecords]]
    <3>1. W = {} \/ FindEntry(t, n, e.dst) # {}
      BY <1>4, <2>4
    <3>2. frame' = [frame EXCEPT ![n] = frame[n]] /\ frame[n] \in [Frames -> FrameRecords]
      BY <1>1, <2>4
    <3> QED BY <1>1, <1>2, <2>1, <3>1, <3>2
  <2>5. WaitEntry' /\ frame' \in [Origins -> [Frames -> FrameRecords]]
    <3> HIDE DEF left
    <3> QED BY <2>1, <2>3, <2>4
  <2>6. RepliesLeft({})
    BY <1>1, <2>1 DEF RepliesLeft
  <2> QED BY <1>1, <2>1, <2>2, <2>5, <2>6
<1>5. CASE begins
  <2>1. PICK f \in W : Begin(n, e.dst, t, frame[n], f, air)
    BY <1>5 DEF Done
  <2>2. PICK t2 : Begun(n, e.dst, t, frame[n], f, air, t2)
    BY <1>1, <1>5, <2>1, BeginIs
  <2>3. /\ Quiet(n, t, t2) /\ \A s, d : NoLoss(t, t2, s, d)
        /\ FindEntry(t2, n, e.dst) # {} /\ table' = [table EXCEPT ![n] = t2]
        /\ net' \subseteq air \cup Flood(n, n, e.dst, BestLinkQuality)
    BY <2>2 DEF Begun
  <2>4. t2 \in [Slots -> Entries]
    BY <2>3 DEF Quiet, TableOK
  <2>5. ASSUME NEW s, NEW d, NoLoss(table[n], t, s, d) PROVE NoLoss(table[n], t2, s, d)
    BY <1>1, <2>3, <2>4, <2>5, NoLossChain
  <2>6. Core'
    <3>1. Quiet(n, table[n], t2)
      BY <2>3, QuietChain
    <3>2. QuietNet(n, t2)
      BY <2>3, <2>5 DEF QuietNet
    <3> QED BY <1>1, <2>3, <3>1, <3>2, QuietCore
  <2>7. PICK fs \in [Frames -> FrameRecords] :
          /\ frame' = [frame EXCEPT ![n] = fs]
          /\ \A g \in Frames : fs[g] = frame[n][g] \/ fs[g].state # "WAIT_FOR_ROUTE"
    <3>1. CASE frame' = [frame EXCEPT ![n] = frame[n]]
      BY <1>1, <3>1
    <3>2. CASE frame' = [frame EXCEPT ![n] = [frame[n] EXCEPT ![f].state = "NO_ROUTE"]]
      <4> DEFINE fs == [frame[n] EXCEPT ![f].state = "NO_ROUTE"]
                 r == [frame[n][f] EXCEPT !.state = "NO_ROUTE"]
      <4>1. f \in Frames /\ frame[n] \in [Frames -> FrameRecords] /\ frame[n][f] \in FrameRecords
        BY <1>1 DEF Waiting
      <4>2. r \in FrameRecords /\ r.state = "NO_ROUTE"
        BY <4>1 DEF FrameRecords
      <4>3. fs = [frame[n] EXCEPT ![f] = r]
        BY <4>1
      <4> HIDE DEF r
      <4>4. fs \in [Frames -> FrameRecords] /\ fs[f] = r /\ \A g \in Frames \ {f} : fs[g] = frame[n][g]
        BY <4>1, <4>2, <4>3
      <4> QED BY <3>2, <4>2, <4>4
    <3> QED BY <2>2, <3>1, <3>2 DEF Begun
  <2>8. WaitEntry' /\ frame' \in [Origins -> [Frames -> FrameRecords]]
    BY <1>2, <2>3, <2>4, <2>5, <2>7
  <2>9. RepliesLeft({})
    <3>1. \A m \in net' : m.type = "ROUTE_REPLY" => m \in air
      BY <2>3, FloodIs
    <3>2. \A m \in air : NoLoss(table[n], t2, m.src, m.dst)
      BY <2>5
    <3> QED BY <1>1, <2>3, <2>4, <3>1, <3>2 DEF RepliesLeft
  <2> QED BY <2>3, <2>4, <2>6, <2>8, <2>9
<1> QED BY <1>4, <1>5

LEMMA EndsKeeps ==
  ASSUME Inv, NEW n \in Nodes, NEW k \in Slots, Ends(n, k)
  PROVE  Inv' /\ RepliesLeft({})
<1> DEFINE e == table[n][k]
<1>1. /\ TableOK(n, table[n]) /\ table[n] \in [Slots -> Entries] /\ e \in Entries /\ EntryOK(n, e)
  BY DEF Inv, TypeOK, TablesOK, TableOK
<1>2. /\ Visits(n, k) /\ Restarts(n, k) /\ e.src = n /\ Done(n, e, table[n], net)
      /\ UNCHANGED <<route, sent, lost>>
  BY DEF Ends
<1>3. n \in Origins /\ e.dst \in Targets
  BY <1>1, <1>2, EntryFields, DiscoveryAssumption DEF EntryOK
<1>4. Quiet(n, table[n], table[n]) /\ \A s, d : NoLoss(table[n], table[n], s, d)
  BY <1>1, QuietSelf
<1>5. PICK t2 \in [Slots -> Entries] :
        /\ table' = [table EXCEPT ![n] = t2]
        /\ Core' /\ WaitEntry' /\ frame' \in [Origins -> [Frames -> FrameRecords]]
        /\ RepliesLeft({})
  <2> HIDE DEF e
  <2> QED BY <1>2, <1>3, <1>4, DoneIs
<1>6. /\ LiveCovered' /\ timer' \in [Nodes -> BOOLEAN]
      /\ busy' \in Nodes \cup {NoNode} /\ at' \in 0..TableSize
  BY <1>2, <1>5, VisitLive
<1>7. Rest'
  BY <1>2, <1>5, <1>6 DEF Inv, TypeOK, Rest
<1> QED BY <1>5, <1>6, <1>7, InvIsCorePrime

LEMMA ExpiresKeeps ==
  ASSUME Inv, NEW n \in Nodes, NEW k \in Slots, Expires(n, k)
  PROVE  Inv' /\ RepliesLeft({})
<1> DEFINE e == table[n][k]
           t == [table[n] EXCEPT ![k] = [e EXCEPT !.timeout = 0]]
           air == net \ Outlived(n, e)
<1>1. /\ TableOK(n, table[n]) /\ table \in [Nodes -> [Slots -> Entries]] /\ table[n] \in [Slots -> Entries]
      /\ e \in Entries /\ EntryOK(n, e) /\ WaitEntry
  BY DEF Inv, TypeOK, TablesOK, TableOK
<1>2. /\ Visits(n, k) /\ Restarts(n, k) /\ e.timeout = 1 /\ UNCHANGED <<route, sent, lost>>
      /\ IF e.src = n THEN Done(n, e, t, air)
         ELSE /\ table' = [table EXCEPT ![n] = t] /\ net' = air /\ frame' = frame
  <2>1. t = [table[n] EXCEPT ![k].timeout = 0]
    BY <1>1
  <2> QED BY <2>1 DEF Expires
<1>3. Aged(n, table[n], t, k, 0)
  <2>1. 0 \in 0..Timeout /\ (0 > 0 => table[n][k].timeout > 0)
    BY SlotsAre
  <2>2. Aged(n, table[n], [table[n] EXCEPT ![k] = [table[n][k] EXCEPT !.timeout = 0]], k, 0)
    BY <1>1, <2>1, TableAges
  <2> QED BY <2>2
<1>4. e.src \in Origins /\ e.dst \in Targets
  BY <1>1, <1>2 DEF EntryOK
<1> HIDE DEF t
<1>5. /\ Quiet(n, table[n], t) /\ t \in [Slots -> Entries]
      /\ \A s, d : e.src # s \/ e.dst # d => NoLoss(table[n], t, s, d)
  BY <1>3 DEF Aged, Quiet, TableOK
<1>6. \A m \in air : NoLoss(table[n], t, m.src, m.dst)
  BY <1>5 DEF Outlived
<1>7. PICK t2 \in [Slots -> Entries] :
        /\ table' = [table EXCEPT ![n] = t2]
        /\ Core' /\ WaitEntry' /\ frame' \in [Origins -> [Frames -> FrameRecords]]
        /\ RepliesLeft({})
  <2>1. CASE e.src = n
    <3>1. \A d \in Targets \ {e.dst} : NoLoss(table[n], t, n, d)
      BY <1>5
    <3>2. air \subseteq net /\ Done(n, e, t, air) /\ n \in Origins
      BY <1>2, <1>4, <2>1
    <3> HIDE DEF e, air
    <3> QED BY <1>4, <1>5, <1>6, <3>1, <3>2, DoneIs
  <2>2. CASE e.src # n
    <3>1. table' = [table EXCEPT ![n] = t] /\ net' = air /\ frame' = frame
      BY <1>2, <2>2
    <3>2. Core'
      <4>1. QuietNet(n, t)
        BY <1>6, <3>1 DEF QuietNet
      <4> QED BY <1>5, <3>1, <4>1, QuietCore
    <3>4. RepliesLeft({})
      BY <1>5, <1>6, <3>1 DEF RepliesLeft
    <3>3. WaitEntry'
      <4>1. ASSUME n \in Origins, NEW d \in Targets, Waiting(n, d)' # {} PROVE FindEntry(t, n, d) # {}
        <5>1. Waiting(n, d) # {} /\ NoLoss(table[n], t, n, d)
          BY <1>5, <2>2, <3>1, <4>1 DEF Waiting
        <5> QED BY <1>1, <4>1, <5>1, WaitKept
      <4> QED BY <1>1, <1>5, <3>1, <4>1, WaitStep
    <3> QED BY <1>5, <3>1, <3>2, <3>3, <3>4 DEF Inv, TypeOK
  <2> QED BY <2>1, <2>2
<1>8. /\ LiveCovered' /\ timer' \in [Nodes -> BOOLEAN]
      /\ busy' \in Nodes \cup {NoNode} /\ at' \in 0..TableSize
  BY <1>2, <1>7, VisitLive
<1>9. Rest'
  BY <1>2, <1>7, <1>8 DEF Inv, TypeOK, Rest
<1> QED BY <1>7, <1>8, <1>9, InvIsCorePrime


-----------------------------------------------------------------------------
(***************************************************************************)
(* The invariant holds.                                                    *)
(***************************************************************************)
LEMMA InitKeeps == Init => Inv
<1> SUFFICES ASSUME Init PROVE Inv
  OBVIOUS
<1>1. FreeEntry \in Entries /\ FreeEntry.timeout = 0 /\ FreeEntry.src = NoNode /\ FreeEntry.from = NoNode
  BY DiscoveryAssumption DEF FreeEntry, Entries, NoLink
<1>2. \A n \in Nodes, k \in Slots : table[n][k] = FreeEntry
  BY DEF Init
<1>3. TypeOK
  <2>1. [state |-> "IDLE", dst |-> NoNode] \in FrameRecords
    BY DEF FrameRecords
  <2>2. table \in [Nodes -> [Slots -> Entries]]
    BY <1>1 DEF Init
  <2>3. frame \in [Origins -> [Frames -> FrameRecords]]
    BY <2>1 DEF Init
  <2> QED BY <2>2, <2>3, DiscoveryAssumption DEF Init, TypeOK
<1>4. \A n \in Nodes : \A s, d : FindEntry(table[n], s, d) = {}
  BY <1>1, <1>2 DEF FindEntry
<1>5. TablesOK
  <2>1. ASSUME NEW n \in Nodes PROVE EntryOK(n, FreeEntry)
    BY <1>1, DiscoveryAssumption DEF EntryOK
  <2> QED BY <1>2, <1>3, <1>4, <2>1 DEF TypeOK, TablesOK, TableOK
<1>6. LiveCovered
  BY <1>1, <1>2 DEF LiveCovered
<1>7. WaitEntry
  BY DEF Init, WaitEntry, Waiting
<1>8. WayBackAcyclic
  <2>1. \A s, d : Back(s, d) = {}
    BY <1>4 DEF Back
  <2>2. ASSUME NEW R, R = {} PROVE Acyclic(R)
    <3>1. ASSUME NEW S \in (SUBSET Nodes) \ {{}} PROVE \E n \in S : \A m \in S : <<n, m>> \notin R
      BY <2>2
    <3> QED BY <3>1 DEF Acyclic
  <2>3. ASSUME NEW s \in Origins, NEW d \in Targets PROVE Acyclic(Back(s, d))
    BY <2>1, <2>2
  <2> QED BY <2>3 DEF WayBackAcyclic
<1> QED BY <1>3, <1>5, <1>6, <1>7, <1>8 DEF Init, Inv, NetOK, RequestsBacked

LEMMA TimerHandlerKeeps ==
  ASSUME Inv, NEW n \in Nodes, TimerHandler(n)
  PROVE  Inv' /\ RepliesLeft({})
BY AgesKeeps, EndsKeeps, ExpiresKeeps, SkipsKeeps DEF TimerHandler

LEMMA NextKeeps == Inv /\ [Next]_vars => Inv'
<1> SUFFICES ASSUME Inv, [Next]_vars PROVE Inv'
  OBVIOUS
<1>1. ASSUME NEW n \in Origins, NEW f \in Frames, NEW d \in Targets, nwkTxFrame(n, f, d)
      PROVE  Inv'
  BY <1>1, TxFrameKeeps
<1>2. ASSUME NEW n \in Origins, NEW d \in Targets, nwkRouteRemove(n, d)
      PROVE  Inv'
  BY <1>2, RouteRemoveKeeps
<1>3. ASSUME NEW m \in net, m.type = "ROUTE_REQUEST", NEW lqi \in Lqis[<<m.from, m.to>>],
             RequestReceived(m.to, m, lqi)
      PROVE  Inv'
  BY <1>3, RequestKeeps
<1>4. ASSUME NEW m \in net, m.type = "ROUTE_REPLY", ReplyReceived(m.to, m)
      PROVE  Inv'
  BY <1>4, ReplyKeeps
<1>5. ASSUME NEW n \in Nodes, TimerHandler(n)
      PROVE  Inv'
  BY <1>5, TimerHandlerKeeps
<1>6. CASE UNCHANGED vars
  <2>1. UNCHANGED <<table, timer, busy, at, route, frame, net, sent, lost>>
    BY <1>6 DEF vars, handler
  <2>2. Core'
    BY <2>1, CoreKept
  <2>3. Rest' /\ LiveCovered' /\ WaitEntry'
    BY <2>1 DEF Inv, TypeOK, Rest, LiveCovered, WaitEntry, Waiting
  <2> QED BY <2>2, <2>3, InvIsCorePrime
<1> QED BY <1>1, <1>2, <1>3, <1>4, <1>5, <1>6 DEF Next

\* Whatever requests, replies and timers do, in whatever order, and whatever is lost
\* (nwkRouteDiscovery.c): the inductive invariant.
THEOREM DiscoveryInvariant == Spec => []Inv
<1> QED BY InitKeeps, NextKeeps, PTL DEF Spec

\* nwkRouteDiscovery.c keeps to the types of its table, its timer and the routes.
THEOREM DiscoveryTypeCorrect == Spec => []TypeOK
<1>1. Inv => TypeOK
  BY DEF Inv
<1> QED BY <1>1, DiscoveryInvariant, PTL

\* No frame waits without a discovery of its node that will end (nwkRouteDiscoveryRequest
\* and nwkRouteDiscoveryTimerHandler): in every reachable state it has a live entry, and
\* the timer that ages it runs or its handler does.
THEOREM WaitsAlwaysCovered == Spec => []WaitCovered
<1>1. Inv => WaitCovered
  <2> SUFFICES ASSUME Inv, NEW n \in Origins, NEW d \in Targets, Waiting(n, d) # {}
               PROVE  FindEntry(table[n], n, d) # {} /\ (timer[n] \/ busy = n)
    BY DEF WaitCovered
  <2>1. FindEntry(table[n], n, d) # {}
    BY DEF Inv, WaitEntry
  <2>2. timer[n] \/ busy = n
    BY <2>1, DiscoveryAssumption DEF Inv, LiveCovered, FindEntry
  <2> QED BY <2>1, <2>2
<1> QED BY <1>1, DiscoveryInvariant, PTL

\* The senders that nwkRouteDiscoveryRequestReceived keeps in the entries of a
\* discovery never lead a reply in a circle, in any mesh.
THEOREM WayBackAlwaysAcyclic == Spec => []WayBackAcyclic
<1>1. Inv => WayBackAcyclic
  BY DEF Inv
<1> QED BY <1>1, DiscoveryInvariant, PTL


-----------------------------------------------------------------------------
(***************************************************************************)
(* The routes that replies leave, for one origin.                          *)
(***************************************************************************)
LEMMA WaysIs ==
  ASSUME NEW d, NEW p \in Nodes, NEW m \in Nodes
  PROVE  /\ <<p, m>> \in Ways(d) <=> route[p][d] = m /\ p \notin Members[d]
         /\ <<p, m>> \in Ways(d)' <=> route'[p][d] = m /\ p \notin Members[d]
BY DEF Ways

LEMMA WaysLeft ==
  ASSUME NEW d, \A p \in Nodes : route'[p][d] = route[p][d] \/ route'[p][d] = NoNode \/ p \in Members[d]
  PROVE  Shrinks(Ways(d), Ways(d)')
<1> SUFFICES ASSUME NEW p \in Nodes, NEW m \in Nodes, <<p, m>> \in Ways(d)'
             PROVE  <<p, m>> \in Ways(d)
  BY DEF Shrinks
<1>1. route'[p][d] = m /\ p \notin Members[d] /\ m # NoNode
  BY WaysIs, DiscoveryAssumption
<1>2. route[p][d] = m
  BY <1>1
<1> QED BY <1>1, <1>2, WaysIs

LEMMA ToldGrows ==
  ASSUME Inv, Inv', NEW n \in Nodes, NEW t2 \in [Slots -> Entries], table' = [table EXCEPT ![n] = t2],
         NEW s, NEW d, NoLoss(table[n], t2, s, d), NEW l \in Nat
  PROVE  Told(s, d, l) \subseteq Told(s, d, l)'
<1>1. table \in [Nodes -> [Slots -> Entries]] /\ table' \in [Nodes -> [Slots -> Entries]] /\ TablesOK
  BY DEF Inv, TypeOK
<1>2. ASSUME NEW p \in Nodes PROVE NoLoss(table[p], table'[p], s, d)
  <2>1. CASE p = n
    BY <1>1, <2>1
  <2>2. CASE p # n
    <3>1. table'[p] = table[p] /\ TableOK(p, table[p])
      BY <1>1, <2>2 DEF TablesOK
    <3> QED BY <3>1, QuietSelf
  <2> QED BY <2>1, <2>2
<1> QED BY <1>1, <1>2, HighGrows

\* A step that adds no route to the nodes sought, and no reply that is not backed.
LEMMA RepliesKept ==
  ASSUME Inv, Inv', RepliesInv, NEW new, RepliesLeft(new),
         \A d \in Targets : Shrinks(Ways(d), Ways(d)'),
         \A m \in new : ReplyBacked(m)'
  PROVE  RepliesInv'
<1>1. RoutesAcyclic'
  <2>1. ASSUME NEW d \in Targets PROVE Acyclic(Ways(d)')
    <3>1. Acyclic(Ways(d))
      BY DEF RepliesInv, RoutesAcyclic
    <3> QED BY <3>1, AcyclicShrinks
  <2> QED BY <2>1 DEF RoutesAcyclic
<1>2. PICK n \in Nodes : \E t2 \in [Slots -> Entries] :
        /\ table' = [table EXCEPT ![n] = t2]
        /\ \A m \in net' : m.type = "ROUTE_REPLY" =>
             m \in new \/ (m \in net /\ NoLoss(table[n], t2, m.src, m.dst))
  BY DEF RepliesLeft
<1>3. PICK t2 \in [Slots -> Entries] :
        /\ table' = [table EXCEPT ![n] = t2]
        /\ \A m \in net' : m.type = "ROUTE_REPLY" =>
             m \in new \/ (m \in net /\ NoLoss(table[n], t2, m.src, m.dst))
  BY <1>2
<1>4. ASSUME NEW m \in net, m.type = "ROUTE_REPLY", NoLoss(table[n], t2, m.src, m.dst)
      PROVE  ReplyBacked(m)'
  <2>1. Leads(Ways(m.dst), m.from, Told(m.src, m.dst, m.lq))
    BY <1>4 DEF RepliesInv, RepliesBacked, ReplyBacked
  <2>2. MessageOK(m)
    BY DEF Inv, NetOK
  <2>3. m.dst \in Targets /\ m.lq \in Nat
    BY <2>2, MessageFields
  <2>4. Told(m.src, m.dst, m.lq) \subseteq Told(m.src, m.dst, m.lq)'
    BY <1>3, <1>4, <2>3, ToldGrows
  <2>5. Told(m.src, m.dst, m.lq) \in SUBSET Nodes
    BY DEF Told
  <2>6. Leads(Ways(m.dst)', m.from, Told(m.src, m.dst, m.lq)')
    BY <2>1, <2>3, <2>4, <2>5, LeadsShrinks
  <2> QED BY <2>6 DEF ReplyBacked
<1>5. RepliesBacked'
  BY <1>3, <1>4 DEF RepliesBacked
<1> QED BY <1>1, <1>5 DEF RepliesInv

\* The node that is sought answers: no route to it goes on from there.
LEMMA MemberBacks ==
  ASSUME NEW n \in Nodes, NEW to, NEW s, NEW d, NEW l, n \in Members[d],
         NEW m \in SendReply(n, to, s, d, l)
  PROVE  ReplyBacked(m)'
<1>1. m.from = n /\ m.src = s /\ m.dst = d /\ m.lq = l
  BY DEF SendReply, Reply
<1>2. n \in Told(s, d, l)' /\ \A p \in Nodes : <<n, p>> \notin Ways(d)'
  BY WaysIs DEF Told
<1>3. Leads(Ways(d)', n, Told(s, d, l)')
  BY <1>2, LeadsNowhere
<1> QED BY <1>1, <1>3 DEF ReplyBacked

LEMMA RequestRoutes ==
  ASSUME NEW o, Origins = {o}, o \notin Targets, Inv, RepliesInv,
         NEW m \in net, m.type = "ROUTE_REQUEST", NEW lqi \in Lqis[<<m.from, m.to>>],
         RequestReceived(m.to, m, lqi)
  PROVE  RepliesInv'
<1> DEFINE n == m.to
           lq == UpdateLq(m.lq, lqi)
<1>1. Inv' /\ RepliesLeft(Answers(m, lq))
  BY RequestKeeps
<1>2. /\ m.from \in Nodes /\ n \in Nodes /\ m.src \in Origins /\ m.dst \in Targets
      /\ route \in [Nodes -> [Goals -> Nodes \cup {NoNode}]]
  BY RequestFacts DEF Inv, TypeOK
<1>3. route' = route \/ route' = [route EXCEPT ![n] = [@ EXCEPT ![m.src] = m.from]]
  BY DEF RequestReceived, UpdateEntry
<1>4. ASSUME NEW d \in Targets PROVE Shrinks(Ways(d), Ways(d)')
  <2>1. d # m.src
    BY <1>2
  <2>2. \A p \in Nodes : route'[p][d] = route[p][d]
    BY <1>2, <1>3, <2>1 DEF Goals
  <2> QED BY <2>2, WaysLeft
<1>5. ASSUME NEW r \in Answers(m, lq) PROVE ReplyBacked(r)'
  <2>1. n \in Members[m.dst] /\ r \in SendReply(n, m.from, m.src, m.dst, lq)
    BY DEF Answers
  <2> QED BY <1>2, <2>1, MemberBacks
<1> QED BY <1>1, <1>4, <1>5, RepliesKept

\* A node takes a reply and follows its sender: the routes from there pass only
\* through nodes that have been told of a way as good, which this node had not.
LEMMA ReplyRoutes ==
  ASSUME NEW o, Origins = {o}, o \notin Targets, Inv, RepliesInv,
         NEW m \in net, m.type = "ROUTE_REPLY", ReplyReceived(m.to, m)
  PROVE  RepliesInv'
<1> DEFINE n == m.to
           s == m.src
           d == m.dst
           lq == m.lq
<1>1. /\ m.from \in Nodes /\ n \in Nodes /\ s \in Origins /\ d \in Targets /\ lq \in 0..255 /\ lq \in Nat
  <2>1. MessageOK(m)
    BY DEF Inv, NetOK
  <2> QED BY <2>1, MessageFields
<1>2. /\ TableOK(n, table[n]) /\ table \in [Nodes -> [Slots -> Entries]]
      /\ route \in [Nodes -> [Goals -> Nodes \cup {NoNode}]]
      /\ table[n] \in [Slots -> Entries]
  BY <1>1 DEF Inv, TypeOK, TablesOK
<1>3. Inv'
  BY ReplyKeeps
<1>4. CASE net' = net \ {m} /\ UNCHANGED <<table, route>>
  <2>1. RepliesLeft({})
    BY <1>1, <1>4, LeftAlone
  <2>2. \A d2 \in Targets : Shrinks(Ways(d2), Ways(d2)')
    BY <1>4, WaysLeft
  <2> QED BY <1>3, <2>1, <2>2, RepliesKept
<1>5. ASSUME NEW k \in Slots, Better(n, k, m),
             table' = [table EXCEPT ![n][k].rlq = lq],
             \/ /\ s = n
                /\ route' = [route EXCEPT ![n] = UpdateEntry(route[n], d, m.from)]
                /\ net' = net \ {m}
             \/ /\ s # n
                /\ route' = [route EXCEPT ![n] = UpdateEntry(UpdateEntry(route[n], d, m.from), s,
                                                             table[n][k].from)]
                /\ net' = (net \ {m}) \cup SendReply(n, table[n][k].from, s, d, lq)
      PROVE  RepliesInv'
  <2> DEFINE t2 == [table[n] EXCEPT ![k] = [table[n][k] EXCEPT !.rlq = lq]]
             new == IF s = n THEN {} ELSE SendReply(n, table[n][k].from, s, d, lq)
             G == Told(s, d, lq)
             R == Ways(d)
             R2 == Ways(d)'
  <2>1. k \in FindEntry(table[n], s, d) /\ lq > table[n][k].rlq
    BY <1>5 DEF Better
  <2>2. table' = [table EXCEPT ![n] = t2]
    BY <1>1, <1>2, <1>5
  <2>3. Raised(n, table[n], t2, k, lq)
    <3> HIDE DEF n, lq
    <3> QED BY <1>1, <1>2, <2>1, TableTold
  <2> HIDE DEF t2
  <2>4. t2 \in [Slots -> Entries] /\ \A s2, d2 : NoLoss(table[n], t2, s2, d2)
    BY <2>3 DEF Raised, Quiet, TableOK
  <2>5. net' \subseteq net \cup new
    BY <1>5
  <2>6. RepliesLeft(new)
    <3> HIDE DEF new, n
    <3> QED BY <1>1, <2>2, <2>4, <2>5 DEF RepliesLeft
  <2>7. \A s2, d2 : \A l \in Nat : Told(s2, d2, l) \subseteq Told(s2, d2, l)'
    BY <1>1, <1>3, <2>2, <2>4, ToldGrows
  <2>8. n \in Told(s, d, lq)'
    <3>1. k \in FindEntry(table'[n], s, d) /\ table'[n][k].rlq = lq
      BY <1>1, <1>2, <2>1, <2>2, <2>3 DEF Raised
    <3>2. table'[n][k].rlq >= lq
      BY <1>1, <3>1
    <3> QED BY <1>1, <3>1, <3>2 DEF Told
  <2>9. /\ \A p \in Nodes, d2 \in Targets : p # n \/ d2 # d => route'[p][d2] = route[p][d2]
        /\ route'[n][d] = m.from
    <3>1. s \in Goals /\ d \in Goals /\ s # d /\ \A d2 \in Targets : d2 \in Goals /\ d2 # s
      BY <1>1 DEF Goals
    <3>2. UpdateEntry(route[n], d, m.from) \in [Goals -> Nodes \cup {NoNode}]
      BY <1>1, <1>2, <3>1 DEF UpdateEntry
    <3>3. PICK r : route' = [route EXCEPT ![n] = r] /\ r[d] = m.from
                   /\ \A d2 \in Targets \ {d} : r[d2] = route[n][d2]
      <4>1. CASE s = n
        BY <1>1, <1>2, <1>5, <3>1, <4>1 DEF UpdateEntry
      <4>2. CASE s # n
        BY <1>1, <1>2, <1>5, <3>1, <3>2, <4>2 DEF UpdateEntry
      <4> QED BY <4>1, <4>2
    <3> QED BY <1>1, <1>2, <3>3
  <2>10. ASSUME NEW d2 \in Targets, d2 # d \/ n \in Members[d] PROVE Shrinks(Ways(d2), Ways(d2)')
    <3>1. \A p \in Nodes : route'[p][d2] = route[p][d2] \/ p \in Members[d2]
      BY <2>9, <2>10
    <3> QED BY <3>1, WaysLeft
  <2>11. CASE n \in Members[d]
    <3>1. \A r \in new : ReplyBacked(r)'
      BY <1>1, <2>11, MemberBacks
    <3>2. \A d2 \in Targets : Shrinks(Ways(d2), Ways(d2)')
      BY <2>10, <2>11
    <3> HIDE DEF new
    <3> QED BY <1>3, <2>6, <3>1, <3>2, RepliesKept
  <2>12. CASE n \notin Members[d]
    <3>1. Leads(R, m.from, G) /\ G \in SUBSET Nodes
      BY DEF RepliesInv, RepliesBacked, ReplyBacked, Told
\* The node has one entry of the discovery, which tells less.
    <3>2. ASSUME NEW l \in Nat, n \in Told(s, d, l) PROVE l < lq
      <4>1. PICK j \in FindEntry(table[n], s, d) : table[n][j].rlq >= l
        BY <2>12, <3>2 DEF Told
      <4>2. j = k
        <5>1. j \in Slots
          BY DEF FindEntry
        <5> QED BY <1>1, <1>2, <2>1, <4>1, <5>1 DEF TableOK
      <4>3. table[n][k] \in Entries
        BY <1>2
      <4>4. table[n][k].rlq \in Nat
        BY <4>3, EntryFields
      <4> QED BY <1>1, <2>1, <4>1, <4>2, <4>4
    <3>3. n \notin G
      BY <1>1, <3>2
    <3>4. Redirects(R, R2, n, m.from)
      <4> SUFFICES ASSUME NEW p \in Nodes, NEW q \in Nodes, <<p, q>> \in R2
                   PROVE  IF p = n THEN q = m.from ELSE <<p, q>> \in R
        BY DEF Redirects
      <4>1. route'[p][d] = q /\ p \notin Members[d]
        BY WaysIs
      <4> QED BY <1>1, <2>9, <4>1, WaysIs
    <3>5. RoutesAcyclic'
      <4>1. ASSUME NEW d2 \in Targets PROVE Acyclic(Ways(d2)')
        <5>1. Acyclic(Ways(d2))
          BY DEF RepliesInv, RoutesAcyclic
        <5>2. CASE d2 = d
          <6>1. Acyclic(R)
            BY <5>1, <5>2
          <6> HIDE DEF R, R2, G
          <6>2. Acyclic(R2)
            BY <1>1, <3>1, <3>3, <3>4, <6>1, AcyclicRedirects
          <6> QED BY <5>2, <6>2 DEF R2
        <5>3. CASE d2 # d
          BY <2>10, <5>1, <5>3, AcyclicShrinks
        <5> QED BY <5>2, <5>3
      <4> QED BY <4>1 DEF RoutesAcyclic
    <3>6. ASSUME NEW m2 \in net, m2.type = "ROUTE_REPLY" PROVE ReplyBacked(m2)'
      <4> DEFINE H == Told(m2.src, m2.dst, m2.lq)
                 H2 == Told(m2.src, m2.dst, m2.lq)'
      <4>1. MessageOK(m2) /\ Leads(Ways(m2.dst), m2.from, H)
        BY <3>6 DEF Inv, NetOK, RepliesInv, RepliesBacked, ReplyBacked
      <4>2. m2.src = s /\ m2.dst \in Targets /\ m2.lq \in Nat
        BY <1>1, <4>1, MessageFields
      <4>3. H \in SUBSET Nodes /\ H \subseteq H2
        BY <2>7, <4>2 DEF Told
      <4>4. CASE m2.dst = d
        <5>1. ASSUME n \in H PROVE G \subseteq H2
          <6>1. m2.lq < lq
            BY <3>2, <4>2, <4>4, <5>1
          <6>2. ASSUME NEW p \in Nodes, NEW j \in FindEntry(table[p], s, d), table[p][j].rlq >= lq
                PROVE  table[p][j].rlq >= m2.lq
            <7>1. table[p][j] \in Entries
              BY <1>2 DEF FindEntry
            <7>2. table[p][j].rlq \in Nat
              BY <7>1, EntryFields
            <7> QED BY <1>1, <4>2, <6>1, <6>2, <7>2
          <6>3. G \subseteq H
            BY <4>2, <4>4, <6>2 DEF Told
          <6> QED BY <4>3, <6>3
        <5>2. Leads(R, m2.from, H)
          BY <4>1, <4>4
        <5> HIDE DEF R, R2, G, H, H2
        <5>3. Leads(R2, m2.from, H2)
          BY <1>1, <3>1, <3>4, <4>3, <5>1, <5>2, LeadsRedirects
        <5> QED BY <4>4, <5>3 DEF R2, H2, ReplyBacked
      <4>5. CASE m2.dst # d
        <5>1. Shrinks(Ways(m2.dst), Ways(m2.dst)')
          BY <2>10, <4>2, <4>5
        <5>2. Leads(Ways(m2.dst)', m2.from, H2)
          BY <4>1, <4>3, <5>1, LeadsShrinks
        <5> QED BY <5>2 DEF ReplyBacked
      <4> QED BY <4>4, <4>5
    <3>7. ASSUME NEW r \in new PROVE ReplyBacked(r)'
      <4>1. r.from = n /\ r.src = s /\ r.dst = d /\ r.lq = lq
        BY DEF SendReply, Reply
      <4>2. G \subseteq Told(s, d, lq)'
        BY <1>1, <2>7
      <4>3. Leads(R2, n, Told(s, d, lq)')
        <5> HIDE DEF R, R2, G
        <5> QED BY <1>1, <2>8, <3>1, <3>4, <4>2, LeadsFrom
      <4> QED BY <4>1, <4>3 DEF ReplyBacked
    <3>8. RepliesBacked'
      BY <2>5, <3>6, <3>7 DEF RepliesBacked
    <3> QED BY <3>5, <3>8 DEF RepliesInv
  <2> QED BY <2>11, <2>12
<1> QED BY <1>4, <1>5 DEF ReplyReceived

LEMMA RepliesNext ==
  ASSUME NEW o, Origins = {o}, o \notin Targets
  PROVE  Inv /\ RepliesInv /\ [Next]_vars => RepliesInv'
<1> SUFFICES ASSUME Inv, RepliesInv, [Next]_vars PROVE RepliesInv'
  OBVIOUS
<1>0. Inv' /\ o \in Nodes /\ route \in [Nodes -> [Goals -> Nodes \cup {NoNode}]]
  BY NextKeeps, DiscoveryAssumption DEF Inv, TypeOK
\* The steps that leave the routes alone, or give one up.
<1>1. ASSUME RepliesLeft({}), NEW n \in Nodes, NEW g \in Targets,
             route' = route \/ route' = [route EXCEPT ![n][g] = NoNode]
      PROVE  RepliesInv'
  <2>1. ASSUME NEW d \in Targets, NEW p \in Nodes
        PROVE  route'[p][d] = route[p][d] \/ route'[p][d] = NoNode
    <3>1. g \in Goals /\ d \in Goals
      BY DEF Goals
    <3> QED BY <1>0, <1>1, <3>1
  <2>2. \A d \in Targets : Shrinks(Ways(d), Ways(d)')
    BY <2>1, WaysLeft
  <2> QED BY <1>0, <1>1, <2>2, RepliesKept
<1>2. ASSUME RepliesLeft({}), route' = route PROVE RepliesInv'
  <2>1. \A d : Shrinks(Ways(d), Ways(d)')
    BY <1>2, WaysLeft
  <2> QED BY <1>0, <1>2, <2>1, RepliesKept
<1>3. ASSUME NEW n \in Origins, NEW f \in Frames, NEW d \in Targets, nwkTxFrame(n, f, d)
      PROVE  RepliesInv'
  BY <1>2, <1>3, TxFrameKeeps DEF nwkTxFrame
<1>4. ASSUME NEW n \in Origins, NEW d \in Targets, nwkRouteRemove(n, d)
      PROVE  RepliesInv'
  BY <1>1, <1>4, RouteRemoveKeeps, DiscoveryAssumption DEF nwkRouteRemove
<1>5. ASSUME NEW m \in net, m.type = "ROUTE_REQUEST", NEW lqi \in Lqis[<<m.from, m.to>>],
             RequestReceived(m.to, m, lqi)
      PROVE  RepliesInv'
  BY <1>5, RequestRoutes
<1>6. ASSUME NEW m \in net, m.type = "ROUTE_REPLY", ReplyReceived(m.to, m)
      PROVE  RepliesInv'
  BY <1>6, ReplyRoutes
<1>7. ASSUME NEW n \in Nodes, TimerHandler(n)
      PROVE  RepliesInv'
  <2>1. route' = route
    BY <1>7 DEF TimerHandler, Ages, Ends, Expires, Skips
  <2> QED BY <1>2, <1>7, <2>1, TimerHandlerKeeps
<1>8. CASE UNCHANGED vars
  <2>1. UNCHANGED <<table, route, net>>
    BY <1>8 DEF vars
  <2>2. RepliesLeft({})
    BY <1>0, <2>1, LeftAlone
  <2> QED BY <1>2, <2>1, <2>2
<1> QED BY <1>3, <1>4, <1>5, <1>6, <1>7, <1>8 DEF Next

\* Where one node looks for others (and not for itself), the next hops that
\* nwkRouteDiscoveryReplyReceived writes with its first nwkRouteUpdateEntry never lead
\* a frame for the node sought in a circle, whatever replies are late, lost or overtaken.
THEOREM RoutesAlwaysAcyclic ==
  ASSUME NEW o, Origins = {o}, o \notin Targets
  PROVE  Spec => []RoutesAcyclic
<1>1. Init => RepliesInv
  <2> SUFFICES ASSUME Init PROVE RepliesInv
    OBVIOUS
  <2>1. ASSUME NEW d \in Targets PROVE Acyclic(Ways(d))
    <3>1. \A p \in Nodes, m \in Nodes : <<p, m>> \notin Ways(d)
      BY WaysIs, DiscoveryAssumption DEF Init, Goals
    <3> QED BY <3>1 DEF Acyclic
  <2> QED BY <2>1 DEF Init, RepliesInv, RepliesBacked, RoutesAcyclic
<1>2. Inv /\ RepliesInv /\ [Next]_vars => RepliesInv'
  BY RepliesNext
<1>3. RepliesInv => RoutesAcyclic
  BY DEF RepliesInv
<1> QED BY <1>1, <1>2, <1>3, DiscoveryInvariant, PTL DEF Spec
=============================================================================
