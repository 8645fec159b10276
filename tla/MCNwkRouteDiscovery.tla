------------------------ MODULE MCNwkRouteDiscovery ------------------------
(* Small instances of NwkRouteDiscovery: a diamond of an origin, two relays  *)
(* that hear each other, and the node sought; and two nodes, of which the    *)
(* origin seeks also a node that is not there.                               *)
EXTENDS NwkRouteDiscovery

CONSTANTS a, b, c, d, x

Both(R) == R \cup {<<p[2], p[1]>> : p \in R}

MCNodes == {a, b, c, d}
MCOrigins == {a}
MCLink == {<<a, b>>, <<a, c>>, <<b, c>>, <<c, b>>, <<b, d>>, <<c, d>>}
MCLqis == [l \in MCLink |-> IF l = <<a, c>> THEN {100}
                          ELSE IF l \in Both({<<b, c>>}) THEN {200} ELSE {255}]
MCTargets == {d}
MCMembers == [t \in {d} |-> {d}]

PairNodes == {a, d}
PairLink == Both({<<a, d>>})
PairLqis == [l \in PairLink |-> {255}]
PairTargets == {d, x}
PairMembers == [t \in {d, x} |-> IF t = d THEN {d} ELSE {}]
=============================================================================
