--------------------------- MODULE MCNwkMulticast ---------------------------
(***************************************************************************)
(* NwkMulticast on a triangle with a tail of two nodes: ways of different  *)
(* lengths to the same node, and rows of any mix of members and others.    *)
(***************************************************************************)
EXTENDS NwkMulticast, TLC

CONSTANTS a, b, c, d, e

MCNode == {a, b, c, d, e}
MCNeighbours ==
  (a :> {b, c}) @@ (b :> {a, c}) @@ (c :> {a, b, d}) @@ (d :> {c, e}) @@ (e :> {d})
=============================================================================
