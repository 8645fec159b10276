----------------------------- MODULE MCNwkRoute -----------------------------
(***************************************************************************)
(* A small instance of NwkRoute for TLC.                                   *)
(***************************************************************************)
EXTENDS NwkRoute, TLC

\* The routing nodes are interchangeable, and so are the others.
Symmetry == {p \in Permutations(Nodes) : \A n \in Nodes : n \in NonRouting <=> p[n] \in NonRouting}
=============================================================================
