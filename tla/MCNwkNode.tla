----------------------------- MODULE MCNwkNode -----------------------------
(***************************************************************************)
(* Small instances of NwkNode for TLC.                                     *)
(***************************************************************************)
EXTENDS NwkNode, TLC

\* The requests are interchangeable: only the order of the queue, which is part
\* of the state, tells them apart.
Symmetry == Permutations(Reqs)
=============================================================================
