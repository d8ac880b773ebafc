------------------------------- MODULE MCSmpc -------------------------------
(* A network of three nodes, with threshold two, that joins one value.       *)
EXTENDS Smpc, TLC

\* Nodes are interchangeable.
Symmetry == Permutations(Nodes)
=============================================================================
