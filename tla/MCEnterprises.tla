--------------------------- MODULE MCEnterprises ---------------------------
(* Enterprises on a small instance: one process with two handlers.     *)
EXTENDS Enterprises, TLC

CONSTANT n1

OneNode == [r \in Request |-> n1]

DataSymmetry ==
  Permutations(Enterprise) \cup Permutations(Name) \cup Permutations(Description)
    \cup Permutations(Request)
=============================================================================
