---------------------------- MODULE MCMembership ----------------------------
(* Membership on small instances. *)
EXTENDS Membership, TLC

CONSTANTS n1, n2, r1, r2, r3

OneNode == [r \in Request |-> n1]
TwoNodes == [r \in Request |-> IF r = r1 THEN n1 ELSE n2]

DataSymmetry == Permutations(User) \cup Permutations(Invitation)
SlotSymmetry == DataSymmetry \cup Permutations(Request)
=============================================================================
