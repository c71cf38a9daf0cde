----------------------------- MODULE MCSessions -----------------------------
(* Sessions on small instances. *)
EXTENDS Sessions, TLC

CONSTANTS n1, n2, r1, r2, r3

(* One process serves every slot. *)
OneNode == [r \in Request |-> n1]

(* Two processes behind the load balancer, one slot each. *)
TwoNodes == [r \in Request |-> IF r = r1 THEN n1 ELSE n2]

SlotSymmetry == Permutations(Token) \cup Permutations(Request)
=============================================================================
