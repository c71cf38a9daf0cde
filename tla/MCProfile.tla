----------------------------- MODULE MCProfile -----------------------------
(* Profile on a small instance: a process that serves two requests at a    *)
(* time and one that serves one.                                           *)
EXTENDS Profile

CONSTANTS n1, n2, r1, r2, r3

BusyAndQuiet == [r \in Request |-> IF r = r3 THEN n2 ELSE n1]
=============================================================================
