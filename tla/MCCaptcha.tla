----------------------------- MODULE MCCaptcha -----------------------------
(* Captcha on a small instance: two processes with one handler each. *)
EXTENDS Captcha

CONSTANTS n1, n2, r1, r2

TwoNodes == [r \in Request |-> IF r = r1 THEN n1 ELSE n2]
=============================================================================
