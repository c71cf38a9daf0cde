------------------------------ MODULE Members ------------------------------
(***************************************************************************)
(* How a user becomes a member of an enterprise: by founding it, or by     *)
(* joining on the invitation of somebody who was a member when inviting.   *)
(* Nobody leaves.                                                          *)
(*                                                                         *)
(* Membership.tla shows that the interceptor with its caches, the          *)
(* invitations and the transaction of an acceptance implement this.        *)
(***************************************************************************)
CONSTANTS Enterprise, User

VARIABLES
  members,   \* the pairs <<e, u>> such that u is a member of e
  invited    \* the triples <<e, by, u>> such that by ever invited u to e

vars == <<members, invited>>

TypeOK ==
  /\ members \subseteq Enterprise \X User
  /\ invited \subseteq Enterprise \X User \X User

Init == members = {} /\ invited = {}

Found(e, u) ==
  /\ \A v \in User : <<e, v>> \notin members
  /\ members' = members \cup {<<e, u>>}
  /\ UNCHANGED invited

Invite(e, by, u) ==
  /\ <<e, by>> \in members
  /\ invited' = invited \cup {<<e, by, u>>}
  /\ UNCHANGED members

Join(e, u) ==
  /\ \E by \in User : <<e, by, u>> \in invited
  /\ members' = members \cup {<<e, u>>}
  /\ UNCHANGED invited

Next ==
  \E e \in Enterprise, u \in User :
    \/ Found(e, u)
    \/ \E by \in User : Invite(e, by, u)
    \/ Join(e, u)

Spec == Init /\ [][Next]_vars
=============================================================================
