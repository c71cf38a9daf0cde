--------------------------- MODULE SessionLineage ---------------------------
(***************************************************************************)
(* What the session endpoints promise to the client of one login.          *)
(*                                                                         *)
(* A login opens a lineage of tokens.  The client holds at most one usable *)
(* token of it at any time: a refresh takes that token away and then hands *)
(* over a fresh one, a logout ends the lineage for good.  A refresh whose  *)
(* answer is lost leaves the lineage in "rotating" for ever.               *)
(*                                                                         *)
(* Sessions.tla shows that login, refresh and logout, run concurrently by  *)
(* several handlers over a database and per-node caches, implement this.   *)
(***************************************************************************)
CONSTANTS
  Token,      \* identifiers of sessions; a lineage is named by its first one
  NoToken     \* "no session"

VARIABLES
  phase,      \* phase[l]: where the lineage opened by l stands
  current,    \* current[l]: the usable token the client of l holds
  spent       \* tokens that were taken away

vars == <<phase, current, spent>>

Phase == {"none", "open", "rotating", "ended"}

TypeOK ==
  /\ phase \in [Token -> Phase]
  /\ current \in [Token -> Token \cup {NoToken}]
  /\ spent \subseteq Token

Init ==
  /\ phase = [l \in Token |-> "none"]
  /\ current = [l \in Token |-> NoToken]
  /\ spent = {}

Fresh(t) == t \notin spent /\ \A l \in Token : current[l] # t

(* A login hands the first token to the client. *)
Open(l) ==
  /\ phase[l] = "none"
  /\ Fresh(l)
  /\ phase' = [phase EXCEPT ![l] = "open"]
  /\ current' = [current EXCEPT ![l] = l]
  /\ UNCHANGED spent

(* The usable token is taken away, by a refresh or for good by a logout. *)
TakeAway(l, next) ==
  /\ phase[l] = "open"
  /\ phase' = [phase EXCEPT ![l] = next]
  /\ current' = [current EXCEPT ![l] = NoToken]
  /\ spent' = spent \cup {current[l]}

(* The refresh that took the token away answers with its successor. *)
HandOver(l, t) ==
  /\ phase[l] = "rotating"
  /\ Fresh(t)
  /\ phase' = [phase EXCEPT ![l] = "open"]
  /\ current' = [current EXCEPT ![l] = t]
  /\ UNCHANGED spent

Next ==
  \E l \in Token :
    \/ Open(l)
    \/ TakeAway(l, "rotating")
    \/ TakeAway(l, "ended")
    \/ \E t \in Token : HandOver(l, t)

Spec == Init /\ [][Next]_vars
=============================================================================
