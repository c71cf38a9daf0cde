------------------------------ MODULE Sessions ------------------------------
(***************************************************************************)
(* The life of a session: login, refresh, logout and the JWT guard, as     *)
(* handlers that interleave at every await.                                *)
(*                                                                         *)
(* A session is one row of access_tokens.  Its id (subject of the access   *)
(* JWT) and its refreshToken (subject of the refresh JWT) are generated    *)
(* together and never change, so both are one member of Token here.  The   *)
(* rows are shared by every node; each node (a Node.js process) keeps its  *)
(* own memory cache of rows, written after database reads and creates.     *)
(*                                                                         *)
(* A request is a handler in flight on one node.  pc names the await it    *)
(* stands before; one action is the code between two awaits.  An answer    *)
(* that changes nothing (a 401 of a guard, a refused password) returns the *)
(* request to idle, or is no step at all when nothing was awaited before.  *)
(***************************************************************************)
CONSTANTS
  Token,      \* session identifiers; a finite set bounds how many are issued
  NoToken,    \* no session
  Node,       \* processes of the application
  Request,    \* handler slots: how many requests are in flight at once
  NodeOf      \* NodeOf[r]: the node that serves slot r

ASSUME NoTokenAssumption == NoToken \notin Token
ASSUME NodeOfAssumption == NodeOf \in [Request -> Node]

VARIABLES
  rows,       \* access_tokens: the sessions that have a row
  cache,      \* cache[n]: the sessions the memory cache of node n holds
  req,        \* req[r]: the handler in slot r
  delivered,  \* sessions whose tokens reached a client in a 200 answer
  closedBy,   \* history: which endpoint deleted the row of a session
  login,      \* history: login[t] is the session opened by the login t descends from
  parent      \* history: parent[t] is the session t was refreshed from

vars == <<rows, cache, req, delivered, closedBy, login, parent>>
history == <<delivered, closedBy, login, parent>>

MaybeToken == Token \cup {NoToken}
Op == {"none", "login", "refresh", "logout", "access"}
Pc == {"idle", "create", "cacheNew", "dbRead", "fill", "granted",
       "cacheDel", "dbDelete", "reply"}

(* What a handler carries over its awaits: old is the session its guard    *)
(* accepted, new the session it generated.                                 *)
Handler == [pc : Pc, op : Op, old : MaybeToken, new : MaybeToken]

Idle == [pc |-> "idle", op |-> "none", old |-> NoToken, new |-> NoToken]

TypeOK ==
  /\ rows \subseteq Token
  /\ cache \in [Node -> SUBSET Token]
  /\ req \in [Request -> Handler]
  /\ delivered \subseteq Token
  /\ closedBy \in [Token -> {"nobody", "refresh", "logout"}]
  /\ login \in [Token -> MaybeToken]
  /\ parent \in [Token -> MaybeToken]

Init ==
  /\ rows = {}
  /\ cache = [n \in Node |-> {}]
  /\ req = [r \in Request |-> Idle]
  /\ delivered = {}
  /\ closedBy = [t \in Token |-> "nobody"]
  /\ login = [t \in Token |-> NoToken]
  /\ parent = [t \in Token |-> NoToken]

Begin(r, pc, op, t) ==
  /\ req[r].pc = "idle"
  /\ req' = [req EXCEPT ![r] = [pc |-> pc, op |-> op, old |-> t, new |-> NoToken]]

Goto(r, pc) == req' = [req EXCEPT ![r].pc = pc]

End(r) == req' = [req EXCEPT ![r] = Idle]

CachePut(n, t) == cache' = [cache EXCEPT ![n] = @ \cup {t}]

CacheDrop(n, t) == cache' = [cache EXCEPT ![n] = @ \ {t}]

-----------------------------------------------------------------------------
(* POST auth/login: the password was right.                                *)
BeginLogin(r) ==
  /\ Begin(r, "create", "login", NoToken)
  /\ UNCHANGED <<rows, cache, history>>

(* A bug of BeginRefresh: validating the refresh token uses it up at once. *)
BeginRefreshConsuming(r, t) ==
  /\ t \in delivered \cap rows
  /\ Begin(r, "create", "refresh", t)
  /\ rows' = rows \ {t}
  /\ closedBy' = [closedBy EXCEPT ![t] = "refresh"]
  /\ UNCHANGED <<cache, delivered, login, parent>>

(* GET auth/refresh: JwtRefreshStrategy finds the row by its refreshToken, *)
(* always in the database.  The user it belongs to is never deleted, so    *)
(* RefreshUseCase goes on to generate a session.                           *)
BeginRefresh(r, t) ==
  /\ t \in delivered \cap rows
  /\ Begin(r, "create", "refresh", t)
  /\ UNCHANGED <<rows, cache, history>>

(* Where a request goes once JwtStrategy has accepted its token. *)
AfterGuard(op) == IF op = "logout" THEN "cacheDel" ELSE "granted"

(* A bug of BeginGuarded: a hit is written back, to slide its time to live. *)
BeginGuardedSliding(r, t, op) ==
  /\ t \in delivered
  /\ Begin(r, IF t \in cache[NodeOf[r]] THEN "fill" ELSE "dbRead", op, t)
  /\ UNCHANGED <<rows, cache, history>>

(* A request behind JwtAuthGuard looks its session up in the node's cache. *)
BeginGuarded(r, t, op) ==
  /\ t \in delivered
  /\ Begin(r, IF t \in cache[NodeOf[r]] THEN AfterGuard(op) ELSE "dbRead", op, t)
  /\ UNCHANGED <<rows, cache, history>>

(* A bug of ReadRow: what the database returned is not looked at. *)
ReadRowUnchecked(r) ==
  /\ req[r].pc = "dbRead"
  /\ Goto(r, "fill")
  /\ UNCHANGED <<rows, cache, history>>

(* On a miss it reads the row; without one the answer is 401. *)
ReadRow(r) ==
  /\ req[r].pc = "dbRead"
  /\ IF req[r].old \in rows THEN Goto(r, "fill") ELSE End(r)
  /\ UNCHANGED <<rows, cache, history>>

(* The row it read, by now perhaps deleted, goes into the cache. *)
FillCache(r) ==
  /\ req[r].pc = "fill"
  /\ CachePut(NodeOf[r], req[r].old)
  /\ Goto(r, AfterGuard(req[r].op))
  /\ UNCHANGED <<rows, history>>

(* The handler behind the guard runs and answers. *)
Answer(r) ==
  /\ req[r].pc = "granted"
  /\ End(r)
  /\ UNCHANGED <<rows, cache, history>>

(* generateAccessToken inserts the row of a session with fresh uuids. *)
CreateRow(r) ==
  /\ req[r].pc = "create"
  /\ \E t \in Token :
       /\ login[t] = NoToken
       /\ rows' = rows \cup {t}
       /\ login' = [login EXCEPT ![t] =
                      IF req[r].op = "login" THEN t ELSE login[req[r].old]]
       /\ parent' = [parent EXCEPT ![t] = req[r].old]
       /\ req' = [req EXCEPT ![r] = [@ EXCEPT !.pc = "cacheNew", !.new = t]]
  /\ UNCHANGED <<cache, delivered, closedBy>>

(* A bug of CacheNew: the record that is cached is the old session's. *)
CacheNewWrongRecord(r) ==
  /\ req[r].pc = "cacheNew"
  /\ CachePut(NodeOf[r], req[r].old)
  /\ Goto(r, IF req[r].op = "login" THEN "reply" ELSE "cacheDel")
  /\ UNCHANGED <<rows, history>>

(* ... and then caches it; a login answers, a refresh deletes the old one. *)
CacheNew(r) ==
  /\ req[r].pc = "cacheNew"
  /\ CachePut(NodeOf[r], req[r].new)
  /\ Goto(r, IF req[r].op = "login" THEN "reply" ELSE "cacheDel")
  /\ UNCHANGED <<rows, history>>

(* CacheAccessTokenRepository.delete drops the entry of its own node first, *)
DropFromCache(r) ==
  /\ req[r].pc = "cacheDel"
  /\ CacheDrop(NodeOf[r], req[r].old)
  /\ Goto(r, "dbDelete")
  /\ UNCHANGED <<rows, history>>

(* ... and then deletes the row.  A logout is answered here. *)
DeleteRow(r) ==
  /\ req[r].pc = "dbDelete"
  /\ req[r].old \in rows
  /\ rows' = rows \ {req[r].old}
  /\ closedBy' = [closedBy EXCEPT ![req[r].old] = req[r].op]
  /\ IF req[r].op = "refresh" THEN Goto(r, "reply") ELSE End(r)
  /\ UNCHANGED <<cache, delivered, login, parent>>

(* A bug of DeleteThrows: deleting a row that is gone counts as done.      *)
DeleteOfNothingSucceeds(r) ==
  /\ req[r].pc = "dbDelete"
  /\ req[r].old \notin rows
  /\ IF req[r].op = "refresh" THEN Goto(r, "reply") ELSE End(r)
  /\ UNCHANGED <<rows, cache, history>>

(* Prisma throws when the row is gone: a 500, and the session a refresh    *)
(* has generated stays in the database without ever reaching a client.     *)
DeleteThrows(r) ==
  /\ req[r].pc = "dbDelete"
  /\ req[r].old \notin rows
  /\ End(r)
  /\ UNCHANGED <<rows, cache, history>>

(* The 200 answer carries the tokens of the new session. *)
Deliver(r) ==
  /\ req[r].pc = "reply"
  /\ delivered' = delivered \cup {req[r].new}
  /\ End(r)
  /\ UNCHANGED <<rows, cache, closedBy, login, parent>>

-----------------------------------------------------------------------------
(* The time to live of a cache entry passes (or the store evicts it). *)
Expire(n, t) ==
  /\ t \in cache[n]
  /\ CacheDrop(n, t)
  /\ UNCHANGED <<rows, req, history>>

(* A process stops and is started again: its cache and its handlers are    *)
(* gone, the database stays.                                               *)
Crash(n) ==
  /\ cache' = [cache EXCEPT ![n] = {}]
  /\ req' = [r \in Request |-> IF NodeOf[r] = n THEN Idle ELSE req[r]]
  /\ UNCHANGED <<rows, history>>

(* The steps of a handler once it has begun. *)
Step(r) ==
  \/ ReadRow(r) \/ FillCache(r) \/ Answer(r)
  \/ CreateRow(r) \/ CacheNew(r)
  \/ DropFromCache(r) \/ DeleteRow(r) \/ DeleteThrows(r)
  \/ Deliver(r)

Next ==
  \/ \E r \in Request :
       \/ BeginLogin(r)
       \/ \E t \in Token : BeginRefresh(r, t)
       \/ \E t \in Token, op \in {"logout", "access"} : BeginGuarded(r, t, op)
       \/ Step(r)
  \/ \E n \in Node, t \in Token : Expire(n, t)
  \/ \E n \in Node : Crash(n)

(* The event loop of a node runs every handler on, the database answers,   *)
(* and an entry's time to live ends; nobody has to send a request, and no  *)
(* process has to stop.                                                    *)
Fairness ==
  /\ \A r \in Request : WF_vars(Step(r))
  /\ \A n \in Node, t \in Token : WF_vars(Expire(n, t))

Spec == Init /\ [][Next]_vars
FairSpec == Spec /\ Fairness
-----------------------------------------------------------------------------
(* The sessions a client can use: their tokens reached it and are not      *)
(* revoked.                                                                *)
Usable == delivered \cap rows

(* A login never turns into two usable sessions, however many refreshes    *)
(* and logouts of its tokens race (RefreshUseCase and LogoutUsecase).      *)
OneUsablePerLogin ==
  \A s, t \in Usable : login[s] = login[t] => s = t

(* Once a logout has been answered, no session that descends from the same *)
(* login is usable, or on its way to the client in the answer of a refresh *)
(* that raced with it.                                                     *)
LogoutEndsLogin ==
  \A t \in Token : closedBy[t] = "logout" =>
    /\ \A s \in Usable : login[s] # login[t]
    /\ \A r \in Request :
         req[r].pc = "reply" => login[req[r].new] # login[t]

(* RefreshUseCase creates before it deletes: a session is never revoked by *)
(* a refresh before a successor has its row, even if the node stops        *)
(* between the two.                                                        *)
SuccessorFirst ==
  \A t \in Token : closedBy[t] = "refresh" =>
    \E s \in Token : /\ parent[s] = t
                     /\ s \in rows \/ closedBy[s] # "nobody"

(* Nothing that could still let a revoked session through the guard: no    *)
(* cache holds it and no handler is about to write it back.                *)
Forgotten(t) ==
  /\ closedBy[t] # "nobody"
  /\ \A n \in Node : t \notin cache[n]
  /\ \A r \in Request : req[r].pc = "fill" => req[r].old # t

(* A revoked session that is forgotten once stays so, and from then on the *)
(* guard lets no request with it through: entries are written only from    *)
(* rows that were just read or created, and an id is never reused.         *)
ForgottenForGood ==
  [][\A t \in Token : Forgotten(t) =>
       /\ Forgotten(t)'
       /\ \A r \in Request :
            req[r].pc \in {"idle", "dbRead", "fill"} /\ req'[r].old = t
              => req'[r].pc \notin {"granted", "cacheDel"}]_vars

(* Every revoked session is forgotten in the end, however long the guard's *)
(* fills race with the delete: revocation takes effect.                    *)
RevocationTakesEffect ==
  \A t \in Token : closedBy[t] # "nobody" ~> Forgotten(t)

(* Once every handler has answered, no cache holds a session that a logout *)
(* revoked.  The test of CacheAccessTokenRepository.delete says so; the    *)
(* code drops the entry of one node before it deletes the row.             *)
LogoutLeavesNoCopy ==
  (\A r \in Request : req[r].pc = "idle") =>
    \A t \in Token, n \in Node : closedBy[t] = "logout" => t \notin cache[n]

-----------------------------------------------------------------------------
(* The refinement: the client's view of each login.                        *)
Held(l) == {t \in Usable : login[t] = l}
LoggedOut(l) == \E t \in Token : login[t] = l /\ closedBy[t] = "logout"
Entered(l) == \E t \in delivered : login[t] = l

phaseOf(l) ==
  IF Held(l) # {} THEN "open"
  ELSE IF LoggedOut(l) THEN "ended"
  ELSE IF Entered(l) THEN "rotating"
  ELSE "none"

currentOf(l) == IF Held(l) = {} THEN NoToken ELSE CHOOSE t \in Held(l) : TRUE

Lineage == INSTANCE SessionLineage WITH
  phase <- [l \in Token |-> phaseOf(l)],
  current <- [l \in Token |-> currentOf(l)],
  spent <- {t \in Token : closedBy[t] # "nobody"}

(* Login, refresh and logout over rows and caches keep the promise of      *)
(* SessionLineage.                                                         *)
ImplementsLineage == Lineage!Spec
=============================================================================
