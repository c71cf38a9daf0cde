--------------------------- MODULE SessionsProofs ---------------------------
(***************************************************************************)
(* Proofs about Sessions for any number of sessions, handlers and nodes.   *)
(*                                                                         *)
(* OneUsablePerLogin and LogoutEndsLogin are not inductive: whether a      *)
(* refresh may hand over its new session depends on what the handlers      *)
(* hold.  The inductive invariant is TypeInv /\ Safety.  TypeInv adds to   *)
(* the types what a handler carries at each await (HandlerOK); Safety adds *)
(* to the three properties which sessions can have a row (Known), where    *)
(* the sessions of a handler come from (Presented, MadeOK, DistinctMade)   *)
(* and that a session about to be delivered is alone in its login          *)
(* (Exclusive).                                                            *)
(*                                                                         *)
(* The refinement follows from the same invariant, and from the refinement *)
(* that what was taken away from a client is never current again.          *)
(***************************************************************************)
EXTENDS Sessions, TLAPS

(* Sessions that were ever created. *)
Issued == {t \in Token : login[t] # NoToken}

(* Only created sessions have rows, clients or an end; ended ones no row. *)
Known ==
  /\ rows \subseteq Issued
  /\ delivered \subseteq Issued
  /\ \A t \in Issued : login[t] \in Issued
  /\ \A t \in Token : closedBy[t] # "nobody" => t \in Issued \ rows

(* Handler r holds a session it created and has not delivered. *)
Making(r) ==
  \/ req[r].pc \in {"cacheNew", "reply"}
  \/ req[r].op = "refresh" /\ req[r].pc \in {"cacheDel", "dbDelete"}

(* What a handler carries at each await. *)
HandlerOK(r) ==
  /\ req[r].op \in {"refresh", "logout", "access"} => req[r].old \in Token
  /\ req[r].pc \in {"create", "cacheNew", "reply"} => req[r].op \in {"login", "refresh"}
  /\ req[r].pc \in {"cacheDel", "dbDelete"} => req[r].op \in {"refresh", "logout"}
  /\ req[r].pc \in {"dbRead", "fill"} => req[r].op \in {"access", "logout"}
  /\ Making(r) => req[r].new \in Token

TypeInv == TypeOK /\ \A r \in Request : HandlerOK(r)

(* A guarded request carries a session some client was given. *)
Presented(r) ==
  req[r].op \in {"refresh", "logout", "access"} => req[r].old \in delivered

(* The session a handler is making has its row, is unknown to every client *)
(* and continues the login of the session it replaces.                     *)
MadeOK(r) == Making(r) =>
  /\ req[r].new \in rows \ delivered
  /\ req[r].op = "refresh" => /\ login[req[r].new] = login[req[r].old]
                              /\ parent[req[r].new] = req[r].old
  /\ req[r].op = "login" => \A t \in Token : login[t] = req[r].new <=> t = req[r].new

DistinctMade ==
  \A r, s \in Request : Making(r) /\ Making(s) /\ r # s => req[r].new # req[s].new

(* A session about to be delivered is alone in its login. *)
Exclusive ==
  \A r \in Request : req[r].pc = "reply" =>
    /\ \A t \in Usable : login[t] # login[req[r].new]
    /\ \A s \in Request : req[s].pc = "reply" /\ s # r =>
         login[req[s].new] # login[req[r].new]

-----------------------------------------------------------------------------
(* A node starts with well-formed variables and idle handlers. *)
LEMMA TypeInvInit == Init => TypeInv
BY NoTokenAssumption
   DEF Init, TypeInv, HandlerOK, Making, TypeOK, Idle, Handler, Pc, Op, MaybeToken

(* Every step of Sessions keeps the variables and handlers well-formed. *)
LEMMA TypeInvNext == TypeInv /\ [Next]_vars => TypeInv'
<1> USE NoTokenAssumption, NodeOfAssumption
<1> SUFFICES ASSUME TypeInv, [Next]_vars PROVE TypeInv'
  OBVIOUS
<1> USE DEF TypeInv, TypeOK, HandlerOK, Making, Handler, Pc, Op, MaybeToken, history
<1>1. ASSUME NEW r \in Request, BeginLogin(r)
     PROVE  TypeInv'
  BY <1>1 DEF BeginLogin, Begin
<1>2. ASSUME NEW r \in Request, NEW t \in Token, BeginRefresh(r, t)
     PROVE  TypeInv'
  BY <1>2 DEF BeginRefresh, Begin
<1>3. ASSUME NEW r \in Request, NEW t \in Token, NEW op \in {"logout", "access"},
            BeginGuarded(r, t, op)
     PROVE  TypeInv'
  BY <1>3 DEF BeginGuarded, Begin, AfterGuard
<1>4. ASSUME NEW r \in Request, ReadRow(r)
     PROVE  TypeInv'
  BY <1>4 DEF ReadRow, Goto, End, Idle
<1>5. ASSUME NEW r \in Request, FillCache(r)
     PROVE  TypeInv'
  BY <1>5 DEF FillCache, Goto, CachePut, AfterGuard
<1>6. ASSUME NEW r \in Request, Answer(r)
     PROVE  TypeInv'
  BY <1>6 DEF Answer, End, Idle
<1>7. ASSUME NEW r \in Request, CreateRow(r)
     PROVE  TypeInv'
  <2>1. PICK t \in Token :
          /\ rows' = rows \cup {t}
          /\ login' = [login EXCEPT ![t] =
                         IF req[r].op = "login" THEN t ELSE login[req[r].old]]
          /\ parent' = [parent EXCEPT ![t] = req[r].old]
          /\ req' = [req EXCEPT ![r] = [@ EXCEPT !.pc = "cacheNew", !.new = t]]
    BY <1>7 DEF CreateRow
  <2>2. (IF req[r].op = "login" THEN t ELSE login[req[r].old]) \in MaybeToken
    BY <1>7 DEF CreateRow
  <2>3. req[r].old \in MaybeToken
    OBVIOUS
  <2>4. req' \in [Request -> Handler]
    <3>1. req[r] \in Handler /\ req \in [Request -> Handler]
      OBVIOUS
    <3>2. [req[r] EXCEPT !.pc = "cacheNew", !.new = t] \in Handler
      BY <3>1
    <3> QED
      BY <2>1, <3>1, <3>2 DEF TypeInv
  <2>5. \A s \in Request : HandlerOK(s)'
    BY <2>1, <1>7 DEF CreateRow
  <2>6. login' \in [Token -> MaybeToken] /\ parent' \in [Token -> MaybeToken]
    BY <2>1, <2>2, <2>3
  <2> QED
    BY <2>1, <2>4, <2>5, <2>6, <1>7 DEF CreateRow
<1>8. ASSUME NEW r \in Request, CacheNew(r)
     PROVE  TypeInv'
  BY <1>8 DEF CacheNew, CachePut, Goto
<1>9. ASSUME NEW r \in Request, DropFromCache(r)
     PROVE  TypeInv'
  BY <1>9 DEF DropFromCache, CacheDrop, Goto
<1>10. ASSUME NEW r \in Request, DeleteRow(r)
     PROVE  TypeInv'
  BY <1>10 DEF DeleteRow, Goto, End, Idle
<1>11. ASSUME NEW r \in Request, DeleteThrows(r)
     PROVE  TypeInv'
  BY <1>11 DEF DeleteThrows, End, Idle
<1>12. ASSUME NEW r \in Request, Deliver(r)
     PROVE  TypeInv'
  BY <1>12 DEF Deliver, End, Idle
<1>13. ASSUME NEW n \in Node, NEW t \in Token, Expire(n, t)
     PROVE  TypeInv'
  BY <1>13 DEF Expire, CacheDrop
<1>14. ASSUME NEW n \in Node, Crash(n)
     PROVE  TypeInv'
  BY <1>14 DEF Crash, Idle
<1>15. CASE UNCHANGED vars
  BY <1>15 DEF vars
<1> QED
  BY <1>1, <1>2, <1>3, <1>4, <1>5, <1>6, <1>7, <1>8, <1>9, <1>10, <1>11,
     <1>12, <1>13, <1>14, <1>15
     DEF Next, Step

(* Type correctness: every variable of Sessions keeps its type.            *)
THEOREM TypeCorrect == Spec => []TypeOK
<1>1. TypeInv => TypeOK
  BY DEF TypeInv
<1> QED
  BY <1>1, TypeInvInit, TypeInvNext, PTL DEF Spec

-----------------------------------------------------------------------------
(* The inductive invariant beyond the types. *)
Safety ==
  /\ Known
  /\ \A r \in Request : Presented(r) /\ MadeOK(r)
  /\ DistinctMade
  /\ Exclusive
  /\ OneUsablePerLogin
  /\ LogoutEndsLogin
  /\ SuccessorFirst

(* With no session at all, nothing is wrong. *)
LEMMA SafetyInit == Init => Safety
BY NoTokenAssumption
   DEF Init, Safety, Known, Issued, Presented, MadeOK, Making, DistinctMade, Exclusive,
       OneUsablePerLogin, Usable, LogoutEndsLogin, SuccessorFirst, Idle

(* A step that leaves the rows and the history alone, starts no new making *)
(* and brings nobody to the reply, keeps Safety.                           *)
LEMMA Frame ==
  ASSUME TypeInv, Safety, UNCHANGED <<rows, history>>,
         \A s \in Request : Presented(s)',
         \A s \in Request : Making(s)' =>
           /\ Making(s)
           /\ req'[s].op = req[s].op
           /\ req'[s].old = req[s].old
           /\ req'[s].new = req[s].new,
         \A s \in Request : req'[s].pc = "reply" => req[s].pc = "reply"
  PROVE  Safety'
<1>1. UNCHANGED <<rows, delivered, closedBy, login, parent>>
  BY DEF history
<1>2. Known'
  BY <1>1 DEF Safety, Known, Issued
<1>3. \A s \in Request : MadeOK(s)'
  BY <1>1 DEF Safety, MadeOK
<1>4. DistinctMade'
  BY DEF Safety, DistinctMade
<1>5. \A s \in Request : req'[s].pc = "reply" =>
        req[s].pc = "reply" /\ req'[s].new = req[s].new
  BY DEF Making
<1>6. Exclusive'
  BY <1>1, <1>5 DEF Safety, Exclusive, Usable
<1>7. OneUsablePerLogin'
  BY <1>1 DEF Safety, OneUsablePerLogin, Usable
<1>8. LogoutEndsLogin'
  BY <1>1, <1>5 DEF Safety, LogoutEndsLogin, Usable
<1>9. SuccessorFirst'
  BY <1>1 DEF Safety, SuccessorFirst
<1> QED
  BY <1>2, <1>3, <1>4, <1>6, <1>7, <1>8, <1>9 DEF Safety

(* A new row belongs to the login of its maker and is known to nobody. *)
LEMMA CreateRowSafe ==
  ASSUME TypeInv, Safety, NEW r \in Request, CreateRow(r)
  PROVE  Safety'
<1>1. PICK t \in Token :
        /\ login[t] = NoToken
        /\ rows' = rows \cup {t}
        /\ login' = [login EXCEPT ![t] =
                       IF req[r].op = "login" THEN t ELSE login[req[r].old]]
        /\ parent' = [parent EXCEPT ![t] = req[r].old]
        /\ req' = [req EXCEPT ![r] = [@ EXCEPT !.pc = "cacheNew", !.new = t]]
  BY DEF CreateRow
<1>2. UNCHANGED <<delivered, closedBy>> /\ req[r].pc = "create"
  BY DEF CreateRow
<1>3. /\ t \notin rows /\ t \notin delivered /\ closedBy[t] = "nobody"
      /\ \A s \in Request : Making(s) => req[s].new # t
      /\ \A s \in Request : Presented(s) /\ (req[s].op = "refresh" => req[s].old # t)
  BY <1>1 DEF Safety, Known, Issued, MadeOK, Presented, TypeInv, TypeOK
<1>4. /\ req'[r].pc = "cacheNew" /\ req'[r].new = t
      /\ req'[r].op = req[r].op /\ req'[r].old = req[r].old
      /\ \A s \in Request : s # r => req'[s] = req[s]
  BY <1>1 DEF TypeInv, TypeOK, Handler
<1>5. /\ req[r].op \in {"login", "refresh"}
      /\ req[r].op = "refresh" => req[r].old \in Token
  BY <1>2 DEF TypeInv, HandlerOK
<1>6. /\ \A s \in Token : s # t => login'[s] = login[s] /\ parent'[s] = parent[s]
      /\ parent'[t] = req[r].old
      /\ req[r].op = "login" => login'[t] = t
      /\ req[r].op = "refresh" => login'[t] = login[req[r].old]
  BY <1>1, <1>5 DEF TypeInv, TypeOK
<1>7. \A s \in Token : login[s] # t
  BY <1>1, NoTokenAssumption DEF Safety, Known, Issued, TypeInv, TypeOK
<1>8. login'[t] \in Token /\ (login'[t] = t \/ login[login'[t]] # NoToken)
  <2>1. CASE req[r].op = "login"
    BY <2>1, <1>6
  <2>2. CASE req[r].op = "refresh"
    <3>1. req[r].old \in Issued /\ login[req[r].old] \in Issued
      BY <2>2, <1>3 DEF Safety, Known, Presented
    <3> QED
      BY <2>2, <3>1, <1>6 DEF Issued
  <2> QED
    BY <1>5, <2>1, <2>2
<1>9. Issued' = Issued \cup {t}
  BY <1>6, <1>8, NoTokenAssumption DEF Issued
<1>10. Known'
  BY <1>1, <1>2, <1>3, <1>6, <1>8, <1>9 DEF Safety, Known, Issued
<1>11. \A s \in Request : Presented(s)'
  BY <1>2, <1>3, <1>4 DEF Presented
<1>12. \A s \in Request : s # r => (Making(s)' <=> Making(s))
  BY <1>4 DEF Making
<1>13. \A s \in Request : s # r => MadeOK(s)'
  <2> SUFFICES ASSUME NEW s \in Request, s # r, Making(s)
               PROVE  MadeOK(s)'
    BY <1>12 DEF MadeOK
  <2>1. req'[s] = req[s] /\ MadeOK(s) /\ req[s].new # t /\ req[s].new \in Token
    BY <1>3, <1>4 DEF Safety, TypeInv, HandlerOK
  <2>2. req[s].op = "refresh" => req[s].old # t /\ req[s].old \in Token
    BY <1>3 DEF TypeInv, HandlerOK
  <2>3. req[s].new \in rows' \ delivered'
    BY <2>1, <1>1, <1>2 DEF MadeOK
  <2>4. req[s].op = "refresh" =>
          /\ login'[req[s].new] = login'[req[s].old]
          /\ parent'[req[s].new] = req[s].old
    BY <2>1, <2>2, <1>6 DEF MadeOK
  <2>5. ASSUME req[s].op = "login", NEW u \in Token
        PROVE  login'[u] = req[s].new <=> u = req[s].new
    <3>1. \A v \in Token : login[v] = req[s].new <=> v = req[s].new
      BY <2>1, <2>5 DEF MadeOK
    <3>2. login'[t] # req[s].new
      <4>1. req[r].op = "refresh" => req[r].old # req[s].new
        BY <1>3, <2>1 DEF Presented, MadeOK
      <4> QED
        BY <4>1, <3>1, <1>5, <1>6, <2>1
    <3> QED
      BY <3>1, <3>2, <1>6, <2>1
  <2> QED
    BY <2>1, <2>3, <2>4, <2>5 DEF MadeOK
<1>14. MadeOK(r)'
  <2>1. t \in rows' \ delivered'
    BY <1>1, <1>2, <1>3
  <2>2. req[r].op = "refresh" => req[r].old # t
    BY <1>3
  <2>3. req[r].op = "refresh" =>
          login'[t] = login'[req[r].old] /\ parent'[t] = req[r].old
    BY <2>2, <1>5, <1>6
  <2>4. req[r].op = "login" => \A s \in Token : login'[s] = t <=> s = t
    BY <1>6, <1>7
  <2> QED
    BY <2>1, <2>3, <2>4, <1>4 DEF MadeOK
<1>15. DistinctMade'
  BY <1>3, <1>4, <1>12 DEF Safety, DistinctMade
<1>16. Usable' = Usable /\ t \notin Usable
  BY <1>1, <1>2, <1>3 DEF Usable
<1>17. \A s \in Request : req'[s].pc = "reply" =>
         /\ req[s].pc = "reply" /\ req'[s].new = req[s].new
         /\ req[s].new \in Token /\ req[s].new # t
  BY <1>3, <1>4 DEF Making, TypeInv, HandlerOK
<1>18. Exclusive'
  BY <1>16, <1>17, <1>6 DEF Safety, Exclusive, TypeInv, TypeOK, Usable
<1>19. OneUsablePerLogin'
  BY <1>16, <1>6 DEF Safety, OneUsablePerLogin, TypeInv, TypeOK, Usable
<1>20. LogoutEndsLogin'
  BY <1>2, <1>3, <1>16, <1>17, <1>6 DEF Safety, LogoutEndsLogin, TypeInv, TypeOK, Usable
<1>21. SuccessorFirst'
  <2> SUFFICES ASSUME NEW u \in Token, closedBy[u] = "refresh"
               PROVE  \E s \in Token : /\ parent'[s] = u
                                       /\ s \in rows' \/ closedBy'[s] # "nobody"
    BY <1>2 DEF SuccessorFirst
  <2>1. PICK s \in Token : parent[s] = u /\ (s \in rows \/ closedBy[s] # "nobody")
    BY DEF Safety, SuccessorFirst
  <2>2. s # t
    BY <2>1, <1>3
  <2> QED
    BY <2>1, <2>2, <1>1, <1>2, <1>6
<1> QED
  BY <1>10, <1>11, <1>13, <1>14, <1>15, <1>18, <1>19, <1>20, <1>21 DEF Safety

(* A login comes to the reply here: its session is alone in its login. *)
LEMMA CacheNewSafe ==
  ASSUME TypeInv, TypeInv', Safety, NEW r \in Request, CacheNew(r)
  PROVE  Safety'
<1>1. /\ UNCHANGED <<rows, history>> /\ req[r].pc = "cacheNew"
      /\ UNCHANGED <<rows, delivered, closedBy, login, parent>>
  BY DEF CacheNew, history
<1>2. /\ req'[r].pc = IF req[r].op = "login" THEN "reply" ELSE "cacheDel"
      /\ req'[r].op = req[r].op /\ req'[r].old = req[r].old /\ req'[r].new = req[r].new
      /\ \A s \in Request : s # r => req'[s] = req[s]
  BY DEF CacheNew, Goto, TypeInv, TypeOK, Handler
<1>3. req[r].op \in {"login", "refresh"} /\ Making(r) /\ req[r].new \in Token
  BY <1>1 DEF TypeInv, HandlerOK, Making
<1>4. \A s \in Request : Presented(s)'
  BY <1>1, <1>2 DEF Presented, Safety
<1>5. \A s \in Request : Making(s)' =>
        /\ Making(s)
        /\ req'[s].op = req[s].op
        /\ req'[s].old = req[s].old
        /\ req'[s].new = req[s].new
  BY <1>2, <1>3 DEF Making
<1>6. CASE req[r].op = "refresh"
  <2>1. \A s \in Request : req'[s].pc = "reply" => req[s].pc = "reply"
    BY <1>2, <1>6
  <2> QED
    BY <2>1, <1>1, <1>4, <1>5, Frame
<1>7. CASE req[r].op = "login"
  <2>1. /\ \A t \in Token : login[t] = req[r].new <=> t = req[r].new
        /\ req[r].new \in rows \ delivered
    BY <1>3, <1>7 DEF Safety, MadeOK
  <2>2. Known'
    BY <1>1 DEF Safety, Known, Issued
  <2>3. \A s \in Request : MadeOK(s)'
    BY <1>1, <1>5 DEF Safety, MadeOK
  <2>4. DistinctMade'
    BY <1>5 DEF Safety, DistinctMade
  <2>5. \A s \in Request : req'[s].pc = "reply" /\ s # r =>
          /\ req[s].pc = "reply" /\ req'[s].new = req[s].new
          /\ req[s].new \in Token /\ req[s].new # req[r].new
    BY <1>2, <1>3 DEF Safety, DistinctMade, Making, TypeInv, HandlerOK
  <2>6. Usable' = Usable /\ Usable \subseteq Token /\ req[r].new \notin Usable
    BY <1>1, <2>1 DEF Usable, TypeInv, TypeOK
  <2>7. Exclusive'
    <3>1. \A t \in Usable : login[t] # req[r].new
      BY <2>1, <2>6
    <3>2. \A s \in Request : req'[s].pc = "reply" /\ s # r =>
            login[req[s].new] # req[r].new
      BY <2>1, <2>5
    <3>3. login[req[r].new] = req[r].new
      BY <2>1, <1>3
    <3>4. \A s \in Request : req'[s].pc = "reply" /\ s # r =>
            \A t \in Usable : login[t] # login[req'[s].new]
      BY <2>5 DEF Safety, Exclusive
    <3>5. \A s, u \in Request : /\ req'[s].pc = "reply" /\ s # r
                                /\ req'[u].pc = "reply" /\ u # r /\ u # s
            => login[req'[u].new] # login[req'[s].new]
      BY <2>5 DEF Safety, Exclusive
    <3> QED
      BY <1>1, <1>2, <2>5, <2>6, <3>1, <3>2, <3>3, <3>4, <3>5 DEF Exclusive
  <2>8. OneUsablePerLogin'
    BY <1>1, <2>6 DEF Safety, OneUsablePerLogin
  <2>9. closedBy[req[r].new] = "nobody"
    BY <1>3, <2>1 DEF Safety, Known, TypeInv, TypeOK
  <2>10. LogoutEndsLogin'
    BY <1>1, <1>2, <2>1, <2>5, <2>6, <2>9, <1>3 DEF Safety, LogoutEndsLogin
  <2>11. SuccessorFirst'
    BY <1>1 DEF Safety, SuccessorFirst
  <2> QED
    BY <1>4, <2>2, <2>3, <2>4, <2>7, <2>8, <2>10, <2>11 DEF Safety
<1> QED
  BY <1>3, <1>6, <1>7

(* A refresh comes to the reply here: the session it replaces was the only *)
(* usable one of its login, and is gone now.                               *)
LEMMA DeleteRowSafe ==
  ASSUME TypeInv, TypeInv', Safety, NEW r \in Request, DeleteRow(r)
  PROVE  Safety'
<1> DEFINE o == req[r].old
<1>1. /\ req[r].pc = "dbDelete" /\ o \in rows /\ rows' = rows \ {o}
      /\ UNCHANGED <<delivered, login, parent>>
      /\ req[r].op \in {"refresh", "logout"}
      /\ o \in Token
  BY DEF DeleteRow, TypeInv, HandlerOK
<1>2. /\ closedBy'[o] = req[r].op
      /\ \A t \in Token : t # o => closedBy'[t] = closedBy[t]
  BY <1>1 DEF DeleteRow, TypeInv, TypeOK
<1>3. /\ req[r].op = "refresh" => /\ req'[r].pc = "reply" /\ req'[r].op = "refresh"
                                  /\ req'[r].old = o /\ req'[r].new = req[r].new
      /\ req[r].op = "logout" => req'[r] = Idle
      /\ \A s \in Request : s # r => req'[s] = req[s]
  BY DEF DeleteRow, Goto, End, TypeInv, TypeOK, Handler
<1>4. o \in delivered /\ o \in Usable
  BY <1>1 DEF Safety, Presented, Usable
<1>5. \A s \in Request : Making(s)' =>
        /\ Making(s)
        /\ req'[s].op = req[s].op
        /\ req'[s].old = req[s].old
        /\ req'[s].new = req[s].new
        /\ req[s].new \in Token
  BY <1>1, <1>3 DEF Making, Idle, TypeInv, HandlerOK
<1>6. \A s \in Request : Making(s) => req[s].new # o
  BY <1>4 DEF Safety, MadeOK
<1>7. Known'
  BY <1>1, <1>2, <1>4 DEF Safety, Known, Issued
<1>8. \A s \in Request : Presented(s)'
  BY <1>1, <1>3, <1>4 DEF Safety, Presented, Idle
<1>9. \A s \in Request : MadeOK(s)'
  BY <1>1, <1>5, <1>6 DEF Safety, MadeOK
<1>10. DistinctMade'
  BY <1>5 DEF Safety, DistinctMade
<1>11. Usable' = Usable \ {o} /\ Usable \subseteq Token
  BY <1>1 DEF Usable, TypeInv, TypeOK
<1>12. \A t \in Usable' : login[t] # login[o]
  BY <1>4, <1>11 DEF Safety, OneUsablePerLogin
<1>13. \A s \in Request : req'[s].pc = "reply" /\ s # r =>
         /\ req[s].pc = "reply" /\ req'[s].new = req[s].new
         /\ login[req[s].new] # login[o]
  BY <1>3, <1>4 DEF Safety, Exclusive
<1>14. req'[r].pc = "reply" =>
         req[r].op = "refresh" /\ req'[r].new = req[r].new /\ login[req[r].new] = login[o]
  BY <1>1, <1>3 DEF Idle, Safety, MadeOK, Making
<1>15. Exclusive'
  BY <1>1, <1>11, <1>12, <1>13, <1>14 DEF Safety, Exclusive
<1>16. OneUsablePerLogin'
  BY <1>1, <1>11 DEF Safety, OneUsablePerLogin
<1>17. \A t \in Token : closedBy[t] = "logout" => login[t] # login[o]
  BY <1>4 DEF Safety, LogoutEndsLogin
<1>18. LogoutEndsLogin'
  BY <1>1, <1>2, <1>11, <1>12, <1>13, <1>14, <1>17 DEF Safety, LogoutEndsLogin
<1>19. SuccessorFirst'
  <2> SUFFICES ASSUME NEW t \in Token, closedBy'[t] = "refresh"
               PROVE  \E s \in Token : /\ parent'[s] = t
                                       /\ s \in rows' \/ closedBy'[s] # "nobody"
    BY DEF SuccessorFirst
  <2>1. CASE t = o
    <3>1. req[r].op = "refresh" /\ Making(r) /\ req[r].new \in Token
      BY <1>1, <1>2, <2>1 DEF Making, TypeInv, HandlerOK
    <3>2. parent[req[r].new] = o /\ req[r].new \in rows /\ req[r].new # o
      BY <3>1, <1>6 DEF Safety, MadeOK
    <3> QED
      BY <3>1, <3>2, <2>1, <1>1
  <2>2. CASE t # o
    <3>1. PICK s \in Token : parent[s] = t /\ (s \in rows \/ closedBy[s] # "nobody")
      BY <1>2, <2>2 DEF Safety, SuccessorFirst
    <3> QED
      BY <3>1, <1>1, <1>2
  <2> QED
    BY <2>1, <2>2
<1> QED
  BY <1>7, <1>8, <1>9, <1>10, <1>15, <1>16, <1>18, <1>19 DEF Safety

(* The delivered session is the one that was alone in its login. *)
LEMMA DeliverSafe ==
  ASSUME TypeInv, TypeInv', Safety, NEW r \in Request, Deliver(r)
  PROVE  Safety'
<1> DEFINE n == req[r].new
<1>1. /\ req[r].pc = "reply" /\ delivered' = delivered \cup {n}
      /\ UNCHANGED <<rows, closedBy, login, parent>>
      /\ n \in Token /\ n \in rows
  BY DEF Deliver, TypeInv, HandlerOK, Making, Safety, MadeOK
<1>2. req'[r] = Idle /\ \A s \in Request : s # r => req'[s] = req[s]
  BY DEF Deliver, End, TypeInv, TypeOK, Handler
<1>3. \A s \in Request : Making(s)' =>
        s # r /\ Making(s) /\ req'[s] = req[s] /\ req[s].new # n
  BY <1>1, <1>2 DEF Making, Idle, Safety, DistinctMade
<1>4. Known'
  BY <1>1 DEF Safety, Known, Issued
<1>5. \A s \in Request : Presented(s)'
  BY <1>1, <1>2 DEF Safety, Presented, Idle
<1>6. \A s \in Request : MadeOK(s)'
  BY <1>1, <1>3 DEF Safety, MadeOK
<1>7. DistinctMade'
  BY <1>3 DEF Safety, DistinctMade
<1>8. Usable' = Usable \cup {n} /\ Usable \subseteq Token
  BY <1>1 DEF Usable, TypeInv, TypeOK
<1>9. \A t \in Usable : login[t] # login[n]
  BY <1>1 DEF Safety, Exclusive
<1>10. \A s \in Request : req'[s].pc = "reply" =>
         s # r /\ req[s].pc = "reply" /\ req'[s].new = req[s].new /\ login[req[s].new] # login[n]
  BY <1>1, <1>2 DEF Idle, Safety, Exclusive
<1>11. Exclusive'
  BY <1>1, <1>8, <1>10 DEF Safety, Exclusive
<1>12. OneUsablePerLogin'
  BY <1>1, <1>8, <1>9 DEF Safety, OneUsablePerLogin
<1>13. LogoutEndsLogin'
  BY <1>1, <1>8, <1>10 DEF Safety, LogoutEndsLogin
<1>14. SuccessorFirst'
  BY <1>1 DEF Safety, SuccessorFirst
<1> QED
  BY <1>4, <1>5, <1>6, <1>7, <1>11, <1>12, <1>13, <1>14 DEF Safety

(* Every step of Sessions keeps Safety. *)
LEMMA SafetyNext == TypeInv /\ Safety /\ [Next]_vars => Safety'
<1> SUFFICES ASSUME TypeInv, Safety, [Next]_vars PROVE Safety'
  OBVIOUS
<1>1. TypeInv'
  BY TypeInvNext
<1> USE DEF TypeInv, TypeOK, Handler, Safety, Presented, Making, Idle, history
<1>2. ASSUME NEW r \in Request, BeginLogin(r)
      PROVE  Safety'
  BY <1>2, Frame DEF BeginLogin, Begin
<1>3. ASSUME NEW r \in Request, NEW t \in Token, BeginRefresh(r, t)
      PROVE  Safety'
  BY <1>3, Frame DEF BeginRefresh, Begin
<1>4. ASSUME NEW r \in Request, NEW t \in Token, NEW op \in {"logout", "access"},
             BeginGuarded(r, t, op)
      PROVE  Safety'
  BY <1>4, Frame DEF BeginGuarded, Begin, AfterGuard
<1>5. ASSUME NEW r \in Request, ReadRow(r)
      PROVE  Safety'
  <2>1. CASE req[r].old \in rows
    BY <1>5, <2>1, Frame DEF ReadRow, Goto
  <2>2. CASE req[r].old \notin rows
    BY <1>5, <2>2, Frame DEF ReadRow, End
  <2> QED
    BY <2>1, <2>2
<1>6. ASSUME NEW r \in Request, FillCache(r)
      PROVE  Safety'
  BY <1>6, Frame DEF FillCache, Goto, AfterGuard, HandlerOK
<1>7. ASSUME NEW r \in Request, Answer(r)
      PROVE  Safety'
  BY <1>7, Frame DEF Answer, End
<1>8. ASSUME NEW r \in Request, DropFromCache(r)
      PROVE  Safety'
  BY <1>8, Frame DEF DropFromCache, Goto
<1>9. ASSUME NEW r \in Request, DeleteThrows(r)
      PROVE  Safety'
  BY <1>9, Frame DEF DeleteThrows, End
<1>10. ASSUME NEW n \in Node, NEW t \in Token, Expire(n, t)
      PROVE  Safety'
  BY <1>10, Frame DEF Expire
<1>11. ASSUME NEW n \in Node, Crash(n)
      PROVE  Safety'
  BY <1>11, Frame DEF Crash
<1>12. ASSUME NEW r \in Request, CreateRow(r)
      PROVE  Safety'
  BY <1>12, <1>1, CreateRowSafe
<1>13. ASSUME NEW r \in Request, CacheNew(r)
      PROVE  Safety'
  BY <1>13, <1>1, CacheNewSafe
<1>14. ASSUME NEW r \in Request, DeleteRow(r)
      PROVE  Safety'
  BY <1>14, <1>1, DeleteRowSafe
<1>15. ASSUME NEW r \in Request, Deliver(r)
      PROVE  Safety'
  BY <1>15, <1>1, DeliverSafe
<1>16. CASE UNCHANGED vars
  BY <1>16, Frame DEF vars
<1> QED
  BY <1>2, <1>3, <1>4, <1>5, <1>6, <1>7, <1>8, <1>9, <1>10, <1>11, <1>12,
     <1>13, <1>14, <1>15, <1>16
     DEF Next, Step

(* The inductive invariant holds in every reachable state: the sessions of *)
(* a handler, of the rows and of the clients fit together at every await.  *)
THEOREM InvariantHolds == Spec => [](TypeInv /\ Safety)
BY TypeInvInit, TypeInvNext, SafetyInit, SafetyNext, PTL DEF Spec

(* A login never turns into two usable sessions, for any number of tokens, *)
(* concurrent handlers and nodes.                                          *)
THEOREM OneSession == Spec => []OneUsablePerLogin
<1>1. Safety => OneUsablePerLogin
  BY DEF Safety
<1> QED
  BY <1>1, InvariantHolds, PTL

(* An answered logout leaves its login without a usable session.           *)
THEOREM LogoutIsFinal == Spec => []LogoutEndsLogin
<1>1. Safety => LogoutEndsLogin
  BY DEF Safety
<1> QED
  BY <1>1, InvariantHolds, PTL

(* A refresh never revokes a session that has no successor.                *)
THEOREM NoGap == Spec => []SuccessorFirst
<1>1. Safety => SuccessorFirst
  BY DEF Safety
<1> QED
  BY <1>1, InvariantHolds, PTL

(* A revoked session that no cache and no pending fill remembers is        *)
(* forgotten for good, and the guard never lets it through again.          *)
THEOREM RevocationIsFinal == Spec => ForgottenForGood
<1> DEFINE Stays == \A t \in Token : Forgotten(t) =>
       /\ Forgotten(t)'
       /\ \A r \in Request :
            req[r].pc \in {"idle", "dbRead", "fill"} /\ req'[r].old = t
              => req'[r].pc \notin {"granted", "cacheDel"}
<1>1. TypeInv /\ Safety /\ [Next]_vars => [Stays]_vars
  <2> SUFFICES ASSUME TypeInv, Safety, Next,
                      NEW u \in Token, Forgotten(u)
               PROVE  /\ Forgotten(u)'
                      /\ \A r \in Request :
                           req[r].pc \in {"idle", "dbRead", "fill"} /\ req'[r].old = u
                             => req'[r].pc \notin {"granted", "cacheDel"}
    OBVIOUS
  <2> DEFINE Goal == /\ Forgotten(u)'
                     /\ \A r \in Request :
                          req[r].pc \in {"idle", "dbRead", "fill"} /\ req'[r].old = u
                            => req'[r].pc \notin {"granted", "cacheDel"}
  <2>1. u \notin rows /\ u # NoToken
    BY NoTokenAssumption DEF Safety, Known, Forgotten
  <2> USE NodeOfAssumption DEF TypeInv, TypeOK, Handler, Idle, history, Forgotten
  <2>2. ASSUME NEW r \in Request, BeginLogin(r)
        PROVE  Goal
    BY <2>1, <2>2 DEF BeginLogin, Begin
  <2>3. ASSUME NEW r \in Request, NEW t \in Token, BeginRefresh(r, t)
        PROVE  Goal
    BY <2>1, <2>3 DEF BeginRefresh, Begin
  <2>4. ASSUME NEW r \in Request, NEW t \in Token, NEW op \in {"logout", "access"},
               BeginGuarded(r, t, op)
        PROVE  Goal
    BY <2>1, <2>4 DEF BeginGuarded, Begin, AfterGuard
  <2>5. ASSUME NEW r \in Request, ReadRow(r)
        PROVE  Goal
    BY <2>1, <2>5 DEF ReadRow, Goto, End
  <2>6. ASSUME NEW r \in Request, FillCache(r)
        PROVE  Goal
    BY <2>1, <2>6 DEF FillCache, Goto, CachePut, AfterGuard
  <2>7. ASSUME NEW r \in Request, Answer(r)
        PROVE  Goal
    BY <2>1, <2>7 DEF Answer, End
  <2>8. ASSUME NEW r \in Request, CreateRow(r)
        PROVE  Goal
    BY <2>1, <2>8 DEF CreateRow
  <2>9. ASSUME NEW r \in Request, CacheNew(r)
        PROVE  Goal
    BY <2>1, <2>9 DEF CacheNew, CachePut, Goto, Safety, MadeOK, Making
  <2>10. ASSUME NEW r \in Request, DropFromCache(r)
        PROVE  Goal
    BY <2>1, <2>10 DEF DropFromCache, CacheDrop, Goto
  <2>11. ASSUME NEW r \in Request, DeleteRow(r)
        PROVE  Goal
    <3>1. UNCHANGED cache /\ req[r].pc = "dbDelete" /\ req[r].old # u
      BY <2>1, <2>11 DEF DeleteRow
    <3>2. req' \in {[req EXCEPT ![r].pc = "reply"], [req EXCEPT ![r] = Idle]}
      BY <2>11 DEF DeleteRow, Goto, End
    <3>3. \A q \in Request : req'[q] = req[q] \/ (q = r /\ req'[q].pc \in {"reply", "idle"})
      BY <3>2
    <3>4. closedBy'[u] = closedBy[u]
      BY <3>1, <2>11 DEF DeleteRow
    <3> QED
      BY <2>1, <3>1, <3>3, <3>4
  <2>12. ASSUME NEW r \in Request, DeleteThrows(r)
        PROVE  Goal
    BY <2>1, <2>12 DEF DeleteThrows, End
  <2>13. ASSUME NEW r \in Request, Deliver(r)
        PROVE  Goal
    BY <2>1, <2>13 DEF Deliver, End
  <2>14. ASSUME NEW n \in Node, NEW t \in Token, Expire(n, t)
        PROVE  Goal
    BY <2>1, <2>14 DEF Expire, CacheDrop
  <2>15. ASSUME NEW n \in Node, Crash(n)
        PROVE  Goal
    BY <2>1, <2>15 DEF Crash
  <2> QED
    BY <2>2, <2>3, <2>4, <2>5, <2>6, <2>7, <2>8, <2>9, <2>10, <2>11, <2>12,
       <2>13, <2>14, <2>15
       DEF Next, Step
<1> QED
  BY <1>1, InvariantHolds, PTL DEF Spec, ForgottenForGood

-----------------------------------------------------------------------------
(* What a client sees of the logins, as SessionLineage has it. *)
Phases == [l \in Token |-> phaseOf(l)]
Currents == [l \in Token |-> currentOf(l)]
Spent == {t \in Token : closedBy[t] # "nobody"}

(* The one session a client holds of a login is its current one.           *)
LEMMA CurrentIsHeld ==
  /\ \A l \in Token, t \in Token : Held(l) = {t} => phaseOf(l) = "open" /\ currentOf(l) = t
  /\ \A l \in Token : Held(l) = {} => currentOf(l) = NoToken
  /\ \A l \in Token : Held(l) # {} => currentOf(l) \in Held(l)
BY DEF phaseOf, currentOf

(* A session that was created lately is nobody's current one, nor spent.   *)
LEMMA UndeliveredIsFresh ==
  ASSUME TypeInv, Safety, NEW n \in rows \ delivered
  PROVE  n \notin Spent /\ \A l \in Token : Currents[l] # n
<1>1. n \in Token /\ n # NoToken /\ n \notin Spent
  BY NoTokenAssumption DEF TypeInv, TypeOK, Safety, Known, Spent
<1>2. ASSUME NEW l \in Token PROVE currentOf(l) # n
  <2>1. Held(l) \subseteq delivered
    BY DEF Held, Usable
  <2> QED
    BY <1>1, <2>1, CurrentIsHeld
<1> QED
  BY <1>1, <1>2 DEF Currents

(* Before anybody logs in there is no lineage. *)
LEMMA LineageInit == Init => Lineage!Init
<1> SUFFICES ASSUME Init PROVE Lineage!Init
  OBVIOUS
<1>1. \A l \in Token : Held(l) = {} /\ ~LoggedOut(l) /\ ~Entered(l)
  BY DEF Init, Held, Usable, LoggedOut, Entered
<1>2. \A l \in Token : phaseOf(l) = "none" /\ currentOf(l) = NoToken
  BY <1>1 DEF phaseOf, currentOf
<1>3. {t \in Token : closedBy[t] # "nobody"} = {}
  BY DEF Init
<1> QED
  BY <1>2, <1>3 DEF Lineage!Init

(* The client of a login sees nothing of a step that neither delivers nor  *)
(* revokes one of its sessions.                                            *)
LEMMA SameView ==
  ASSUME NEW l \in Token,
         \A t \in Token : t \in Usable' /\ login'[t] = l <=> t \in Usable /\ login[t] = l,
         \A t \in Token : t \in delivered' /\ login'[t] = l <=> t \in delivered /\ login[t] = l,
         \A t \in Token : login'[t] = l /\ closedBy'[t] = "logout"
                         <=> login[t] = l /\ closedBy[t] = "logout",
         TypeInv, TypeInv'
  PROVE  phaseOf(l)' = phaseOf(l) /\ currentOf(l)' = currentOf(l)
<1>1. /\ delivered \subseteq Token /\ delivered' \subseteq Token
      /\ Usable \subseteq Token /\ Usable' \subseteq Token
  BY DEF TypeInv, TypeOK, Usable
<1>2. Held(l)' = Held(l)
  BY <1>1 DEF Held
<1>3. LoggedOut(l)' <=> LoggedOut(l)
  BY DEF LoggedOut
<1>4. Entered(l)' <=> Entered(l)
  BY <1>1 DEF Entered
<1> QED
  BY <1>2, <1>3, <1>4 DEF phaseOf, currentOf

(* A step of the lineage stutters when nothing is delivered or revoked. *)
LEMMA LineageStutters ==
  ASSUME TypeInv, Safety, TypeInv', UNCHANGED <<delivered, closedBy>>,
         Usable' = Usable,
         \A t \in Issued : login'[t] = login[t]
  PROVE  UNCHANGED Lineage!vars
<1>1. \A t \in delivered : login'[t] = login[t]
  BY DEF Safety, Known
<1>2. \A t \in Token : closedBy[t] = "logout" => login'[t] = login[t]
  BY DEF Safety, Known
<1>3. Usable \subseteq delivered
  BY DEF Usable
<1>4. \A l \in Token : phaseOf(l)' = phaseOf(l) /\ currentOf(l)' = currentOf(l)
  BY <1>1, <1>2, <1>3, SameView
<1> QED
  BY <1>4 DEF Lineage!vars

(* The delete of a refresh or of a logout takes the current session away. *)
LEMMA DeleteRowTakesAway ==
  ASSUME TypeInv, Safety, TypeInv', NEW r \in Request, DeleteRow(r)
  PROVE  Lineage!Next
<1>1. PICK o \in Token : o = req[r].old /\ o \in rows
  BY DEF DeleteRow, TypeInv, HandlerOK
<1>2. PICK op \in {"refresh", "logout"} : op = req[r].op
  BY DEF DeleteRow, TypeInv, HandlerOK
<1>3. rows' = rows \ {o} /\ UNCHANGED <<delivered, login>>
  BY <1>1 DEF DeleteRow
<1>4. closedBy'[o] = op /\ \A t \in Token \ {o} : closedBy'[t] = closedBy[t]
  BY <1>1, <1>2 DEF DeleteRow, TypeInv, TypeOK
<1>5. o \in Usable
  BY <1>1, <1>2 DEF DeleteRow, Safety, Presented, Usable
<1>6. PICK l \in Token : l = login[o]
  BY <1>1 DEF Safety, Known, Issued
<1>7. PICK next \in {"rotating", "ended"} :
        next = IF op = "refresh" THEN "rotating" ELSE "ended"
  OBVIOUS
<1>8. Usable' = Usable \ {o} /\ Usable \subseteq Token
  BY <1>3 DEF Usable, TypeInv, TypeOK
<1>9. Held(l) = {o}
  BY <1>5, <1>6, <1>8 DEF Held, Safety, OneUsablePerLogin
<1>10. phaseOf(l) = "open" /\ currentOf(l) = o
  BY <1>1, <1>9, CurrentIsHeld
<1>11. phaseOf(l)' = next /\ currentOf(l)' = NoToken
  <2>1. Held(l)' = {}
    BY <1>3, <1>8, <1>9 DEF Held
  <2>2. Entered(l)'
    BY <1>3, <1>5, <1>6 DEF Entered, Usable
  <2>3. ~LoggedOut(l)
    BY <1>5, <1>6 DEF LoggedOut, Safety, LogoutEndsLogin
  <2>4. LoggedOut(l)' <=> op = "logout"
    BY <1>3, <1>4, <1>6, <2>3 DEF LoggedOut
  <2> QED
    BY <1>7, <2>1, <2>2, <2>4 DEF phaseOf, currentOf
<1>12. \A k \in Token \ {l} : phaseOf(k)' = phaseOf(k) /\ currentOf(k)' = currentOf(k)
  BY <1>3, <1>4, <1>6, <1>8, SameView
<1>13. /\ Phases' = [Phases EXCEPT ![l] = next]
       /\ Currents' = [Currents EXCEPT ![l] = NoToken]
  BY <1>11, <1>12 DEF Phases, Currents
<1>14. Spent' = Spent \cup {Currents[l]}
  BY <1>2, <1>4, <1>10 DEF Spent, Currents
<1>15. Phases[l] = "open"
  BY <1>10 DEF Phases
<1>16. Lineage!TakeAway(l, next)
  BY <1>13, <1>14, <1>15 DEF Lineage!TakeAway, Phases, Currents, Spent
<1> QED
  BY <1>7, <1>16 DEF Lineage!Next

(* The answer of a login opens its lineage, that of a refresh hands over.  *)
LEMMA DeliverHandsOver ==
  ASSUME TypeInv, Safety, TypeInv', NEW r \in Request, Deliver(r)
  PROVE  Lineage!Next
<1>1. PICK n \in Token : n = req[r].new /\ n \in rows \ delivered
  BY DEF Deliver, TypeInv, HandlerOK, Making, Safety, MadeOK
<1>2. /\ req[r].pc = "reply" /\ delivered' = delivered \cup {n}
      /\ UNCHANGED <<rows, closedBy, login>> /\ Making(r)
      /\ req[r].op \in {"login", "refresh"}
  BY <1>1 DEF Deliver, TypeInv, HandlerOK, Making
<1>3. PICK l \in Token : l = login[n]
  BY <1>1 DEF Safety, Known, Issued
<1>4. Usable' = Usable \cup {n} /\ Usable \subseteq Token
  BY <1>1, <1>2 DEF Usable, TypeInv, TypeOK
<1>5. Held(l) = {} /\ ~LoggedOut(l)
  BY <1>1, <1>2, <1>3 DEF Held, LoggedOut, Safety, Exclusive, LogoutEndsLogin
<1>6. phaseOf(l)' = "open" /\ currentOf(l)' = n
  <2>1. Held(l)' = {n}
    BY <1>1, <1>2, <1>3, <1>4, <1>5 DEF Held
  <2> QED
    BY <2>1 DEF phaseOf, currentOf
<1>7. \A k \in Token \ {l} : phaseOf(k)' = phaseOf(k) /\ currentOf(k)' = currentOf(k)
  BY <1>1, <1>2, <1>3, <1>4, SameView
<1>8. Spent' = Spent
  BY <1>2 DEF Spent
<1>9. Lineage!Fresh(n)
  BY <1>1, UndeliveredIsFresh DEF Lineage!Fresh, Currents, Spent
<1>10. /\ Phases' = [Phases EXCEPT ![l] = "open"]
       /\ Currents' = [Currents EXCEPT ![l] = n]
  BY <1>6, <1>7 DEF Phases, Currents
<1>11. CASE req[r].op = "login"
  <2>1. l = n /\ \A t \in Token : login[t] = n <=> t = n
    BY <1>1, <1>2, <1>3, <1>11 DEF Safety, MadeOK
  <2>2. ~Entered(n)
    BY <1>1, <2>1 DEF Entered, TypeInv, TypeOK
  <2>3. Phases[n] = "none"
    BY <1>5, <2>1, <2>2 DEF Phases, phaseOf
  <2>4. Lineage!Open(n)
    BY <1>8, <1>9, <1>10, <2>1, <2>3 DEF Lineage!Open, Phases, Currents, Spent
  <2> QED
    BY <2>4 DEF Lineage!Next
<1>12. CASE req[r].op = "refresh"
  <2>1. req[r].old \in delivered /\ login[req[r].old] = l
    BY <1>1, <1>2, <1>3, <1>12 DEF Safety, Presented, MadeOK
  <2>2. Entered(l)
    BY <2>1 DEF Entered
  <2>3. Phases[l] = "rotating"
    BY <1>5, <2>2 DEF Phases, phaseOf
  <2>4. Lineage!HandOver(l, n)
    BY <1>8, <1>9, <1>10, <2>3 DEF Lineage!HandOver, Phases, Currents, Spent
  <2> QED
    BY <2>4 DEF Lineage!Next
<1> QED
  BY <1>2, <1>11, <1>12

(* Every step of Sessions is one of SessionLineage, or none that a client  *)
(* could see.                                                              *)
LEMMA LineageNext ==
  ASSUME TypeInv, Safety, [Next]_vars
  PROVE  [Lineage!Next]_(Lineage!vars)
<1>1. TypeInv'
  BY TypeInvNext
<1>2. ASSUME NEW r \in Request, CreateRow(r)
      PROVE  UNCHANGED Lineage!vars
  <2>1. PICK t \in Token :
          /\ login[t] = NoToken
          /\ rows' = rows \cup {t}
          /\ login' = [login EXCEPT ![t] =
                         IF req[r].op = "login" THEN t ELSE login[req[r].old]]
    BY <1>2 DEF CreateRow
  <2>2. UNCHANGED <<delivered, closedBy>>
    BY <1>2 DEF CreateRow
  <2>3. t \notin delivered
    BY <2>1 DEF Safety, Known, Issued
  <2>4. Usable' = Usable
    BY <2>1, <2>2, <2>3 DEF Usable
  <2>5. \A s \in Issued : login'[s] = login[s]
    BY <2>1 DEF Issued, TypeInv, TypeOK
  <2> QED
    BY <1>1, <2>2, <2>4, <2>5, LineageStutters
<1>3. ASSUME UNCHANGED <<rows, history>>
      PROVE  UNCHANGED Lineage!vars
  BY <1>1, <1>3, LineageStutters DEF history, Usable
<1>4. CASE UNCHANGED vars
  BY <1>3, <1>4 DEF vars, history
<1>5. CASE Next
  <2>1. CASE \E r \in Request : DeleteRow(r) \/ Deliver(r)
    BY <1>1, <2>1, DeleteRowTakesAway, DeliverHandsOver
  <2>2. CASE \E r \in Request : CreateRow(r)
    BY <1>2, <2>2
  <2>3. CASE UNCHANGED <<rows, history>>
    BY <1>3, <2>3
  <2> QED
    BY <1>5, <2>1, <2>2, <2>3
       DEF Next, Step, BeginLogin, BeginRefresh, BeginGuarded, ReadRow, FillCache, Answer,
           CacheNew, DropFromCache, DeleteThrows, Expire, Crash
<1> QED
  BY <1>4, <1>5

(* Sessions implements SessionLineage: over rows, caches, racing handlers  *)
(* and crashes a client holds at most one usable session of a login, which *)
(* a refresh replaces and a logout ends for good.                          *)
THEOREM KeepsLineage == Spec => ImplementsLineage
<1>1. Init => Lineage!Init
  BY LineageInit
<1>2. TypeInv /\ Safety /\ [Next]_vars => [Lineage!Next]_(Lineage!vars)
  BY LineageNext
<1> QED
  BY <1>1, <1>2, InvariantHolds, PTL DEF Spec, ImplementsLineage, Lineage!Spec

(* Nothing that a client may use now was ever taken away from it.          *)
NoneSpent == \A l \in Token : Currents[l] \notin Spent

(* The current session of a login has a row, and what was taken away has   *)
(* none.                                                                   *)
LEMMA CurrentIsNotSpent == TypeInv /\ Safety => NoneSpent
<1> SUFFICES ASSUME TypeInv, Safety, NEW l \in Token
             PROVE  Currents[l] \notin Spent
  BY DEF NoneSpent
<1>1. CASE Held(l) = {}
  <2>1. currentOf(l) = NoToken
    BY <1>1, CurrentIsHeld
  <2> QED
    BY <2>1, NoTokenAssumption DEF Currents, Spent
<1>2. CASE Held(l) # {}
  <2>1. currentOf(l) \in Held(l)
    BY <1>2, CurrentIsHeld
  <2>2. currentOf(l) \in rows
    BY <2>1 DEF Held, Usable
  <2> QED
    BY <2>2 DEF Currents, Spent, Safety, Known
<1> QED
  BY <1>1, <1>2

(* A token that a refresh or a logout has taken away from the client is    *)
(* never current again, of no login: what a client of SessionLineage may   *)
(* rely on from one state to all later ones.                               *)
THEOREM TakenForGood ==
  Spec => [][\A t \in Spent : t \in Spent' /\ \A l \in Token : Currents'[l] # t]_vars
<1>1. ASSUME TypeInv, Safety, NoneSpent', [Next]_vars
      PROVE  \A t \in Spent : t \in Spent' /\ \A l \in Token : Currents'[l] # t
  <2>1. Spent \subseteq Spent'
    <3>1. CASE Lineage!Next
      BY <3>1 DEF Lineage!Next, Lineage!Open, Lineage!TakeAway, Lineage!HandOver, Spent
    <3>2. CASE UNCHANGED Lineage!vars
      BY <3>2 DEF Lineage!vars, Spent
    <3> QED
      BY <1>1, <3>1, <3>2, LineageNext
  <2> QED
    BY <1>1, <2>1 DEF NoneSpent
<1>2. TypeInv /\ Safety /\ NoneSpent' /\ [Next]_vars
        => [\A t \in Spent : t \in Spent' /\ \A l \in Token : Currents'[l] # t]_vars
  BY <1>1
<1> QED
  BY <1>2, CurrentIsNotSpent, InvariantHolds, PTL DEF Spec
=============================================================================
