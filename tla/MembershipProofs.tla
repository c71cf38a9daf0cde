-------------------------- MODULE MembershipProofs --------------------------
(***************************************************************************)
(* Proofs about Membership for any number of enterprises, users, handlers  *)
(* and processes, and any finite set of invitations.                       *)
(*                                                                         *)
(* The invariants are not inductive: what an acceptance may commit depends *)
(* on what its handler read before and on who waits for the same lock.     *)
(* The inductive invariant is TypeInv /\ Safety.  TypeInv adds to the types*)
(* what a handler carries at each await (Carries) and that a row agrees    *)
(* with what was issued (Addressed).  Safety adds what a handler may still *)
(* rely on at each await (Holds), that an invitation has one mailer and    *)
(* one lock holder (Exclusive), and that owners are employees (Staff).     *)
(* Staff is what keeps an enterprise: the delete runs into that row.       *)
(* EmployeesReached needs Roots besides: who sent an invitation is staff,  *)
(* and OneRowUnlessRaced needs Single: who inserts a row finds none.       *)
(***************************************************************************)
EXTENDS Membership, FiniteSetTheorems, TLAPS

(* An invitation that was ever sent. *)
Sent(i) == i \in Invitation /\ issued[i] # NoInvitation

(* The awaits behind the interceptor, those of a decision, and those of a  *)
(* transaction that holds the lock of its row.                             *)
Gated == {"inviteFind", "inviteCreate", "mail", "uninviteFind", "uninvite"}
Deciding == {"accept", "acceptFind", "commitOld", "commitNew", "reject"}
Locking == {"acceptFind", "commitOld", "commitNew"}

(* What a handler carries at each await. *)
Carries(r) == LET h == req[r] IN
  /\ h.pc # "idle" => h.ent \in Enterprise /\ h.user \in User
  /\ h.pc \in {"gateRead", "gateFill"} => h.op \in {"invite", "uninvite"}
  /\ h.pc \in {"inviteFind", "inviteCreate"} => h.op = "invite"
  /\ h.pc \in {"uninviteFind", "uninvite"} => h.op = "uninvite"
  /\ h.op = "invite" => h.to \in User
  /\ h.op = "uninvite" \/ h.pc = "mail" => Sent(h.inv)
  /\ h.pc \in Deciding => Sent(h.inv) /\ issued[h.inv] = <<h.ent, h.user>>
  /\ h.pc \in Locking => HasRow(h.inv)

(* What it can rely on there, because nobody else takes it away. *)
Holds(r) == LET h == req[r] IN
  /\ h.pc # "idle" => owner[h.ent] # NoUser
  /\ h.pc \in Gated \cup {"gateFill", "commitOld"} => employees[<<h.ent, h.user>>] > 0
  /\ h.pc = "mail" => mails[h.inv] = 0
  /\ h.pc = "commitNew" => h.inv \notin accepted

(* One handler at most mails an invitation, and one holds its lock. *)
Exclusive ==
  \A r, q \in Request : r # q /\ req[r].inv = req[q].inv =>
    /\ ~(req[r].pc = "mail" /\ req[q].pc = "mail")
    /\ ~(req[r].pc \in Locking /\ req[q].pc \in Locking)

(* A row tells what its invitation was sent for. *)
Addressed ==
  \A i \in Invitation : HasRow(i) => issued[i] = <<rows[i].ent, rows[i].email>>

(* Invitations are sent by users, from enterprises with a row, and nothing *)
(* happens to one before.                                                  *)
Records ==
  \A i \in Invitation :
    /\ Sent(i) => inviter[i] \in User /\ owner[issued[i][1]] # NoUser
    /\ ~Sent(i) => mails[i] = 0 /\ i \notin accepted

(* Owners are employees, and so are those the caches remember. *)
Staff ==
  /\ \A e \in Enterprise : owner[e] # NoUser => employees[<<e, owner[e]>>] > 0
  /\ \A e \in Enterprise, u \in User : employees[<<e, u>>] > 0 => owner[e] # NoUser
  /\ \A n \in Node : \A p \in memberCache[n] : employees[p] > 0

(* The types, with what handlers and rows carry. *)
TypeInv == TypeOK /\ Addressed /\ \A r \in Request : Carries(r)

(* The invariants that do not look at handlers. *)
Books == Records /\ Staff /\ EmployeesEarned /\ AcceptedIsEmployed /\ MailedAtMostOnce

(* What handlers rely on, with the exclusion and the books it rests on. *)
Safety == (\A r \in Request : Holds(r)) /\ Exclusive /\ Books

(* Nobody has anything in the initial state.                               *)
LEMMA TypeInvInit == Init => TypeInv
BY NoneAssumption
   DEF Init, TypeInv, TypeOK, Addressed, HasRow, Carries, Sent, Deciding, Locking, Idle,
       Handler, Pc

(* Idle handlers, and handlers that nothing happens to, keep what they carry. *)
LEMMA CarriesStays ==
  ASSUME TypeInv, NEW q \in Request, req'[q] = req[q] \/ req'[q] = Idle,
         \A i \in Invitation : issued[i] # NoInvitation => issued'[i] = issued[i],
         req[q].pc \in Locking => rows'[req[q].inv] # NoInvitation
  PROVE  Carries(q)'
BY DEF TypeInv, TypeOK, Carries, Sent, Deciding, Locking, HasRow, Idle

(* A handler that ends leaves its slot idle; req keeps its type.           *)
LEMMA Idles ==
  ASSUME TypeInv, NEW r \in Request, End(r)
  PROVE  req' \in [Request -> Handler]
BY DEF TypeInv, TypeOK, End, Idle, Handler, Pc

(* A handler that goes on changes its pc and nothing else.                 *)
LEMMA Goes ==
  ASSUME TypeInv, NEW r \in Request, NEW pc \in Pc, Goto(r, pc)
  PROVE  /\ req' \in [Request -> Handler]
         /\ req'[r].pc = pc
         /\ req'[r].op = req[r].op /\ req'[r].user = req[r].user
         /\ req'[r].ent = req[r].ent /\ req'[r].to = req[r].to
         /\ req'[r].inv = req[r].inv
         /\ \A q \in Request \ {r} : req'[q] = req[q]
BY DEF TypeInv, TypeOK, Goto, Handler

(* Every action keeps the types and what handlers carry.                   *)
LEMMA TypeInvNext == TypeInv /\ [Next]_vars => TypeInv'
<1> SUFFICES ASSUME TypeInv, [Next]_vars PROVE TypeInv'
  OBVIOUS
<1> USE DEF TypeInv, TypeOK, Addressed, Carries, Sent, Deciding, Locking, Handler, Pc,
            HasRow, Idle, history
<1>1. ASSUME NEW e \in Enterprise, NEW u \in User, CreateEnterprise(e, u)
     PROVE  TypeInv'
  BY <1>1 DEF CreateEnterprise
<1>2. ASSUME NEW e \in Enterprise, DeleteEnterprise(e)
     PROVE  TypeInv'
  BY <1>2 DEF DeleteEnterprise
<1>3. ASSUME NEW r \in Request, NEW u \in User, NEW e \in Enterprise, BeginInvite(r, u, e)
     PROVE  TypeInv'
  BY <1>3 DEF BeginInvite, BeginGated, AfterGate
<1>4. ASSUME NEW r \in Request, NEW u \in User, NEW e \in Enterprise, BeginUninvite(r, u, e)
     PROVE  TypeInv'
  BY <1>4 DEF BeginUninvite, BeginGated, AfterGate
<1>5. ASSUME NEW r \in Request, NEW u \in User, NEW op \in {"accept", "reject"},
            NEW i \in Invitation, BeginDecision(r, u, op, i)
     PROVE  TypeInv'
  <2>1. rows[i] \in Row /\ issued[i] = <<rows[i].ent, u>>
    BY <1>5 DEF BeginDecision
  <2>2. req'[r] \in Handler /\ req'[r].pc = op /\ req'[r].op = op
        /\ req'[r].ent = rows[i].ent /\ req'[r].user = u /\ req'[r].inv = i
    BY <2>1, <1>5 DEF BeginDecision, Row
  <2>3. req' \in [Request -> Handler]
    BY <2>2, <1>5 DEF BeginDecision
  <2>4. Carries(r)'
    <3>1. issued' = issued /\ rows[i].ent \in Enterprise /\ issued[i] # NoInvitation
      BY <2>1, NoneAssumption, <1>5 DEF BeginDecision, Row, Pair
    <3> QED
      BY <3>1, <2>1, <2>2
  <2>5. ASSUME NEW q \in Request \ {r} PROVE Carries(q)'
    BY <1>5, CarriesStays DEF BeginDecision
  <2> QED
    BY <2>3, <2>4, <2>5, <1>5 DEF BeginDecision
<1>6. ASSUME NEW r \in Request, GateRead(r)
     PROVE  TypeInv'
  <2>1. TypeOK'
    BY <1>6, Goes, Idles DEF GateRead
  <2>2. Carries(r)'
    <3>1. CASE employees[<<req[r].ent, req[r].user>>] > 0
      BY <3>1, <1>6, Goes DEF GateRead
    <3>2. CASE ~(employees[<<req[r].ent, req[r].user>>] > 0)
      BY <3>2, <1>6 DEF GateRead, End
    <3> QED
      BY <3>1, <3>2
  <2>3. ASSUME NEW q \in Request \ {r} PROVE Carries(q)'
    BY <1>6, CarriesStays DEF GateRead, Goto, End
  <2> QED
    BY <2>1, <2>2, <2>3, <1>6 DEF GateRead
<1>7. ASSUME NEW r \in Request, GateFill(r)
     PROVE  TypeInv'
  <2>1. AfterGate(req[r].op) \in Pc /\ <<req[r].ent, req[r].user>> \in Pair
    BY <1>7 DEF GateFill, AfterGate, Pair
  <2>2. TypeOK'
    BY <2>1, <1>7, Goes DEF GateFill
  <2>3. Carries(r)'
    BY <2>1, <1>7, Goes DEF GateFill, AfterGate
  <2>4. ASSUME NEW q \in Request \ {r} PROVE Carries(q)'
    BY <1>7, CarriesStays DEF GateFill, Goto
  <2> QED
    BY <2>2, <2>3, <2>4, <1>7 DEF GateFill
<1>8. ASSUME NEW r \in Request, InviteFind(r)
     PROVE  TypeInv'
  <2>1. End(r) \/ (Goto(r, "inviteCreate") /\ req[r].pc = "inviteFind")
    BY <1>8 DEF InviteFind
  <2>2. UNCHANGED <<owner, employees, rows, memberCache, issued, inviter, accepted, mails, raced>>
    BY <1>8 DEF InviteFind
  <2>3. CASE End(r)
    BY <2>2, <2>3 DEF End
  <2>4. CASE Goto(r, "inviteCreate") /\ req[r].pc = "inviteFind"
    BY <2>2, <2>4 DEF Goto
  <2> QED
    BY <2>1, <2>3, <2>4
<1>9. ASSUME NEW r \in Request, InviteCreate(r)
     PROVE  TypeInv'
  <2>1. PICK i \in Invitation :
          /\ issued[i] = NoInvitation
          /\ rows' = [rows EXCEPT ![i] = [ent |-> req[r].ent, email |-> req[r].to,
                                          status |-> "pending"]]
          /\ issued' = [issued EXCEPT ![i] = <<req[r].ent, req[r].to>>]
          /\ inviter' = [inviter EXCEPT ![i] = req[r].user]
          /\ req' = [req EXCEPT ![r] = [@ EXCEPT !.pc = "mail", !.inv = i]]
    BY <1>9 DEF InviteCreate
  <2>2. /\ req[r].ent \in Enterprise /\ req[r].to \in User /\ req[r].user \in User
        /\ req[r].pc = "inviteCreate" /\ req[r].op = "invite"
    BY <1>9 DEF InviteCreate
  <2>3. /\ <<req[r].ent, req[r].to>> \in Pair
        /\ <<req[r].ent, req[r].to>> # NoInvitation
        /\ [ent |-> req[r].ent, email |-> req[r].to, status |-> "pending"] \in Row
    BY <2>2, NoneAssumption DEF Pair, Row, Status
  <2>4. /\ req'[r] \in Handler /\ req'[r].pc = "mail" /\ req'[r].inv = i
        /\ req'[r].op = req[r].op /\ req'[r].user = req[r].user
        /\ req'[r].ent = req[r].ent /\ req'[r].to = req[r].to
    <3>1. req[r] \in Handler /\ req'[r] = [req[r] EXCEPT !.pc = "mail", !.inv = i]
      <4> HIDE DEF Carries, Addressed, Handler
      <4> QED
        BY <2>1
    <3> HIDE DEF TypeInv, TypeOK
    <3> QED
      BY <3>1
  <2>5. req' \in [Request -> Handler]
    BY <2>1, <2>4
  <2>6. TypeOK'
    BY <2>1, <2>2, <2>3, <2>5, <1>9 DEF InviteCreate
  <2>7. Addressed'
    BY <2>1, <2>3
  <2>8. Carries(r)'
    BY <2>1, <2>2, <2>3, <2>4
  <2>9. ASSUME NEW q \in Request \ {r} PROVE Carries(q)'
    BY <2>1, CarriesStays
  <2> QED
    BY <2>6, <2>7, <2>8, <2>9
<1>10. ASSUME NEW r \in Request, Mail(r)
     PROVE  TypeInv'
  BY <1>10 DEF Mail, End
<1>11. ASSUME NEW r \in Request, UninviteFind(r)
     PROVE  TypeInv'
  BY <1>11 DEF UninviteFind, findById, Goto, End
<1>12. ASSUME NEW r \in Request, Uninvite(r)
     PROVE  TypeInv'
  <2>1. TypeOK' /\ Addressed'
    BY <1>12, Idles DEF Uninvite
  <2>2. ASSUME NEW q \in Request PROVE Carries(q)'
    <3>1. req'[q] = req[q] \/ req'[q] = Idle
      BY <1>12 DEF Uninvite, End
    <3>2. req[q].pc \in Locking => rows'[req[q].inv] # NoInvitation
      BY <1>12 DEF Uninvite, Locked
    <3> QED
      BY <3>1, <3>2, <1>12, CarriesStays DEF Uninvite
  <2> QED
    BY <2>1, <2>2
<1>13. ASSUME NEW r \in Request, AcceptUpdate(r)
     PROVE  TypeInv'
  BY <1>13 DEF AcceptUpdate, Goto, End
<1>14. ASSUME NEW r \in Request, AcceptFind(r)
     PROVE  TypeInv'
  <2>1. Races(r) \subseteq Pair
    BY <1>14 DEF AcceptFind, Races, Pair
  <2>2. req' \in [Request -> Handler]
    BY <1>14 DEF AcceptFind, Goto
  <2>3. TypeOK' /\ Addressed'
    BY <1>14, <2>1, <2>2 DEF AcceptFind
  <2>4. ASSUME NEW q \in Request PROVE Carries(q)'
    BY <1>14 DEF AcceptFind, Goto
  <2> QED
    BY <2>3, <2>4
<1>15. ASSUME NEW r \in Request, AcceptCommit(r)
     PROVE  TypeInv'
  <2>1. req[r].inv \in Invitation /\ <<req[r].ent, req[r].user>> \in Pair
    BY <1>15 DEF AcceptCommit, Pair
  <2>2. TypeOK'
    <3>1. rows' \in [Invitation -> Row \cup {NoInvitation}]
      BY <2>1, <1>15 DEF AcceptCommit, Row, Status
    <3>2. employees' \in [Pair -> Nat]
      BY <2>1, <1>15 DEF AcceptCommit
    <3> QED
      BY <2>1, <3>1, <3>2, <1>15, Idles DEF AcceptCommit
  <2>3. Addressed'
    BY <2>1, <1>15 DEF AcceptCommit, Row
  <2>4. ASSUME NEW q \in Request PROVE Carries(q)'
    <3>1. \A i \in Invitation : rows[i] # NoInvitation => rows'[i] # NoInvitation
      BY <2>1, <1>15, NoneAssumption DEF AcceptCommit, Row, Status
    <3>2. req'[q] = req[q] \/ req'[q] = Idle
      BY <1>15 DEF AcceptCommit, End
    <3> QED
      BY <3>1, <3>2, <1>15, CarriesStays DEF AcceptCommit
  <2> QED
    BY <2>2, <2>3, <2>4
<1>16. ASSUME NEW r \in Request, Reject(r)
     PROVE  TypeInv'
  <2>1. rows' \in [Invitation -> Row \cup {NoInvitation}]
    BY <1>16 DEF Reject, Row, Status
  <2>2. Addressed'
    BY <1>16 DEF Reject, Row
  <2>3. ASSUME NEW q \in Request PROVE Carries(q)'
    <3>1. \A i \in Invitation : rows[i] # NoInvitation => rows'[i] # NoInvitation
      BY <1>16, NoneAssumption DEF Reject, Row, Status
    <3>2. req'[q] = req[q] \/ req'[q] = Idle
      BY <1>16 DEF Reject, End
    <3> QED
      BY <3>1, <3>2, <1>16, CarriesStays DEF Reject
  <2> QED
    BY <2>1, <2>2, <2>3, <1>16, Idles DEF Reject
<1>17. ASSUME NEW n \in Node, NEW p \in Pair, Expire(n, p)
     PROVE  TypeInv'
  BY <1>17 DEF Expire
<1>18. ASSUME NEW n \in Node, Crash(n)
     PROVE  TypeInv'
  BY <1>18 DEF Crash
<1>19. CASE UNCHANGED vars
  BY <1>19 DEF vars
<1> HIDE DEF TypeInv
<1> QED
  BY <1>1, <1>2, <1>3, <1>4, <1>5, <1>6, <1>7, <1>8, <1>9, <1>10,
     <1>11, <1>12, <1>13, <1>14, <1>15, <1>16, <1>17, <1>18, <1>19 DEF Next, Step
-----------------------------------------------------------------------------
(* What is never taken back: employees, owners and what was sent. *)
Grows ==
  /\ \A p \in Pair : employees[p] > 0 => employees'[p] > 0
  /\ \A e \in Enterprise : owner[e] # NoUser => owner'[e] = owner[e]
  /\ \A i \in Invitation : issued[i] # NoInvitation =>
       issued'[i] = issued[i] /\ inviter'[i] = inviter[i]

(* No enterprise is ever deleted: its owner is an employee.                *)
LEMMA DeleteThrows ==
  ASSUME TypeInv, Safety, NEW e \in Enterprise, DeleteEnterprise(e)
  PROVE  UNCHANGED vars
<1>1. owner[e] \in User /\ employees[<<e, owner[e]>>] > 0
  BY DEF TypeInv, TypeOK, Safety, Books, Staff, DeleteEnterprise
<1>2. owner' = owner
  BY <1>1 DEF TypeInv, TypeOK, DeleteEnterprise
<1> QED
  BY <1>2 DEF DeleteEnterprise, vars, history

(* No action takes back an employee, an owner or what was sent.            *)
LEMMA GrowsNext ==
  ASSUME TypeInv, Safety, [Next]_vars
  PROVE  Grows
<1> USE DEF TypeInv, TypeOK, history
<1>1. ASSUME NEW e \in Enterprise, NEW u \in User, CreateEnterprise(e, u)
      PROVE  Grows
  BY <1>1 DEF CreateEnterprise, Grows
<1>2. ASSUME NEW e \in Enterprise, DeleteEnterprise(e)
      PROVE  Grows
  BY <1>2, DeleteThrows DEF vars, Grows
<1>3. ASSUME NEW r \in Request, InviteCreate(r)
      PROVE  Grows
  BY <1>3 DEF InviteCreate, Grows
<1>4. ASSUME NEW r \in Request, AcceptCommit(r)
      PROVE  Grows
  <2>1. <<req[r].ent, req[r].user>> \in Pair
    BY <1>4 DEF AcceptCommit, Carries, Pair
  <2> QED
    BY <2>1, <1>4 DEF AcceptCommit, Grows
<1>5. CASE UNCHANGED <<owner, employees, issued, inviter>>
  BY <1>5 DEF Grows
<1>6. ASSUME NEW r \in Request, Step(r), ~InviteCreate(r), ~AcceptCommit(r)
      PROVE  UNCHANGED <<owner, employees, issued, inviter>>
  BY <1>6 DEF Step, GateRead, GateFill, InviteFind, Mail, UninviteFind, Uninvite,
              AcceptUpdate, AcceptFind, Reject
<1>7. ASSUME NEW r \in Request, NEW u \in User,
             \/ \E e \in Enterprise : BeginInvite(r, u, e) \/ BeginUninvite(r, u, e)
             \/ \E op \in {"accept", "reject"}, i \in Invitation : BeginDecision(r, u, op, i)
      PROVE  UNCHANGED <<owner, employees, issued, inviter>>
  BY <1>7 DEF BeginInvite, BeginUninvite, BeginGated, BeginDecision
<1>8. ASSUME NEW n \in Node, Crash(n) \/ \E p \in Pair : Expire(n, p)
      PROVE  UNCHANGED <<owner, employees, issued, inviter>>
  BY <1>8 DEF Crash, Expire
<1>9. CASE UNCHANGED vars
  BY <1>9, <1>5 DEF vars
<1> QED
  BY <1>1, <1>2, <1>3, <1>4, <1>5, <1>6, <1>7, <1>8, <1>9 DEF Next

(* What a handler relies on stays true while others run. *)
LEMMA HoldsStays ==
  ASSUME TypeInv, Safety, Grows, NEW q \in Request,
         req'[q] = req[q] \/ req'[q] = Idle,
         req[q].pc = "mail" => mails'[req[q].inv] = mails[req[q].inv],
         req[q].pc = "commitNew" => req[q].inv \notin accepted'
  PROVE  Holds(q)'
<1>1. CASE req'[q] = Idle
  BY <1>1 DEF Holds, Idle, Gated
<1>2. CASE req'[q] = req[q]
  <2>1. /\ req[q].pc # "idle" => /\ req[q].ent \in Enterprise
                                 /\ <<req[q].ent, req[q].user>> \in Pair
        /\ Holds(q)
    BY DEF TypeInv, Carries, Safety, Pair
  <2> QED
    BY <2>1, <1>2 DEF Holds, Grows, Gated
<1> QED
  BY <1>1, <1>2

(* A handler that is alone with its invitation does not disturb the rest. *)
LEMMA ExclusiveStays ==
  ASSUME Exclusive, NEW r \in Request,
         \A q \in Request \ {r} : req'[q] = req[q] \/ req'[q] = Idle,
         \A q \in Request \ {r} : req[q].inv = req'[r].inv =>
           /\ ~(req'[r].pc = "mail" /\ req[q].pc = "mail")
           /\ ~(req'[r].pc \in Locking /\ req[q].pc \in Locking)
  PROVE  Exclusive'
BY DEF Exclusive, Locking, Idle

(* The books stay while employees and what was sent do not change.         *)
LEMMA BooksStay ==
  ASSUME TypeInv, Books, TypeInv',
         UNCHANGED <<owner, employees, issued, inviter, accepted, mails>>,
         \A n \in Node : memberCache'[n] \subseteq memberCache[n],
         \A i \in Invitation :
           HasRow(i)' /\ rows'[i].status = "accepted" => rows'[i] = rows[i]
  PROVE  Books'
<1>1. Records' /\ Staff' /\ MailedAtMostOnce'
  BY DEF Books, Records, Sent, Staff, MailedAtMostOnce
<1>2. EmployeesEarned'
  BY DEF Books, EmployeesEarned
<1>3. AcceptedIsEmployed'
  BY DEF Books, AcceptedIsEmployed, HasRow
<1> QED
  BY <1>1, <1>2, <1>3 DEF Books

(* A step of one handler leaves the others alone.                          *)
LEMMA OthersStay ==
  ASSUME TypeInv, NEW r \in Request, (\E pc \in Pc : Goto(r, pc)) \/ End(r),
         NEW q \in Request \ {r}
  PROVE  req'[q] = req[q]
BY DEF TypeInv, TypeOK, Goto, End

(* Safety holds of an empty database and idle handlers.                    *)
LEMMA SafetyInit == Init => Safety
<1> SUFFICES ASSUME Init PROVE Safety
  OBVIOUS
<1>1. \A r \in Request : Holds(r)
  BY DEF Init, Holds, Idle, Gated
<1>2. Exclusive /\ Records /\ Staff
  BY DEF Init, Exclusive, Locking, Idle, Records, Sent, Staff, Pair
<1>3. EmployeesEarned
  <2>1. ASSUME NEW e \in Enterprise, NEW u \in User
        PROVE  /\ {i \in accepted : issued[i] = <<e, u>>} = {}
               /\ employees[<<e, u>>] = 0 /\ owner[e] = NoUser
    BY DEF Init, Pair
  <2>2. Cardinality({}) = 0
    BY FS_EmptySet
  <2> SUFFICES ASSUME NEW e \in Enterprise, NEW u \in User
               PROVE  employees[<<e, u>>] <=
                        (IF owner[e] = u THEN 1 ELSE 0)
                        + Cardinality({i \in accepted : issued[i] = <<e, u>>})
    BY DEF EmployeesEarned
  <2>3. owner[e] # u
    BY <2>1, NoneAssumption
  <2> QED
    BY <2>1, <2>2, <2>3
<1>4. AcceptedIsEmployed /\ MailedAtMostOnce
  BY DEF Init, AcceptedIsEmployed, MailedAtMostOnce, HasRow
<1> QED
  BY <1>1, <1>2, <1>3, <1>4 DEF Safety, Books

(* Every action keeps Safety: it says what becomes of its own handler, of  *)
(* the other handlers, of locks and mailers, and of the books.             *)
LEMMA SafetyNext ==
  ASSUME TypeInv, Safety, [Next]_vars
  PROVE  Safety'
<1>0. Grows /\ TypeInv' /\ Books
  BY GrowsNext, TypeInvNext DEF Safety
<1> DEFINE Goal == (\A r \in Request : Holds(r)') /\ Exclusive' /\ Books'
<1> SUFFICES Goal
  BY DEF Safety, Books
<1>1. ASSUME NEW e \in Enterprise, NEW u \in User, CreateEnterprise(e, u)
      PROVE  Goal
  <2> USE DEF CreateEnterprise, history
  <2>1. \A r \in Request : Holds(r)'
    BY <1>0, <1>1, HoldsStays DEF Safety, Holds
  <2>2. Exclusive'
    BY <1>1 DEF Safety, Exclusive
  <2>3. Records' /\ MailedAtMostOnce'
    BY <1>0, <1>1 DEF Books, Records, Sent, Grows, MailedAtMostOnce, TypeInv, TypeOK, Pair
  <2>4. Staff'
    BY <1>0, <1>1, NoneAssumption DEF Books, Staff, TypeInv, TypeOK, Pair
  <2>5. AcceptedIsEmployed'
    BY <1>0, <1>1 DEF Books, AcceptedIsEmployed, HasRow, TypeInv, TypeOK, Records, Sent
  <2>6. EmployeesEarned'
    <3> SUFFICES ASSUME NEW f \in Enterprise, NEW v \in User
                 PROVE  employees'[<<f, v>>] <=
                          (IF owner'[f] = v THEN 1 ELSE 0)
                          + Cardinality({i \in accepted : issued[i] = <<f, v>>})
      BY <1>1 DEF EmployeesEarned
    <3>1. Cardinality({i \in accepted : issued[i] = <<f, v>>}) \in Nat
      BY InvitationAssumption, FS_Subset, FS_CardinalityType DEF TypeInv, TypeOK
    <3>2. CASE f = e /\ v = u
      BY <3>1, <3>2, <1>1 DEF TypeInv, TypeOK, Pair
    <3>3. CASE f = e /\ v # u
      <4>1. owner[f] # v /\ employees'[<<f, v>>] = employees[<<f, v>>] /\ owner'[f] # v
        BY <3>3, <1>1, NoneAssumption DEF TypeInv, TypeOK, Pair
      <4> QED
        BY <4>1, <1>0 DEF Books, EmployeesEarned
    <3>4. CASE f # e
      <4>1. employees'[<<f, v>>] = employees[<<f, v>>] /\ owner'[f] = owner[f]
        BY <3>4, <1>1 DEF TypeInv, TypeOK, Pair
      <4> QED
        BY <4>1, <1>0 DEF Books, EmployeesEarned
    <3> QED
      BY <3>2, <3>3, <3>4
  <2> QED
    BY <2>1, <2>2, <2>3, <2>4, <2>5, <2>6 DEF Books
<1>2. ASSUME NEW e \in Enterprise, DeleteEnterprise(e)
      PROVE  UNCHANGED vars
  BY <1>2, DeleteThrows
<1>3. ASSUME NEW r \in Request, NEW u \in User, NEW e \in Enterprise, NEW op,
             NEW to, NEW i, op \in {"invite", "uninvite"},
             BeginGated(r, u, e, op, to, i)
      PROVE  Goal
  <2> USE <1>3 DEF BeginGated, history
  <2>1. Holds(r)'
    <3>1. /\ req'[r].pc = IF owner[e] = u \/ <<e, u>> \in memberCache[NodeOf[r]]
                          THEN AfterGate(op) ELSE "gateRead"
          /\ req'[r].ent = e /\ req'[r].user = u
      BY DEF TypeInv, TypeOK
    <3>2. CASE owner[e] = u \/ <<e, u>> \in memberCache[NodeOf[r]]
      <4>1. employees[<<e, u>>] > 0
        BY <3>2, NodeOfAssumption DEF Safety, Books, Staff
      <4> QED
        BY <4>1, <3>1, <3>2 DEF Holds, AfterGate
    <3>3. CASE ~(owner[e] = u \/ <<e, u>> \in memberCache[NodeOf[r]])
      BY <3>1, <3>3 DEF Holds, Gated
    <3> QED
      BY <3>2, <3>3
  <2>2. ASSUME NEW q \in Request \ {r} PROVE Holds(q)'
    BY <1>0, HoldsStays DEF Safety, Holds
  <2>3. req'[r].pc \notin Locking \cup {"mail"}
    BY DEF TypeInv, TypeOK, Locking, AfterGate
  <2>4. Exclusive'
    BY <2>3, ExclusiveStays DEF Safety
  <2>5. Books'
    BY <1>0, BooksStay
  <2> QED
    BY <2>1, <2>2, <2>4, <2>5
<1>4. ASSUME NEW r \in Request, NEW u \in User, NEW op \in {"accept", "reject"},
             NEW i \in Invitation, BeginDecision(r, u, op, i)
      PROVE  Goal
  <2> USE <1>4 DEF BeginDecision, history
  <2>1. req'[r].pc = op /\ req'[r].ent = rows[i].ent /\ req'[r].inv = i
    BY DEF TypeInv, TypeOK
  <2>2. owner[rows[i].ent] # NoUser
    <3>1. rows[i] \in Row /\ issued[i] = <<rows[i].ent, rows[i].email>>
      BY DEF TypeInv, TypeOK, Addressed, HasRow
    <3>2. issued[i] # NoInvitation /\ issued[i][1] = rows[i].ent
      BY <3>1, NoneAssumption DEF Row, Pair
    <3> QED
      BY <3>2 DEF Safety, Books, Records, Sent
  <2>3. Holds(r)'
    BY <2>1, <2>2 DEF Holds, Gated
  <2>4. ASSUME NEW q \in Request \ {r} PROVE Holds(q)'
    BY <1>0, HoldsStays DEF Safety, Holds
  <2>5. Exclusive'
    BY <2>1, ExclusiveStays DEF Safety, Locking
  <2>6. Books'
    BY <1>0, BooksStay
  <2> QED
    BY <2>3, <2>4, <2>5, <2>6
<1>5. ASSUME NEW r \in Request, GateRead(r)
      PROVE  Goal
  <2> USE <1>5 DEF GateRead, history
  <2>1. Holds(r)' /\ req'[r].pc \in {"gateFill", "idle"}
    <3>1. CASE employees[<<req[r].ent, req[r].user>>] > 0
      BY <3>1, Goes DEF Holds, Gated, Safety, Pc
    <3>2. CASE ~(employees[<<req[r].ent, req[r].user>>] > 0)
      BY <3>2 DEF Holds, End, Idle, Gated, TypeInv, TypeOK
    <3> QED
      BY <3>1, <3>2
  <2>2. ASSUME NEW q \in Request \ {r} PROVE Holds(q)' /\ req'[q] = req[q]
    <3>1. req'[q] = req[q]
      BY OthersStay DEF Pc
    <3> QED
      BY <3>1, <1>0, HoldsStays DEF Safety, Holds
  <2>3. Exclusive'
    BY <2>1, <2>2, ExclusiveStays DEF Safety, Locking
  <2>4. Books'
    BY <1>0, BooksStay
  <2> QED
    BY <2>1, <2>2, <2>3, <2>4
<1>6. ASSUME NEW r \in Request, GateFill(r)
      PROVE  Goal
  <2> USE <1>6 DEF GateFill, history
  <2>1. /\ employees[<<req[r].ent, req[r].user>>] > 0
        /\ owner[req[r].ent] # NoUser
        /\ req[r].op \in {"invite", "uninvite"}
    BY DEF Safety, Holds, TypeInv, Carries
  <2>2. Holds(r)' /\ req'[r].pc \in {"inviteFind", "uninviteFind"}
    BY <2>1, Goes DEF Holds, Gated, AfterGate, Pc
  <2>3. ASSUME NEW q \in Request \ {r} PROVE Holds(q)' /\ req'[q] = req[q]
    BY <1>0, HoldsStays DEF Safety, Holds, Goto
  <2>4. Exclusive'
    BY <2>2, <2>3, ExclusiveStays DEF Safety, Locking
  <2>5. Staff'
    BY <1>0, <2>1, NodeOfAssumption DEF Books, Staff, TypeInv, TypeOK
  <2>6. (Records /\ EmployeesEarned /\ AcceptedIsEmployed /\ MailedAtMostOnce)'
    <3>1. Records' /\ AcceptedIsEmployed' /\ MailedAtMostOnce'
      BY <1>0 DEF Books, Records, Sent, AcceptedIsEmployed, HasRow, MailedAtMostOnce
    <3>2. EmployeesEarned'
      BY <1>0 DEF Books, EmployeesEarned
    <3> QED
      BY <3>1, <3>2
  <2> QED
    BY <2>2, <2>3, <2>4, <2>5, <2>6 DEF Books
<1>7. ASSUME NEW r \in Request, InviteFind(r)
      PROVE  Goal
  <2> USE <1>7 DEF InviteFind, history
  <2>1. Goto(r, "inviteCreate") \/ End(r)
    OBVIOUS
  <2>2. Holds(r)' /\ req'[r].pc \in {"inviteCreate", "idle"}
    <3>1. CASE Goto(r, "inviteCreate")
      BY <3>1, Goes DEF Holds, Gated, Safety, Pc
    <3>2. CASE End(r)
      BY <3>2 DEF Holds, End, Idle, Gated, TypeInv, TypeOK
    <3> QED
      BY <2>1, <3>1, <3>2
  <2>3. ASSUME NEW q \in Request \ {r} PROVE Holds(q)' /\ req'[q] = req[q]
    <3>1. req'[q] = req[q]
      BY <2>1, OthersStay DEF Pc
    <3> QED
      BY <3>1, <1>0, HoldsStays DEF Safety, Holds
  <2>4. Exclusive'
    BY <2>2, <2>3, ExclusiveStays DEF Safety, Locking
  <2>5. Books'
    BY <1>0, BooksStay
  <2> QED
    BY <2>2, <2>3, <2>4, <2>5
<1>8. ASSUME NEW r \in Request, InviteCreate(r)
      PROVE  Goal
  <2>1. PICK i \in Invitation :
          /\ issued[i] = NoInvitation
          /\ rows' = [rows EXCEPT ![i] = [ent |-> req[r].ent, email |-> req[r].to,
                                          status |-> "pending"]]
          /\ issued' = [issued EXCEPT ![i] = <<req[r].ent, req[r].to>>]
          /\ inviter' = [inviter EXCEPT ![i] = req[r].user]
          /\ req' = [req EXCEPT ![r] = [@ EXCEPT !.pc = "mail", !.inv = i]]
    BY <1>8 DEF InviteCreate
  <2>2. UNCHANGED <<owner, employees, memberCache, accepted, mails>>
    BY <1>8 DEF InviteCreate
  <2>3. /\ req[r].ent \in Enterprise /\ req[r].user \in User /\ owner[req[r].ent] # NoUser
        /\ employees[<<req[r].ent, req[r].user>>] > 0
    BY <1>8 DEF InviteCreate, TypeInv, Carries, Safety, Holds, Gated
  <2>4. mails[i] = 0 /\ i \notin accepted
    BY <2>1 DEF Safety, Books, Records, Sent
  <2>5. /\ req'[r].pc = "mail" /\ req'[r].inv = i
        /\ req'[r].ent = req[r].ent /\ req'[r].user = req[r].user
    BY <2>1 DEF TypeInv, TypeOK, Handler
  <2>6. Holds(r)'
    BY <2>2, <2>3, <2>4, <2>5 DEF Holds
  <2>7. ASSUME NEW q \in Request \ {r} PROVE Holds(q)' /\ req'[q] = req[q]
    BY <2>1, <2>2, <1>0, HoldsStays DEF Safety, Holds
  <2>8. ASSUME NEW q \in Request \ {r} PROVE ~(req[q].pc = "mail" /\ req[q].inv = i)
    BY <2>1 DEF TypeInv, Carries, Sent
  <2>9. Exclusive'
    BY <2>5, <2>7, <2>8, ExclusiveStays DEF Safety, Locking
  <2>10. Records' /\ Staff' /\ MailedAtMostOnce'
    BY <1>0, <2>1, <2>2, <2>3, <2>4
       DEF Books, Records, Sent, Staff, MailedAtMostOnce, TypeInv, TypeOK
  <2>11. AcceptedIsEmployed'
    BY <1>0, <2>1, <2>2, <2>4 DEF Books, AcceptedIsEmployed, HasRow, TypeInv, TypeOK
  <2>12. EmployeesEarned'
    <3> SUFFICES ASSUME NEW e \in Enterprise, NEW u \in User
                 PROVE  employees[<<e, u>>] <=
                          (IF owner[e] = u THEN 1 ELSE 0)
                          + Cardinality({j \in accepted : issued'[j] = <<e, u>>})
      BY <2>2 DEF EmployeesEarned
    <3>1. {j \in accepted : issued'[j] = <<e, u>>} = {j \in accepted : issued[j] = <<e, u>>}
      BY <2>1, <2>4 DEF TypeInv, TypeOK
    <3> QED
      BY <3>1, <1>0 DEF Books, EmployeesEarned
  <2> QED
    BY <2>6, <2>7, <2>9, <2>10, <2>11, <2>12 DEF Books
<1>9. ASSUME NEW r \in Request, Mail(r)
      PROVE  Goal
  <2>1. /\ req[r].inv \in Invitation /\ mails[req[r].inv] = 0 /\ Sent(req[r].inv)
    BY <1>9 DEF Mail, TypeInv, Carries, Sent, Safety, Holds
  <2>2. PICK delivered \in {0, 1} : mails' = [mails EXCEPT ![req[r].inv] = @ + delivered]
    BY <1>9 DEF Mail
  <2>3. UNCHANGED <<owner, employees, rows, memberCache, issued, inviter, accepted>>
        /\ req' = [req EXCEPT ![r] = Idle]
    BY <1>9 DEF Mail, End
  <2>4. Holds(r)' /\ req'[r].pc = "idle"
    BY <2>3 DEF Holds, Idle, Gated, TypeInv, TypeOK
  <2>5. ASSUME NEW q \in Request \ {r} PROVE Holds(q)' /\ req'[q] = req[q]
    <3>1. req[q].pc = "mail" => req[q].inv # req[r].inv /\ req[q].inv \in Invitation
      BY <1>9 DEF Mail, Safety, Exclusive, TypeInv, Carries, Sent
    <3> QED
      BY <3>1, <2>2, <2>3, <1>0, HoldsStays DEF Safety, Holds, TypeInv, TypeOK
  <2>6. Exclusive'
    BY <2>4, <2>5, ExclusiveStays DEF Safety, Locking
  <2>7. MailedAtMostOnce'
    BY <1>0, <2>1, <2>2 DEF Books, MailedAtMostOnce, TypeInv, TypeOK
  <2>8. (Records /\ Staff /\ EmployeesEarned /\ AcceptedIsEmployed)'
    <3>1. Records'
      BY <1>0, <2>1, <2>2, <2>3 DEF Books, Records, Sent, TypeInv, TypeOK
    <3>2. Staff' /\ AcceptedIsEmployed'
      BY <1>0, <2>3 DEF Books, Staff, AcceptedIsEmployed, HasRow
    <3>3. EmployeesEarned'
      BY <1>0, <2>3 DEF Books, EmployeesEarned
    <3> QED
      BY <3>1, <3>2, <3>3
  <2> QED
    BY <2>4, <2>5, <2>6, <2>7, <2>8 DEF Books
<1>10. ASSUME NEW r \in Request, UninviteFind(r)
       PROVE  Goal
  <2> USE <1>10 DEF UninviteFind, history
  <2>1. Goto(r, "uninvite") \/ End(r)
    OBVIOUS
  <2>2. Holds(r)' /\ req'[r].pc \in {"uninvite", "idle"}
    <3>1. CASE Goto(r, "uninvite")
      BY <3>1, Goes DEF Holds, Gated, Safety, Pc
    <3>2. CASE End(r)
      BY <3>2 DEF Holds, End, Idle, Gated, TypeInv, TypeOK
    <3> QED
      BY <2>1, <3>1, <3>2
  <2>3. ASSUME NEW q \in Request \ {r} PROVE Holds(q)' /\ req'[q] = req[q]
    <3>1. req'[q] = req[q]
      BY <2>1, OthersStay DEF Pc
    <3> QED
      BY <3>1, <1>0, HoldsStays DEF Safety, Holds
  <2>4. Exclusive'
    BY <2>2, <2>3, ExclusiveStays DEF Safety, Locking
  <2>5. Books'
    BY <1>0, BooksStay
  <2> QED
    BY <2>2, <2>3, <2>4, <2>5
<1>11. ASSUME NEW r \in Request, Uninvite(r) \/ Reject(r)
       PROVE  Goal
  <2>1. /\ req' = [req EXCEPT ![r] = Idle]
        /\ UNCHANGED <<owner, employees, memberCache, issued, inviter, accepted, mails>>
    BY <1>11 DEF Uninvite, Reject, End, history
  <2>2. ASSUME NEW i \in Invitation, HasRow(i)', rows'[i].status = "accepted"
        PROVE  rows'[i] = rows[i]
    <3>1. req[r].inv \in Invitation
      BY <1>11 DEF Uninvite, Reject, TypeInv, Carries, Sent, Deciding
    <3>2. CASE Uninvite(r)
      BY <2>2, <3>1, <3>2 DEF Uninvite, HasRow, TypeInv, TypeOK
    <3>3. CASE Reject(r)
      BY <2>2, <3>1, <3>3 DEF Reject, HasRow, TypeInv, TypeOK, Row
    <3> QED
      BY <1>11, <3>2, <3>3
  <2>3. ASSUME NEW q \in Request PROVE Holds(q)' /\ (req'[q] = req[q] \/ req'[q] = Idle)
    BY <2>1, <1>0, HoldsStays DEF Safety, Holds, TypeInv, TypeOK
  <2>4. Exclusive'
    BY <2>1, <2>3, ExclusiveStays DEF Safety, Locking, Idle, TypeInv, TypeOK
  <2>5. Books'
    BY <2>1, <2>2, <1>0, BooksStay
  <2> QED
    BY <2>3, <2>4, <2>5
<1>12. ASSUME NEW r \in Request, AcceptUpdate(r)
       PROVE  Goal
  <2> USE <1>12 DEF AcceptUpdate, history
  <2>1. Goto(r, "acceptFind") \/ End(r)
    OBVIOUS
  <2>2. Holds(r)' /\ req'[r].pc \in {"acceptFind", "idle"}
        /\ (req'[r].pc = "acceptFind" => req'[r].inv = req[r].inv)
    <3>1. CASE Goto(r, "acceptFind")
      BY <3>1, Goes DEF Holds, Gated, Safety, Pc
    <3>2. CASE End(r)
      BY <3>2 DEF Holds, End, Idle, Gated, TypeInv, TypeOK
    <3> QED
      BY <2>1, <3>1, <3>2
  <2>3. ASSUME NEW q \in Request \ {r} PROVE Holds(q)' /\ req'[q] = req[q]
    <3>1. req'[q] = req[q]
      BY <2>1, OthersStay DEF Pc
    <3> QED
      BY <3>1, <1>0, HoldsStays DEF Safety, Holds
  <2>4. ASSUME NEW q \in Request \ {r} PROVE ~(req[q].pc \in Locking /\ req[q].inv = req[r].inv)
    BY DEF Locked, Locking
  <2>5. Exclusive'
    BY <2>2, <2>3, <2>4, ExclusiveStays DEF Safety, Locking
  <2>6. Books'
    BY <1>0, BooksStay
  <2> QED
    BY <2>2, <2>3, <2>5, <2>6
<1>13. ASSUME NEW r \in Request, AcceptFind(r)
       PROVE  Goal
  <2> USE <1>13 DEF AcceptFind, history
  <2>1. /\ issued[req[r].inv] = <<req[r].ent, req[r].user>>
        /\ owner[req[r].ent] # NoUser
    BY DEF TypeInv, Carries, Deciding, Safety, Holds
  <2>2. Holds(r)' /\ req'[r].pc \in {"commitOld", "commitNew"} /\ req'[r].inv = req[r].inv
    <3>1. CASE employees[<<req[r].ent, req[r].user>>] > 0
      BY <2>1, <3>1, Goes DEF Holds, Gated, Pc
    <3>2. CASE ~(employees[<<req[r].ent, req[r].user>>] > 0)
      <4>1. req[r].inv \notin accepted
        BY <2>1, <3>2 DEF Safety, Books, AcceptedIsEmployed
      <4> QED
        BY <4>1, <2>1, <3>2, Goes DEF Holds, Gated, Pc
    <3> QED
      BY <3>1, <3>2
  <2>3. ASSUME NEW q \in Request \ {r} PROVE Holds(q)' /\ req'[q] = req[q]
    BY <1>0, HoldsStays DEF Safety, Holds, Goto
  <2>4. ASSUME NEW q \in Request \ {r} PROVE ~(req[q].pc \in Locking /\ req[q].inv = req[r].inv)
    BY DEF Safety, Exclusive, Locking
  <2>5. Exclusive'
    BY <2>2, <2>3, <2>4, ExclusiveStays DEF Safety
  <2>6. Books'
    BY <1>0, BooksStay
  <2> QED
    BY <2>2, <2>3, <2>5, <2>6
<1>14. ASSUME NEW r \in Request, AcceptCommit(r)
       PROVE  Goal
  <2> DEFINE i == req[r].inv
             p == <<req[r].ent, req[r].user>>
  <2>1. /\ i \in Invitation /\ issued[i] = p /\ p \in Pair
        /\ issued[i] # NoInvitation /\ HasRow(i)
        /\ req[r].ent \in Enterprise /\ req[r].user \in User
        /\ owner[req[r].ent] # NoUser
    BY <1>14 DEF AcceptCommit, TypeInv, Carries, Sent, Deciding, Locking, Pair, Safety, Holds
  <2>2. /\ req' = [req EXCEPT ![r] = Idle]
        /\ accepted' = accepted \cup {i}
        /\ UNCHANGED <<owner, memberCache, issued, inviter, mails>>
        /\ rows' = [rows EXCEPT ![i].status = "accepted"]
    BY <1>14 DEF AcceptCommit, End
  <2>3. /\ employees' = [employees EXCEPT ![p] = employees'[p]]
        /\ employees'[p] > 0
        /\ \/ employees'[p] = employees[p]
           \/ employees'[p] = employees[p] + 1 /\ i \notin accepted
    <3>1. /\ req[r].pc = "commitNew" => i \notin accepted
          /\ req[r].pc = "commitOld" => employees[p] > 0
      BY DEF Safety, Holds
    <3>2. employees \in [Pair -> Nat]
      BY DEF TypeInv, TypeOK
    <3> QED
      BY <3>1, <3>2, <2>1, <1>14 DEF AcceptCommit
  <2>4. Holds(r)' /\ req'[r].pc = "idle"
    BY <2>2 DEF Holds, Idle, Gated, TypeInv, TypeOK
  <2>5. ASSUME NEW q \in Request \ {r} PROVE Holds(q)' /\ req'[q] = req[q]
    <3>1. req[q].pc = "commitNew" => req[q].inv \notin accepted'
      BY <1>14, <2>2 DEF AcceptCommit, Safety, Holds, Exclusive, Locking
    <3> QED
      BY <3>1, <2>2, <1>0, HoldsStays
  <2>6. Exclusive'
    BY <2>4, <2>5, ExclusiveStays DEF Safety, Locking
  <2>7. Records' /\ MailedAtMostOnce'
    BY <1>0, <2>1, <2>2 DEF Books, Records, Sent, MailedAtMostOnce
  <2>8. Staff'
    <3>1. \A e \in Enterprise, u \in User : employees'[<<e, u>>] > 0 => owner[e] # NoUser
      BY <1>0, <2>1, <2>3 DEF Books, Staff, TypeInv, TypeOK, Pair
    <3> QED
      BY <3>1, <1>0, <2>2 DEF Books, Staff, Grows, TypeInv, TypeOK, Pair
  <2>9. AcceptedIsEmployed'
    <3>1. \A q \in Pair : employees[q] > 0 => employees'[q] > 0
      BY <1>0 DEF Grows
    <3>2. ASSUME NEW j \in accepted' PROVE employees'[issued[j]] > 0
      <4>1. CASE j = i
        BY <4>1, <2>1, <2>3
      <4>2. CASE j # i
        <5>1. j \in accepted /\ employees[issued[j]] > 0
          BY <4>2, <2>2, <1>0 DEF Books, AcceptedIsEmployed
        <5>2. j \in Invitation /\ issued[j] # NoInvitation
          BY <5>1, <1>0 DEF Books, Records, Sent, TypeInv, TypeOK
        <5> QED
          BY <5>1, <5>2, <3>1 DEF TypeInv, TypeOK
      <4> QED
        BY <4>1, <4>2
    <3>3. ASSUME NEW j \in Invitation, rows'[j] # NoInvitation, rows'[j].status = "accepted"
          PROVE  employees'[issued[j]] > 0
      <4>1. CASE j = i
        BY <4>1, <2>1, <2>3
      <4>2. CASE j # i
        <5>1. rows'[j] = rows[j]
          BY <4>2, <2>2 DEF TypeInv, TypeOK
        <5>2. employees[issued[j]] > 0
          BY <5>1, <3>3, <1>0 DEF Books, AcceptedIsEmployed, HasRow
        <5>3. issued[j] \in Pair
          BY <5>1, <3>3 DEF TypeInv, TypeOK, Addressed, HasRow, Row, Pair
        <5> QED
          BY <5>2, <5>3, <3>1
      <4> QED
        BY <4>1, <4>2
    <3> QED
      BY <3>2, <3>3, <2>2 DEF AcceptedIsEmployed, HasRow
  <2>10. EmployeesEarned'
    <3> SUFFICES ASSUME NEW e \in Enterprise, NEW u \in User
                 PROVE  employees'[<<e, u>>] <=
                          (IF owner[e] = u THEN 1 ELSE 0)
                          + Cardinality({j \in accepted' : issued[j] = <<e, u>>})
      BY <2>2 DEF EmployeesEarned
    <3> DEFINE A == {j \in accepted : issued[j] = <<e, u>>}
    <3>1. IsFiniteSet(A) /\ Cardinality(A) \in Nat
      BY InvitationAssumption, FS_Subset, FS_CardinalityType DEF TypeInv, TypeOK
    <3>2. employees[<<e, u>>] <= (IF owner[e] = u THEN 1 ELSE 0) + Cardinality(A)
      BY <1>0 DEF Books, EmployeesEarned
    <3>3. employees[<<e, u>>] \in Nat
      BY DEF TypeInv, TypeOK, Pair
    <3>4. CASE <<e, u>> = p
      <4>1. {j \in accepted' : issued[j] = <<e, u>>} = A \cup {i}
        BY <3>4, <2>1, <2>2
      <4>2. Cardinality(A \cup {i}) = IF i \in A THEN Cardinality(A) ELSE Cardinality(A) + 1
        BY <3>1, FS_AddElement
      <4>3. i \in A <=> i \in accepted
        BY <3>4, <2>1
      <4> DEFINE own == IF owner[e] = u THEN 1 ELSE 0
      <4>4. own \in Nat /\ employees[<<e, u>>] <= own + Cardinality(A)
        BY <3>2
      <4> HIDE DEF own, A
      <4>5. CASE i \in accepted
        <5>1. employees'[<<e, u>>] = employees[<<e, u>>]
          BY <4>5, <3>4, <2>3
        <5> QED
          BY <4>4, <5>1, <4>1, <4>2, <4>3, <4>5 DEF own
      <4>6. CASE i \notin accepted
        <5>1. employees'[<<e, u>>] <= employees[<<e, u>>] + 1
          BY <3>3, <3>4, <2>3
        <5>2. Cardinality({j \in accepted' : issued[j] = <<e, u>>}) = Cardinality(A) + 1
          BY <4>1, <4>2, <4>3, <4>6
        <5>3. employees'[<<e, u>>] \in Nat
          BY <1>0, <3>4, <2>1 DEF TypeInv, TypeOK
        <5>4. employees'[<<e, u>>] <= own + (Cardinality(A) + 1)
          BY <3>1, <3>3, <4>4, <5>1, <5>3
        <5> QED
          BY <5>4, <5>2 DEF own
      <4> QED
        BY <4>5, <4>6
    <3>5. CASE <<e, u>> # p
      <4>1. {j \in accepted' : issued[j] = <<e, u>>} = A
        BY <3>5, <2>1, <2>2
      <4>2. employees'[<<e, u>>] = employees[<<e, u>>]
        BY <3>5, <2>3 DEF TypeInv, TypeOK, Pair
      <4> QED
        BY <4>1, <4>2, <3>2
    <3> QED
      BY <3>4, <3>5
  <2> QED
    BY <2>4, <2>5, <2>6, <2>7, <2>8, <2>9, <2>10 DEF Books
<1>15. ASSUME NEW n \in Node, NEW p \in Pair, Expire(n, p)
       PROVE  Goal
  <2> USE <1>15 DEF Expire, history
  <2>1. \A q \in Request : Holds(q)'
    BY <1>0, HoldsStays DEF Safety, Holds
  <2>2. Exclusive'
    BY DEF Safety, Exclusive
  <2>3. Books'
    BY <1>0, BooksStay DEF TypeInv, TypeOK
  <2> QED
    BY <2>1, <2>2, <2>3
<1>16. ASSUME NEW n \in Node, Crash(n)
       PROVE  Goal
  <2> USE <1>16 DEF Crash, history
  <2>1. \A q \in Request : Holds(q)'
    BY <1>0, HoldsStays DEF Safety, Holds
  <2>2. Exclusive'
    BY DEF Safety, Exclusive, Locking, Idle
  <2>3. Books'
    BY <1>0, BooksStay DEF TypeInv, TypeOK
  <2> QED
    BY <2>1, <2>2, <2>3
<1>17. CASE UNCHANGED vars
  <2> USE <1>17 DEF vars
  <2>1. \A q \in Request : Holds(q)'
    BY <1>0, HoldsStays DEF Safety, Holds
  <2>2. Exclusive'
    BY DEF Safety, Exclusive
  <2>3. Books'
    BY <1>0, BooksStay
  <2> QED
    BY <2>1, <2>2, <2>3
<1> HIDE DEF Goal
<1> QED
  <2>1. ASSUME NEW r \in Request, NEW u \in User, NEW e \in Enterprise, BeginInvite(r, u, e)
        PROVE  Goal
    BY <2>1, <1>3 DEF BeginInvite
  <2>2. ASSUME NEW r \in Request, NEW u \in User, NEW e \in Enterprise, BeginUninvite(r, u, e)
        PROVE  Goal
    BY <2>2, <1>3 DEF BeginUninvite
  <2> QED
    BY <1>1, <1>2, <1>4, <1>5, <1>6, <1>7, <1>8, <1>9, <1>10, <1>11, <1>12, <1>13,
       <1>14, <1>15, <1>16, <1>17, <2>1, <2>2 DEF Next, Step

-----------------------------------------------------------------------------
(* The inductive invariant of Membership.                                  *)
THEOREM InvariantHolds == Spec => [](TypeInv /\ Safety)
<1>1. Init => TypeInv /\ Safety
  BY TypeInvInit, SafetyInit
<1>2. TypeInv /\ Safety /\ [Next]_vars => (TypeInv /\ Safety)'
  BY TypeInvNext, SafetyNext
<1> QED
  BY <1>1, <1>2, PTL DEF Spec

-----------------------------------------------------------------------------
(* Every state of Membership is of its type.                               *)
THEOREM TypeCorrect == Spec => []TypeOK
BY InvariantHolds, PTL DEF TypeInv

(* Nobody has more employee rows than reasons for them, however accepts,   *)
(* rejects and deletes of the invitations interleave.                      *)
THEOREM Earned == Spec => []EmployeesEarned
<1>1. Safety => EmployeesEarned
  BY DEF Safety, Books
<1> QED
  BY <1>1, InvariantHolds, PTL

(* The transaction of accept is atomic: whoever accepted is an employee.   *)
THEOREM AcceptedStay == Spec => []AcceptedIsEmployed
<1>1. Safety => AcceptedIsEmployed
  BY DEF Safety, Books
<1> QED
  BY <1>1, InvariantHolds, PTL

(* What the interceptor and its caches let through is an employee now.     *)
THEOREM GateIsSound == Spec => []GateSound
<1>1. Safety => GateSound
  BY DEF Safety, Books, Staff, Holds, Gated, GateSound
<1> QED
  BY <1>1, InvariantHolds, PTL

(* No invitation is mailed twice.                                          *)
THEOREM MailedOnce == Spec => []MailedAtMostOnce
<1>1. Safety => MailedAtMostOnce
  BY DEF Safety, Books
<1> QED
  BY <1>1, InvariantHolds, PTL

(* The delete of an enterprise never removes one.                          *)
THEOREM EnterprisesStay == Spec => EnterprisesLast
<1>1. TypeInv /\ Safety /\ [Next]_vars
        => [\A e \in Enterprise : owner[e] # NoUser => owner'[e] = owner[e]]_owner
  BY GrowsNext DEF Grows
<1> QED
  BY <1>1, InvariantHolds, PTL DEF Spec, EnterprisesLast

-----------------------------------------------------------------------------
(* A handler that is about to insert the employee row p. *)
Inserting(p, r) == req[r].pc = "commitNew" /\ <<req[r].ent, req[r].user>> = p

(* A pair whose acceptances never raced has at most one row, and none while*)
(* the only handler that would insert one has not committed.               *)
Single ==
  \A p \in Pair \ raced :
    /\ employees[p] <= 1
    /\ \A r \in Request : Inserting(p, r) => employees[p] = 0
    /\ \A r, q \in Request : Inserting(p, r) /\ Inserting(p, q) => r = q

(* Only a founding and the last two steps of an acceptance matter to it. *)
LEMMA SingleMoves ==
  ASSUME TypeInv, [Next]_vars
  PROVE  \/ /\ UNCHANGED <<employees, raced>>
            /\ \A q \in Request : req'[q] = req[q] \/ req'[q].pc # "commitNew"
         \/ \E e \in Enterprise, u \in User : CreateEnterprise(e, u)
         \/ \E r \in Request : AcceptFind(r) \/ AcceptCommit(r)
<1> DEFINE Others == \A q \in Request : req'[q] = req[q] \/ req'[q].pc # "commitNew"
           Quiet == UNCHANGED <<employees, raced>> /\ Others
<1>1. ASSUME NEW r \in Request, NEW h, req' = [req EXCEPT ![r] = h], h.pc # "commitNew"
      PROVE  Others
  BY <1>1 DEF TypeInv, TypeOK
<1>2. ASSUME NEW r \in Request, NEW pc \in Pc \ {"commitNew"}, Goto(r, pc)
      PROVE  Others
  BY <1>2, Goes
<1>3. ASSUME NEW r \in Request, End(r)
      PROVE  Others
  BY <1>1, <1>3 DEF End, Idle
<1> HIDE DEF Others
<1>4. ASSUME NEW r \in Request, NEW u \in User, NEW e \in Enterprise,
             NEW op \in {"invite", "uninvite"}, NEW to, NEW i, BeginGated(r, u, e, op, to, i)
      PROVE  Quiet
  <2>1. \E pc \in {"inviteFind", "uninviteFind", "gateRead"} :
          req' = [req EXCEPT ![r] = [pc |-> pc, op |-> op, user |-> u, ent |-> e, to |-> to, inv |-> i]]
    BY <1>4 DEF BeginGated, AfterGate
  <2>2. Others
    BY <2>1 DEF Others, TypeInv, TypeOK
  <2> QED
    BY <1>4, <2>2 DEF BeginGated, history
<1>5. ASSUME NEW r \in Request, NEW u \in User, NEW op \in {"accept", "reject"},
             NEW i \in Invitation, BeginDecision(r, u, op, i)
      PROVE  Quiet
  <2>1. req' = [req EXCEPT ![r] = [pc |-> op, op |-> op, user |-> u,
                                   ent |-> rows[i].ent, to |-> NoUser, inv |-> i]]
    BY <1>5 DEF BeginDecision
  <2>2. Others
    BY <2>1 DEF Others, TypeInv, TypeOK
  <2> QED
    BY <1>5, <2>2 DEF BeginDecision, history
<1>6. ASSUME NEW r \in Request, GateRead(r) \/ InviteFind(r) \/ UninviteFind(r) \/ AcceptUpdate(r)
      PROVE  Quiet
  <2>1. UNCHANGED <<employees, raced>>
    BY <1>6 DEF GateRead, InviteFind, UninviteFind, AcceptUpdate, history
  <2>2. End(r) \/ \E pc \in Pc \ {"commitNew"} : Goto(r, pc)
    BY <1>6 DEF GateRead, InviteFind, UninviteFind, AcceptUpdate, Pc
  <2> QED
    BY <2>1, <2>2, <1>2, <1>3
<1>7. ASSUME NEW r \in Request, GateFill(r)
      PROVE  Quiet
  BY <1>2, <1>7 DEF GateFill, AfterGate, Pc, history
<1>8. ASSUME NEW r \in Request, InviteCreate(r)
      PROVE  Quiet
  <2>1. PICK i \in Invitation : req' = [req EXCEPT ![r] = [@ EXCEPT !.pc = "mail", !.inv = i]]
    BY <1>8 DEF InviteCreate
  <2>2. req[r] \in Handler
    BY DEF TypeInv, TypeOK
  <2>3. [req[r] EXCEPT !.pc = "mail", !.inv = i].pc = "mail"
    BY <2>2 DEF Handler
  <2> QED
    BY <1>8, <2>1, <2>3, <1>1 DEF InviteCreate
<1>9. ASSUME NEW r \in Request, Mail(r) \/ Uninvite(r) \/ Reject(r)
      PROVE  Quiet
  BY <1>3, <1>9 DEF Mail, Uninvite, Reject, history
<1>10. ASSUME NEW n \in Node, Crash(n) \/ \E p \in Pair : Expire(n, p)
       PROVE  Quiet
  BY <1>10 DEF Others, Crash, Expire, Idle, history, TypeInv, TypeOK
<1>11. ASSUME NEW e \in Enterprise, DeleteEnterprise(e)
       PROVE  Quiet
  BY <1>11 DEF Others, DeleteEnterprise, history
<1>12. CASE UNCHANGED vars
  BY <1>12 DEF Others, vars
<1>13. ASSUME NEW r \in Request, NEW u \in User, NEW e \in Enterprise,
              BeginInvite(r, u, e) \/ BeginUninvite(r, u, e)
       PROVE  Quiet
  BY <1>13, <1>4 DEF BeginInvite, BeginUninvite
<1> HIDE DEF Quiet
<1>14. ASSUME NEW r \in Request, Step(r)
       PROVE  Quiet \/ AcceptFind(r) \/ AcceptCommit(r)
  BY <1>14, <1>6, <1>7, <1>8, <1>9 DEF Step
<1>15. ASSUME Next
       PROVE  \/ Quiet
              \/ \E e \in Enterprise, u \in User : CreateEnterprise(e, u)
              \/ \E r \in Request : AcceptFind(r) \/ AcceptCommit(r)
  BY <1>15, <1>14, <1>13, <1>5, <1>10, <1>11 DEF Next
<1> QED
  BY <1>12, <1>15 DEF Quiet, Others

(* The founder of an enterprise has no row before: no handler works on an  *)
(* enterprise that has none.                                               *)
LEMMA CreateSingle ==
  ASSUME TypeInv, Safety, Single, NEW e \in Enterprise, NEW u \in User, CreateEnterprise(e, u)
  PROVE  Single'
<1>1. /\ owner[e] = NoUser /\ UNCHANGED <<req, raced>>
      /\ employees' = [employees EXCEPT ![<<e, u>>] = 1] /\ <<e, u>> \in Pair
  BY DEF CreateEnterprise, history, Pair
<1>2. /\ employees'[<<e, u>>] = 1
      /\ \A p \in Pair \ {<<e, u>>} : employees'[p] = employees[p]
  BY <1>1 DEF TypeInv, TypeOK
<1>3. \A r \in Request : req[r].pc = "commitNew" => req[r].ent # e
  BY <1>1 DEF Safety, Holds
<1>4. \A r \in Request : ~Inserting(<<e, u>>, r)
  BY <1>3 DEF Inserting
<1>5. \A p \in Pair, r \in Request : Inserting(p, r)' <=> Inserting(p, r)
  BY <1>1 DEF Inserting
<1> QED
  BY <1>1, <1>2, <1>4, <1>5 DEF Single

(* An acceptance that finds no row is from now on the one that inserts it, *)
(* or the pair has raced.                                                  *)
LEMMA FindSingle ==
  ASSUME TypeInv, Safety, Single, NEW r \in Request, AcceptFind(r)
  PROVE  Single'
<1> DEFINE own == <<req[r].ent, req[r].user>>
<1>1. employees' = employees /\ raced' = raced \cup Races(r) /\ own \in Pair
  BY DEF AcceptFind, TypeInv, Carries, Pair
<1>2. /\ req'[r].pc = "commitNew" => employees[own] = 0
      /\ req'[r].ent = req[r].ent /\ req'[r].user = req[r].user
      /\ \A q \in Request \ {r} : req'[q] = req[q]
  <2>1. employees[own] \in Nat
    BY <1>1 DEF TypeInv, TypeOK
  <2>2. CASE employees[own] > 0
    BY <2>2, Goes DEF AcceptFind, Pc
  <2>3. CASE ~(employees[own] > 0)
    BY <2>1, <2>3, Goes DEF AcceptFind, Pc
  <2> QED
    BY <2>2, <2>3
<1> SUFFICES ASSUME NEW p \in Pair \ raced'
             PROVE  /\ employees'[p] <= 1
                    /\ \A q \in Request : Inserting(p, q)' => employees'[p] = 0
                    /\ \A q, s \in Request : Inserting(p, q)' /\ Inserting(p, s)' => q = s
  BY DEF Single
<1>3. p \in Pair \ raced /\ p \notin Races(r)
  BY <1>1
<1>4. \A q \in Request \ {r} : Inserting(p, q)' <=> Inserting(p, q)
  BY <1>2 DEF Inserting
<1>5. Inserting(p, r)' => p = own /\ employees[p] = 0
  BY <1>2 DEF Inserting
<1>6. Inserting(p, r)' => \A q \in Request : ~Inserting(p, q)
  BY <1>3, <1>5 DEF Races, Inserting
<1> QED
  BY <1>1, <1>3, <1>4, <1>5, <1>6 DEF Single

(* The row that is inserted is the first of its pair. *)
LEMMA CommitSingle ==
  ASSUME TypeInv, Safety, Single, NEW r \in Request, AcceptCommit(r)
  PROVE  Single'
<1> DEFINE own == <<req[r].ent, req[r].user>>
<1>1. raced' = raced /\ own \in Pair
  BY DEF AcceptCommit, TypeInv, Carries, Pair
<1>2. /\ req'[r].pc = "idle"
      /\ \A q \in Request \ {r} : req'[q] = req[q]
  BY DEF AcceptCommit, End, Idle, TypeInv, TypeOK
<1>3. /\ employees'[own] = IF req[r].pc = "commitNew" THEN employees[own] + 1 ELSE employees[own]
      /\ \A p \in Pair \ {own} : employees'[p] = employees[p]
  BY <1>1 DEF AcceptCommit, TypeInv, TypeOK
<1>4. \A p \in Pair, q \in Request : Inserting(p, q)' => q # r /\ Inserting(p, q)
  BY <1>2 DEF Inserting
<1>5. req[r].pc = "commitNew" => Inserting(own, r)
  BY DEF Inserting
<1> SUFFICES ASSUME NEW p \in Pair \ raced
             PROVE  /\ employees'[p] <= 1
                    /\ \A q \in Request : Inserting(p, q)' => employees'[p] = 0
                    /\ \A q, s \in Request : Inserting(p, q)' /\ Inserting(p, s)' => q = s
  BY <1>1 DEF Single
<1>6. CASE p = own /\ req[r].pc = "commitNew"
  <2>1. employees[p] = 0 /\ employees'[p] = 1
    BY <1>3, <1>5, <1>6 DEF Single
  <2>2. \A q \in Request : ~Inserting(p, q)'
    BY <1>4, <1>5, <1>6 DEF Single
  <2> QED
    BY <2>1, <2>2
<1>7. CASE ~(p = own /\ req[r].pc = "commitNew")
  <2>1. employees'[p] = employees[p]
    BY <1>3, <1>7
  <2> QED
    BY <2>1, <1>4 DEF Single
<1> QED
  BY <1>6, <1>7

(* Every step keeps it. *)
LEMMA SingleNext ==
  ASSUME TypeInv, Safety, Single, [Next]_vars
  PROVE  Single'
<1>1. CASE /\ UNCHANGED <<employees, raced>>
           /\ \A q \in Request : req'[q] = req[q] \/ req'[q].pc # "commitNew"
  <2>1. \A p \in Pair, q \in Request : Inserting(p, q)' => Inserting(p, q)
    BY <1>1 DEF Inserting
  <2> QED
    BY <1>1, <2>1 DEF Single
<1> QED
  BY <1>1, SingleMoves, CreateSingle, FindSingle, CommitSingle

(* Unless two acceptances raced, a user has one employee row at most, from *)
(* however many invitations and whoever founded the enterprise.            *)
THEOREM OneRow == Spec => []OneRowUnlessRaced
<1>1. Init => Single
  BY DEF Init, Single, Inserting, Idle
<1>2. TypeInv /\ Safety /\ Single /\ [Next]_vars => Single'
  BY SingleNext
<1>3. Single => OneRowUnlessRaced
  BY DEF Single, OneRowUnlessRaced
<1> QED
  BY <1>1, <1>2, <1>3, InvariantHolds, PTL DEF Spec

-----------------------------------------------------------------------------
(* What an accepted invitation rests on: whoever sent it is an employee.   *)
InvitersStaff ==
  \A i \in Invitation : Sent(i) => employees[<<issued[i][1], inviter[i]>>] > 0

(* A circle of users that the accepted invitations of e do not leave. *)
Closed(e, circle) ==
  \A i \in accepted : issued[i][1] = e /\ inviter[i] \in circle => issued[i][2] \in circle

Roots == InvitersStaff /\ EmployeesReached

(* Only four steps change what the circles depend on. *)
LEMMA RootsMove ==
  ASSUME TypeInv, Safety, [Next]_vars
  PROVE  \/ UNCHANGED <<owner, employees, issued, inviter, accepted>>
         \/ \E e \in Enterprise, u \in User : CreateEnterprise(e, u)
         \/ \E r \in Request : InviteCreate(r) \/ AcceptCommit(r)
<1>1. ASSUME NEW e \in Enterprise, DeleteEnterprise(e)
      PROVE  UNCHANGED <<owner, employees, issued, inviter, accepted>>
  <2>1. owner[e] \in User /\ employees[<<e, owner[e]>>] > 0
    BY <1>1 DEF DeleteEnterprise, TypeInv, TypeOK, Safety, Books, Staff
  <2>2. owner' = [owner EXCEPT ![e] = owner[e]]
    BY <1>1, <2>1 DEF DeleteEnterprise
  <2> QED
    BY <1>1, <2>2 DEF DeleteEnterprise, history, TypeInv, TypeOK
<1>2. ASSUME NEW r \in Request, Step(r), ~InviteCreate(r), ~AcceptCommit(r)
      PROVE  UNCHANGED <<owner, employees, issued, inviter, accepted>>
  BY <1>2 DEF Step, GateRead, GateFill, InviteFind, Mail, UninviteFind, Uninvite,
              AcceptUpdate, AcceptFind, Reject, history
<1>3. ASSUME NEW r \in Request, NEW u \in User,
             \/ \E e \in Enterprise : BeginInvite(r, u, e) \/ BeginUninvite(r, u, e)
             \/ \E op \in {"accept", "reject"}, i \in Invitation : BeginDecision(r, u, op, i)
      PROVE  UNCHANGED <<owner, employees, issued, inviter, accepted>>
  BY <1>3 DEF BeginInvite, BeginUninvite, BeginGated, BeginDecision, history
<1>4. ASSUME NEW n \in Node, Crash(n) \/ \E p \in Pair : Expire(n, p)
      PROVE  UNCHANGED <<owner, employees, issued, inviter, accepted>>
  BY <1>4 DEF Crash, Expire, history
<1>5. CASE UNCHANGED vars
  BY <1>5 DEF vars
<1> QED
  BY <1>1, <1>2, <1>3, <1>4, <1>5 DEF Next

(* The first employee of an enterprise is its owner, in every circle. *)
LEMMA CreateRoots ==
  ASSUME TypeInv, Safety, Roots, NEW e \in Enterprise, NEW u \in User, CreateEnterprise(e, u)
  PROVE  Roots'
<1>1. /\ owner' = [owner EXCEPT ![e] = u] /\ employees' = [employees EXCEPT ![<<e, u>>] = 1]
      /\ UNCHANGED <<issued, inviter, accepted>>
      /\ owner[e] = NoUser
  BY DEF CreateEnterprise, history
<1>2. /\ \A p \in Pair : employees[p] > 0 => employees'[p] > 0
      /\ \A p \in Pair \ {<<e, u>>} : employees'[p] = employees[p]
      /\ owner'[e] = u /\ \A d \in Enterprise \ {e} : owner'[d] = owner[d]
  BY <1>1 DEF TypeInv, TypeOK
<1>3. InvitersStaff'
  <2> SUFFICES ASSUME NEW i \in Invitation, Sent(i)
               PROVE  employees'[<<issued[i][1], inviter[i]>>] > 0
    BY <1>1 DEF InvitersStaff, Sent
  <2>1. <<issued[i][1], inviter[i]>> \in Pair
    BY DEF Safety, Books, Records, TypeInv, TypeOK, Sent, Pair
  <2> QED
    BY <1>2, <2>1 DEF Roots, InvitersStaff
<1>4. EmployeesReached'
  <2> SUFFICES ASSUME NEW d \in Enterprise, NEW circle \in SUBSET User, owner'[d] \in circle,
                      Closed(d, circle), NEW w \in User, employees'[<<d, w>>] > 0
               PROVE  w \in circle
    BY <1>1 DEF EmployeesReached, Closed
  <2>1. CASE d = e
    <3>1. w # u => employees[<<e, w>>] > 0
      BY <1>2, <2>1 DEF Pair
    <3>2. ~(employees[<<e, w>>] > 0)
      BY <1>1 DEF Safety, Books, Staff
    <3> QED
      BY <1>2, <2>1, <3>1, <3>2
  <2>2. CASE d # e
    <3>1. owner[d] \in circle /\ employees[<<d, w>>] > 0
      BY <1>2, <2>2 DEF Pair
    <3> QED
      BY <3>1 DEF Roots, EmployeesReached, Closed
  <2> QED
    BY <2>1, <2>2
<1> QED
  BY <1>3, <1>4 DEF Roots

(* Nobody sends an invitation who was not let through as an employee, and  *)
(* it is not accepted yet.                                                 *)
LEMMA InviteRoots ==
  ASSUME TypeInv, Safety, Roots, NEW r \in Request, InviteCreate(r)
  PROVE  Roots'
<1>1. PICK i \in Invitation :
        /\ issued[i] = NoInvitation
        /\ issued' = [issued EXCEPT ![i] = <<req[r].ent, req[r].to>>]
        /\ inviter' = [inviter EXCEPT ![i] = req[r].user]
  BY DEF InviteCreate
<1>2. UNCHANGED <<owner, employees, accepted>> /\ employees[<<req[r].ent, req[r].user>>] > 0
  BY DEF InviteCreate, Safety, Holds, Gated
<1>3. /\ issued'[i][1] = req[r].ent /\ inviter'[i] = req[r].user
      /\ \A j \in Invitation \ {i} : issued'[j] = issued[j] /\ inviter'[j] = inviter[j]
  BY <1>1 DEF TypeInv, TypeOK
<1>4. InvitersStaff'
  BY <1>2, <1>3 DEF Roots, InvitersStaff, Sent
<1>5. accepted \subseteq Invitation \ {i}
  BY <1>1 DEF Safety, Books, Records, Sent, TypeInv, TypeOK
<1>6. EmployeesReached'
  BY <1>2, <1>3, <1>5 DEF Roots, EmployeesReached
<1> QED
  BY <1>4, <1>6 DEF Roots

(* The new employee is in every circle that whoever invited them is in. *)
LEMMA AcceptRoots ==
  ASSUME TypeInv, Safety, Roots, NEW r \in Request, AcceptCommit(r)
  PROVE  Roots'
<1>1. PICK e \in Enterprise, u \in User, i \in Invitation :
        /\ req[r].ent = e /\ req[r].user = u /\ req[r].inv = i
        /\ Sent(i) /\ issued[i] = <<e, u>> /\ inviter[i] \in User
  BY DEF AcceptCommit, TypeInv, Carries, Deciding, Sent, Safety, Books, Records
<1>2. UNCHANGED <<owner, issued, inviter>> /\ accepted' = accepted \cup {i}
  BY <1>1 DEF AcceptCommit
<1>3. /\ \A p \in Pair : employees[p] > 0 => employees'[p] > 0
      /\ \A p \in Pair \ {<<e, u>>} : employees'[p] = employees[p]
  <2>1. employees \in [Pair -> Nat]
    BY DEF TypeInv, TypeOK
  <2>2. employees' = [employees EXCEPT ![<<e, u>>] = IF req[r].pc = "commitNew" THEN @ + 1 ELSE @]
    BY <1>1 DEF AcceptCommit
  <2> QED
    BY <2>1, <2>2
<1>4. InvitersStaff'
  <2> SUFFICES ASSUME NEW j \in Invitation, Sent(j)
               PROVE  employees'[<<issued[j][1], inviter[j]>>] > 0
    BY <1>2 DEF InvitersStaff, Sent
  <2>1. <<issued[j][1], inviter[j]>> \in Pair
    BY DEF Safety, Books, Records, TypeInv, TypeOK, Sent, Pair
  <2> QED
    BY <1>3, <2>1 DEF Roots, InvitersStaff
<1>5. EmployeesReached'
  <2> SUFFICES ASSUME NEW d \in Enterprise, NEW circle \in SUBSET User, owner[d] \in circle,
                      Closed(d, circle)', NEW w \in User, employees'[<<d, w>>] > 0
               PROVE  w \in circle
    BY <1>2 DEF EmployeesReached, Closed
  <2>1. \A v \in User : employees[<<d, v>>] > 0 => v \in circle
    <3>1. Closed(d, circle)
      BY <1>2 DEF Closed
    <3> QED
      BY <3>1 DEF Roots, EmployeesReached, Closed
  <2>2. CASE d = e /\ w = u
    <3>1. employees[<<e, inviter[i]>>] > 0
      BY <1>1 DEF Roots, InvitersStaff
    <3>2. inviter[i] \in circle
      BY <1>1, <2>1, <2>2, <3>1
    <3> QED
      BY <1>1, <1>2, <2>2, <3>2 DEF Closed
  <2>3. CASE d # e \/ w # u
    <3>1. <<d, w>> \in Pair \ {<<e, u>>}
      BY <2>3 DEF Pair
    <3> QED
      BY <1>3, <2>1, <3>1
  <2> QED
    BY <2>2, <2>3
<1> QED
  BY <1>4, <1>5 DEF Roots

(* All employees of an enterprise go back to its owner, along invitations  *)
(* that were accepted and whose senders were employees, with any number of *)
(* users and invitations.                                                  *)
THEOREM Reached == Spec => []EmployeesReached
<1>1. Init => Roots
  BY DEF Init, Roots, InvitersStaff, EmployeesReached, Sent, Pair
<1>2. TypeInv /\ Safety /\ Roots /\ [Next]_vars => Roots'
  <2>1. TypeInv /\ Safety /\ Roots /\ UNCHANGED <<owner, employees, issued, inviter, accepted>> => Roots'
    BY DEF Roots, InvitersStaff, EmployeesReached, Sent
  <2> QED
    BY <2>1, RootsMove, CreateRoots, InviteRoots, AcceptRoots
<1>3. Roots => EmployeesReached
  BY DEF Roots
<1> QED
  BY <1>1, <1>2, <1>3, InvariantHolds, PTL DEF Spec

-----------------------------------------------------------------------------
(* Membership implements Members: the initial states map to its initial    *)
(* state ...                                                               *)
LEMMA ChainInit == Init => Chain!Init
BY DEF Init, Chain!Init, Pair

(* ... an insert of an invitation to an Invite by the member who sent it   *)
LEMMA InviteIsInvite ==
  ASSUME TypeInv, Safety, NEW r \in Request, InviteCreate(r)
  PROVE  Chain!Next
<1> DEFINE members == {p \in Pair : employees[p] > 0}
           pairs == {<<issued[i][1], inviter[i], issued[i][2]>> :
                       i \in {j \in Invitation : issued[j] # NoInvitation}}
<1>1. PICK i \in Invitation :
        /\ issued[i] = NoInvitation
        /\ issued' = [issued EXCEPT ![i] = <<req[r].ent, req[r].to>>]
        /\ inviter' = [inviter EXCEPT ![i] = req[r].user]
  BY DEF InviteCreate
<1>2. PICK e \in Enterprise, by \in User, to \in User :
        req[r].ent = e /\ req[r].user = by /\ req[r].to = to
  BY DEF InviteCreate, TypeInv, Carries
<1>3. <<e, by>> \in members /\ <<e, to>> # NoInvitation
  BY <1>2, NoneAssumption DEF InviteCreate, Safety, Holds, Gated, Pair
<1>4. members' = members
  BY DEF InviteCreate
<1>5. pairs' = pairs \cup {<<e, by, to>>}
  <2>1. /\ issued'[i] = <<e, to>> /\ inviter'[i] = by
        /\ issued'[i] # NoInvitation
    BY <1>1, <1>2, <1>3 DEF TypeInv, TypeOK
  <2>2. \A j \in Invitation \ {i} : issued'[j] = issued[j] /\ inviter'[j] = inviter[j]
    BY <1>1 DEF TypeInv, TypeOK
  <2>3. \A t \in pairs' : t \in pairs \/ t = <<e, by, to>>
    BY <2>1, <2>2
  <2>4. \A t \in pairs : t \in pairs'
    BY <1>1, <2>2
  <2>5. <<e, by, to>> \in pairs'
    <3>1. <<issued'[i][1], inviter'[i], issued'[i][2]>> \in pairs'
      BY <2>1
    <3> QED
      BY <3>1, <2>1
  <2> QED
    BY <2>3, <2>4, <2>5
<1>6. Chain!Invite(e, by, to)
  BY <1>3, <1>4, <1>5 DEF Chain!Invite
<1> QED
  BY <1>6 DEF Chain!Next

(* ... the creation of an enterprise to a Found ...                        *)
LEMMA CreateIsFound ==
  ASSUME TypeInv, Safety, NEW e \in Enterprise, NEW u \in User, CreateEnterprise(e, u)
  PROVE  Chain!Next
<1> DEFINE members == {p \in Pair : employees[p] > 0}
<1>1. \A v \in User : <<e, v>> \notin members
  BY DEF CreateEnterprise, Safety, Books, Staff
<1>2. members' = members \cup {<<e, u>>}
  BY DEF CreateEnterprise, TypeInv, TypeOK, Pair
<1>3. UNCHANGED <<issued, inviter>>
  BY DEF CreateEnterprise, history
<1>4. Chain!Found(e, u)
  BY <1>1, <1>2, <1>3 DEF Chain!Found
<1> QED
  BY <1>4 DEF Chain!Next

(* ... and the commit of an acceptance to a Join.                          *)
LEMMA AcceptIsJoin ==
  ASSUME TypeInv, Safety, NEW r \in Request, AcceptCommit(r)
  PROVE  Chain!Next
<1> DEFINE members == {p \in Pair : employees[p] > 0}
<1>1. PICK e \in Enterprise, u \in User, i \in Invitation :
        /\ req[r].ent = e /\ req[r].user = u
        /\ issued[i] # NoInvitation /\ issued[i] = <<e, u>> /\ inviter[i] \in User
  BY DEF AcceptCommit, TypeInv, Carries, Deciding, Sent, Safety, Books, Records
<1>2. <<e, inviter[i], u>> \in {<<issued[j][1], inviter[j], issued[j][2]>> :
                                  j \in {k \in Invitation : issued[k] # NoInvitation}}
  BY <1>1
<1>3. members' = members \cup {<<e, u>>}
  <2>1. <<e, u>> \in Pair /\ employees \in [Pair -> Nat]
    BY DEF TypeInv, TypeOK, Pair
  <2>2. req[r].pc = "commitOld" => employees[<<e, u>>] > 0
    BY <1>1 DEF Safety, Holds
  <2>3. employees' = [employees EXCEPT ![<<e, u>>] =
                        IF req[r].pc = "commitNew" THEN @ + 1 ELSE @]
    BY <1>1 DEF AcceptCommit
  <2>4. employees'[<<e, u>>] > 0
    BY <2>1, <2>2, <2>3 DEF AcceptCommit
  <2>5. \A p \in Pair \ {<<e, u>>} : employees'[p] = employees[p]
    BY <2>1, <2>3
  <2> QED
    BY <2>1, <2>4, <2>5
<1>4. UNCHANGED <<issued, inviter>>
  BY DEF AcceptCommit
<1>5. Chain!Join(e, u)
  BY <1>1, <1>2, <1>3, <1>4 DEF Chain!Join
<1> QED
  BY <1>5 DEF Chain!Next

(* Every other step changes neither employees nor what was sent, which is  *)
(* a stutter of Members.                                                   *)
LEMMA ChainNext ==
  ASSUME TypeInv, Safety, [Next]_vars
  PROVE  [Chain!Next]_(Chain!vars)
<1>1. CASE UNCHANGED <<employees, issued, inviter>>
  BY <1>1 DEF Chain!vars
<1>2. ASSUME NEW e \in Enterprise, DeleteEnterprise(e)
      PROVE  UNCHANGED <<employees, issued, inviter>>
  BY <1>2 DEF DeleteEnterprise, history
<1>3. ASSUME NEW r \in Request, Step(r), ~InviteCreate(r), ~AcceptCommit(r)
      PROVE  UNCHANGED <<employees, issued, inviter>>
  BY <1>3 DEF Step, GateRead, GateFill, InviteFind, Mail, UninviteFind, Uninvite,
              AcceptUpdate, AcceptFind, Reject, history
<1>4. ASSUME NEW r \in Request, NEW u \in User,
             \/ \E e \in Enterprise : BeginInvite(r, u, e) \/ BeginUninvite(r, u, e)
             \/ \E op \in {"accept", "reject"}, i \in Invitation : BeginDecision(r, u, op, i)
      PROVE  UNCHANGED <<employees, issued, inviter>>
  BY <1>4 DEF BeginInvite, BeginUninvite, BeginGated, BeginDecision, history
<1>5. ASSUME NEW n \in Node, Crash(n) \/ \E p \in Pair : Expire(n, p)
      PROVE  UNCHANGED <<employees, issued, inviter>>
  BY <1>5 DEF Crash, Expire, history
<1>6. CASE UNCHANGED vars
  BY <1>6, <1>1 DEF vars
<1> QED
  BY <1>1, <1>2, <1>3, <1>4, <1>5, <1>6, InviteIsInvite, CreateIsFound, AcceptIsJoin DEF Next

(* Whatever is cached, read early or withdrawn meanwhile, one becomes a    *)
(* member only by founding or on the invitation of a member.               *)
THEOREM Implements == Spec => ImplementsMembers
<1>1. Init => Chain!Init
  BY ChainInit
<1>2. TypeInv /\ Safety /\ [Next]_vars => [Chain!Next]_(Chain!vars)
  BY ChainNext
<1> QED
  BY <1>1, <1>2, InvariantHolds, PTL DEF Spec, ImplementsMembers, Chain!Spec
=============================================================================
