----------------------------- MODULE Membership -----------------------------
(***************************************************************************)
(* Enterprises, their employees and the invitations that make a user one.  *)
(*                                                                         *)
(* The owner and every employee of an enterprise pass EnterpriseInterceptor*)
(* and may invite and withdraw invitations; the invited user accepts or    *)
(* rejects.  Accepting is a READ COMMITTED transaction that holds the lock *)
(* of the invitation's row from its update until it commits; what it has   *)
(* written is seen by nobody before.  A user stands for its unique email.  *)
(* Users are never deleted by this program.                                *)
(*                                                                         *)
(* As in Sessions, a request is a handler in flight and pc names the await *)
(* it stands before.  An answer that changes nothing only ends it.         *)
(***************************************************************************)
EXTENDS Integers, FiniteSets

CONSTANTS
  Enterprise, NoEnterprise,
  User, NoUser,
  Invitation, NoInvitation,   \* a set bounds how many are ever sent
  Node, Request, NodeOf       \* NodeOf[r]: the process that serves slot r

Pair == Enterprise \X User
Status == {"pending", "accepted", "rejected"}
Row == [ent : Enterprise, email : User, status : Status]

ASSUME NoneAssumption == /\ NoEnterprise \notin Enterprise
                         /\ NoUser \notin User
                         /\ NoInvitation \notin Invitation \cup Pair \cup Row
ASSUME InvitationAssumption == IsFiniteSet(Invitation)
ASSUME NodeOfAssumption == NodeOf \in [Request -> Node]

VARIABLES
  owner,        \* owner[e]: owner of enterprise e, NoUser when it has no row
  employees,    \* employees[<<e, u>>]: how many employee rows u has at e
  rows,         \* rows[i]: the row of invitation i, or NoInvitation
  memberCache,  \* memberCache[n]: the pairs <<e, u>> node n remembers
  req,          \* req[r]: the handler in slot r
  issued,       \* history: issued[i] is whom invitation i invites where
  inviter,      \* history: inviter[i] is who sent invitation i
  accepted,     \* history: the invitations whose acceptance was committed
  mails,        \* history: mails[i] is how often invitation i was mailed
  raced         \* history: the pairs that two acceptances once were about to
                \* insert an employee row for at the same time

vars == <<owner, employees, rows, memberCache, req, issued, inviter, accepted, mails, raced>>
history == <<issued, inviter, accepted, mails, raced>>

Pc == {"idle", "gateRead", "gateFill", "inviteFind", "inviteCreate", "mail",
       "uninviteFind", "uninvite", "accept", "acceptFind", "commitOld",
       "commitNew", "reject"}
Handler == [pc : Pc, op : {"none", "invite", "uninvite", "accept", "reject"},
            user : User \cup {NoUser}, ent : Enterprise \cup {NoEnterprise},
            to : User \cup {NoUser}, inv : Invitation \cup {NoInvitation}]

Idle == [pc |-> "idle", op |-> "none", user |-> NoUser, ent |-> NoEnterprise,
         to |-> NoUser, inv |-> NoInvitation]

TypeOK ==
  /\ owner \in [Enterprise -> User \cup {NoUser}]
  /\ employees \in [Pair -> Nat]
  /\ rows \in [Invitation -> Row \cup {NoInvitation}]
  /\ memberCache \in [Node -> SUBSET Pair]
  /\ req \in [Request -> Handler]
  /\ issued \in [Invitation -> Pair \cup {NoInvitation}]
  /\ inviter \in [Invitation -> User \cup {NoUser}]
  /\ accepted \subseteq Invitation
  /\ mails \in [Invitation -> Nat]
  /\ raced \subseteq Pair

Init ==
  /\ owner = [e \in Enterprise |-> NoUser]
  /\ employees = [p \in Pair |-> 0]
  /\ rows = [i \in Invitation |-> NoInvitation]
  /\ memberCache = [n \in Node |-> {}]
  /\ req = [r \in Request |-> Idle]
  /\ issued = [i \in Invitation |-> NoInvitation]
  /\ inviter = [i \in Invitation |-> NoUser]
  /\ accepted = {}
  /\ mails = [i \in Invitation |-> 0]
  /\ raced = {}

HasRow(i) == rows[i] # NoInvitation

(* The look-up of an invitation within an enterprise. *)
findById(e, i) == HasRow(i) /\ rows[i].ent = e

Goto(r, pc) == req' = [req EXCEPT ![r].pc = pc]
End(r) == req' = [req EXCEPT ![r] = Idle]

(* A transaction that has updated the row of i and not committed yet. *)
Locked(i) ==
  \E r \in Request : /\ req[r].pc \in {"acceptFind", "commitOld", "commitNew"}
                     /\ req[r].inv = i

-----------------------------------------------------------------------------
(* A bug of CreateEnterprise: the owner is not made an employee. *)
CreateEnterpriseBare(e, u) ==
  /\ owner[e] = NoUser
  /\ owner' = [owner EXCEPT ![e] = u]
  /\ UNCHANGED <<employees, rows, memberCache, req, history>>

(* One transaction inserts the enterprise and its owner as an employee. *)
CreateEnterprise(e, u) ==
  /\ owner[e] = NoUser
  /\ owner' = [owner EXCEPT ![e] = u]
  /\ employees' = [employees EXCEPT ![<<e, u>>] = 1]
  /\ UNCHANGED <<rows, memberCache, req, history>>

(* The owner deletes the enterprise.  The foreign keys of employees and    *)
(* invitations are RESTRICT: with such a row the delete throws.            *)
DeleteEnterprise(e) ==
  /\ owner[e] # NoUser
  /\ owner' = [owner EXCEPT ![e] =
       IF \/ \E u \in User : employees[<<e, u>>] > 0
          \/ \E i \in Invitation : HasRow(i) /\ rows[i].ent = e
       THEN @ ELSE NoUser]
  /\ UNCHANGED <<employees, rows, memberCache, req, history>>

(* Where a request goes once the interceptor has let it through. *)
AfterGate(op) == IF op = "invite" THEN "inviteFind" ELSE "uninviteFind"

(* EnterpriseInterceptor: the owner passes, and so does a user the cache   *)
(* of the node remembers as an employee; the others are looked up.         *)
BeginGated(r, u, e, op, to, i) ==
  /\ req[r].pc = "idle"
  /\ owner[e] # NoUser
  /\ req' = [req EXCEPT ![r] =
       [pc |-> IF owner[e] = u \/ <<e, u>> \in memberCache[NodeOf[r]]
               THEN AfterGate(op) ELSE "gateRead",
        op |-> op, user |-> u, ent |-> e, to |-> to, inv |-> i]]
  /\ UNCHANGED <<owner, employees, rows, memberCache, history>>

BeginInvite(r, u, e) ==
  \E to \in User : BeginGated(r, u, e, "invite", to, NoInvitation)

BeginUninvite(r, u, e) ==
  \E i \in Invitation : /\ issued[i] # NoInvitation
                        /\ BeginGated(r, u, e, "uninvite", NoUser, i)

(* A bug of GateRead: the answer of the database is not looked at. *)
GateReadUnchecked(r) ==
  /\ req[r].pc = "gateRead"
  /\ Goto(r, "gateFill")
  /\ UNCHANGED <<owner, employees, rows, memberCache, history>>

(* findEmployee; without a row the answer is 403. *)
GateRead(r) ==
  /\ req[r].pc = "gateRead"
  /\ IF employees[<<req[r].ent, req[r].user>>] > 0 THEN Goto(r, "gateFill") ELSE End(r)
  /\ UNCHANGED <<owner, employees, rows, memberCache, history>>

GateFill(r) ==
  /\ req[r].pc = "gateFill"
  /\ memberCache' = [memberCache EXCEPT ![NodeOf[r]] =
                      @ \cup {<<req[r].ent, req[r].user>>}]
  /\ Goto(r, AfterGate(req[r].op))
  /\ UNCHANGED <<owner, employees, rows, history>>

-----------------------------------------------------------------------------
(* A bug of InviteFind: an invitation that exists is mailed again. *)
InviteFindMailsAgain(r) ==
  LET found == {i \in Invitation : findById(req[r].ent, i) /\ rows[i].email = req[r].to}
  IN
  /\ req[r].pc = "inviteFind"
  /\ IF found = {} THEN Goto(r, "inviteCreate")
     ELSE \E i \in found : req' = [req EXCEPT ![r] = [@ EXCEPT !.pc = "mail", !.inv = i]]
  /\ UNCHANGED <<owner, employees, rows, memberCache, history>>

(* InvitationInviteUseCase: an email that was invited before, whatever has *)
(* become of the invitation, is answered with that one.                    *)
InviteFind(r) ==
  /\ req[r].pc = "inviteFind"
  /\ IF \E i \in Invitation : findById(req[r].ent, i) /\ rows[i].email = req[r].to
     THEN End(r) ELSE Goto(r, "inviteCreate")
  /\ UNCHANGED <<owner, employees, rows, memberCache, history>>

(* ... otherwise a pending invitation is inserted ... *)
InviteCreate(r) ==
  /\ req[r].pc = "inviteCreate"
  /\ \E i \in Invitation :
       /\ issued[i] = NoInvitation
       /\ rows' = [rows EXCEPT ![i] = [ent |-> req[r].ent, email |-> req[r].to,
                                       status |-> "pending"]]
       /\ issued' = [issued EXCEPT ![i] = <<req[r].ent, req[r].to>>]
       /\ inviter' = [inviter EXCEPT ![i] = req[r].user]
       /\ req' = [req EXCEPT ![r] = [@ EXCEPT !.pc = "mail", !.inv = i]]
  /\ UNCHANGED <<owner, employees, memberCache, accepted, mails, raced>>

(* ... and mailed.  The mailer may throw, before or after it has delivered *)
(* the mail; the row stays all the same.                                   *)
Mail(r) ==
  /\ req[r].pc = "mail"
  /\ \E delivered \in {0, 1} : mails' = [mails EXCEPT ![req[r].inv] = @ + delivered]
  /\ End(r)
  /\ UNCHANGED <<owner, employees, rows, memberCache, issued, inviter, accepted, raced>>

(* InvitationDeleteUseCase looks the invitation up in the enterprise; 404. *)
UninviteFind(r) ==
  /\ req[r].pc = "uninviteFind"
  /\ IF findById(req[r].ent, req[r].inv)
     THEN Goto(r, "uninvite") ELSE End(r)
  /\ UNCHANGED <<owner, employees, rows, memberCache, history>>

(* The delete waits for the row's lock, and throws when the row is gone. *)
Uninvite(r) ==
  /\ req[r].pc = "uninvite"
  /\ ~Locked(req[r].inv)
  /\ rows' = [rows EXCEPT ![req[r].inv] = NoInvitation]
  /\ End(r)
  /\ UNCHANGED <<owner, employees, memberCache, history>>

-----------------------------------------------------------------------------
(* ProfileInvitationUsecase reads the invitation: it must exist, be        *)
(* pending and be addressed to the user (else 404 or 422).                 *)
BeginDecision(r, u, op, i) ==
  /\ req[r].pc = "idle"
  /\ HasRow(i)
  /\ rows[i].status = "pending"
  /\ rows[i].email = u
  /\ req' = [req EXCEPT ![r] = [pc |-> op, op |-> op, user |-> u,
                                ent |-> rows[i].ent, to |-> NoUser, inv |-> i]]
  /\ UNCHANGED <<owner, employees, rows, memberCache, history>>

(* A bug of AcceptUpdate: the new status is committed before the rest. *)
AcceptUpdateAutocommit(r) ==
  /\ req[r].pc = "accept"
  /\ ~Locked(req[r].inv)
  /\ IF HasRow(req[r].inv)
     THEN /\ Goto(r, "acceptFind")
          /\ rows' = [rows EXCEPT ![req[r].inv].status = "accepted"]
     ELSE End(r) /\ UNCHANGED rows
  /\ UNCHANGED <<owner, employees, memberCache, history>>

(* The transaction of accept updates the row by its id, whatever its status*)
(* is by now, and holds its lock; when the row is gone it throws.          *)
AcceptUpdate(r) ==
  /\ req[r].pc = "accept"
  /\ ~Locked(req[r].inv)
  /\ IF HasRow(req[r].inv) THEN Goto(r, "acceptFind") ELSE End(r)
  /\ UNCHANGED <<owner, employees, rows, memberCache, history>>

(* History: another acceptance for the employee row that r looks for has   *)
(* not found it either and is about to insert it.                          *)
Races(r) ==
  {p \in {<<req[r].ent, req[r].user>>} :
     /\ employees[p] = 0
     /\ \E q \in Request : req[q].pc = "commitNew" /\ <<req[q].ent, req[q].user>> = p}

(* A bug of AcceptFind: the employee is not looked for. *)
AcceptFindNever(r) ==
  /\ req[r].pc = "acceptFind"
  /\ Goto(r, "commitNew")
  /\ raced' = raced \cup Races(r)
  /\ UNCHANGED <<owner, employees, rows, memberCache, issued, inviter, accepted, mails>>

(* ... looks for an employee row among the committed ones ... *)
AcceptFind(r) ==
  /\ req[r].pc = "acceptFind"
  /\ Goto(r, IF employees[<<req[r].ent, req[r].user>>] > 0 THEN "commitOld" ELSE "commitNew")
  /\ raced' = raced \cup Races(r)
  /\ UNCHANGED <<owner, employees, rows, memberCache, issued, inviter, accepted, mails>>

(* A bug of AcceptCommit: a transaction that found a row is left open. *)
AcceptCommitNewOnly(r) ==
  /\ req[r].pc = "commitNew"
  /\ rows' = [rows EXCEPT ![req[r].inv].status = "accepted"]
  /\ employees' = [employees EXCEPT ![<<req[r].ent, req[r].user>>] = @ + 1]
  /\ accepted' = accepted \cup {req[r].inv}
  /\ End(r)
  /\ UNCHANGED <<owner, memberCache, issued, inviter, mails, raced>>

(* ... and commits, with a new employee row unless it found one. *)
AcceptCommit(r) ==
  /\ req[r].pc \in {"commitOld", "commitNew"}
  /\ rows' = [rows EXCEPT ![req[r].inv].status = "accepted"]
  /\ employees' = [employees EXCEPT ![<<req[r].ent, req[r].user>>] =
                     IF req[r].pc = "commitNew" THEN @ + 1 ELSE @]
  /\ accepted' = accepted \cup {req[r].inv}
  /\ End(r)
  /\ UNCHANGED <<owner, memberCache, issued, inviter, mails, raced>>

(* The update of reject waits for the lock; it throws on a missing row. *)
Reject(r) ==
  /\ req[r].pc = "reject"
  /\ ~Locked(req[r].inv)
  /\ rows' = IF HasRow(req[r].inv)
             THEN [rows EXCEPT ![req[r].inv].status = "rejected"] ELSE rows
  /\ End(r)
  /\ UNCHANGED <<owner, employees, memberCache, history>>

-----------------------------------------------------------------------------
(* The time to live of an entry passes (or the store evicts it). *)
Expire(n, p) ==
  /\ p \in memberCache[n]
  /\ memberCache' = [memberCache EXCEPT ![n] = @ \ {p}]
  /\ UNCHANGED <<owner, employees, rows, req, history>>

(* A process stops: its cache and handlers are gone, open transactions of  *)
(* theirs are rolled back.                                                 *)
Crash(n) ==
  /\ memberCache' = [memberCache EXCEPT ![n] = {}]
  /\ req' = [r \in Request |-> IF NodeOf[r] = n THEN Idle ELSE req[r]]
  /\ UNCHANGED <<owner, employees, rows, history>>

Step(r) ==
  \/ GateRead(r) \/ GateFill(r)
  \/ InviteFind(r) \/ InviteCreate(r) \/ Mail(r)
  \/ UninviteFind(r) \/ Uninvite(r)
  \/ AcceptUpdate(r) \/ AcceptFind(r) \/ AcceptCommit(r)
  \/ Reject(r)

Next ==
  \/ \E e \in Enterprise, u \in User : CreateEnterprise(e, u)
  \/ \E e \in Enterprise : DeleteEnterprise(e)
  \/ \E r \in Request, u \in User :
       \/ \E e \in Enterprise : BeginInvite(r, u, e) \/ BeginUninvite(r, u, e)
       \/ \E op \in {"accept", "reject"}, i \in Invitation : BeginDecision(r, u, op, i)
  \/ \E r \in Request : Step(r)
  \/ \E n \in Node, p \in Pair : Expire(n, p)
  \/ \E n \in Node : Crash(n)

Spec == Init /\ [][Next]_vars

(* A handler that can go on does: the event loop runs it and the database  *)
(* answers.  Waits for a row lock are served in order of their queue, so a *)
(* lock that is free again and again is granted in the end.                *)
FairSpec ==
  /\ Spec
  /\ \A r \in Request : /\ WF_vars(Step(r))
                        /\ SF_vars(AcceptUpdate(r) \/ Reject(r) \/ Uninvite(r))
-----------------------------------------------------------------------------
(* Nobody has more employee rows than reasons for them: being the owner,   *)
(* and every invitation they accepted.  Two accepts of one invitation      *)
(* share a row because the second waits for the lock and then finds it.    *)
EmployeesEarned ==
  \A e \in Enterprise, u \in User :
    employees[<<e, u>>] <= (IF owner[e] = u THEN 1 ELSE 0)
                       + Cardinality({i \in accepted : issued[i] = <<e, u>>})

(* A user has one employee row, as owner or by whichever of several        *)
(* invitations, unless two of them were accepted at once: each acceptance  *)
(* looks for the row before it inserts one, and no unique column stops the *)
(* second.  (Two users of the enterprise who invite the same email at once *)
(* make such invitations.)                                                 *)
OneRowUnlessRaced == \A p \in Pair \ raced : employees[p] <= 1

(* The transaction of accept is atomic: whoever accepted an invitation is  *)
(* an employee, whatever happens to the invitation afterwards.             *)
AcceptedIsEmployed ==
  /\ \A i \in accepted : employees[issued[i]] > 0
  /\ \A i \in Invitation :
       HasRow(i) /\ rows[i].status = "accepted" => employees[issued[i]] > 0

(* Whoever is past the interceptor, or remembered by a cache, is the owner *)
(* or an employee of the enterprise at this moment, not only when it was   *)
(* looked up.                                                              *)
GateSound ==
  /\ \A n \in Node : \A p \in memberCache[n] : employees[p] > 0
  /\ \A r \in Request :
       req[r].pc \in {"inviteFind", "inviteCreate", "mail", "uninviteFind", "uninvite"}
         => employees[<<req[r].ent, req[r].user>>] > 0

(* An invitation is mailed at most once, by the request that inserted it:  *)
(* inviting the same user again, after a mail that failed or while one is  *)
(* on its way, mails nothing.  So when the mailer throws the invitation is *)
(* never mailed at all.                                                    *)
MailedAtMostOnce == \A i \in Invitation : mails[i] <= 1

(* Every employee goes back to the owner along accepted invitations, each  *)
(* sent by somebody who goes back to the owner in turn: whoever is in no   *)
(* circle around the owner that these invitations do not leave has no row. *)
EmployeesReached ==
  \A e \in Enterprise : \A circle \in SUBSET User :
    /\ owner[e] \in circle
    /\ \A i \in accepted : issued[i][1] = e /\ inviter[i] \in circle => issued[i][2] \in circle
    => \A u \in User : employees[<<e, u>>] > 0 => u \in circle

(* The employees are the members of Members, where only founding and being *)
(* invited by a member make one: a handler that inserts an invitation was  *)
(* let through the gate on what a cache or an earlier read said, but its   *)
(* user is a member at that moment; and whatever decisions and withdrawals *)
(* race, an acceptance adds nobody else.                                   *)
Chain == INSTANCE Members WITH
  members <- {p \in Pair : employees[p] > 0},
  invited <- {<<issued[i][1], inviter[i], issued[i][2]>> :
                i \in {j \in Invitation : issued[j] # NoInvitation}}
ImplementsMembers == Chain!Spec

(* An enterprise never disappears: its delete always runs into the foreign *)
(* key of the owner's own employee row, so the use case that should delete *)
(* it answers 500 whenever the owner asks.                                 *)
EnterprisesLast ==
  [][\A e \in Enterprise : owner[e] # NoUser => owner'[e] = owner[e]]_owner

(* Accepts, rejects and deletes of one invitation wait for its lock, and   *)
(* every wait ends: a decision that has begun is answered.                 *)
DecisionsFinish ==
  \A r \in Request : req[r].pc \in {"accept", "reject", "uninvite"} ~> req[r].pc = "idle"

(* An invitation that was accepted or rejected keeps its status: "should   *)
(* throw HttpException if invitation is not pending".                      *)
DecisionIsFinal ==
  [][\A i \in Invitation :
       HasRow(i) /\ rows[i].status # "pending" /\ rows'[i] # NoInvitation
         => rows'[i].status = rows[i].status]_rows
=============================================================================
