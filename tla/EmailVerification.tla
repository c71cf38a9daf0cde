-------------------------- MODULE EmailVerification --------------------------
(***************************************************************************)
(* Sign-up, the mail that confirms an address, and the limit on how many   *)
(* such mails a user is sent.                                              *)
(*                                                                         *)
(* A user stands for its unique, lower-case email.  The limit is a counter *)
(* in the memory cache of the process that serves the request: it is read, *)
(* the mail is sent, and the counter read before is written back plus one. *)
(* Each of these is an await, so the requests of a process interleave      *)
(* between them.  The verification accepts any JWT signed with the shared  *)
(* secret and verifies the user that the number at the start of its        *)
(* subject names, so here a request may come to it for any user.           *)
(***************************************************************************)
EXTENDS Integers

CONSTANTS
  User, NoUser,
  Node, Request, NodeOf,   \* NodeOf[r]: the process that serves slot r
  MaxSent                  \* bound on the mails a process sends to one user

ASSUME NoUserAssumption == NoUser \notin User
ASSUME NodeOfAssumption == NodeOf \in [Request -> Node]
ASSUME MaxSentAssumption == MaxSent \in Nat

VARIABLES
  users,      \* users[u]: how many rows of users have u's email
  verified,   \* the users with emailVerified
  count,      \* count[n][u]: the counter in the cache of n, 0 when it has none
  req,        \* req[r]: the handler in slot r; seen is the counter it has read
  window,     \* history: confirmed mails of n to u since n started or the
              \* counter expired
  sent        \* history: confirmed mails of n to u since n started

vars == <<users, verified, count, req, window, sent>>

MAX_EMAILS == 3

Pc == {"idle", "create", "count", "mail", "set", "verify"}
Handler == [pc : Pc, user : User \cup {NoUser}, seen : 0..MAX_EMAILS - 1]
Idle == [pc |-> "idle", user |-> NoUser, seen |-> 0]

TypeOK ==
  /\ users \in [User -> Nat]
  /\ verified \subseteq User
  /\ count \in [Node -> [User -> 0..MAX_EMAILS]]
  /\ req \in [Request -> Handler]
  /\ window \in [Node -> [User -> 0..MaxSent]]
  /\ sent \in [Node -> [User -> 0..MaxSent]]

None == [n \in Node |-> [u \in User |-> 0]]

Init ==
  /\ users = [u \in User |-> 0]
  /\ verified = {}
  /\ count = None
  /\ req = [r \in Request |-> Idle]
  /\ window = None
  /\ sent = None

(* findById and findByEmail of UserRepository find a row. *)
HasRow(u) == users[u] > 0

(* The count of rows with an email, for the validation of a sign-up. *)
exitsEmail(u) == users[u] > 0

Begin(r, pc, u) ==
  /\ req[r].pc = "idle"
  /\ req' = [req EXCEPT ![r] = [pc |-> pc, user |-> u, seen |-> 0]]

Goto(r, pc) == req' = [req EXCEPT ![r].pc = pc]
End(r) == req' = [req EXCEPT ![r] = Idle]

-----------------------------------------------------------------------------
(* POST auth/signup: SignupValidation has not found the email in use, and  *)
(* the password is hashed before the row is inserted.                      *)
BeginSignup(r, u) ==
  /\ ~exitsEmail(u)
  /\ Begin(r, "create", u)
  /\ UNCHANGED <<users, verified, count, window, sent>>

(* A bug of CreateUser: the email is not a unique column. *)
CreateUserAnyway(r) ==
  /\ req[r].pc = "create"
  /\ users' = [users EXCEPT ![req[r].user] = @ + 1]
  /\ Goto(r, "count")
  /\ UNCHANGED <<verified, count, window, sent>>

(* The insert throws when the email was taken since: a 500. *)
CreateUser(r) ==
  /\ req[r].pc = "create"
  /\ IF users[req[r].user] = 0
     THEN users' = [users EXCEPT ![req[r].user] = 1] /\ Goto(r, "count")
     ELSE End(r) /\ UNCHANGED users
  /\ UNCHANGED <<verified, count, window, sent>>

(* GET auth/verify: a mail is asked for again; a known and verified user   *)
(* and an unknown one get the same 204 and no mail.                        *)
BeginResend(r, u) ==
  /\ HasRow(u)
  /\ u \notin verified
  /\ Begin(r, "count", u)
  /\ UNCHANGED <<users, verified, count, window, sent>>

(* A bug of ReadCount: the counter may pass the limit by one. *)
ReadCountOffByOne(r) ==
  LET c == count[NodeOf[r]][req[r].user] IN
  /\ req[r].pc = "count"
  /\ IF c > MAX_EMAILS THEN End(r)
     ELSE req' = [req EXCEPT ![r] = [pc |-> "mail", user |-> req[r].user, seen |-> c]]
  /\ UNCHANGED <<users, verified, count, window, sent>>

(* sendVerificationEmail: at the limit there is no mail. *)
ReadCount(r) ==
  LET c == count[NodeOf[r]][req[r].user] IN
  /\ req[r].pc = "count"
  /\ IF c >= MAX_EMAILS THEN End(r)
     ELSE req' = [req EXCEPT ![r] = [pc |-> "mail", user |-> req[r].user, seen |-> c]]
  /\ UNCHANGED <<users, verified, count, window, sent>>

SendMail(r) ==
  LET n == NodeOf[r]
      u == req[r].user
  IN
  /\ req[r].pc = "mail"
  /\ sent[n][u] < MaxSent
  /\ window' = [window EXCEPT ![n][u] = @ + 1]
  /\ sent' = [sent EXCEPT ![n][u] = @ + 1]
  /\ Goto(r, "set")
  /\ UNCHANGED <<users, verified, count>>

(* A bug of MailThrows: the counter is written all the same. *)
MailThrowsCounted(r) ==
  /\ req[r].pc = "mail"
  /\ Goto(r, "set")
  /\ UNCHANGED <<users, verified, count, window, sent>>

(* The mailer throws, with or without having delivered the mail: a 500,    *)
(* and the counter is not written.  The row of a sign-up stays.            *)
MailThrows(r) ==
  /\ req[r].pc = "mail"
  /\ End(r)
  /\ UNCHANGED <<users, verified, count, window, sent>>

(* A bug of SetCount: what was read is written back. *)
SetCountUnchanged(r) ==
  /\ req[r].pc = "set"
  /\ count' = [count EXCEPT ![NodeOf[r]][req[r].user] = req[r].seen]
  /\ End(r)
  /\ UNCHANGED <<users, verified, window, sent>>

SetCount(r) ==
  /\ req[r].pc = "set"
  /\ count' = [count EXCEPT ![NodeOf[r]][req[r].user] = req[r].seen + 1]
  /\ End(r)
  /\ UNCHANGED <<users, verified, window, sent>>

-----------------------------------------------------------------------------
(* POST auth/verify with a JWT: verifyUser reads the user, and there is    *)
(* nothing to do for one that is verified already.                         *)
BeginVerify(r, u) ==
  /\ HasRow(u)
  /\ u \notin verified
  /\ Begin(r, "verify", u)
  /\ UNCHANGED <<users, verified, count, window, sent>>

MarkVerified(r) ==
  /\ req[r].pc = "verify"
  /\ verified' = verified \cup {req[r].user}
  /\ End(r)
  /\ UNCHANGED <<users, count, window, sent>>

-----------------------------------------------------------------------------
(* The hour of the counter passes (or the store evicts it). *)
Expire(n, u) ==
  /\ count[n][u] > 0
  /\ count' = [count EXCEPT ![n][u] = 0]
  /\ window' = [window EXCEPT ![n][u] = 0]
  /\ UNCHANGED <<users, verified, req, sent>>

(* A process stops and starts again with empty counters. *)
Crash(n) ==
  /\ count' = [count EXCEPT ![n] = None[n]]
  /\ window' = [window EXCEPT ![n] = None[n]]
  /\ sent' = [sent EXCEPT ![n] = None[n]]
  /\ req' = [r \in Request |-> IF NodeOf[r] = n THEN Idle ELSE req[r]]
  /\ UNCHANGED <<users, verified>>

Step(r) ==
  \/ CreateUser(r) \/ ReadCount(r) \/ SendMail(r) \/ MailThrows(r)
  \/ SetCount(r) \/ MarkVerified(r)

Next ==
  \/ \E r \in Request :
       \/ \E u \in User : BeginSignup(r, u) \/ BeginResend(r, u) \/ BeginVerify(r, u)
       \/ Step(r)
  \/ \E n \in Node, u \in User : Expire(n, u)
  \/ \E n \in Node : Crash(n)

Spec == Init /\ [][Next]_vars
-----------------------------------------------------------------------------
(* Two sign-ups that both found the email free end up with one user: the   *)
(* second insert runs into the unique column.                              *)
OneUserPerEmail == \A u \in User : users[u] <= 1

(* A process that serves one request at a time. *)
OneAtATime(n) == \A r, q \in Request : NodeOf[r] = n /\ NodeOf[q] = n => r = q

(* Such a process sends a user at most MAX_EMAILS mails before its counter *)
(* expires, of those the mailer confirms.  (Requests that overlap lose each*)
(* other's increments and may send more; a mail that is delivered and not  *)
(* confirmed is not counted.)                                              *)
MailBudget ==
  \A n \in Node : OneAtATime(n) => \A u \in User : window[n][u] <= MAX_EMAILS

(* Every request of n is served in one of two slots. *)
TwoAtATime(n) ==
  \E r, q \in Request : \A p \in Request : NodeOf[p] = n => p \in {r, q}

(* The mails that two overlapping handlers can send before the counter     *)
(* expires: the one that writes last can take the counter back each time.  *)
OverlapLimit == (MAX_EMAILS * (MAX_EMAILS + 3)) \div 2

(* Requests that overlap lose each other's increments, but the limit still *)
(* bounds the mails: with two of them at a time, a user is sent at most    *)
(* OverlapLimit before the counter expires, whatever is lost.              *)
OverlapBudget ==
  \A n \in Node : TwoAtATime(n) => \A u \in User : window[n][u] <= OverlapLimit

(* Nobody is refused a mail before that many were really sent, however     *)
(* requests interleave: the counter never runs ahead of the mails, failed  *)
(* ones included.                                                          *)
NoEarlyRefusal ==
  \A n \in Node, u \in User : count[n][u] <= sent[n][u]
=============================================================================
