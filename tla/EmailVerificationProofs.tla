---------------------- MODULE EmailVerificationProofs ----------------------
(***************************************************************************)
(* Proofs about EmailVerification for any number of users, handlers and    *)
(* processes, and any bound on the mails of a process.                     *)
(*                                                                         *)
(* What a handler has read of the counter, and of the user, is old when it *)
(* is used.  The inductive invariant is TypeInv /\ Safety /\ Overlap.      *)
(* Backed says what the handler can still rely on; Budget compares the     *)
(* mails of a window with the counter, or with what the only handler of a  *)
(* process is about to write to it; Overlap does so for two handlers that  *)
(* overwrite each other's increments.                                      *)
(***************************************************************************)
EXTENDS EmailVerification, TLAPS

(* The types, and that every handler serves a user. *)
TypeInv == TypeOK /\ \A r \in Request : req[r].pc # "idle" => req[r].user \in User

(* What a handler can still rely on: the mails behind the counter it has   *)
(* read, and all mails of the window when nobody else of its process       *)
(* counts.                                                                 *)
Backed(r) == LET h == req[r]
                 n == NodeOf[r]
             IN
  /\ h.pc = "mail" => /\ h.seen <= sent[n][h.user]
                      /\ OneAtATime(n) => window[n][h.user] <= h.seen
  /\ h.pc = "set" => /\ h.seen + 1 <= sent[n][h.user]
                     /\ OneAtATime(n) => window[n][h.user] <= h.seen + 1

(* A handler of n has sent u a mail that it has not counted yet. *)
Counting(n, u) ==
  \E r \in Request : NodeOf[r] = n /\ req[r].pc = "set" /\ req[r].user = u

(* On a process that serves one request at a time the counter is not       *)
(* behind the mails, but for one its handler is about to count.            *)
Budget ==
  \A n \in Node, u \in User :
    OneAtATime(n) /\ ~Counting(n, u) => window[n][u] <= count[n][u]

(* A process confirms no mail twice. *)
Confirmed == \A n \in Node, u \in User : window[n][u] <= sent[n][u]

Safety ==
  /\ \A r \in Request : Backed(r)
  /\ Budget
  /\ Confirmed
  /\ OneUserPerEmail
  /\ NoEarlyRefusal

-----------------------------------------------------------------------------
(* Nothing has been counted, sent or verified in the initial state. *)
LEMMA InvInit == Init => TypeInv /\ Safety
<1> SUFFICES ASSUME Init PROVE TypeInv /\ Safety
  OBVIOUS
<1>1. TypeInv
  BY MaxSentAssumption
     DEF Init, TypeInv, TypeOK, Idle, Handler, Pc, None, MAX_EMAILS
<1>2. Safety
  BY NodeOfAssumption
     DEF Init, Safety, Backed, Budget, Counting, Confirmed, OneUserPerEmail, NoEarlyRefusal,
         Idle, None
<1> QED
  BY <1>1, <1>2

(* What writing one counter of one process does. *)
LEMMA Writes ==
  ASSUME NEW S, NEW f \in [Node -> [User -> S]], NEW n \in Node, NEW u \in User, NEW v \in S
  PROVE  LET g == [f EXCEPT ![n][u] = v] IN
         /\ g \in [Node -> [User -> S]]
         /\ g[n][u] = v
         /\ \A m \in Node, w \in User : m # n \/ w # u => g[m][w] = f[m][w]
OBVIOUS

(* What becomes of the handlers when one begins, goes on or ends. *)
LEMMA Begins ==
  ASSUME TypeInv, NEW r \in Request, NEW pc \in Pc, NEW u \in User, Begin(r, pc, u)
  PROVE  /\ req' \in [Request -> Handler] /\ req[r].pc = "idle"
         /\ req'[r].pc = pc /\ req'[r].user = u /\ req'[r].seen = 0
         /\ \A q \in Request \ {r} : req'[q] = req[q]
<1>1. [pc |-> pc, user |-> u, seen |-> 0] \in Handler
  BY DEF Handler, MAX_EMAILS
<1> QED
  BY <1>1 DEF TypeInv, TypeOK, Begin

(* The same of a handler that goes on. *)
LEMMA Goes ==
  ASSUME TypeInv, NEW r \in Request, NEW pc \in Pc, Goto(r, pc)
  PROVE  /\ req' \in [Request -> Handler]
         /\ req'[r].pc = pc /\ req'[r].user = req[r].user /\ req'[r].seen = req[r].seen
         /\ \A q \in Request \ {r} : req'[q] = req[q]
BY DEF TypeInv, TypeOK, Goto, Handler

(* The same of a handler that ends. *)
LEMMA Ends ==
  ASSUME TypeInv, NEW r \in Request, End(r)
  PROVE  /\ req' \in [Request -> Handler]
         /\ req'[r].pc = "idle"
         /\ \A q \in Request \ {r} : req'[q] = req[q]
<1>1. Idle \in Handler
  BY DEF Idle, Handler, Pc, MAX_EMAILS
<1> QED
  BY <1>1 DEF TypeInv, TypeOK, End, Idle

(* The same of a handler that has read the counter. *)
LEMMA Reads ==
  ASSUME TypeInv, NEW r \in Request, ReadCount(r), ~End(r)
  PROVE  /\ req' \in [Request -> Handler] /\ req[r].pc = "count"
         /\ req'[r].pc = "mail" /\ req'[r].user = req[r].user
         /\ req'[r].seen = count[NodeOf[r]][req[r].user]
         /\ \A q \in Request \ {r} : req'[q] = req[q]
<1> DEFINE c == count[NodeOf[r]][req[r].user]
           h == [pc |-> "mail", user |-> req[r].user, seen |-> c]
<1>1. req[r] \in Handler /\ req[r].user \in User /\ NodeOf[r] \in Node
  BY NodeOfAssumption DEF TypeInv, TypeOK, ReadCount
<1>2. c \in 0..MAX_EMAILS - 1
  <2>1. count[NodeOf[r]] \in [User -> 0..MAX_EMAILS]
    BY <1>1 DEF TypeInv, TypeOK
  <2>2. c \in 0..MAX_EMAILS /\ ~(c >= MAX_EMAILS)
    BY <1>1, <2>1 DEF ReadCount
  <2> QED
    BY <2>2 DEF MAX_EMAILS
<1>3. req' = [req EXCEPT ![r] = h]
  BY DEF ReadCount
<1>4. h \in Handler
  BY <1>1, <1>2 DEF Handler, Pc
<1> QED
  BY <1>3, <1>4 DEF TypeInv, TypeOK, ReadCount

(* The counters are integers, and so is what is written back. *)
LEMMA Numbers ==
  ASSUME TypeInv
  PROVE  /\ count \in [Node -> [User -> Int]]
         /\ \A r \in Request : req[r].seen + 1 \in Int
<1>1. 0..MAX_EMAILS \subseteq Int /\ 0..MAX_EMAILS - 1 \subseteq Int
  BY DEF MAX_EMAILS
<1>2. ASSUME NEW n \in Node PROVE count[n] \in [User -> Int]
  <2>1. count[n] \in [User -> 0..MAX_EMAILS]
    BY DEF TypeInv, TypeOK
  <2> QED
    BY <1>1, <2>1
<1>3. \A r \in Request : req[r].seen \in 0..MAX_EMAILS - 1
  BY DEF TypeInv, TypeOK, Handler
<1> QED
  BY <1>1, <1>2, <1>3 DEF TypeInv, TypeOK

(* Every action keeps the types. *)
LEMMA TypeInvNext ==
  ASSUME TypeInv, Safety, [Next]_vars
  PROVE  TypeInv'
<1> USE NodeOfAssumption, MaxSentAssumption
    DEF TypeInv, TypeOK
<1>1. ASSUME NEW r \in Request, NEW u \in User,
             BeginSignup(r, u) \/ BeginResend(r, u) \/ BeginVerify(r, u)
      PROVE  TypeInv'
  <2>1. PICK pc \in {"create", "count", "verify"} : Begin(r, pc, u)
    BY <1>1 DEF BeginSignup, BeginResend, BeginVerify
  <2>2. /\ req' \in [Request -> Handler] /\ req'[r].user = u
        /\ \A q \in Request \ {r} : req'[q] = req[q]
    BY <2>1, Begins DEF Pc
  <2>3. UNCHANGED <<users, verified, count, window, sent>>
    BY <1>1 DEF BeginSignup, BeginResend, BeginVerify
  <2> QED
    BY <2>2, <2>3
<1>2. ASSUME NEW r \in Request, CreateUser(r)
      PROVE  TypeInv'
  <2>1. req[r].user \in User
    BY <1>2 DEF CreateUser
  <2>2. users' \in [User -> Nat]
    BY <1>2, <2>1 DEF CreateUser
  <2>3. CASE End(r)
    BY <1>2, <2>2, <2>3, Ends DEF CreateUser
  <2>4. CASE Goto(r, "count")
    BY <1>2, <2>1, <2>2, <2>4, Goes DEF CreateUser, Pc
  <2> QED
    BY <1>2, <2>3, <2>4 DEF CreateUser
<1>3. ASSUME NEW r \in Request, ReadCount(r)
      PROVE  TypeInv'
  <2>1. CASE End(r)
    BY <2>1, <1>3, Ends DEF ReadCount
  <2>2. CASE ~End(r)
    BY <2>2, <1>3, Reads DEF ReadCount
  <2> QED
    BY <2>1, <2>2
<1>4. ASSUME NEW r \in Request, SendMail(r)
      PROVE  TypeInv'
  <2> DEFINE n == NodeOf[r]
             u == req[r].user
  <2>1. n \in Node /\ u \in User
    BY <1>4 DEF SendMail
  <2>2. sent[n][u] + 1 \in 0..MaxSent /\ window[n][u] + 1 \in 0..MaxSent
    <3>1. sent[n] \in [User -> 0..MaxSent] /\ window[n] \in [User -> 0..MaxSent]
      BY <2>1
    <3>2. sent[n][u] < MaxSent /\ window[n][u] <= sent[n][u]
      BY <1>4, <2>1 DEF SendMail, Safety, Confirmed
    <3> QED
      BY <2>1, <3>1, <3>2
  <2>3. /\ window' \in [Node -> [User -> 0..MaxSent]]
        /\ sent' \in [Node -> [User -> 0..MaxSent]]
    BY <1>4, <2>1, <2>2, Writes DEF SendMail
  <2> QED
    BY <1>4, <2>1, <2>3, Goes DEF SendMail, Pc
<1>5. ASSUME NEW r \in Request, MailThrows(r)
      PROVE  TypeInv'
  BY <1>5, Ends DEF MailThrows
<1>6. ASSUME NEW r \in Request, SetCount(r)
      PROVE  TypeInv'
  <2>1. NodeOf[r] \in Node /\ req[r].user \in User
    BY <1>6 DEF SetCount
  <2>2. req[r].seen + 1 \in 0..MAX_EMAILS
    <3>1. req[r].seen \in 0..MAX_EMAILS - 1
      BY DEF Handler
    <3> QED
      BY <3>1 DEF MAX_EMAILS
  <2>3. count' \in [Node -> [User -> 0..MAX_EMAILS]]
    BY <1>6, <2>1, <2>2, Writes DEF SetCount
  <2> QED
    BY <1>6, <2>3, Ends DEF SetCount
<1>7. ASSUME NEW r \in Request, MarkVerified(r)
      PROVE  TypeInv'
  BY <1>7, Ends DEF MarkVerified
<1>8. ASSUME NEW n \in Node, NEW u \in User, Expire(n, u)
      PROVE  TypeInv'
  <2>1. 0 \in 0..MAX_EMAILS /\ 0 \in 0..MaxSent
    BY DEF MAX_EMAILS
  <2>2. /\ count' \in [Node -> [User -> 0..MAX_EMAILS]]
        /\ window' \in [Node -> [User -> 0..MaxSent]]
    BY <1>8, <2>1, Writes DEF Expire
  <2> QED
    BY <1>8, <2>2 DEF Expire
<1>9. ASSUME NEW n \in Node, Crash(n)
      PROVE  TypeInv'
  BY <1>9 DEF Crash, None, Idle, Handler, Pc, MAX_EMAILS
<1>10. CASE UNCHANGED vars
  BY <1>10 DEF vars
<1> QED
  BY <1>1, <1>2, <1>3, <1>4, <1>5, <1>6, <1>7, <1>8, <1>9, <1>10 DEF Next, Step
-----------------------------------------------------------------------------
(* A handler keeps what it relies on when mails are only added, and none   *)
(* to a window it alone counts.                                            *)
LEMMA Stays ==
  ASSUME TypeInv, TypeInv', NEW q \in Request, Backed(q), req'[q] = req[q],
         \A n \in Node, u \in User :
           sent[n][u] <= sent'[n][u] \/ NodeOf[q] # n,
         \A n \in Node, u \in User :
           window'[n][u] <= window[n][u] \/ NodeOf[q] # n \/ ~OneAtATime(n)
  PROVE  Backed(q)'
<1> DEFINE n == NodeOf[q]
           u == req[q].user
<1>1. CASE req[q].pc = "idle"
  BY <1>1 DEF Backed
<1>2. CASE req[q].pc # "idle"
  <2>1. n \in Node /\ u \in User
    BY <1>2, NodeOfAssumption DEF TypeInv
  <2>2. /\ sent[n] \in [User -> 0..MaxSent] /\ window[n] \in [User -> 0..MaxSent]
        /\ sent'[n] \in [User -> 0..MaxSent] /\ window'[n] \in [User -> 0..MaxSent]
    BY <2>1 DEF TypeInv, TypeOK
  <2>3. /\ sent[n][u] \in Int /\ window[n][u] \in Int
        /\ sent'[n][u] \in Int /\ window'[n][u] \in Int
    BY <2>1, <2>2, MaxSentAssumption
  <2>4. req[q].seen \in Int
    BY DEF TypeInv, TypeOK, Handler
  <2>5. sent[n][u] <= sent'[n][u] /\ (OneAtATime(n) => window'[n][u] <= window[n][u])
    BY <2>1
  <2> QED
    BY <2>1, <2>3, <2>4, <2>5 DEF Backed
<1> QED
  BY <1>1, <1>2

(* When neither counters nor mails change, and no handler enters or leaves *)
(* "set", the budget stays.                                                *)
LEMMA BudgetStays ==
  ASSUME Budget, UNCHANGED <<count, window>>,
         NEW r \in Request, \A q \in Request \ {r} : req'[q] = req[q],
         req[r].pc # "set", req'[r].pc # "set"
  PROVE  Budget'
<1>1. \A n \in Node, u \in User : Counting(n, u) => Counting(n, u)'
  BY DEF Counting
<1> QED
  BY <1>1 DEF Budget

(* A handler that begins relies on nothing yet. *)
LEMMA BeginSafe ==
  ASSUME TypeInv, Safety, TypeInv', NEW r \in Request, NEW u \in User,
         BeginSignup(r, u) \/ BeginResend(r, u) \/ BeginVerify(r, u)
  PROVE  Safety'
<1>1. PICK pc \in {"create", "count", "verify"} :
        Begin(r, pc, u)
  BY DEF BeginSignup, BeginResend, BeginVerify
<1>2. UNCHANGED <<users, verified, count, window, sent>>
  BY DEF BeginSignup, BeginResend, BeginVerify
<1>3. /\ req[r].pc = "idle" /\ req'[r].pc = pc /\ req'[r].user = u
      /\ \A q \in Request \ {r} : req'[q] = req[q]
  BY <1>1, Begins DEF Pc
<1>4. \A q \in Request : Backed(q)'
  BY <1>1, <1>2, <1>3 DEF Safety, Backed
<1>5. Budget'
  BY <1>2, <1>3, BudgetStays DEF Safety
<1> QED
  BY <1>2, <1>4, <1>5
     DEF Safety, Confirmed, OneUserPerEmail, NoEarlyRefusal

(* The insert adds the row of a user that has none. *)
LEMMA CreateUserSafe ==
  ASSUME TypeInv, Safety, TypeInv', NEW r \in Request, CreateUser(r)
  PROVE  Safety'
<1>1. UNCHANGED <<verified, count, window, sent>> /\ req[r].pc = "create"
  BY DEF CreateUser
<1>2. /\ req'[r].pc \in {"idle", "count"}
      /\ \A q \in Request \ {r} : req'[q] = req[q]
  BY Goes, Ends DEF CreateUser, Pc
<1>3. \A u \in User : users'[u] <= 1
  BY DEF CreateUser, Safety, OneUserPerEmail, TypeInv, TypeOK
<1>4. \A q \in Request : Backed(q)'
  <2>1. \A q \in Request \ {r} : Backed(q)'
    BY <1>1, <1>2, <1>3 DEF Safety, Backed, TypeInv
  <2>2. Backed(r)'
    BY <1>2 DEF Backed
  <2> QED
    BY <2>1, <2>2
<1>5. Budget'
  BY <1>1, <1>2, BudgetStays DEF Safety
<1> QED
  BY <1>1, <1>3, <1>4, <1>5
     DEF Safety, Confirmed, OneUserPerEmail, NoEarlyRefusal, TypeInv, TypeOK

(* The counter a handler reads is backed by mails, and no mail is left out *)
(* of it when nobody else of the process counts.                           *)
LEMMA ReadCountSafe ==
  ASSUME TypeInv, Safety, TypeInv', NEW r \in Request, ReadCount(r)
  PROVE  Safety'
<1>1. UNCHANGED <<users, verified, count, window, sent>> /\ req[r].pc = "count"
  BY DEF ReadCount
<1>2. /\ req'[r].pc \in {"idle", "mail"}
      /\ \A q \in Request \ {r} : req'[q] = req[q]
  BY Reads, Ends
<1>3. Backed(r)'
  <2>1. CASE End(r)
    BY <2>1, Ends DEF Backed
  <2>2. CASE ~End(r)
    <3> DEFINE n == NodeOf[r]
               u == req[r].user
    <3>1. n \in Node /\ u \in User
      BY <1>1, NodeOfAssumption DEF TypeInv
    <3>2. req'[r].pc = "mail" /\ req'[r].user = u /\ req'[r].seen = count[n][u]
      BY <2>2, Reads
    <3>3. count[n][u] <= sent[n][u]
      BY <3>1 DEF Safety, NoEarlyRefusal
    <3>4. OneAtATime(n) => ~Counting(n, u)
      BY <1>1 DEF OneAtATime, Counting
    <3>5. OneAtATime(n) => window[n][u] <= count[n][u]
      BY <3>1, <3>4 DEF Safety, Budget
    <3> QED
      BY <1>1, <3>2, <3>3, <3>5 DEF Backed
  <2> QED
    BY <2>1, <2>2
<1>4. \A q \in Request : Backed(q)'
  BY <1>1, <1>2, <1>3 DEF Safety, Backed
<1>5. Budget'
  BY <1>1, <1>2, BudgetStays DEF Safety
<1> QED
  BY <1>1, <1>4, <1>5
     DEF Safety, Confirmed, OneUserPerEmail, NoEarlyRefusal

(* A confirmed mail adds one to the window and to all mails, and its      *)
(* handler, the only one of its process if requests do not overlap, knows. *)
LEMMA SendMailSafe ==
  ASSUME TypeInv, Safety, TypeInv', NEW r \in Request, SendMail(r)
  PROVE  Safety'
<1> DEFINE n == NodeOf[r]
           u == req[r].user
<1>1. /\ n \in Node /\ u \in User /\ req[r].pc = "mail"
      /\ UNCHANGED <<users, verified, count>>
  BY NodeOfAssumption DEF SendMail, TypeInv
<1>2. /\ req'[r].pc = "set" /\ req'[r].user = u /\ req'[r].seen = req[r].seen
      /\ \A q \in Request \ {r} : req'[q] = req[q]
  BY Goes DEF SendMail, Pc
<1>3. /\ window \in [Node -> [User -> Int]] /\ sent \in [Node -> [User -> Int]]
      /\ req[r].seen \in Int
  BY MaxSentAssumption DEF TypeInv, TypeOK, Handler
<1>4. /\ sent'[n][u] = sent[n][u] + 1 /\ window'[n][u] = window[n][u] + 1
      /\ \A m \in Node, w \in User : m # n \/ w # u =>
           sent'[m][w] = sent[m][w] /\ window'[m][w] = window[m][w]
  <2>1. sent[n][u] + 1 \in Int /\ window[n][u] + 1 \in Int
    BY <1>1, <1>3
  <2> QED
    BY <1>1, <1>3, <2>1, Writes DEF SendMail
<1>5. \A m \in Node, w \in User : sent[m][w] <= sent'[m][w]
  BY <1>1, <1>3, <1>4
<1>6. ASSUME NEW q \in Request
      PROVE  Backed(q)'
  <2>1. CASE q = r
    BY <2>1, <1>1, <1>2, <1>3, <1>4 DEF Safety, Backed
  <2>2. CASE q # r
    <3>1. \A m \in Node, w \in User :
            window'[m][w] <= window[m][w] \/ NodeOf[q] # m \/ ~OneAtATime(m)
      BY <2>2, <1>1, <1>3, <1>4 DEF OneAtATime
    <3> QED
      BY <2>2, <3>1, <1>1, <1>2, <1>5, Stays DEF Safety
  <2> QED
    BY <2>1, <2>2
<1>7. Budget'
  <2> SUFFICES ASSUME NEW m \in Node, NEW w \in User, OneAtATime(m), ~Counting(m, w)'
               PROVE  window'[m][w] <= count'[m][w]
    BY DEF Budget, OneAtATime
  <2>1. m # n \/ w # u
    BY <1>2 DEF Counting
  <2>2. ~Counting(m, w)
    BY <1>1, <1>2 DEF Counting
  <2> QED
    BY <2>1, <2>2, <1>1, <1>4 DEF Safety, Budget
<1>8. Confirmed'
  BY <1>1, <1>3, <1>4 DEF Safety, Confirmed
<1>9. NoEarlyRefusal'
  <2>1. count \in [Node -> [User -> Int]]
    BY Numbers
  <2>2. sent' \in [Node -> [User -> Int]]
    BY MaxSentAssumption DEF TypeInv, TypeOK
  <2>3. \A m \in Node, w \in User : count[m][w] <= sent[m][w]
    BY DEF Safety, NoEarlyRefusal
  <2>4. \A m \in Node, w \in User : count[m][w] <= sent'[m][w]
    BY <2>1, <2>2, <2>3, <1>3, <1>5
  <2> QED
    BY <1>1, <2>4 DEF NoEarlyRefusal
<1> QED
  BY <1>1, <1>6, <1>7, <1>8, <1>9 DEF Safety, OneUserPerEmail

(* A mail that is not confirmed is not counted. *)
LEMMA MailThrowsSafe ==
  ASSUME TypeInv, Safety, TypeInv', NEW r \in Request, MailThrows(r)
  PROVE  Safety'
<1>1. UNCHANGED <<users, verified, count, window, sent>> /\ req[r].pc = "mail"
  BY DEF MailThrows
<1>2. req'[r].pc = "idle" /\ \A q \in Request \ {r} : req'[q] = req[q]
  BY Ends DEF MailThrows
<1>3. \A q \in Request : Backed(q)'
  BY <1>1, <1>2 DEF Safety, Backed
<1>4. Budget'
  BY <1>1, <1>2, BudgetStays DEF Safety
<1> QED
  BY <1>1, <1>3, <1>4
     DEF Safety, Confirmed, OneUserPerEmail, NoEarlyRefusal

(* The counter is written back with the mail its handler has sent. *)
LEMMA SetCountSafe ==
  ASSUME TypeInv, Safety, TypeInv', NEW r \in Request, SetCount(r)
  PROVE  Safety'
<1> DEFINE n == NodeOf[r]
           u == req[r].user
<1>1. /\ n \in Node /\ u \in User /\ req[r].pc = "set"
      /\ UNCHANGED <<users, verified, window, sent>>
  BY NodeOfAssumption DEF SetCount, TypeInv
<1>2. req'[r].pc = "idle" /\ \A q \in Request \ {r} : req'[q] = req[q]
  BY Ends DEF SetCount
<1>3. /\ count'[n][u] = req[r].seen + 1
      /\ \A m \in Node, w \in User : m # n \/ w # u => count'[m][w] = count[m][w]
  <2>1. count \in [Node -> [User -> Int]] /\ req[r].seen + 1 \in Int
    BY Numbers
  <2> QED
    BY <1>1, <2>1, Writes DEF SetCount
<1>4. /\ req[r].seen + 1 <= sent[n][u]
      /\ OneAtATime(n) => window[n][u] <= req[r].seen + 1
  BY <1>1 DEF Safety, Backed
<1>5. \A q \in Request : Backed(q)'
  BY <1>1, <1>2 DEF Safety, Backed
<1>6. Budget'
  <2> SUFFICES ASSUME NEW m \in Node, NEW w \in User, OneAtATime(m), ~Counting(m, w)'
               PROVE  window[m][w] <= count'[m][w]
    BY <1>1 DEF Budget, OneAtATime
  <2>1. CASE m = n /\ w = u
    BY <2>1, <1>3, <1>4
  <2>2. CASE m # n \/ w # u
    <3>1. ~Counting(m, w)
      BY <2>2, <1>2 DEF Counting
    <3> QED
      BY <2>2, <3>1, <1>3 DEF Safety, Budget
  <2> QED
    BY <2>1, <2>2
<1>7. NoEarlyRefusal'
  BY <1>1, <1>3, <1>4 DEF Safety, NoEarlyRefusal
<1> QED
  BY <1>1, <1>5, <1>6, <1>7
     DEF Safety, Confirmed, OneUserPerEmail

(* A verification touches neither counters nor mails. *)
LEMMA MarkVerifiedSafe ==
  ASSUME TypeInv, Safety, TypeInv', NEW r \in Request, MarkVerified(r)
  PROVE  Safety'
<1>1. UNCHANGED <<users, count, window, sent>> /\ req[r].pc = "verify"
  BY DEF MarkVerified
<1>2. req'[r].pc = "idle" /\ \A q \in Request \ {r} : req'[q] = req[q]
  BY Ends DEF MarkVerified
<1>3. \A q \in Request : Backed(q)'
  BY <1>1, <1>2 DEF Safety, Backed
<1>4. Budget'
  BY <1>1, <1>2, BudgetStays DEF Safety
<1> QED
  BY <1>1, <1>3, <1>4 DEF Safety, Confirmed, OneUserPerEmail, NoEarlyRefusal

(* The counter and the window go together. *)
LEMMA ExpireSafe ==
  ASSUME TypeInv, Safety, TypeInv', NEW n \in Node, NEW u \in User, Expire(n, u)
  PROVE  Safety'
<1>1. UNCHANGED <<users, verified, req, sent>>
  BY DEF Expire
<1>2. /\ count'[n][u] = 0 /\ window'[n][u] = 0
      /\ \A m \in Node, w \in User : m # n \/ w # u =>
           count'[m][w] = count[m][w] /\ window'[m][w] = window[m][w]
  <2>1. /\ count \in [Node -> [User -> Int]] /\ window \in [Node -> [User -> Int]]
        /\ 0 \in Int
    BY Numbers, MaxSentAssumption DEF TypeInv, TypeOK
  <2> QED
    BY <2>1, Writes DEF Expire
<1>3. /\ window \in [Node -> [User -> Nat]] /\ sent \in [Node -> [User -> Nat]]
  BY MaxSentAssumption DEF TypeInv, TypeOK
<1>4. ASSUME NEW q \in Request
      PROVE  Backed(q)'
  <2>1. \A m \in Node, w \in User : window'[m][w] <= window[m][w]
    BY <1>2, <1>3
  <2>2. \A m \in Node, w \in User : sent[m][w] <= sent'[m][w]
    BY <1>1, <1>3
  <2> QED
    BY <2>1, <2>2, <1>1, Stays DEF Safety
<1>5. Budget'
  <2>1. \A m \in Node, w \in User : Counting(m, w)' <=> Counting(m, w)
    BY <1>1 DEF Counting
  <2>2. 0 <= 0
    OBVIOUS
  <2> QED
    BY <1>1, <1>2, <2>1, <2>2 DEF Safety, Budget, OneAtATime
<1>6. ASSUME NEW m \in Node, NEW w \in User
      PROVE  window'[m][w] <= sent'[m][w] /\ count'[m][w] <= sent'[m][w]
  <2>1. CASE m = n /\ w = u
    BY <1>1, <1>2, <1>3, <2>1
  <2>2. CASE m # n \/ w # u
    BY <1>1, <1>2, <2>2 DEF Safety, Confirmed, NoEarlyRefusal
  <2> QED
    BY <2>1, <2>2
<1>7. Confirmed' /\ NoEarlyRefusal'
  BY <1>6 DEF Confirmed, NoEarlyRefusal
<1> QED
  BY <1>1, <1>4, <1>5, <1>7 DEF Safety, OneUserPerEmail

(* A process that starts again has sent nothing and counts nothing, and its*)
(* handlers are gone.                                                      *)
LEMMA CrashSafe ==
  ASSUME TypeInv, Safety, TypeInv', NEW n \in Node, Crash(n)
  PROVE  Safety'
<1>1. UNCHANGED <<users, verified>>
  BY DEF Crash
<1>2. /\ \A u \in User : count'[n][u] = 0 /\ window'[n][u] = 0 /\ sent'[n][u] = 0
      /\ \A m \in Node \ {n} :
           count'[m] = count[m] /\ window'[m] = window[m] /\ sent'[m] = sent[m]
  BY DEF Crash, None, TypeInv, TypeOK
<1>3. \A r \in Request : IF NodeOf[r] = n THEN req'[r].pc = "idle" ELSE req'[r] = req[r]
  BY DEF Crash, Idle
<1>4. ASSUME NEW q \in Request
      PROVE  Backed(q)'
  BY <1>1, <1>2, <1>3, NodeOfAssumption DEF Safety, Backed
<1>5. Budget'
  <2> SUFFICES ASSUME NEW m \in Node, NEW w \in User, OneAtATime(m), ~Counting(m, w)'
               PROVE  window'[m][w] <= count'[m][w]
    BY DEF Budget, OneAtATime
  <2>1. CASE m = n
    BY <2>1, <1>2
  <2>2. CASE m # n
    <3>1. ~Counting(m, w)
      BY <2>2, <1>3 DEF Counting
    <3> QED
      BY <2>2, <3>1, <1>2 DEF Safety, Budget
  <2> QED
    BY <2>1, <2>2
<1>6. Confirmed' /\ NoEarlyRefusal'
  BY <1>2 DEF Safety, Confirmed, NoEarlyRefusal
<1> QED
  BY <1>1, <1>4, <1>5, <1>6 DEF Safety, OneUserPerEmail

(* Every step keeps Safety with the types. *)
LEMMA SafetyNext ==
  ASSUME TypeInv, Safety, [Next]_vars
  PROVE  TypeInv' /\ Safety'
<1>1. TypeInv'
  BY TypeInvNext
<1>2. CASE UNCHANGED vars
  <2>1. UNCHANGED <<users, verified, count, req, window, sent>>
    BY <1>2 DEF vars
  <2>2. \A r \in Request : Backed(r)'
    BY <2>1 DEF Safety, Backed
  <2>3. Budget'
    <3>1. \A n \in Node, u \in User : Counting(n, u)' <=> Counting(n, u)
      BY <2>1 DEF Counting
    <3> QED
      BY <2>1, <3>1 DEF Safety, Budget, OneAtATime
  <2> QED
    BY <1>1, <2>1, <2>2, <2>3
       DEF Safety, Confirmed, OneUserPerEmail, NoEarlyRefusal
<1>3. CASE Next
  BY <1>1, <1>3, BeginSafe, CreateUserSafe, ReadCountSafe, SendMailSafe, MailThrowsSafe,
     SetCountSafe, MarkVerifiedSafe, ExpireSafe, CrashSafe DEF Next, Step
<1> QED
  BY <1>1, <1>2, <1>3

-----------------------------------------------------------------------------
(* Two handlers of one process.  Each writes the counter back one above    *)
(* the base from which it counts, and so can take it back.  What cannot    *)
(* happen is that the lower of the two bases comes back once both handlers *)
(* have left it: each mail that is counted shortens the chain of bases     *)
(* still to come.                                                          *)

(* x is a base of the handler r of n for the mails to u: the counter it has*)
(* read, or the counter, unless r is about to overwrite it.                *)
IsBase(n, u, r, x) ==
  \/ x = req[r].seen /\ req[r].user = u /\ req[r].pc \in {"mail", "set"}
  \/ x = count[n][u] /\ ~(req[r].user = u /\ req[r].pc = "set")

(* The mail to u that r has sent and not counted yet. *)
Uncounted(u, r) == IF req[r].user = u /\ req[r].pc = "set" THEN 1 ELSE 0

(* The mails that two handlers with the bases low and high still send when *)
(* the lower one is written last each time.                                *)
Chain(low, high) ==
  4 - high + (IF low = 0 THEN 5 ELSE IF low = 1 THEN 2 ELSE IF low = 2 THEN 0 ELSE -1)
Left(x, y) == IF x <= y THEN Chain(x, y) ELSE Chain(y, x)

OverlapOf(n, u, r, q) ==
  \A x, y \in 0..3 : IsBase(n, u, r, x) /\ IsBase(n, u, q, y) =>
    window[n][u] + Left(x, y) <= 9 + Uncounted(u, r) + Uncounted(u, q)

(* The slots r and q are those of n. *)
Both(n, r, q) ==
  /\ r # q /\ NodeOf[r] = n /\ NodeOf[q] = n
  /\ \A p \in Request : NodeOf[p] = n => p \in {r, q}

Overlap ==
  \A n \in Node, u \in User, r, q \in Request : Both(n, r, q) => OverlapOf(n, u, r, q)

(* The numbers that OverlapOf compares. *)
LEMMA Ranges ==
  ASSUME TypeInv
  PROVE  /\ \A n \in Node, u \in User : count[n][u] \in 0..3 /\ window[n][u] \in Nat
         /\ \A r \in Request : req[r].seen \in 0..2
<1>1. \A n \in Node : count[n] \in [User -> 0..3] /\ window[n] \in [User -> 0..MaxSent]
  BY DEF TypeInv, TypeOK, MAX_EMAILS
<1>2. 0..MaxSent \subseteq Nat
  BY MaxSentAssumption
<1>3. \A r \in Request : req[r].seen \in 0..2
  BY DEF TypeInv, TypeOK, Handler, MAX_EMAILS
<1> QED
  BY <1>1, <1>2, <1>3

(* The two handlers can change places. *)
LEMMA Symmetric ==
  ASSUME TypeInv, NEW n \in Node, NEW u \in User, NEW r \in Request, NEW q \in Request,
         OverlapOf(n, u, r, q)
  PROVE  OverlapOf(n, u, q, r)
<1> SUFFICES ASSUME NEW x \in 0..3, NEW y \in 0..3, IsBase(n, u, q, x), IsBase(n, u, r, y)
             PROVE  window[n][u] + Left(x, y) <= 9 + Uncounted(u, q) + Uncounted(u, r)
  BY DEF OverlapOf
<1>1. window[n][u] + Left(y, x) <= 9 + Uncounted(u, r) + Uncounted(u, q)
  BY DEF OverlapOf
<1>2. Left(x, y) = Left(y, x)
  BY DEF Left
<1> QED
  BY <1>1, <1>2 DEF Uncounted

(* A step of the handler p alone, which touches the counters and mails of  *)
(* its own process only, has only the pairs of p to keep.                  *)
LEMMA Moves ==
  ASSUME TypeInv, TypeInv', Overlap, NEW p \in Request,
         \A q \in Request \ {p} : req'[q] = req[q],
         \A n \in Node \ {NodeOf[p]}, u \in User :
           count'[n][u] = count[n][u] /\ window'[n][u] = window[n][u],
         \A q \in Request, u \in User :
           Both(NodeOf[p], p, q) /\ OverlapOf(NodeOf[p], u, p, q)
             => OverlapOf(NodeOf[p], u, p, q)'
  PROVE  Overlap'
<1> SUFFICES ASSUME NEW n \in Node, NEW u \in User, NEW r \in Request, NEW q \in Request,
                    Both(n, r, q)
             PROVE  OverlapOf(n, u, r, q)'
  BY DEF Overlap, Both
<1>1. OverlapOf(n, u, r, q) /\ OverlapOf(n, u, q, r) /\ Both(n, q, r)
  BY Symmetric DEF Overlap, Both
<1>2. CASE p = r
  BY <1>1, <1>2 DEF Both
<1>3. CASE p = q
  <2>1. OverlapOf(n, u, q, r)'
    BY <1>1, <1>3 DEF Both
  <2> SUFFICES ASSUME NEW x \in 0..3, NEW y \in 0..3,
                      IsBase(n, u, r, x)', IsBase(n, u, q, y)'
               PROVE  window'[n][u] + Left(x, y) <= 9 + Uncounted(u, r)' + Uncounted(u, q)'
    BY DEF OverlapOf
  <2>2. window'[n][u] + Left(y, x) <= 9 + Uncounted(u, q)' + Uncounted(u, r)'
    BY <2>1 DEF OverlapOf
  <2>3. Left(x, y) = Left(y, x)
    BY DEF Left
  <2> QED
    BY <2>2, <2>3 DEF Uncounted
<1>4. CASE p # r /\ p # q
  <2>1. n # NodeOf[p]
    BY <1>4 DEF Both
  <2>2. /\ count'[n][u] = count[n][u] /\ window'[n][u] = window[n][u]
        /\ req'[r] = req[r] /\ req'[q] = req[q]
    BY <1>4, <2>1
  <2> QED
    BY <1>1, <2>2 DEF OverlapOf, IsBase, Uncounted
<1> QED
  BY <1>2, <1>3, <1>4

(* A step of a handler that neither counts nor sends keeps the chain: it   *)
(* has read the counter, or has given up what it read.                     *)
LEMMA QuietOverlap ==
  ASSUME TypeInv, TypeInv', Overlap, NEW p \in Request,
         \A q \in Request \ {p} : req'[q] = req[q], UNCHANGED <<count, window>>,
         req[p].pc # "set", req'[p].pc # "set",
         req'[p].pc = "mail" => req'[p].seen = count[NodeOf[p]][req'[p].user]
  PROVE  Overlap'
<1> SUFFICES ASSUME NEW q \in Request, NEW u \in User,
                    Both(NodeOf[p], p, q), OverlapOf(NodeOf[p], u, p, q)
             PROVE  OverlapOf(NodeOf[p], u, p, q)'
  BY Moves
<1> DEFINE n == NodeOf[p]
<1>1. req'[q] = req[q] /\ count' = count /\ window' = window
  BY DEF Both
<1>2. \A x : IsBase(n, u, q, x)' => IsBase(n, u, q, x)
  BY <1>1 DEF IsBase
<1>3. \A x : IsBase(n, u, p, x)' => IsBase(n, u, p, x)
  BY <1>1 DEF IsBase
<1>4. Uncounted(u, p)' = Uncounted(u, p) /\ Uncounted(u, q)' = Uncounted(u, q)
  BY <1>1 DEF Uncounted
<1> QED
  BY <1>1, <1>2, <1>3, <1>4 DEF OverlapOf

(* A mail that is sent is one its sender has not counted yet. *)
LEMMA SendOverlap ==
  ASSUME TypeInv, TypeInv', Overlap, NEW p \in Request, SendMail(p)
  PROVE  Overlap'
<1> DEFINE n == NodeOf[p]
           v == req[p].user
<1>1. /\ n \in Node /\ v \in User /\ req[p].pc = "mail" /\ count' = count
  BY NodeOfAssumption DEF SendMail, TypeInv
<1>2. /\ req'[p].pc = "set" /\ req'[p].user = v /\ req'[p].seen = req[p].seen
      /\ \A q \in Request \ {p} : req'[q] = req[q]
  BY Goes DEF SendMail, Pc
<1>3. /\ window'[n][v] = window[n][v] + 1
      /\ \A m \in Node, w \in User : m # n \/ w # v => window'[m][w] = window[m][w]
  <2>1. window \in [Node -> [User -> Int]]
    BY MaxSentAssumption DEF TypeInv, TypeOK
  <2>2. window[n][v] + 1 \in Int
    BY <1>1, <2>1
  <2> QED
    BY <1>1, <2>1, <2>2, Writes DEF SendMail
<1> SUFFICES ASSUME NEW q \in Request, NEW u \in User, Both(n, p, q), OverlapOf(n, u, p, q)
             PROVE  OverlapOf(n, u, p, q)'
  BY <1>1, <1>2, <1>3, Moves
<1>4. req'[q] = req[q]
  BY <1>2 DEF Both
<1> SUFFICES ASSUME NEW x \in 0..3, NEW y \in 0..3, IsBase(n, u, p, x)', IsBase(n, u, q, y)'
             PROVE  window'[n][u] + Left(x, y) <= 9 + Uncounted(u, p)' + Uncounted(u, q)'
  BY DEF OverlapOf
<1>5. IsBase(n, u, p, x) /\ IsBase(n, u, q, y)
  BY <1>1, <1>2, <1>4 DEF IsBase
<1>6. window[n][u] + Left(x, y) <= 9 + Uncounted(u, p) + Uncounted(u, q)
  BY <1>5 DEF OverlapOf
<1>7. window[n][u] \in Int /\ Left(x, y) \in Int
  BY <1>1, Ranges DEF Left, Chain
<1>8. Uncounted(u, q)' = Uncounted(u, q)
  BY <1>4 DEF Uncounted
<1>9. CASE u = v
  <2>1. Uncounted(u, p) = 0 /\ Uncounted(u, p)' = 1 /\ window'[n][u] = window[n][u] + 1
    BY <1>1, <1>2, <1>3, <1>9 DEF Uncounted
  <2>2. Uncounted(u, q) \in Int
    BY DEF Uncounted
  <2> QED
    BY <1>6, <1>7, <1>8, <2>1, <2>2
<1>10. CASE u # v
  <2>1. Uncounted(u, p) = Uncounted(u, p)' /\ window'[n][u] = window[n][u]
    BY <1>1, <1>2, <1>3, <1>10 DEF Uncounted
  <2> QED
    BY <1>6, <1>8, <2>1
<1> QED
  BY <1>9, <1>10

(* Counting a mail leaves the mails left one fewer, from any base of the   *)
(* other handler.                                                          *)
LEMMA ChainShrinks ==
  ASSUME NEW s \in 0..2, NEW y \in 0..3
  PROVE  Left(s + 1, y) + 1 <= Left(s, y) /\ Left(s + 1, s + 1) + 1 <= Left(s, y)
BY DEF Left, Chain

(* A counted mail: the counter is now one above a base of its sender, and  *)
(* the other handler's base is what it was or that counter.                *)
LEMMA SetOverlap ==
  ASSUME TypeInv, TypeInv', Overlap, NEW p \in Request, SetCount(p)
  PROVE  Overlap'
<1> DEFINE n == NodeOf[p]
           v == req[p].user
           s == req[p].seen
<1>1. /\ n \in Node /\ v \in User /\ req[p].pc = "set" /\ window' = window
  BY NodeOfAssumption DEF SetCount, TypeInv
<1>2. req'[p].pc = "idle" /\ \A q \in Request \ {p} : req'[q] = req[q]
  BY Ends DEF SetCount
<1>3. /\ count'[n][v] = s + 1
      /\ \A m \in Node, w \in User : m # n \/ w # v => count'[m][w] = count[m][w]
  <2>1. count \in [Node -> [User -> Int]] /\ s + 1 \in Int
    BY Numbers
  <2> QED
    BY <1>1, <2>1, Writes DEF SetCount
<1> SUFFICES ASSUME NEW q \in Request, NEW u \in User, Both(n, p, q), OverlapOf(n, u, p, q)
             PROVE  OverlapOf(n, u, p, q)'
  BY <1>1, <1>2, <1>3, Moves
<1>4. req'[q] = req[q]
  BY <1>2 DEF Both
<1> SUFFICES ASSUME NEW x \in 0..3, NEW y \in 0..3, IsBase(n, u, p, x)', IsBase(n, u, q, y)'
             PROVE  window'[n][u] + Left(x, y) <= 9 + Uncounted(u, p)' + Uncounted(u, q)'
  BY DEF OverlapOf
<1>5. Uncounted(u, q)' = Uncounted(u, q) /\ Uncounted(u, p)' = 0
  BY <1>2, <1>4 DEF Uncounted
<1>6. CASE u # v
  <2>1. IsBase(n, u, p, x) /\ IsBase(n, u, q, y)
    BY <1>1, <1>2, <1>3, <1>4, <1>6 DEF IsBase
  <2>2. Uncounted(u, p) = 0
    BY <1>6 DEF Uncounted
  <2> QED
    BY <1>1, <1>5, <2>1, <2>2 DEF OverlapOf
<1>7. CASE u = v
  <2>1. s \in 0..2 /\ window[n][u] \in Int /\ count[n][u] \in 0..3
    BY <1>1, Ranges
  <2>2. IsBase(n, u, p, s) /\ s \in 0..3 /\ Uncounted(u, p) = 1
    BY <1>1, <1>7, <2>1 DEF IsBase, Uncounted
  <2>3. x = s + 1
    BY <1>2, <1>3, <1>7 DEF IsBase
  <2>4. PICK z \in 0..3 : IsBase(n, u, q, z) /\ (y = z \/ y = s + 1)
    <3>1. CASE IsBase(n, u, q, y)
      BY <3>1
    <3>2. CASE ~IsBase(n, u, q, y)
      <4>1. y = s + 1 /\ IsBase(n, u, q, count[n][u])
        BY <3>2, <1>3, <1>4, <1>7 DEF IsBase
      <4> QED
        BY <4>1, <2>1
    <3> QED
      BY <3>1, <3>2
  <2>5. window[n][u] + Left(s, z) <= 9 + 1 + Uncounted(u, q)
    BY <2>2, <2>4 DEF OverlapOf
  <2>6. Left(x, y) + 1 <= Left(s, z)
    BY <2>1, <2>3, <2>4, ChainShrinks
  <2>7. Left(x, y) \in Int /\ Left(s, z) \in Int /\ Uncounted(u, q) \in Int
    BY <2>1, <2>4 DEF Left, Chain, Uncounted
  <2> QED
    BY <1>1, <1>5, <2>1, <2>5, <2>6, <2>7
<1> QED
  BY <1>6, <1>7

(* An empty window leaves room for every chain. *)
LEMMA FreshWindow ==
  ASSUME NEW n \in Node, NEW u \in User, NEW r \in Request, NEW q \in Request,
         window[n][u] = 0
  PROVE  OverlapOf(n, u, r, q)
<1>1. \A x, y \in 0..3 : Left(x, y) \in Int /\ Left(x, y) <= 9
  BY DEF Left, Chain
<1>2. Uncounted(u, r) \in {0, 1} /\ Uncounted(u, q) \in {0, 1}
  BY DEF Uncounted
<1> QED
  BY <1>1, <1>2 DEF OverlapOf

(* Overlap holds in the initial state. *)
LEMMA OverlapInit == Init => Overlap
<1> SUFFICES ASSUME Init, NEW n \in Node, NEW u \in User, NEW r \in Request, NEW q \in Request
             PROVE  OverlapOf(n, u, r, q)
  BY DEF Overlap
<1>1. window[n][u] = 0
  BY DEF Init, None
<1> QED
  BY <1>1, FreshWindow

(* Every action keeps Overlap. *)
LEMMA OverlapNext ==
  ASSUME TypeInv, TypeInv', Overlap, [Next]_vars
  PROVE  Overlap'
<1>1. ASSUME NEW r \in Request, NEW u \in User,
             BeginSignup(r, u) \/ BeginResend(r, u) \/ BeginVerify(r, u)
      PROVE  Overlap'
  <2>1. PICK pc \in {"create", "count", "verify"} : Begin(r, pc, u)
    BY <1>1 DEF BeginSignup, BeginResend, BeginVerify
  <2>2. /\ req[r].pc = "idle" /\ req'[r].pc = pc
        /\ \A q \in Request \ {r} : req'[q] = req[q]
    BY <2>1, Begins DEF Pc
  <2>3. UNCHANGED <<count, window>>
    BY <1>1 DEF BeginSignup, BeginResend, BeginVerify
  <2> QED
    BY <2>2, <2>3, QuietOverlap
<1>2. ASSUME NEW r \in Request, CreateUser(r) \/ MailThrows(r) \/ MarkVerified(r)
      PROVE  Overlap'
  <2>1. /\ req'[r].pc \in {"idle", "count"}
        /\ \A q \in Request \ {r} : req'[q] = req[q]
    BY <1>2, Goes, Ends DEF CreateUser, MailThrows, MarkVerified, Pc
  <2>2. req[r].pc # "set" /\ UNCHANGED <<count, window>>
    BY <1>2 DEF CreateUser, MailThrows, MarkVerified
  <2> QED
    BY <2>1, <2>2, QuietOverlap
<1>3. ASSUME NEW r \in Request, ReadCount(r)
      PROVE  Overlap'
  <2>1. req[r].pc = "count" /\ UNCHANGED <<count, window>>
    BY <1>3 DEF ReadCount
  <2>2. CASE End(r)
    BY <2>1, <2>2, Ends, QuietOverlap
  <2>3. CASE ~End(r)
    BY <1>3, <2>1, <2>3, Reads, QuietOverlap
  <2> QED
    BY <2>2, <2>3
<1>4. ASSUME NEW n \in Node, NEW u \in User, Expire(n, u)
      PROVE  Overlap'
  <2>1. /\ count'[n][u] = 0 /\ window'[n][u] = 0 /\ req' = req
        /\ \A m \in Node, w \in User : m # n \/ w # u =>
             count'[m][w] = count[m][w] /\ window'[m][w] = window[m][w]
    <3>1. /\ count \in [Node -> [User -> Int]] /\ window \in [Node -> [User -> Int]]
          /\ 0 \in Int
      BY Numbers, MaxSentAssumption DEF TypeInv, TypeOK
    <3> QED
      BY <1>4, <3>1, Writes DEF Expire
  <2> SUFFICES ASSUME NEW m \in Node, NEW w \in User, NEW r \in Request, NEW q \in Request,
                      Both(m, r, q)
               PROVE  OverlapOf(m, w, r, q)'
    BY DEF Overlap, Both
  <2>2. CASE m = n /\ w = u
    <3>1. \A x, y \in 0..3 : Left(x, y) \in Int /\ Left(x, y) <= 9
      BY DEF Left, Chain
    <3>2. Uncounted(w, r)' \in {0, 1} /\ Uncounted(w, q)' \in {0, 1}
      BY DEF Uncounted
    <3> QED
      BY <2>1, <2>2, <3>1, <3>2 DEF OverlapOf
  <2>3. CASE m # n \/ w # u
    BY <2>1, <2>3 DEF Overlap, OverlapOf, IsBase, Uncounted
  <2> QED
    BY <2>2, <2>3
<1>5. ASSUME NEW n \in Node, Crash(n)
      PROVE  Overlap'
  <2>1. /\ \A u \in User : count'[n][u] = 0 /\ window'[n][u] = 0
        /\ \A m \in Node \ {n} : count'[m] = count[m] /\ window'[m] = window[m]
        /\ \A r \in Request : NodeOf[r] # n => req'[r] = req[r]
    BY <1>5 DEF Crash, None, TypeInv, TypeOK
  <2> SUFFICES ASSUME NEW m \in Node, NEW w \in User, NEW r \in Request, NEW q \in Request,
                      Both(m, r, q)
               PROVE  OverlapOf(m, w, r, q)'
    BY DEF Overlap, Both
  <2>2. CASE m = n
    <3>1. \A x, y \in 0..3 : Left(x, y) \in Int /\ Left(x, y) <= 9
      BY DEF Left, Chain
    <3>2. Uncounted(w, r)' \in {0, 1} /\ Uncounted(w, q)' \in {0, 1}
      BY DEF Uncounted
    <3> QED
      BY <2>1, <2>2, <3>1, <3>2 DEF OverlapOf
  <2>3. CASE m # n
    <3>1. req'[r] = req[r] /\ req'[q] = req[q] /\ count'[m] = count[m] /\ window'[m] = window[m]
      BY <2>1, <2>3 DEF Both
    <3> QED
      BY <3>1 DEF Overlap, OverlapOf, IsBase, Uncounted
  <2> QED
    BY <2>2, <2>3
<1>6. CASE UNCHANGED vars
  BY <1>6 DEF vars, Overlap, OverlapOf, IsBase, Uncounted, Both
<1> QED
  BY <1>1, <1>2, <1>3, <1>4, <1>5, <1>6, SendOverlap, SetOverlap DEF Next, Step

(* Every step keeps the invariant. *)
LEMMA InvNext ==
  ASSUME TypeInv, Safety, Overlap, [Next]_vars
  PROVE  TypeInv' /\ Safety' /\ Overlap'
<1>1. TypeInv' /\ Safety'
  BY SafetyNext
<1> QED
  BY <1>1, OverlapNext

-----------------------------------------------------------------------------
(* The invariant holds in every state of every behaviour. *)
THEOREM MailInvariant == Spec => [](TypeInv /\ Safety /\ Overlap)
BY InvInit, OverlapInit, InvNext, PTL DEF Spec

(* The state always has the type TypeOK. *)
THEOREM MailTypes == Spec => []TypeOK
<1>1. TypeInv => TypeOK
  BY DEF TypeInv
<1> QED
  BY <1>1, MailInvariant, PTL

(* Sign-ups that overlap never leave two users with one email: the insert  *)
(* of CreateUser finds the unique column taken.                            *)
THEOREM OneUser == Spec => []OneUserPerEmail
<1>1. Safety => OneUserPerEmail
  BY DEF Safety
<1> QED
  BY <1>1, MailInvariant, PTL

(* A process whose requests do not overlap confirms at most MAX_EMAILS     *)
(* mails to a user before the counter expires, through failures, crashes   *)
(* and the other processes' requests.                                      *)
THEOREM MailLimit == Spec => []MailBudget
<1>1. TypeInv /\ Safety => MailBudget
  <2> SUFFICES ASSUME TypeInv, Safety, NEW n \in Node, OneAtATime(n), NEW u \in User
               PROVE  window[n][u] <= MAX_EMAILS
    BY DEF MailBudget
  <2>1. window[n][u] \in Int
    <3>1. window[n] \in [User -> 0..MaxSent]
      BY DEF TypeInv, TypeOK
    <3> QED
      BY <3>1, MaxSentAssumption
  <2>2. CASE Counting(n, u)
    <3>1. PICK r \in Request : NodeOf[r] = n /\ req[r].pc = "set" /\ req[r].user = u
      BY <2>2 DEF Counting
    <3>2. window[n][u] <= req[r].seen + 1
      BY <3>1 DEF Safety, Backed
    <3>3. req[r].seen \in 0..MAX_EMAILS - 1
      BY DEF TypeInv, TypeOK, Handler
    <3> QED
      BY <2>1, <3>2, <3>3 DEF MAX_EMAILS
  <2>3. CASE ~Counting(n, u)
    <3>1. window[n][u] <= count[n][u]
      BY <2>3 DEF Safety, Budget
    <3>2. count[n] \in [User -> 0..MAX_EMAILS]
      BY DEF TypeInv, TypeOK
    <3> QED
      BY <2>1, <3>1, <3>2 DEF MAX_EMAILS
  <2> QED
    BY <2>2, <2>3
<1> QED
  BY <1>1, MailInvariant, PTL

(* When a process overlaps at most two requests, it confirms at most       *)
(* OverlapLimit mails to a user before the counter expires, though the     *)
(* handlers overwrite each other's increments in any order.                *)
THEOREM OverlapLimited == Spec => []OverlapBudget
<1>1. TypeInv /\ Overlap /\ MailBudget => OverlapBudget
  <2> SUFFICES ASSUME TypeInv, Overlap, MailBudget,
                      NEW n \in Node, NEW u \in User, NEW r \in Request, NEW q \in Request,
                      \A p \in Request : NodeOf[p] = n => p \in {r, q}
               PROVE  window[n][u] <= 9
    BY DEF OverlapBudget, TwoAtATime, OverlapLimit, MAX_EMAILS
  <2>1. window[n][u] \in Int /\ count[n][u] \in 0..3
    BY Ranges
  <2>2. CASE Both(n, r, q)
    <3>1. \A p \in Request : \E x \in 0..3 :
            IsBase(n, u, p, x) /\ (Uncounted(u, p) = 0 \/ x <= 2)
      <4> SUFFICES ASSUME NEW p \in Request
                   PROVE  \E x \in 0..3 :
                            IsBase(n, u, p, x) /\ (Uncounted(u, p) = 0 \/ x <= 2)
        OBVIOUS
      <4>1. req[p].seen \in 0..2
        BY Ranges
      <4>2. CASE req[p].user = u /\ req[p].pc = "set"
        <5>1. IsBase(n, u, p, req[p].seen)
          BY <4>2 DEF IsBase
        <5> QED
          BY <4>1, <5>1
      <4>3. CASE ~(req[p].user = u /\ req[p].pc = "set")
        <5>1. IsBase(n, u, p, count[n][u]) /\ Uncounted(u, p) = 0
          BY <4>3 DEF IsBase, Uncounted
        <5> QED
          BY <2>1, <5>1
      <4> QED
        BY <4>2, <4>3
    <3>2. PICK x \in 0..3 : IsBase(n, u, r, x) /\ (Uncounted(u, r) = 0 \/ x <= 2)
      BY <3>1
    <3>3. PICK y \in 0..3 : IsBase(n, u, q, y) /\ (Uncounted(u, q) = 0 \/ y <= 2)
      BY <3>1
    <3>4. window[n][u] + Left(x, y) <= 9 + Uncounted(u, r) + Uncounted(u, q)
      BY <2>2, <3>2, <3>3 DEF Overlap, OverlapOf
    <3>5. Uncounted(u, r) \in {0, 1} /\ Uncounted(u, q) \in {0, 1}
      BY DEF Uncounted
    <3>6. Left(x, y) \in Int /\ Uncounted(u, r) + Uncounted(u, q) <= Left(x, y)
      BY <3>2, <3>3, <3>5 DEF Left, Chain
    <3> QED
      BY <2>1, <3>4, <3>5, <3>6
  <2>3. CASE ~Both(n, r, q)
    <3>1. OneAtATime(n)
      BY <2>3 DEF Both, OneAtATime
    <3> QED
      BY <2>1, <3>1 DEF MailBudget, MAX_EMAILS
  <2> QED
    BY <2>2, <2>3
<1> QED
  BY <1>1, MailInvariant, MailLimit, PTL

(* Whatever requests overlap, the counter never runs ahead of the mails    *)
(* the mailer has confirmed: nobody is refused one too early.              *)
THEOREM CounterIsEarned == Spec => []NoEarlyRefusal
<1>1. Safety => NoEarlyRefusal
  BY DEF Safety
<1> QED
  BY <1>1, MailInvariant, PTL
=============================================================================
