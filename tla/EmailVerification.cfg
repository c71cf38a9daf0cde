\* One user; a process with two handlers and a process with one.
SPECIFICATION Spec
CONSTANTS
  User = {u1}
  NoUser = NoUser
  n1 = n1
  n2 = n2
  r1 = r1
  r2 = r2
  r3 = r3
  Node = {n1, n2}
  Request = {r1, r2, r3}
  NodeOf <- BusyAndQuiet
  MaxSent = 10
INVARIANTS
  TypeOK
  OneUserPerEmail
  MailBudget
  NoEarlyRefusal
  OverlapBudget
