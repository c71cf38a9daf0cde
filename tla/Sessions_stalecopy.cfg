\* Two handlers on one process, two sessions: a guard racing a logout.
SPECIFICATION Spec
CONSTANTS
  Token = {t1, t2}
  NoToken = NoToken
  n1 = n1
  n2 = n2
  r1 = r1
  r2 = r2
  r3 = r3
  Node = {n1}
  Request = {r1, r2}
  NodeOf <- OneNode
INVARIANTS
  LogoutLeavesNoCopy
