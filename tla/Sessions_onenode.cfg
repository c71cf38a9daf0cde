\* Three handlers on one process, three sessions.
SPECIFICATION Spec
CONSTANTS
  Token = {t1, t2, t3}
  NoToken = NoToken
  n1 = n1
  n2 = n2
  r1 = r1
  r2 = r2
  r3 = r3
  Node = {n1}
  Request = {r1, r2, r3}
  NodeOf <- OneNode
SYMMETRY SlotSymmetry
INVARIANTS
  TypeOK
  OneUsablePerLogin
  LogoutEndsLogin
  SuccessorFirst
