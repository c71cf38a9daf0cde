\* Two processes with a cache each, one handler on each, three sessions, fair.
SPECIFICATION FairSpec
CONSTANTS
  Token = {t1, t2, t3}
  NoToken = NoToken
  n1 = n1
  n2 = n2
  r1 = r1
  r2 = r2
  r3 = r3
  Node = {n1, n2}
  Request = {r1, r2}
  NodeOf <- TwoNodes
PROPERTIES
  ForgottenForGood
  ImplementsLineage
  RevocationTakesEffect
