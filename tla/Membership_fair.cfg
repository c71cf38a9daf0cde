\* Two processes, one invitation, fair.
SPECIFICATION FairSpec
CONSTANTS
  Enterprise = {e1}
  NoEnterprise = NoEnterprise
  User = {u1, u2}
  NoUser = NoUser
  Invitation = {i1}
  NoInvitation = NoInvitation
  n1 = n1
  n2 = n2
  r1 = r1
  r2 = r2
  r3 = r3
  Node = {n1, n2}
  Request = {r1, r2}
  NodeOf <- TwoNodes
PROPERTIES
  DecisionsFinish
