\* Three handlers, one enterprise, two users, two invitations.
SPECIFICATION Spec
CONSTANTS
  Enterprise = {e1}
  NoEnterprise = NoEnterprise
  User = {u1, u2}
  NoUser = NoUser
  Invitation = {i1, i2}
  NoInvitation = NoInvitation
  n1 = n1
  n2 = n2
  r1 = r1
  r2 = r2
  r3 = r3
  Node = {n1}
  Request = {r1, r2, r3}
  NodeOf <- OneNode
SYMMETRY SlotSymmetry
INVARIANTS
  EmployeesEarned
  OneRowUnlessRaced
  AcceptedIsEmployed
  GateSound
  EmployeesReached
  MailedAtMostOnce
PROPERTIES
  EnterprisesLast
  ImplementsMembers
