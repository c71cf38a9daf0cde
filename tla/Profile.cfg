\* One user, two changes of each kind, three handlers on two processes, fair.
SPECIFICATION FairSpec
CONSTANTS
  User = {u1}
  NoUser = NoUser
  n1 = n1
  n2 = n2
  r1 = r1
  r2 = r2
  r3 = r3
  Node = {n1, n2}
  Request = {r1, r2, r3}
  NodeOf <- BusyAndQuiet
  MaxChanges = 2
INVARIANTS
  ReadYourWrites
PROPERTIES
  SettlesFresh
  FreshForGood
