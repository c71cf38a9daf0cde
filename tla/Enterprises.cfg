\* Two enterprises that compete for two slugs, one process with two handlers.
SPECIFICATION Spec
CONSTANTS
  Enterprise = {e1, e2}
  NoEnterprise = NoEnterprise
  Name = {m1, m2}
  SlugText = {s1, s2}
  EmptySlug = s1
  Description = {d1, d2}
  NoRow = NoRow
  n1 = n1
  Node = {n1}
  Request = {r1, r2}
  NodeOf <- OneNode
SYMMETRY DataSymmetry
INVARIANTS
  SlugsUnique
  CacheAgrees
PROPERTIES
  UpdateIsWhole
