\* Every text of up to five characters.
SPECIFICATION Spec
CONSTANTS
  MaxLength = 5
INVARIANTS
  MatchesReference
  Idempotent
CHECK_DEADLOCK FALSE
