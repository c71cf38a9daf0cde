\* Two letters on a canvas of 6 by 2 pixels, with a decoy at each of them.
SPECIFICATION Spec
CONSTANTS
  Char = {"a", "b"}
  MinLength = 2
  MaxLength = 2
  Width = 6
  Height = 2
  XStart = 1
  XStep = 3
  Band = {0, 1}
  Decoys = 12
  Lines = 2
  Points = 1
  Left = 1
  Right = 1
INVARIANTS
  TypeOK
  ShowsAnswer
PROPERTIES
  DrawingFinishes
CHECK_DEADLOCK FALSE
