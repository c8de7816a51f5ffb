SPECIFICATION Spec
CONSTANTS
  Name = {x}
  NoName = NoName
  Construct = {"load", "declare", "assign", "if else"}
  Redeclares = FALSE
  MaxPieces = 5
INVARIANT LoadsAreStored
