SPECIFICATION Spec
CONSTANTS
  Name = {x}
  NoName = NoName
  Construct = {"if else"}
  Redeclares = FALSE
  MaxPieces = 3
INVARIANT GivesUpOnlyOnLoops
