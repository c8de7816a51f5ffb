SPECIFICATION FairSpec
CONSTANTS
  Name = {x}
  NoName = NoName
  Construct = {"load", "declare", "assign", "if", "if else", "loop", "infix", "return"}
  Redeclares = FALSE
  MaxPieces = 4
INVARIANTS
  TypeOK
  ReportsAreReal
  ReportsUpToJumps
PROPERTY VerifyEnds
