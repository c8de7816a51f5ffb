SPECIFICATION MCSpec
CONSTANTS
  Name = {x}
  NoName = NoName
  Construct = {"load", "inc", "unary", "infix", "tuple", "coerce", "curry keyword",
               "assign value", "paren where", "block", "control", "declaration",
               "declare", "assign",
               "op assign", "if", "if else", "loop", "loop else", "where"}
  Redeclares = FALSE
  MaxPieces = 3
  Kind = {"short", "storing", "mixed", "branched", "nested"}
  StoringPieces = 4
  MixedPieces = 6
  BranchedPieces = 7
  NestedPieces = 8
INVARIANTS
  TypeOK
  PhiSound
  NeverStale
  SingleAssignment
  NeverUnderflows
  ReturnsOne
