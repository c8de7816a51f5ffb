SPECIFICATION MCSpec
CONSTANTS
  Name = {x}
  NoName = NoName
  Construct = {}
  Redeclares = FALSE
  MaxPieces = 0
  Kind = {"else nested"}
  StoringPieces = 0
  MixedPieces = 0
  BranchedPieces = 6
  NestedPieces = 0
INVARIANT NeverStale
