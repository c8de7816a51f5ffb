SPECIFICATION Spec
CONSTANT MaxNodes = 8
INVARIANTS
  TypeOK
  LinksExact
PROPERTY ImplementsPositions
