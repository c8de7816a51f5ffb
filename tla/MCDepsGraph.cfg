SPECIFICATION FairSpec
CONSTANTS
  Node = {n1, n2}
  Edge = {e1, e2, e3}
  MaxLinks = 5
  Asserts = FALSE
ACTION_CONSTRAINT InOrder
INVARIANTS
  TypeOK
  QueueIsOpen
  InputsComplete
  RunsAllButCycles
  OnlyEmptyEdgesAbort
PROPERTIES
  Stops
  ImplementsOrder
