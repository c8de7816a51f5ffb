SPECIFICATION FairSpec
CONSTANT MaxLexemes = 10
INVARIANTS
  TypeOK
  BuffersMatch
  BlocksMatch
  PopsMatchPushes
PROPERTY ScanEnds
