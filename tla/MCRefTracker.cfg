SPECIFICATION FairSpec
CONSTANTS
  Obj = {o1, o2, o3}
  Local = {l1, l2}
  Member = {m}
  WLocal = {w1}
  WMember = {v}
  Null = Null
  COUNT_MAX = 2
CHECK_DEADLOCK FALSE
INVARIANTS
  TypeOK
  CountsPointers
  TrackerOutlives
  NoResurrection
PROPERTY CascadeEnds
