SPECIFICATION FairSpec
CONSTANTS
  MaxUnits = 5
  String = {"a", "b"}
  Asserts = TRUE
INVARIANTS
  TypeOK
  InnerFirst
  ReadsOwnFunction
  StringsStay
  NeverAborts
PROPERTY AllDumped
