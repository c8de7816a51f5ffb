SPECIFICATION Spec
CONSTANTS
  Mod32 = 256
  Mod64 = 512
  Max1 = 31
  Max2 = 127
  MaxExpon = 12
  Odd = {}
INVARIANTS
  TypeOK
  LoadsItsValue
  RefusesOnlyMisfits
