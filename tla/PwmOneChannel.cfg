CONSTANTS
  f1 = f1
  f2 = f2
  Files = {f1, f2}
  Channels = {0, 1}
  Unusable = {0}
  Freqs = {0, 1, 2, 3, 4, 7, 12, 30, 49, 50}
  MaxUint = 63
  WidthMax = 10
  ClkSpeed = 101
  None = None
SPECIFICATION Spec
SYMMETRY FileSymmetry
INVARIANTS
  TypeOK
  HolderHasTimer
  StopsWithOwner
  CompareInPeriod
PROPERTIES
  DutyKept
