CONSTANTS
  Threads = {t1, t2}
  Files = {f1, f2}
  Pins = {0, 1, 2}
  MaxDone = 2
  None = None
SPECIFICATION FairSpec
INVARIANTS
  HandlersOwned
PROPERTIES
  EdgesKept
  WaitReturns
CHECK_DEADLOCK FALSE
