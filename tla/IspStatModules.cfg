SPECIFICATION FairSpec
CONSTANTS
  Threads = {t1}
  Kinds = {"h3a", "hist"}
  MaxBufs = 3
  MaxConfigs = 2
  MaxSize = 2
  None = None
INVARIANTS
  TypeOK
  HwTargetsActive
PROPERTIES
  QueuedIsTrue
  StopCompletes
  EnabledRuns
CHECK_DEADLOCK FALSE
