CONSTANTS
  t1 = t1
  Threads = {t1}
  MaxBuffers = 3
  Addrs = {}
  MaxMaps = 0
  Modes = {"blocking", "nonblocking"}
  WrongTypes = TRUE
  SensorFails = FALSE
  LateIrq = FALSE
  SensorStalls = FALSE
  None = None
SPECIFICATION FairSpec
INVARIANTS
  NoDmaIntoUserMemory
  StoppedIsDisabled
PROPERTIES
  DeliveredIsValid
  QueuedIsReturned
  StopCompletes
