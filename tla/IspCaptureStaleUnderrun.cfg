CONSTANTS
  t1 = t1
  t2 = t2
  Threads = {t1, t2}
  MaxBuffers = 2
  Addrs = {}
  MaxMaps = 0
  Modes = {"nonblocking"}
  WrongTypes = FALSE
  SensorFails = FALSE
  LateIrq = FALSE
  SensorStalls = FALSE
  None = None
SPECIFICATION Spec
INVARIANTS
  NoDmaIntoUserMemory
