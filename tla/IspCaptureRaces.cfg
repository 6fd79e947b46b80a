CONSTANTS
  t1 = t1
  t2 = t2
  Threads = {t1, t2}
  MaxBuffers = 2
  Addrs = {}
  MaxMaps = 0
  Modes = {"nonblocking"}
  WrongTypes = FALSE
  SensorFails = TRUE
  LateIrq = TRUE
  SensorStalls = TRUE
  None = None
SPECIFICATION Spec
PROPERTIES
  ImplementsIspQueue
