CONSTANTS
  t1 = t1
  t2 = t2
  a1 = a1
  a2 = a2
  Threads = {t1, t2}
  MaxBuffers = 3
  Addrs = {a1, a2}
  MaxMaps = 1
  Modes = {"blocking", "nonblocking"}
  WrongTypes = FALSE
  PartialStart = FALSE
  None = None
SPECIFICATION Spec
SYMMETRY ThreadSymmetry
INVARIANTS
  TypeOK
  QueueLockOwned
  MainQueueExact
  ListsAgree
  DeviceTargetsPinned
  DriverContract
PROPERTIES
  ImplementsFifo
