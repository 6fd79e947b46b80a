CONSTANTS
  t1 = t1
  t2 = t2
  a1 = a1
  Threads = {t1, t2}
  MaxBuffers = 2
  Addrs = {a1}
  MaxMaps = 0
  Modes = {"nonblocking"}
  WrongTypes = FALSE
  PartialStart = FALSE
  None = None
SPECIFICATION FairSpec
PROPERTIES
  StreamoffTerminates
  QueuedIsReturned
  PollReturns
