CONSTANTS
  Chains = {"preview", "resizer", "both"}
  MaxBuffers = 2
  None = None
SPECIFICATION FairSpec
INVARIANTS
  TypeOK
  BusyOnQueued
  IdleIsIdle
  StuckOnlyByResizerStop
PROPERTIES
  QueuedIsProcessed
