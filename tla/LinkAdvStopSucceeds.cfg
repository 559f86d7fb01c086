SPECIFICATION Spec
CONSTANTS
  Handles = {h1}
  NoHandle = NoHandle
  AdvTimeoutCnt = 2
  NotifTimeoutCnt = 2
  TxBuffers = 1
  SchedQueueSize = 1
  MaxUpdates = 1
  MaxEvents = 2
  SlowBoot = FALSE
INVARIANT
  AdvStopSucceeds
CHECK_DEADLOCK FALSE
