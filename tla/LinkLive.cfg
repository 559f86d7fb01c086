SPECIFICATION FairSpec
CONSTANTS
  Handles = {h1}
  NoHandle = NoHandle
  AdvTimeoutCnt = 2
  NotifTimeoutCnt = 0
  TxBuffers = 1
  SchedQueueSize = 1
  MaxUpdates = 0
  MaxEvents = 1
  SlowBoot = FALSE
PROPERTY
  SilenceEnds
CHECK_DEADLOCK FALSE
