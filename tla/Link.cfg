SPECIFICATION Spec
CONSTANTS
  Handles = {h1, h2}
  NoHandle = NoHandle
  AdvTimeoutCnt = 1
  NotifTimeoutCnt = 1
  TxBuffers = 1
  SchedQueueSize = 1
  MaxUpdates = 1
  MaxEvents = 1
  SlowBoot = TRUE
INVARIANTS
  FlagTracksRadio
  AdvStopFailsOnlyOnUnseenLink
  ButtonsFollowLink
  DarknessBound
  OnlySlowBootRaces
  HandlesCatchUp
  ReplyFailsOnlyOnLostLink
  TimerOutlivesOnlyItsTurn
  NotifyFailsOnlyUnready
  IInv
PROPERTY
  KeepsLifecycle
SYMMETRY HandleSymmetry
CHECK_DEADLOCK FALSE
