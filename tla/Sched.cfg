SPECIFICATION FairSpec
CONSTANTS
  Events = {e1, e2}
  NoEvent = NoEvent
  QueueSize = 3
  Levels = 2
  NoIndex = NoIndex
INVARIANTS
  RingInv
  HandlerHasItsData
PROPERTY
  KeepsQueue
