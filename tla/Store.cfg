SPECIFICATION FairSpec
CONSTANTS
  Cal = {c1, c2, c3}
  Factory = c1
  NoCal = NoCal
  Garbage = Garbage
  Words = 4
  QueueSize = 4
  EarlyEvents = TRUE
  FlashErrors = TRUE
INVARIANTS
  CountIsQueued
  FlashAccessTracksCommand
  BlockIsWholeOrRejected
PROPERTIES
  KeepsStore
  WriteReturns
