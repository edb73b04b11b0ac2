SPECIFICATION FairDriverSpec
CONSTANTS
  QueueLength = 2
  MaxOps = 3
INVARIANTS
  ThreadNeverPanics
  NoLostWakeup
  SpaceIsConserved
PROPERTIES
  SlotOrder
  CompletionDelivered
  DropReturnsBuffers
CHECK_DEADLOCK FALSE
