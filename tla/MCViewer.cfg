SPECIFICATION Spec
CONSTANTS
  FrameSizes = {1, 2}
  None = None
  QueueLimit = 2
  MaxFrames = 2
  MaxEvents = 1
INVARIANTS
  CaughtUp
  SameModeIsSafe
PROPERTIES
  BroadcastEnds
  NoFrozenFrame
