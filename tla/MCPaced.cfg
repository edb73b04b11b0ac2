SPECIFICATION Spec
CONSTANTS
  Modes = {m1}
  NoState = NoState
  NoDrain = NoDrain
  MaxGeneration = 2
  MaxActivation = 2
  MaxSequence = 2
  TransactionLimit = 0
  HostKind = "paced"
  HostRequests <- FrameRequests
INVARIANTS
  LayersAgree
  BooksBalance
  GuardFollowsOwnership
  FreshPayload
  NoAbandonedAio
  OkMeansArmed
  SlotHasHarvester
  BoundaryNeverFails
  DisplayNeedsMode
PROPERTIES
  ContainmentHolds
  ImplementsOwnership
