SPECIFICATION Spec
CONSTANTS
  Modes = {m1}
  NoState = NoState
  NoDrain = NoDrain
  MaxGeneration = 1
  MaxActivation = 2
  MaxSequence = 1
  TransactionLimit = 0
  HostKind = "any"
  HostRequests <- Requests
INVARIANTS
  FreshPayload
