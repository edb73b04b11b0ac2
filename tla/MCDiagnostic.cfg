SPECIFICATION Spec
CONSTANTS
  Modes = {m1}
  NoState = NoState
  NoDrain = NoDrain
  MaxGeneration = 2
  MaxActivation = 2
  MaxSequence = 2
  TransactionLimit = 1
  HostKind = "paced"
  HostRequests <- FrameRequests
INVARIANTS
  BoundedDiagnostic
  DrainKeepsGuard
