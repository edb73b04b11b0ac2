SPECIFICATION PresentationSpec
CONSTANTS
  P1 = P1
  P2 = P2
  S1 = S1
  Physical = {P1, P2}
  Baseline = P1
  ScaledModes = {S1}
  Size <- ModeSize
  None = None
  DisplayFails = TRUE
INVARIANTS
  ContentIsFront
  SurfaceTellsTruth
  StaleOnlyIfBlemished
CHECK_DEADLOCK FALSE
