SPECIFICATION GeometrySpec
CONSTANTS
  WordSize = 16
  ModeSize = 4
  NoBuffer = NoBuffer
INVARIANTS
  AdmittedFits
  ReadIsBounded
