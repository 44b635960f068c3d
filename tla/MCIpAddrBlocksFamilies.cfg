SPECIFICATION Spec
CONSTANTS
  OctetMax = 3
  Bits = 2
  Width <- MCWidth
  MaxIntFormBytes = 2
  U64Max = 15
  U16Max = 3
  Callers <- FitCallers
  Foreign <- MCForeign
CHECK_DEADLOCK FALSE
INVARIANT OnlySupportedFamilies
