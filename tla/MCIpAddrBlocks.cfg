SPECIFICATION Spec
CONSTANTS
  OctetMax = 3
  Bits = 2
  Width <- MCWidth
  MaxIntFormBytes = 2
  U64Max = 15
  U16Max = 3
  Callers <- MCCallers
  Foreign <- MCForeign
CHECK_DEADLOCK FALSE
INVARIANTS
  TypeOK
  EncodeNeverFails
PROPERTIES
  LosslessUpToHostBits
  KeepsPromise
  CallsReturn
