SPECIFICATION Spec
CONSTANTS
  OctetMax = 255
  U64Max = 2
  Callers <- MCCallers
  Foreign <- MCForeign
CHECK_DEADLOCK FALSE
INVARIANTS
  TypeOK
  EncodeNeverFails
PROPERTIES
  Lossless
  WireStable
  KeepsPromise
  CallsReturn
