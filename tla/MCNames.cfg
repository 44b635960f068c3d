SPECIFICATION Spec
CONSTANTS
  OctetMax = 255
  U16Max = 2
  I32Max = 4
  Oids <- MCOids
  Optional = TRUE
  Callers <- MCCallers
  Foreign <- MCForeign
CHECK_DEADLOCK FALSE
INVARIANT TypeOK
PROPERTIES
  LosslessUpToSign
  WireStable
  KeepsPromise
