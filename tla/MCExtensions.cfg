SPECIFICATION Spec
CONSTANTS
  OctetMax = 255
  U16Max = 40
  I32Max = 47
  Oids <- MCOids
  Contents = {"a", "b", "half"}
  Unwritable = {"half"}
  Callers <- MCCallers
  Foreign <- MCForeign
CHECK_DEADLOCK FALSE
INVARIANT TypeOK
PROPERTIES
  RepresentableIsLossless
  CriticalityOnlyLostAtZero
  ReadIsRepresentable
  EncodesAsPredicted
