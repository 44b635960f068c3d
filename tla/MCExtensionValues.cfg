SPECIFICATION Spec
CONSTANTS
  OctetMax = 255
  U16Max = 1
  I32Max = 9
  Oids <- MCOids
  NameContents = {"n"}
  Callers <- MCCallers
  Foreign <- MCForeign
CHECK_DEADLOCK FALSE
INVARIANT TypeOK
PROPERTIES
  RepresentableIsLossless
  ReadIsRepresentable
  WireStable
