SPECIFICATION Spec
CONSTANTS
  OctetMax = 255
  U16Max = 1
  I32Max = 3
  TimeMin <- MCTimeMin
  TimeMax = 3
  Oids <- MCOids
  NameContents <- MCNameContents
  NameWritten <- MCNameWritten
  ExtContents <- MCExtContents
  ExtWritten <- MCExtWritten
  Unencodable = {"misfit"}
  Callers <- EarlyCallers
  Foreign <- NoForeign
CHECK_DEADLOCK FALSE
INVARIANT EncodeNeverFails
