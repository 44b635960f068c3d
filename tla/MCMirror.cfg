SPECIFICATION MirrorSpec
CONSTANTS
  OctetMax = 255
  U16Max = 1
  I32Max = 3
  TimeMin <- MCTimeMin
  TimeMax = 3
  Oids <- MCOids
  NameContents <- MCNameContents
  NameWritten <- MCNameWritten
  ExtContents <- MCExtContents
  ExtWritten <- MCExtWritten
  Unencodable = {"misfit"}
  Callers <- MCCallers
  Foreign <- MCForeign
  DateMin <- MCDateMin
  MacOfText <- MCMacOfText
  Documents <- MCDocuments
CHECK_DEADLOCK FALSE
INVARIANTS
  MirrorTypeOK
  WireHasText
PROPERTIES
  SurvivesText
  WireStable
  LosslessUpToItems
  FormsAreToldApart
  ReadIsEncodable
