SPECIFICATION Spec
CONSTANTS
  OctetMax = 255
  U16Max = 40
  I32Max = 47
  Oids <- MCOids
  Contents <- ConvertedContents
  Unwritable <- LongPaths
  DateMin <- MCDateMin
  MacOfText <- MCMacOfText
  TimeMin <- MCTimeMin
  TimeMax = 9
  Files <- MCFiles
  HexTexts <- MCHexTexts
  FirstCalls <- AllCalls
CHECK_DEADLOCK FALSE
INVARIANTS
  TypeOK
  ArrivesAsIssued
  ArrivesAsDescribed
  PanicsAreForeseen
  OwnOutputIsRead
