SPECIFICATION AgentSpec
CONSTANTS
  Word <- MCWord
  Tag <- MCTag
  Canon <- MCCanon
  StopLemmas <- MCStop
  Ordinal <- MCOrdinal
  OutsideWords <- MCOutside
  ZoneWords <- MCZone
  Hints <- MCHints
  SensorRooms <- MCRooms
  Catalogs <- MCCatalogs
  Asks <- MCAsks
  MaxRequests = 2
  MaxPresses = 1
  MaxFailures = 1
INVARIANTS
  SentIsRecorded
  DegreesNeverSwitch
PROPERTIES
  SkipIsJustified
CHECK_DEADLOCK FALSE
