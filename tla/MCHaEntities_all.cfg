SPECIFICATION FairSpec
CONSTANTS
  Word <- MCWord
  Tag <- MCTag
  Canon <- MCCanon
  StopLemmas <- MCStop
  Ordinal <- MCOrdinal
  OutsideWords <- MCOutside
  ZoneWords <- MCZone
  Hints <- MCHints
  SensorRooms <- MCRooms
  UnplacedHints <- MCUnplaced
  Objects <- MCObjects
  Start <- MCStart
  Degrees <- MCDegrees
  MaxAsks = 2
  MaxAsked = 1
  MaxRivals = 1
  MaxFaults = 1
  MaxLost = 1
  MaxTroubles = 1
INVARIANTS
  UnavailableTogether
  ZoneShowsOwnFloor
PROPERTIES
  OwnThingOnly
  CardsCatchUp
CHECK_DEADLOCK FALSE
