SPECIFICATION FairSpec
CONSTANTS
  d1 = d1
  d2 = d2
  Devices = {d1, d2}
  MaxFaults = 1
INVARIANTS
  HouseIsAggregate
PROPERTIES
  OfflineOnlyIfSilent
  SilentGoesOffline
  EventsRecover
