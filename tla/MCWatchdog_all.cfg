SPECIFICATION WatchdogFairSpec
CONSTANTS
  HeartbeatStale = 1
  OfflineLimit = 3
  EventsStale = 4
  Cooldown = 3
  MaxFaults = 2
INVARIANTS
  RequestIsCurrent
PROPERTIES
  RestartForCause
  StuckIsReplaced
  ReconnectsAgain
