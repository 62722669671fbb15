SPECIFICATION RegistrySpec
CONSTANTS
  UnplacedHints <- MCUnplaced
  Snapshots <- MCSnapshots
  Places <- MCPlaces
  MaxActs = 1
  MaxRestarts = 1
INVARIANTS
  OwnAirShown
  NoEmptyLeftover
PROPERTIES
  InPlaceAfterPoll
  ComesToRest
