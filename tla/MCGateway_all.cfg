SPECIFICATION FairSpec
CONSTANTS
  Houses = {"h1", "h2"}
  Keys = {"writer", "reader"}
  ScopesOf <- MCScopes
  GrantsOf <- MCGrants
  Slots = {1, 2}
  Requests <- MCRequests
  Limit = 2
  Window = 2
  MaxCount = 4
  MaxFaults = 2
INVARIANTS
  AnyMinute
PROPERTIES
  RefusedCostsNothing
  KeyComesBack
