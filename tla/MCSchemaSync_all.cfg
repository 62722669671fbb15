SPECIFICATION FairSpec
CONSTANTS
  Addresses = {1, 2, 3}
  Catalogs <- ThreeCatalogs
  ChunkSize = 1
  MaxExports = 3
  MaxRepeats = 1
  MaxReplays = 1
  MaxFaults = 1
CHECK_DEADLOCK FALSE
INVARIANTS
  ActiveIsOneSchema
  NewestInForce
  AttributesInForce
PROPERTIES
  CompleteIsStored
