CONSTANTS
  Calls = {c1, c2, c3}
  Kinds = {"open", "create", "delete", "close"}
  DropsAlone = TRUE
  MaxFaults = 1
SPECIFICATION FairSpec
INVARIANTS
  TypeOK
  OneConstruction
  CachedShardOnDisk
PROPERTIES
  KeepsContract
  CallsReturn
