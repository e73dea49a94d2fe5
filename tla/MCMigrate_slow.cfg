CONSTANTS
  NumPoints = 7
  BatchSize = 1
  Initial <- TenantInitial
  Late <- TenantLate
  Keys = {"k1", "k2"}
  Class <- ByTenant
  Options <- SlowOptions
  Workers = 2
  Existing = {TRUE, FALSE}
  Foreign = {7}
  MaxFaults = 4
  k1 = "k1"
  k2 = "k2"
SPECIFICATION Spec
INVARIANTS
  CursorCovered
  CountersCover
  StartingKeysExist
  NothingLost
PROPERTIES
  CheckpointForward
  Migrates
