CONSTANTS
  NumPoints = 6
  BatchSize = 1
  Initial <- MiddleInitial
  Late <- AroundLate
  Keys = {}
  Class <- AllPlain
  Options <- MixedOptions
  Workers = 1
  Existing = {TRUE, FALSE}
  Foreign <- MiddleOwn
  MaxFaults = 3
  k1 = "k1"
  k2 = "k2"
SPECIFICATION FairSpec
INVARIANTS
  TypeOK
  CutoverComplete
  RestoredBeforeVerify
PROPERTIES
  Migrates
  Completes
