CONSTANTS
  NumPoints = 5
  BatchSize = 1
  Initial <- AllPoints
  Late <- NoPoints
  Keys = {}
  Class <- AllPlain
  Options <- FastOptions
  Workers = 2
  Existing = {FALSE}
  Foreign = {}
  MaxFaults = 2
  k1 = "k1"
  k2 = "k2"
SPECIFICATION Spec
INVARIANTS
  InterruptedRunResumes
