CONSTANTS
    NumPoints = 2
    BatchSize = 1
    Keys = {k1}
    NoKey = NoKey
    Absent = Absent
    Odd = {2}
    MaxWrites = 0
    MaxRuns = 1
    MaxFaults = 2
SPECIFICATION Spec
INVARIANT OutputPreserved
