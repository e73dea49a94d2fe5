CONSTANTS
    NumPoints = 3
    BatchSize = 1
    Keys = {k1, k2}
    NoKey = NoKey
    Absent = Absent
    Odd = {2}
    MaxWrites = 2
    MaxRuns = 2
    MaxFaults = 2
SPECIFICATION FairSpec
INVARIANTS DumpIsFaithful DoneIsFaithful
PROPERTIES RunEnds
