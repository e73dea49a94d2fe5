CONSTANTS
    Calls = {c1, c2}
    Closers = {k1, k2}
    Names = {a}
    Default = a
    Kinds <- Shared
    c1 = c1
    c2 = c2
    Chunks = 1
    Embedder = FALSE
    MaxFaults = 1
    MaxVersion = 1
SPECIFICATION FairSpec
INVARIANTS Fresh ReadYourDdl CloseIsFinal
PROPERTY CallsReturn
