CONSTANTS
    Calls = {c1, c2}
    Closers = {}
    Names = {a}
    Default = a
    Kinds <- Readers
    c1 = c1
    c2 = c2
    Chunks = 1
    Embedder = FALSE
    MaxFaults = 0
    MaxVersion = 2
SPECIFICATION FairSpec
INVARIANT AlwaysReadsDdl
