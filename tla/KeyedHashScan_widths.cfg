SPECIFICATION Spec
CONSTANTS
    KeySpace = {9, 10, 11}
    Hashes = {h1}
    NoRow = NoRow
    KeyMax = 11
    ChunkSize = 4
    MaxChunks = 2
    Expansion = 1
    BatchSize = 2
    Estimates = {0}
    MaxWrites = 0
INVARIANTS
    OnlyRealDifferences
CHECK_DEADLOCK FALSE
