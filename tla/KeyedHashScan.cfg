SPECIFICATION Spec
CONSTANTS
    KeySpace = {3, 4, 7}
    Hashes = {h1, h2}
    NoRow = NoRow
    KeyMax = 7
    ChunkSize = 2
    MaxChunks = 2
    Expansion = 1
    BatchSize = 2
    Estimates = {0, 2, 9}
    MaxWrites = 1
INVARIANTS
    ScanInv
    ScriptConverges
    ExactWhenOrdersAgree
    CountsMatchRecords
    NeverOverflows
    ChunkProgress
PROPERTIES
    Terminates
CHECK_DEADLOCK FALSE
