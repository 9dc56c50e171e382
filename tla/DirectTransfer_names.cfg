SPECIFICATION Spec
CONSTANTS
    s1 = s1  s2 = s2  f1 = f1  f2 = f2
    Sends = {s1}
    Files = {f1, f2}
    FilesOf <- TwoFiles
    NameOf <- SameName
    Size <- ChunksOfFG
    MaxCopies = 1
    MaxBreaks = 1
    MaxCrashes = 1
    MaxLate = 1
    Exclusive = FALSE
    NoFile = NoFile
INVARIANTS
    CompletedIsSaved
CHECK_DEADLOCK FALSE
