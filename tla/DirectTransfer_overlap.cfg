SPECIFICATION Spec
CONSTANTS
    s1 = s1  s2 = s2  f1 = f1  f2 = f2
    Sends = {s1, s2}
    Files = {f1}
    FilesOf <- OneFileTwice
    NameOf <- OwnNames
    Size <- ChunksOfF
    MaxCopies = 1
    MaxBreaks = 1
    MaxCrashes = 1
    MaxLate = 0
    Exclusive = FALSE
    NoFile = NoFile
INVARIANTS
    CompletedIsSaved
CHECK_DEADLOCK FALSE
