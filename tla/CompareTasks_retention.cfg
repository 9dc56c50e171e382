SPECIFICATION Spec
CONSTANTS
    DataTasks = {}
    StructureTasks = {s1, s2}
    Tables = {}
    Concurrency = 1
    MaxRetained = 0
INVARIANTS
    RunningTaskKept
PROPERTIES
    RetentionBound
CHECK_DEADLOCK FALSE
