SPECIFICATION Spec
CONSTANTS
    DataTasks = {d1, d2}
    StructureTasks = {}
    Tables = {t1, t2}
    Concurrency = 1
    MaxRetained = 0
INVARIANTS
    TaskInv
    ReceivesOutcome
PROPERTIES
    CancelStopsTables
    EveryFlowEnds
CHECK_DEADLOCK FALSE
