SPECIFICATION Spec
CONSTANTS
    DataTasks = {}
    StructureTasks = {s1, s2}
    Tables = {}
    Concurrency = 1
    MaxRetained = 1
PROPERTIES
    AcceptedCancelStops
CHECK_DEADLOCK FALSE
