SPECIFICATION Spec
CONSTANTS
    Queues = 2
    MaxTasks = 3
    MayDestroy = TRUE
INVARIANTS TaskRunsOnce 
