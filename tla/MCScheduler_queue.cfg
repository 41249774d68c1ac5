SPECIFICATION FairQueueSpec
CONSTANTS
    NWork = 2
    Workers = {a, b}
    MaxTime = 3
    MaxFailures = 2
    MaxCrashes = 2
INVARIANTS
    ReturnsOnce
PROPERTIES
    ImplementsWorkQueue
    FairTurns
    EveryItemCompletes
CHECK_DEADLOCK FALSE
