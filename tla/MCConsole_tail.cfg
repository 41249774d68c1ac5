SPECIFICATION FairConsoleSpec
CONSTANTS
    r1 = r1
    r2 = r2
    m1 = m1
    InstanceIds = {1, 2}
    Runs = {r1, r2}
    InstanceOf <- TwoRuns
    Managers = {m1}
    RecentLimit = 3
    PollLimit = 4
    ListLimit = 4
    MaxTime = 1
    MaxEvents = 5
    MaxFaults = 1
INVARIANT
    ListAgreesWithPage
PROPERTY
    EveryEventIsShown
    TailComesToRest
CHECK_DEADLOCK FALSE
