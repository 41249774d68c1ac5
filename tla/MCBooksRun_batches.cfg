SPECIFICATION FairSpec
CONSTANTS
    Batches = {b1, b2}
    d1 = d1
    d2 = d2
    Docs = {d1, d2}
    Statements <- MCStatements
    Targets <- MCTargets
    NoBalance = NoBalance
    MaxFaults = 2
INVARIANTS
    NoRowIsLost
    HeapHoldsEachRowOnce
PROPERTY
    EveryBatchEnds
CHECK_DEADLOCK FALSE
