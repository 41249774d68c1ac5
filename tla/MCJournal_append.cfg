SPECIFICATION FairSpec
CONSTANTS
    Instances = {i1, i2}
    Keys = {k1}
    NoKey = NoKey
    Writers = {w1, w2, w3}
    MaxSeqRetries = 2
    MaxCalls = 3
INVARIANTS
    TotalOrder
    KeySpentOnce
    OutcomeIsTrue
    EveryRetryLostARace
PROPERTIES
    AppendIsAtomic
    EveryAppendEnds
CHECK_DEADLOCK FALSE
