SPECIFICATION FairSpec
CONSTANTS
    a1 = a1
    a2 = a2
    r1 = r1
    r2 = r2
    Callers = {w1}
    Args = {a1, a2}
    Results = {r1, r2}
    None = None
    Rings = {0, 2}
    Required = 2
    Verdicts = {"allow", "park", "deny"}
    MaxCalls = 4
    MaxFaults = 2
INVARIANTS
    OneRequestPerKey
    ReplayIsFaithful
    RepeatsArePaidFor
    SettledHasReceipt
    EffectsWereJournaled
PROPERTIES
    RetryIsAnswered
CHECK_DEADLOCK FALSE
