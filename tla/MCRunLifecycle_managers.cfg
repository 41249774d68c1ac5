SPECIFICATION FairSpec
CONSTANTS
    NCalls = 2
    RequiredRing <- MCOneGated
    InstanceRing = 1
    Requests = {q1, q2}
    Actors = {m1, m2}
    Decisions = {"approve", "reject", "edit"}
    NoRequest = NoRequest
    MaxFaults = 2
    MaxStops = 1
INVARIANTS
    EffectNeedsApproval
    SettledRunIsComplete
    ContinuationMatchesRun
PROPERTIES
    RejectIsFinal
    ApprovedRunSettles
CHECK_DEADLOCK FALSE
