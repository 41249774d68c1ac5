SPECIFICATION Spec
CONSTANTS
    NCalls = 2
    RequiredRing <- MCTwoGated
    InstanceRing = 1
    Requests = {q1, q2}
    Actors = {m1}
    Decisions = {"approve"}
    NoRequest = NoRequest
    MaxFaults = 0
    MaxStops = 0
INVARIANTS
    EffectNeedsApproval
CHECK_DEADLOCK FALSE
