SPECIFICATION Spec
CONSTANTS
    Clients = {c1, c2}
    Writer = w
    Keys = {k1, k2}
    None = None
    Capacity = 1
    MaxTtl = 2
    Promo = 3
    Ttls = {1}
    Failures = {"timeout", "reset", "refused", "disk"}
    MaxFaults = 1
    MaxCalls = 4
    MaxTime = 9
    MaxQueue = 1
SYMMETRY MCSymmetry
CONSTRAINT MCScope
INVARIANTS
    TypeOK
    L1WithinCapacity
    MixedOnlyAfterTimeout
    StalenessBounded
