SPECIFICATION Spec
CONSTANTS
    Clients = {c1, c2}
    Writer = w
    Keys = {k1, k2}
    None = None
    Capacity = 1
    MaxTtl = 2
    Promo = 1
    Ttls = {1}
    Failures = {"timeout"}
    MaxFaults = 1
    MaxCalls = 3
    MaxTime = 3
    MaxQueue = 1
SYMMETRY MCSymmetry
INVARIANTS
    EntriesOwnKey
