SPECIFICATION FairSpec
CONSTANTS
    Threads = {t1, t2, t3}
    Keys = {k1, k2}
    Flights = {f1, f2, f3, f4}
    CanPanic = TRUE
    NoResult = NoResult
    NoFlight = NoFlight
    NoKey = NoKey
INVARIANTS
    TypeOK
    OneResolutionPerKey
    RemovesOwnFlight
    NoSleepOnResult
    SharedOnlyInFlight
PROPERTIES
    CallsReturnOrOrphaned
