SPECIFICATION Spec
CONSTANTS
    Clients = {c1, c2}
    Qps = 1
    Second = 2
    Idle = 2
    MaxBuckets = 1
    BatchSize = 2
    MaxFails = 1
    Workers = {w1, w2}
    Keys = {k1}
    NoWorker = NoWorker
    MaxDatagrams = 3
    MaxPanics = 2
INVARIANTS
    TypeOK
    RowsAccounted
    LossNeedsFailedInsert
    DatagramsAccounted
PROPERTIES
    ActsAsTokenBuckets
    EveryDatagramServed
    EveryRowLeaves
