SPECIFICATION Spec
CONSTANTS
    Workers = {w1, w2}
    Queries <- EcsQueries
    Tables <- MCTables
    Bindings <- MCBindings
    Answers <- MCAnswers
    Nat64 <- MCNat64
    ApiAnswers <- MCApiAnswers
    Geo <- MCGeo
    LabelTail <- MCLabelTail
    LongLabels <- MCLongLabels
    DualstackOn = TRUE
    ScopeMax = 24
    DeriveMask = 28
    MaxTtl = 5
    NegTtl = 3
    None = None
    MaxQueries = 2
    MaxReloads = 2
SYMMETRY MCSymmetry
INVARIANT SubnetPartition
