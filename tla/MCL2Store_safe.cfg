SPECIFICATION Spec
CONSTANTS
    k1 = k1
    k2 = k2
    v1 = v1
    v2 = v2
    Keys = {k1, k2}
    Vals = {v1, v2}
    Answers <- MCAnswers
    HeaderLen = 2
    BodyLen <- MCBodyLen
    BufLen = 5
    MaxFile = 4
    DeadMin = 2
    TTLs = {1}
    MaxLost = 2
    Failures = {"copy", "open_w"}
    MaxLen = 9
    MaxTime = 1
INVARIANTS
    TypeOK
    IndexIntegrity
    GetReturnsOnlyPuts
    DeadBytesAreDead
PROPERTIES
    SwapKeepsSnapshot
    RefinesContract
