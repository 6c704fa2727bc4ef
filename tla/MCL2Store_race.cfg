SPECIFICATION Spec
CONSTANTS
    k1 = k1
    k2 = k2
    v1 = v1
    v2 = v2
    Keys = {k1, k2}
    Vals = {v1, v2}
    Answers <- MCAnswers
    HeaderLen = 2
    BodyLen <- MCBodyLen
    BufLen = 100
    MaxFile = 4
    DeadMin = 2
    TTLs = {1}
    MaxLost = 0
    Failures = {}
    MaxLen = 10
    MaxTime = 1
INVARIANTS
    ReadYourWrites
