SPECIFICATION FairSpec
CONSTANTS
    k1 = k1
    k2 = k2
    v1 = v1
    v2 = v2
    Keys = {k1, k2}
    Vals = {v1, v2}
    Answers <- MCAnswers
    HeaderLen = 2
    BodyLen <- MCBodyLen
    BufLen = 5
    MaxFile = 4
    DeadMin = 2
    TTLs = {1}
    MaxLost = 1
    Failures = {"append", "copy", "open_w", "open_r", "rename", "reopen"}
    MaxLen = 7
    MaxTime = 0
PROPERTIES
    RestartHeals
    CompactionEnds
