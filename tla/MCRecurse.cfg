SPECIFICATION Spec
CONSTANTS
    s1 = s1
    s2 = s2
    Servers = {s1, s2}
    Roots <- MCRoots
    Replies <- MCReplies
    MaxDepth = 2
    Budget = 3
    Probe = 2
    TcpReads = 2
    MaxNs = 2
    MaxList = 2
    None = None
INVARIANTS
    TypeOK
    OverrunBounded
    WorkBounded
    Failover
PROPERTIES
    Terminates
