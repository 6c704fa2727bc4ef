SPECIFICATION Spec
CONSTANTS
    Admins = {a1, a2}
    Names = {n1}
    NoReq = NoReq
    DbFailures = {"error", "lost_ack"}
    MaxRequests = 3
SYMMETRY MCSymmetry
INVARIANTS
    TypeOK
    ChainBreaksOnlyOnLostHash
    EveryChangeLogged
    PolicyFromItsReload
