SPECIFICATION Spec
CONSTANTS
    Admins = {a1, a2}
    Names = {n1}
    NoReq = NoReq
    DbFailures = {}
    MaxRequests = 3
SYMMETRY MCSymmetry
INVARIANTS
    QuiescentPolicyCurrent
