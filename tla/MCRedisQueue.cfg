CONSTANTS
    Jobs = {j1, j2, j3}
    Clients = {c1, c2}
    Capacity = 2
    Lease = 1
    ReclaimLimit = 1
    MaxLag = 1
    MaxTime = 2
    MaxToken = 3
SPECIFICATION Spec
SYMMETRY MCSymmetry
CHECK_DEADLOCK FALSE
PROPERTIES
    ClaimsAreFenced
    ImplementsContract
