CONSTANTS
    r1 = r1
    r2 = r2
    r3 = r3
    r4 = r4
    c1 = c1
    c2 = c2
    Requests = {r1, r2, r3, r4}
    Clients = {c1, c2}
    Limit = 1
    Window = 2
    MaxTime = 3
    MaxLag = 1
SPECIFICATION Spec
CHECK_DEADLOCK FALSE
SYMMETRY MCSymmetry
INVARIANTS WindowRespected LateChecksBounded DenialIsDeserved
