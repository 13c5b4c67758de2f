CONSTANTS
    k1 = k1
    k2 = k2
    k3 = k3
    k4 = k4
    Chunks = {k1, k2, k3, k4}
    Wanted = {k1, k2, k3}
    MaxVariants = 2
    MaxScore = 2
    Limits <- MCLimits
    RrfK = 60
SPECIFICATION Spec
CHECK_DEADLOCK FALSE
SYMMETRY MCSymmetry
INVARIANTS DominanceRespected ProvenanceKept
