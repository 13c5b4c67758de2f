SPECIFICATION Spec
CONSTANTS
    c1 = c1
    c2 = c2
    c3 = c3
    Chunks = {c1, c2, c3}
    MaxRetrievalIterations = 3
    MaxRetrievalCalls = 3
    MaxProposed = 4
    MaxVariants = 2
    MaxSubqueries = 4
    TopK = 2
INVARIANTS
    CallBudgetRespected
    WorkBounded
    ReasonJustified
    EvidenceHandedOver
PROPERTIES
    Termination
    ImplementsContract
CHECK_DEADLOCK FALSE
