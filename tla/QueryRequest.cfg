CONSTANTS
    q = q
    p = p
    s = s
    t1 = t1
    t2 = t2
    TraceIds = {t1, t2}
    Queries = {q}
    Retrieves = {p}
    Streams = {s}
    Assignments <- MCAssignments
    MaxTraces = 1
    MaxProgress <- MCMaxProgress
SPECIFICATION Spec
CHECK_DEADLOCK FALSE
INVARIANTS EndedStreamIsWhole StoredTracesAreFinal TraceIsThere CompletedMeansAnswered
PROPERTY EveryQuerySettles
