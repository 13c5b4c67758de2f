CONSTANTS
    d1 = d1
    d2 = d2
    Documents = {d1, d2}
    Retrievals <- MCRetrievals
    K = 2
    Discount <- MCDiscount
    MaxCases = 2
    MaxRelevance = 1
    Budget = 1
    Claims = 1
    Citations = 1
SPECIFICATION BenchmarkSpec
CHECK_DEADLOCK FALSE
INVARIANTS MetricsAgree ReportIsConsistent
