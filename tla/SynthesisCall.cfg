CONSTANTS
    e1 = e1
    e2 = e2
    e3 = e3
    Chunks = {e1, e2, e3}
    MaxEvidence = 3
    MaxClaims = 2
    MaxCites = 2
    MaxAttempts = 3
SPECIFICATION SynthesisSpec
CHECK_DEADLOCK FALSE
INVARIANTS AnswerIsSupported CitationsAreGenuine SendsBounded OnlyTransientFailuresAreResent OutcomeIsEarned
PROPERTIES ImplementsAnswerContract CallEnds
