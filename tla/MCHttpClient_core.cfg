CONSTANTS
    Callers = {c1, c2}
    ConcurrencyLimit = 2
    RetryLimit = 2
    FailureThreshold = 2
    MaxFailures = 4
SPECIFICATION FairSpec
INVARIANTS
    SlotsMatch
    FullMeansInUse
    BreakerEarned
PROPERTIES CallReturns
