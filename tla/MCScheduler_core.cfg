CONSTANTS
    Jobs = {j1}
    c1 = c1
    Configs = {c1}
    ConfigOf <- MCConfigOf
    MaxConsecutive = 2
    MaxExec = 2
    MaxCrashes = 1
    MaxFaults = 1
SPECIFICATION FairSpec
CHECK_DEADLOCK FALSE
INVARIANTS
    TypeOK
    ExecutionsAccounted
    PauseTakesEffect
    StrayTasksAreFailures
    ExecutingIsLive
PROPERTIES GoneForGood
    DeletionEndsLoop
    ExecutionEnds
    RunsAsPromised
