\* Resume after auto-disable.
CONSTANTS
    Jobs = {j1}
    c1 = c1
    Configs = {c1}
    ConfigOf <- MCConfigOf
    MaxConsecutive = 1
    MaxExec = 1
    MaxCrashes = 0
    MaxFaults = 0
SPECIFICATION Spec
CHECK_DEADLOCK FALSE
INVARIANT EnabledIsScheduled
