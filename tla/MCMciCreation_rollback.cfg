\* One request with the policy rollback, one failing call.
SPECIFICATION FairSpec
CONSTANTS
    Creators = {c1}
    Pollers = {}
    Vms = {v1, v2}
    Policy = "rollback"
    Scope = {"object"}
    MaxFaults = 1
CHECK_DEADLOCK FALSE
PROPERTY RollbackOnFailure
