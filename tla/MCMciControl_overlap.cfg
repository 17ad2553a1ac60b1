\* Two clients control the same MCI, and neither forces it.
SPECIFICATION Spec
CONSTANTS
    Clients = {c1, c2}
    Vms = {v1, v2}
    Kinds = {"control"}
    Wanted = {"Suspend", "Terminate"}
    Scope = {}
    MaxRequests = 2
    MaxFaults = 0
CHECK_DEADLOCK FALSE
INVARIANT OneActionAtATime
