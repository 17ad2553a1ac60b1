\* Two VMs, two requests of any kind at the same time, none forced, no failing calls.
SPECIFICATION Spec
CONSTANTS
    Clients = {c1, c2}
    Vms = {v1, v2}
    Kinds = {"status", "control", "vm", "refine", "drop", "delete"}
    Wanted = {"Suspend", "Resume", "Reboot", "Terminate"}
    Scope = {}
    MaxRequests = 2
    MaxFaults = 0
SYMMETRY AnyOrder
CHECK_DEADLOCK FALSE
INVARIANT TypeOK
INVARIANT NoOrphanAction
PROPERTY NoVmIsForgotten
PROPERTY RecoveryIsRight
