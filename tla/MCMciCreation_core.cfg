\* Two requests for one MCI, whose checks do not overlap, and a status request; two
\* failing calls, so that all VMs may fail.
SPECIFICATION FairSpec
CONSTANTS
    Creators = {c1, c2}
    Pollers = {p1}
    Vms = {v1, v2}
    Policy = "continue"
    Scope = {"dynamic", "hold"}
    MaxFaults = 2
CHECK_DEADLOCK FALSE
INVARIANT TypeOK
INVARIANT NoDuplicateVm
INVARIANT NoEndlessCreate
PROPERTY RecoveryWaits
PROPERTY CreationEnds
