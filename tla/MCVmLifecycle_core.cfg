\* Creation, one control and a deletion at any time, one failing call.
SPECIFICATION Spec
CONSTANTS
    Creator = creator
    Controllers = {c1}
    Pollers = {}
    Nobody = nobody
    IPs = {1, 2}
    Scope <- MCBusy
    MaxRequests = 1
    MaxFaults = 1
CHECK_DEADLOCK FALSE
 
INVARIANT NeverFalselyTerminated
