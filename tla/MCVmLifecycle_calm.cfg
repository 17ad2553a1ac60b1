\* One request after the other, no failing call.
SPECIFICATION FairSpec
CONSTANTS
    Creator = creator
    Controllers = {c1}
    Pollers = {p1}
    Nobody = nobody
    IPs = {1, 2}
    Scope <- MCCalm
    MaxRequests = 3
    MaxFaults = 0
CHECK_DEADLOCK FALSE
INVARIANT SuspendedIsStable
INVARIANT TerminatedMeansGone
 
PROPERTY Settles
