\* One request for two VMs, one call of a client, one failing store call, one crash.
SPECIFICATION FairSpec
CONSTANTS
    r1 = r1
    r2 = r2
    v1 = v1
    v2 = v2
    Requests = {r1}
    Clients = {c1}
    Vms = {v1, v2}
    TargetsOf <- MCTargetsOf
    IdOf <- MCIdOf
    Internal = internal
    NameOf <- MCNameOf
    None = none
    PastOf <- MCPastOf
    PageLimit = 1
    MaxRetries = 2
    MaxInFlight = 1
    MaxCalls = 1
    MaxFaults = 1
CHECK_DEADLOCK FALSE
INVARIANTS
    TypeOK
    IndicesUnique
    Cancellable
    EndedIsTerminal
PROPERTIES RequestReturns
