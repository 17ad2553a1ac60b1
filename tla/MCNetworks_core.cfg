CONSTANTS
    Clients = {c1, c2}
    Subnets = {s1, s2}
    Vms = {m1}
    Uids = {u1, u2, u3}
    NoName = NoName
    None = None
    MayClash = FALSE
    MaxFaults = 1
SPECIFICATION Spec
SYMMETRY Symmetry
INVARIANTS
    TypeOK
    
    UsableIsThere
    ListIsRight
