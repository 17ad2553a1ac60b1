CONSTANTS
    PolicyCount = 2
    ConditionOf <- MCConditionOf
    ActionOf <- MCActionOf
    Loads = {0, 2}
    NaN = NaN
    None = None
    MaxVms = 1
    MaxFaults = 1
SPECIFICATION FairSpec
INVARIANTS
    
    StuckIsExplained
PROPERTIES ReadyAgain
