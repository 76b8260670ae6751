SPECIFICATION FairSpec
CONSTANTS
    Configs = {old, good, refused, cascade}
    InitialConfig = old
    Refused = {refused}
    Unrenderable = {cascade}
    MaxFaults = 2
    MaxCancels = 1
    MaxCrashes = 1
    Nothing = Nothing
INVARIANTS
    TypeOK
    SettledAgreement
PROPERTIES
    RollbackReinstalls
    ImplementsAtomicNode
    EveryReloadEnds
