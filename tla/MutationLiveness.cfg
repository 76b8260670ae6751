SPECIFICATION FairSpec
CONSTANTS
    Tasks = {t1, t2, t3}
    Users = {alice}
    Ops <- MCCommitOps
    Configs <- MCConfigs
    InitialConfig = {alice}
    Refuses <- MCRefuses
    Skips <- MCSkips
    Apply <- MCApply
    EarlyBackup <- MCEarlyBackup
    MaxClock = 0
    MaxCancels = 1
    MaxCrashes = 0
    Nobody = Nobody
    Broken = Broken
    None = None
PROPERTIES
    EveryRequestAnswered
