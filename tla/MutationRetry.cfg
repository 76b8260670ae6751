SPECIFICATION Spec
CONSTANTS
    Tasks = {t1, t2}
    Users = {alice}
    Ops <- MCOps
    Configs <- MCConfigs
    InitialConfig = {}
    Refuses <- MCRefuses
    Skips <- MCSkips
    Apply <- MCApply
    EarlyBackup <- MCEarlyBackup
    MaxClock = 1
    MaxCancels = 0
    MaxCrashes = 1
    Nobody = Nobody
    Broken = Broken
    None = None
PROPERTIES
    RetryIsSafe
SYMMETRY Symmetry
