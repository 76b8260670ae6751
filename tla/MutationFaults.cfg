SPECIFICATION Spec
CONSTANTS
    Tasks = {t1, t2}
    Users = {alice}
    Ops <- MCOps
    Configs <- MCConfigs
    InitialConfig = {}
    Refuses <- MCRefuses
    Skips <- MCSkips
    Apply <- MCApply
    EarlyBackup <- MCEarlyBackup
    MaxClock = 1
    MaxCancels = 1
    MaxCrashes = 1
    Nobody = Nobody
    Broken = Broken
    None = None
INVARIANTS
    TypeOK
    LockDiscipline
    BackupIsPrestate
    QuiescentAgreement
    ReadsAreGenuine
PROPERTIES
    FailureRestores
    SuccessIsServed
    ImplementsAtomicNode
SYMMETRY Symmetry
