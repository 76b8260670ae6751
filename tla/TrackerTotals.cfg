SPECIFICATION FairSpec
CONSTANTS
    Users = {alice}
    MaxBytes = 1
    MaxRuntimeRestarts = 3
    MaxApiRestarts = 1
    MaxWriteErrors = 1
INVARIANTS
    TypeOK
    OvercountIsBounded
    BaselineIsCounted
PROPERTIES
    EventuallyCounted
    EventuallyPersisted
