SPECIFICATION Spec
CONSTANTS
    Users = {u1}
    NoConfig = NoConfig
    MaxRelease = 2
    MaxUpdates = 1
INVARIANTS
    TypeOK
    UpdatedIsDeployed
    RestoredIsDeployed
    AnsweredUsersStay
\* The updates and the users to create are bounded.
CHECK_DEADLOCK FALSE
