SPECIFICATION Spec
CONSTANTS
    u1 = u1
    NoConfig = NoConfig
    Keys <- MCKeys
    Inbounds <- MCInbounds
    Requests <- MCRequests
    InitialEnv <- MCInitialEnv
    Busy <- MCBusy
    Users <- MCUsers
    Word = 131072
    MaxRollouts = 2
INVARIANTS
    TypeOK
    NoSharedSocket
    AppliedIsServed
    RestoredIsServed
    AnsweredUsersStay
\* The runs of the script and the users to create are bounded.
CHECK_DEADLOCK FALSE
