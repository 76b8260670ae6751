SPECIFICATION Spec
CONSTANTS
    Users = {alice, bob}
    Secrets = {s1, s2}
    Outbounds = {}
    ProtocolTags <- MCProtocolTags
    UuidTags <- MCUuidTags
    Plain = Plain
    Absent = Absent
    Templates <- MCGrowing
    InitialTags <- MCTwoTags
    MaxBatch = 2
INVARIANTS
    EveryUserCounted
PROPERTIES
    SecretsAreStable
    CreatedEverywhere
    ReportedSecretsWork
SYMMETRY SecretSymmetry
