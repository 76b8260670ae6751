SPECIFICATION Spec
CONSTANTS
    Users = {alice, bob, carol}
    Secrets = {s1}
    Outbounds = {o1, o2}
    ProtocolTags <- MCProtocolTags
    UuidTags <- MCUuidTags
    Plain = Plain
    Absent = Absent
    Templates <- MCNoTemplates
    InitialTags <- MCOneTag
    MaxBatch = 1
PROPERTIES
    AddRoutesUsers
SYMMETRY UserSymmetry
