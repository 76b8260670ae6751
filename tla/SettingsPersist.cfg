SPECIFICATION Spec
CONSTANTS
    Labels <- MCLabels
    DefaultLabel = "Feint"
    Rejected <- MCRejected
    AsRead <- MCAsRead
    Modes <- MCModes
    InstalledMode <- MCInstalled
    Lost = Lost
    MaxPuts = 2
    MaxWrites = 2
    MaxDeaths = 1
PROPERTIES
    PutPersists
