SPECIFICATION Spec
CONSTANTS
    Browsers = {b1, b2}
    Overlap = FALSE
    Threshold = 2
    MaxChanges = 1
    MaxSecrets = 2
    MaxFaults = 2
INVARIANTS
    TypeOK
    OneClaimWins
    EpochsAgree
    OwnerHasTheSecret
PROPERTIES
    GetsIn
