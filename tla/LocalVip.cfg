CONSTANTS
    MaxGeneration = 2
    MaxOrphans = 1
SPECIFICATION LiveSpec
CHECK_DEADLOCK FALSE
INVARIANTS
    ReleaseIsTruthful
    AddressIsTracked
PROPERTY RevokedIsRemoved
