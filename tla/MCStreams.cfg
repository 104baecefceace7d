CONSTANTS
    RoleSets <- MCRoleSets
    MaxDown = 3
    MaxUp = 2
    MaxStreams = 2
    MaxParts = 2
    MaxKeys = 1
    MaxActivations = 3
SPECIFICATION StreamsSpec
CHECK_DEADLOCK FALSE
INVARIANTS
    AudioIsOfItsStream
    AgreeWhenQuiet
PROPERTIES
    NothingMalformed
