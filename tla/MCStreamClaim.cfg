SPECIFICATION StreamSpec
CHECK_DEADLOCK FALSE
CONSTANTS
    MaxPly = 3
    Claimable = {1}
    MaxRepeats = 0
    MaxFaults = 0
PROPERTIES
    PlaysUntilServerEnds
