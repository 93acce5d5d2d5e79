SPECIFICATION StreamSpec
CHECK_DEADLOCK FALSE
CONSTANTS
    MaxPly = 5
    Claimable = {4}
    MaxRepeats = 2
    MaxFaults = 2
PROPERTIES
    AppliedWhereChosen
    TurnsAnswered
    GameReturns
