SPECIFICATION FairSpec
CHECK_DEADLOCK FALSE
CONSTANTS
    Challenges = {c1, c2, c3}
    Unwanted = {c3}
    MaxConcurrentGames = 1
    MaxRuns = 2
    MaxFaults = 1
    MaxCuts = 1
INVARIANTS
    CapacityKept
    OngoingNotCancelled
PROPERTIES
    GamesPlayed
    SlotsFreed
