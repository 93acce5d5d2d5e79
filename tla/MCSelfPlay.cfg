SPECIFICATION FairSystemSpec
CHECK_DEADLOCK FALSE
CONSTANTS
    MaxIndex = 1
    Yield <- YieldBarOne
    Target = 1
    UnitsInFlight = 1
    Old = {}
    MaxStarts = 2
    MaxFaults = 0
    Workers = {w1}
    MaxWorkerFaults = 1
INVARIANTS
    NoWorkLost
PROPERTIES
    ImplementsCoordinator
    EventuallyAnnounced
