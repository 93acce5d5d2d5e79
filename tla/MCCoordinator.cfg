SPECIFICATION Spec
CONSTANTS
    MaxIndex = 2
    Yield <- YieldOfFour
    Target = 3
    UnitsInFlight = 2
    Old = {old}
    MaxStarts = 2
    MaxFaults = 1
INVARIANTS
    CountedOnce
    AnnouncedEnough
    OutstandingHonest
    AnnouncedReadable
    PositionsExact
