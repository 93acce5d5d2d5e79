SPECIFICATION Spec
CHECK_DEADLOCK FALSE
CONSTANTS
    Graphs <- SomeGraphs
    Positions <- AllPositions
    MaxDepth = 6
    Limits = {10, 20}
    MaxSearches = 2
    MaxHelps = 1
    Ahead = {2}
INVARIANTS
    MatesSound
    ScoreExact
    LineLeads
