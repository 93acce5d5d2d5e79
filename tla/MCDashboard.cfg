SPECIFICATION FairSpec
CHECK_DEADLOCK FALSE
CONSTANTS
    Records <- DashboardRecords
    Torn <- TornLine
    MaxFailures = 1
    MaxRestarts = 1
    MaxGen = 1
    Clients = {op1}
    Requests <- LoopRequests
    Sessions <- LoopSessions
    MaxTrainings = 1
    MaxGates = 2
    MaxCallFaults = 1
INVARIANTS
    HistorySound
    LossBounded
PROPERTIES
    AdvanceJustified
    VerdictRecorded
