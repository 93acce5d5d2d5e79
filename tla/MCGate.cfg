SPECIFICATION FairSpec
CHECK_DEADLOCK FALSE
CONSTANTS
    Pairs = 4
    Workers = {w1, w2}
    Outcomes <- TwoOutcomes
    LLR <- Lead
    Lower <- MinusFour
    Upper = 2
    Interrupts = "possible"
INVARIANTS
    NoResultLost
    CompleteOrExplained
    ReportExact
PROPERTIES
    VerdictLatches
    Unwinds
