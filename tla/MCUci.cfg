SPECIFICATION FairSpec
CHECK_DEADLOCK FALSE
CONSTANTS
    Threads = {main, t1}
    Main = main
    HCE = hce
    Evaluators = {hce, net}
    Keys = {k1, k2}
    Slots = 1
    Depths = {1}
    Bounds = {"exact"}
    MaxDepth = 2
    MaxCommands = 3
    MaxProbes = 1
    MaxStores = 2
INVARIANTS
    AnsweredInOrder
    HitIsOwn
    HitIsCurrent
PROPERTIES
    StopReturns
