SPECIFICATION Spec
CHECK_DEADLOCK FALSE
CONSTANTS
    Threads = {main}
    Evaluators = {hce}
    Keys = {k1}
    Slots = 1
    Depths = {1}
    Bounds = {"exact"}
    MaxSearches = 70
INVARIANTS
    FreshNotDiscounted
