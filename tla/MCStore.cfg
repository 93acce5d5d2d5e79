SPECIFICATION Spec
CHECK_DEADLOCK FALSE
CONSTANTS
    Keys = {k1}
    Temps = {t1, t2}
    Contents = {c1, c2}
    Chunks = 2
    Writers = {w1, w2}
    Readers = {r1}
    MaxFiles = 3
    MaxKills = 1
    MaxCuts = 1
    Absent = Absent
    Blank = Blank
SYMMETRY Interchangeable
INVARIANTS
    ReadsWhole
    PartialsAccounted
PROPERTIES
    ImplementsStore
