SPECIFICATION FairSpec
CHECK_DEADLOCK FALSE
CONSTANTS
    t1 = t1
    a1 = a1
    a2 = a2
    i1 = i1
    i2 = i2
    None = None
    Texts = {t1}
    Calls = {1, 2}
    Agents = {a1, a2}
    Ids = {i1, i2}
    Window = 0
    MaxClock = 1
    Possible = {"restart", "crash", "leave", "lostack", "refuse", "garble", "store"}
    MaxMishaps = 1
INVARIANTS AnsweredIsDurable BookIsTrue
PROPERTY EveryMessageSettles
