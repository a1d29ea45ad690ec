SPECIFICATION FairSpec
CONSTANTS
    a1 = a1
    a2 = a2
    d = d
    v = v
    w = w
    None = None
    Actions = {a1, a2}
    Requests <- McProgress
    MaxSession = 2
    DirectorSpec = d
    MaxFaults = 2
    MaxAdmin = 1
INVARIANTS OneNativePerAction
PROPERTIES FencesFinish
CHECK_DEADLOCK FALSE
