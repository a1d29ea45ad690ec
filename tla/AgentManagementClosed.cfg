SPECIFICATION FairSpec
CONSTANTS
    a1 = a1
    a2 = a2
    d = d
    v = v
    w = w
    None = None
    Actions = {a1}
    Requests <- McProgress
    MaxSession = 1
    DirectorSpec = d
    MaxFaults = 1
    MaxAdmin = 0
CHECK_DEADLOCK FALSE
PROPERTIES
    ReplayFinishesEveryFence
