SPECIFICATION FairSpec
CONSTANTS
    sd = sd
    sp = sp
    s1 = s1
    a1 = a1
    f1 = f1
    f2 = f2
    None = None
    Sessions = {sd, sp, s1}
    Director = sd
    Predecessor = sp
    Rotations = {a1}
    Frames = {f1, f2}
    MaxAdmin = 1
    MaxRestarts = 1
    MaxFaults = 1
PROPERTIES RotationsFinish
INVARIANTS OneStory BoundariesAreTrue
CHECK_DEADLOCK FALSE
