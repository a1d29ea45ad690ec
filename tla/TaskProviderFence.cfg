CONSTANTS
    Actions = {1, 2, 3, 4, 5}
    AssignmentIds = {a1, a2}
    SendIds = {s1, s2}
    MessageIds = {m1, m2}
    Tasks = {t1, t2}
    Workflows = {w1, w2}
    Revisions = {1, 2}
    Projects = {p1}
    Seats = {c1}
    Sessions = {x1}
    None = None
    MaxLocal = 3
    MaxAttempt = 1
    MaxPrepared = 1
SPECIFICATION SpecInOrder
SYMMETRY Symmetry
CHECK_DEADLOCK FALSE
INVARIANTS
    ValidateState
PROPERTIES
    LegacyFrozenAfterV3
