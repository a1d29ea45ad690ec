CONSTANTS
    Actions = {1, 2, 3, 4, 5, 6, 7}
    AssignmentIds = {a1}
    SendIds = {s1}
    MessageIds = {m1}
    Tasks = {t1}
    Workflows = {w1}
    Revisions = {1}
    Projects = {}
    Seats = {c1}
    Sessions = {x1}
    None = None
    MaxLocal = 6
    MaxAttempt = 2
    MaxPrepared = 2
SPECIFICATION SpecInOrder
CHECK_DEADLOCK FALSE
INVARIANTS
    EvidenceMatchesReceipts
    OutboxMatchesReceipts
    DecisionOnWhatWasRead
PROPERTIES
    ImplementsLifecycle
