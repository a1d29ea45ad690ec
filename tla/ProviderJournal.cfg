SPECIFICATION FairSpec
CONSTANTS
    Procs = {p1, p2}
    Readers = {r1}
    Actions = {a1, a2}
    None = None
    Unreadable = Unreadable
    MaxRecords = 2
    MaxPowerLosses = 1
    WatchLimit = 2
INVARIANTS
    ReadersSeeTheLog
PROPERTIES
    ImplementsDurableLog
    CallsGetThrough
