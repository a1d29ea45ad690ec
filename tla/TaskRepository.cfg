CONSTANTS
    p1 = p1
    p2 = p2
    t1 = t1
    t2 = t2
    k1 = k1
    None = None
    Procs <- MCProcs
    Tasks <- MCTasks
    Requests <- MCRequests
    Tokens <- MCTokens
    Capacity = 1
    MaxFaults = 2
    Watchers <- MCWatchers
    Filters <- MCFilters
    MaxPowerLosses = 1
SPECIFICATION Spec
INVARIANT Loadable
INVARIANT LossesAreRecorded
INVARIANT WatchGapless
PROPERTY ImplementsDurableLog
