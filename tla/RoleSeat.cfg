CONSTANTS
    None = None
    s1 = s1
    s2 = s2
    k1 = k1
    h1 = h1
    h2 = h2
    i1 = i1
    t1 = t1
    t2 = t2
    SessionRefs <- MCSessionRefs
    Handoffs <- MCHandoffs
    Initializations <- MCInitializations
    Transitions <- MCTransitions
    Incumbents <- MCIncumbents
    Roots = {1, 15, 17}
    Endings = {"cancelled"}
    MaxNumber = 17
    MaxRevision = 15
    MaxTime = 2
    MaxFaults = 1
SYMMETRY MCSymmetry
SPECIFICATION Spec
INVARIANT PlansValidate
INVARIANT HistoryIsExact
INVARIANT ConfirmedStaysTrue
INVARIANT SeatIsFreed
CHECK_DEADLOCK FALSE
