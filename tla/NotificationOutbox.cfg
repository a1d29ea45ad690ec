SPECIFICATION FairSpec
CONSTANTS
    n1 = n1
    n2 = n2
    s1 = s1
    s2 = s2
    a1 = a1
    a2 = a2
    None = None
    Outbox <- McOutbox
    Followups = {n2}
    Sessions = {s1, s2}
    Assignee = s1
    Coordinator = s2
    Agents = {a1, a2}
    SessionOf <- McPair
    Starts <- McStarts
    MaxCommits = 1
INVARIANTS
    FactsTellOneStory
    NeverForgotten
    QueueIsExact
PROPERTIES
    AckedAfterDelivery
    EveryNotificationArrives
    SettledMessagesLeave
