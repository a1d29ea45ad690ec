CONSTANTS
    FirstStale = 1
    Escalation = 1
    MaxRetired = 1
    MaxTime = 3
    MaxEvents = 2
SPECIFICATION FairSpec
INVARIANT RemindersAreEarned
INVARIANT FactsFindTheirReminder
INVARIANT CancelledLeaveTheBus
PROPERTY RemindersArrive
