SPECIFICATION FairSpec
CONSTANTS
    Reminders = {r1}
    MaxAttempts = 2
    RetryInterval = 1
    SnoozeMinutes = 2
    Grace = 1
    Period = 3
    Delays = {1, 2}
    MaxTime = 13
    MaxOps = 3
    LastAction = 2
    MaxFailures = 1
    MaxCrashes = 1
    MaxLag = 1
INVARIANTS
    OpenHasTime
    SettledStaysClosed
    JobOrRearming
    JobInStep
    NeverEarly
    AlertBudget
    MissedAfterAllAttempts
PROPERTIES
    OneTimeEnds
    DueIsServed
