SPECIFICATION Spec
CONSTANTS
    Reminders = {r1}
    MaxAttempts = 2
    RetryInterval = 1
    SnoozeMinutes = 2
    Grace = 1
    Period = 3
    Delays = {1, 2}
    MaxTime = 6
    MaxOps = 1
    LastAction = 1
    MaxFailures = 0
    MaxCrashes = 1
    MaxLag = 1
INVARIANTS
    RestoredAfterRestart
