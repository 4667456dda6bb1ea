SPECIFICATION FairSpec
CONSTANTS
    CallbackTtl = 3
    MessageTtl = 2
    ConflictStep = 2
    ConflictCap = 3
    RetryStep = 1
    RetryFloor = 2
    RetryCap = 3
    Offsets <- MCOffsets
    Deadline = 3
    Grace = 1
    ChainTexts = {c1}
    OtherTexts = {x1}
    GuardedTexts = {c1}
    MaxUpdates = 2
    MaxRedeliveries = 1
    MaxFailures = 1
    MaxCrashes = 1
    LastEvent = 1
    MaxTime = 4
INVARIANTS
    ChainWhole
    ChainHasJobs
PROPERTIES
    PressWorksOnce
    RefusedTextWasHeard
    HandledMeansTold
    ChainRings
    UpdatesAreHeard
