SPECIFICATION Spec
CONSTANTS
    Day <- MCDay
    Zones <- MCZones
    Rules <- MCRules
    Starts <- MCStarts
    Delays = {0, 1, 2, 5, 7}
    MaxTime = 72
INVARIANTS
    TypeOK
    StrictlyLater
    OnItsDay
    NothingSkipped
    TodayShowsIt
PROPERTIES
    OncePerDay
