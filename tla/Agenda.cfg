SPECIFICATION FairSpec
CONSTANTS
    Reminders = {r1, r2}
    Day = 4
    Hours = {0, 2}
    Grace = 1
    Listed = 1
    MaxChanges = 2
    MaxMisses = 2
    MaxFailures = 1
    MaxCrashes = 1
INVARIANTS
    JobFollowsPreference
    ToldOnce
    ReportedMeansTaken
PROPERTIES
    AgendaKeepsComing
    MissIsReported
