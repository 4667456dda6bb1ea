SPECIFICATION Spec
CONSTANTS
    wish = wish
    Creates = {wish}
    Exact = {wish}
    Changes = {change}
    Plans <- TwoReminders
    Texts = {"yes", "stop", "list", "which", "request",
             "need", "multi", "chat", "repair", "retime"}
    Llm = TRUE
    MaxOffers = 2
    MaxUpdates = 3
    MaxFailures = 1
    MaxCrashes = 1
    MaxRedeliveries = 1
INVARIANTS
    OneAtItsMoment
    AtMostOnce
PROPERTIES
    RefusedStaysUndone
    ImplementsLife
