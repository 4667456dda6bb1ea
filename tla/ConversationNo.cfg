SPECIFICATION Spec
CONSTANTS
    wish = wish
    Creates = {wish}
    Exact = {wish}
    Changes = {change}
    Plans <- TwoReminders
    Texts = {"no", "request"}
    Llm = FALSE
    MaxOffers = 1
    MaxUpdates = 2
    MaxFailures = 0
    MaxCrashes = 0
    MaxRedeliveries = 0
INVARIANT
    NoMeansNo
