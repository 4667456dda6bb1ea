SPECIFICATION Spec
CONSTANTS
    AutoExecute = 82
    ConfirmMin = 45
    ConfirmWakeUps = TRUE
    Tasks = {"gym"}
    Phrases = {"morning 7"}
    Texts <- MCTexts
    Answers = {"not 8, 7 am"}
    Repairs = {"move gym", "not 8, 7 am"}
    Signatures = {"gym morning <n>", "gym <time>", "move gym", "wake me", "not 8, 7 am"}
    SignatureOf <- MCSignatureOf
    PhraseOf <- MCPhraseOf
    Normalised <- MCNormalised
    SimilarTo <- MCSimilarTo
    Resembles <- MCResembles
    ReadingsOf <- MCReadingsOf
    Planned <- MCPlanned
    MaxHeard = 3
INVARIANTS ExamplesRaiseConfidence
