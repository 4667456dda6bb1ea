SPECIFICATION Spec
CONSTANTS
    Nothing = Nothing
    gym = gym
    up = up
    t1 = t1
    t2 = t2
    two = two
    mixed = mixed
    number = number
    WakeUp = up
    ByNumber = number
    Words <- MCWords
    Messages <- FewMessages
    NumberIn <- MCNumberIn
    Labels <- MCLabels
    MaxMade = 2
    MaxHeard = 3
PROPERTY NewTimeIsUsed
