SPECIFICATION Spec
CONSTANTS
    phone = phone
    laptop = laptop
    key = key
    other = other
    Callers <- TwoCallers
    Dates = {0, 1}
    Tokens <- SmallTokens
    QueueOf <- SmallQueueOf
    Worth <- SmallWorth
    MaxStanding = 1
    MaxLines = 2
    Keys <- TwoKeys
    Gifts = {1, 2}
    MaxEntries = 2
    MaxGiven = 2
    MaxLost = 1
    Restarts = TRUE
    Leaves = TRUE
SYMMETRY Interchangeable
INVARIANTS
    DecidedOnce
    GrantsAddUp
    RetriesGrantNothing
    ChildIsToldTheDecision
