SPECIFICATION Spec
CONSTANTS
    c1 = c1
    c2 = c2
    i1 = i1
    i2 = i2
    Callers <- TwoCallers
    Ids <- SmallIds
    Plays <- EachPlay
    Sources = {"studygo"}
    Links = {1}
    MaxFails = 2
    MaxDays = 2
    RefreshDays = 1
    LastDay = 2
    LastPassword = 1
    Leaves = TRUE
SYMMETRY Interchangeable
INVARIANTS
    TriesAreBounded
    
    
