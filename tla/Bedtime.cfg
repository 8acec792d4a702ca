SPECIFICATION AnySpec
CONSTANTS
    WarnAt = {1, 3}
    DayLength = 12
    WeekLength = 3
    Curfews <- FewCurfews
    Extensions = {1, 5}
    Horizon = 42
    MaxEdits = 1
    MaxExtends = 2
    studygo = studygo
    chores = chores
    reading = reading
    Sources = {studygo, chores, reading}
    Pushers = {"app"}
    Dates = {0, 1}
    MaxInstalled = 1
    MaxEarned = 2
    Offers <- FewOffers
    Reports <- FewReports
    SavesFail = TRUE
    Restarts = TRUE
    Straddles = FALSE
SYMMETRY Reordered
INVARIANTS
    ReadersAgree
    GateOpensOnce
    ExhaustedIsSettled
PROPERTIES
    BedtimeIsAnnounced
    ExtensionIsKept
    PaidWithinCeiling
