SPECIFICATION AnySpec
CONSTANTS
    Zones = {"amsterdam", "azores"}
    Seasons = {"winter", "summer"}
    Offset <- ApartOffset
    Readers = {"r1"}
    MaxDrift = 1
    MaxOffset = 14
    MaxReanchors = 1
    IdentityFails = FALSE
    SavesFail = TRUE
    Restarts = TRUE
    Torn = {}
    Names = {1, 2}
    BadName = 0
    Asked <- HouseAsked
    Schedules <- HouseSchedules
    Bedtimes <- HouseBedtimes
    Languages = {"en", "nl"}
    Tags = {"en", "nl", "fr"}
    Gates <- HouseGates
    Minute = 2
    Grant = 1
    Lookahead = 1
    MaxLimit = 5
    MaxRoutines = 2
    MaxWindows = 1
    Horizon = 3
    MaxMoves = 3
    Apps = {1, 2}
    Second = 2
    Poll = 2
    Emit = 4
    IdleAfter = 3
    MinBackoff = 1
    MaxBackoff = 3
    HealthyRun = 4
    \* a nap outlasts every wait there is
    Nap = 5
    LastWatched = 9
    MaxPushes = 3
    \* files that rotate at their second line, windows that a midnight may cut
    MaxLines = 1
    ActionView = 2
    AttemptView = 1
    Window = 2
    DayLength = 4
    Ahead = 1
    LastAudited = 5
    MaxEvents = 4
INVARIANTS
    
    
    DaysAreToldTruly
    HelperMeasures
    OnlyTheParentPauses
    RestoreIsFaithful
    ToldWhatIsEnforced
PROPERTY
    NeverBehind
