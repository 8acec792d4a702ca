SPECIFICATION Spec
CONSTANTS
    Dates = {0, 1}
    DayLength = 4
    Gap = 2
    Horizon = 5
    MaxCharge = 1
    MaxMeasured = 1
    MaxRefusals = 1
    MaxOutages = 1
    Skews = {0, 1}
    Scenarios = {{"list"}, {"save", "crash"}}
INVARIANTS
    DayIsReported
PROPERTIES
    TurnsAreApart
