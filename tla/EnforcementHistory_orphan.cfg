SPECIFICATION HistorySpec
CONSTANTS
    Warn = 1
    Slack = 1
    CallsFail = FALSE
    Budgets = {"under", "spent"}
    BudgetActions = {"Shutdown"}
    Restarts = FALSE
    Stalls = FALSE
PROPERTY
    UnwantedNeverFires
