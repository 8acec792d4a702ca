SPECIFICATION FairSpec
CONSTANTS
    Warn = 1
    Slack = 1
    CallsFail = TRUE
    Budgets = {"under", "spent"}
    BudgetActions = {"Shutdown"}
    Restarts = FALSE
    Stalls = TRUE
PROPERTIES
    CurfewIsEnforced
    BudgetIsEnforced
