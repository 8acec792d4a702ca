SPECIFICATION Spec
CONSTANTS
    Warn = 1
    Slack = 1
    CallsFail = TRUE
    Budgets = {"under", "spent"}
    BudgetActions = {"Warn", "Lock", "Shutdown"}
    Restarts = TRUE
    Stalls = FALSE
INVARIANTS
    PendingIsAnsweredFor
    CurfewWarnsFirst

    
