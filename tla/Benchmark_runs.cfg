SPECIFICATION Spec
CONSTANTS
    Limit = 2
    MaxCost = 2
    MaxPrior = 3
    MaxScenarios = 2
    Latencies = {0, 1, 5}
INVARIANTS TypeOK BudgetDecides PassedIsVerified NoFalseNegativeMissed SummaryAddsUp
CHECK_DEADLOCK FALSE
