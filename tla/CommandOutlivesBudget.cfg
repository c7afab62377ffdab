\* One command that may be aborted by the budget of its task.
CONSTANTS
    Calls = {c1}
    Timeout = 2
    Grace = 1
    MaxOutput = 2
    MaxNow = 6
SPECIFICATION Spec
INVARIANT BudgetStopsWork
CHECK_DEADLOCK FALSE
