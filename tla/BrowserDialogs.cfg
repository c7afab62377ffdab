\* Calls that follow one another on one page that raises up to two dialogs.
CONSTANTS
    Calls = {c1, c2}
    MaxDialogs = 2
    MaxLaunches = 2
    MaxEvents = 2
    MaxParallel = 1
SPECIFICATION Spec
INVARIANT EveryDialogIsReported
CHECK_DEADLOCK FALSE
