SPECIFICATION TimeSpec
CONSTANTS
    Instants = 2
    LastInstant = 14700
    Observed <- MCObserved
    Refreshes <- MCRefreshes
    Windows <- MCWindows
CHECK_DEADLOCK FALSE
INVARIANTS
    TimesAreTrue
