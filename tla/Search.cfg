SPECIFICATION ScreenSpec
CONSTANTS
    NQueries = 2
    MaxTasks = 3
    MaxExtra = 1
    Workers = 2
    Metadata = {m1, m2}
    None = None
INVARIANTS
    RunEndsWell
    WorkIsShared
    ShownResultsAreWanted
PROPERTIES
    SearchEndsOnScreen
CHECK_DEADLOCK FALSE
