SPECIFICATION Spec
CONSTANTS
    None = None
    Kinds = {"run", "validate", "benchmark"}
    MaxRuns = 2
INVARIANTS
    ExecutionEndsClean
    ScreenFollowsItsRuns
PROPERTIES
    MeasurementEnds
CHECK_DEADLOCK FALSE
