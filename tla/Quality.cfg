SPECIFICATION Spec
CONSTANTS
    None = None
    Plan <- MCPlan
    Shown <- MCShown
    Pool <- MCPool
    Ladders <- MCLadders
    GeneralChat = TRUE
    MaxRuns = 2
    MaxInspected = 3
    ContextOf <- MCContextOf
    Readings <- MCReadings
    Evaluators <- MCEvaluators
    Machines <- MCMachines
    MinCalls = 2
    MaxOps = 2
INVARIANTS
    ResultMeansClean
    ScreenHoldsItsWork
PROPERTIES
    CancelEnds
CHECK_DEADLOCK FALSE
