SPECIFICATION RecommendSpec
CONSTANTS
    Candidates <- MCCandidates
    MaxPool = 3
    Priorities = {"quality", "speed", "memory", "balanced"}
    UseCases = {"coding", "chat", "other"}
    Limit = 3
    MaxVariants = 2
    SizeCurve <- MCSizeCurve
    Ladder <- MCLadder
    QualityOrder <- MCQualityOrder
    Aggressive = {"IQ1_S"}
    None = None
    SearchPriorities = {"quality", "balanced"}
    Hubs <- MCHubs
    Machines <- MCMachines
    ShortlistMax = 4
    ExtraMax = 2
    SearchesMax = 1
    QueryMax = 4
    ContextUsers = 1
INVARIANTS
    ViabilityFirst
    OrderIsExplained
    ShortlistIsThorough
CHECK_DEADLOCK FALSE
