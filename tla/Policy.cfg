SPECIFICATION Spec
CONSTANTS
    N = 3
    Tiers = {"t1", "t2"}
    Rejected = "rejected"
    None = None
    Priorities = {"fastest", "quality", "balanced"}
    MaxRecompares = 2
    Evidence <- PolicyEvidence
    WilsonLow <- MCWilsonLow
    WilsonHigh <- MCWilsonHigh
INVARIANTS
    OrderRespectsStrata
    OrderFollowsEvidence
    MovesNeedDemonstration
    ProposalIsNotPathDependent
CHECK_DEADLOCK FALSE
