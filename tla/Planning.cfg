SPECIFICATION ComparisonSpec
CONSTANTS
    None = None
    Requests <- MCRequests
    Machines <- MCMachines
    Cases <- MCCases
    Runs <- MCRuns
    OverheadBase = 1
    OverheadMin = 1
    GgufOverheadBase = 2
    DefaultReserve = 1
    GgufHeadroom = 2
    BlockShare = 70
    MaxWeights = 8
    VramSizes = {0, 2, 4, 6, 8, 10, 11, 12, 13, 14, 15, 16, 17, 18, 19, 20, 22, 24, 26}
    RamSizes = {0, 2, 5, 9, 13, 18, 22, 27}
    RunVramSizes = {0, 4, 8, 11, 13, 16, 20, 26}
    RunRamSizes = {0, 2, 9, 18}
    Slacks = {0, 1}
INVARIANTS
    PlacementFits
    NothingSkipped
    ChoiceFollowsLadder
    ComparisonIsFair
CONSTRAINT RecordedOn
CHECK_DEADLOCK FALSE
