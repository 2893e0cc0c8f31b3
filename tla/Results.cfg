SPECIFICATION Spec
CONSTANTS
    none = none
    None <- MCNone
    Granularity = 4
    Shapes <- MCShapes
    Stored <- MCStored
    MaxStore = 3
    Lists <- MCLists
    Recommended <- MCRecommended
    MaxJobs = 2
    MaxInbox = 1
    Filters = {"all", "validated"}
    MaxReads = 2
    Single = TRUE
INVARIANTS
    SavedIsShown
    ActionsFollowSelection
    MeasuredIsBacked
