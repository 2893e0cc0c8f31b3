SPECIFICATION Spec
CONSTANTS
    None = None
    Layer = Layer
    rx = rx
    gtx = gtx
    gtxSuper = gtxSuper
    arc = arc
    Family <- MCFamily
    Boxes <- MCBoxes
    Wanted <- MCWanted
    Disks <- MCDisks
    Builds <- MCBuilds
    Environments <- MCEnvironments
    Ram = 40
    MaxChanges = 1
    Headroom = 1
    DefaultLayers = 2
INVARIANTS
    PinIsTheSelectedCard
    OffloadFitsBudget
    ReadyIsTrue
CHECK_DEADLOCK FALSE
