SPECIFICATION Spec
CONSTANTS
    None = None
    Big = Big
    Small = Small
    Soft = Soft
    Machines <- MCMachines
    Jobs <- MCJobs
    Accelerator <- MCAccelerator
    MaxChanges = 2
    Granularity = 4
INVARIANTS
    SpeedIsMeasured
    RunsOnTheSelectedCard
    EveryRunAccounted
PROPERTIES
    JobEnds
CHECK_DEADLOCK FALSE
