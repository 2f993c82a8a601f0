SPECIFICATION FairSpec
CONSTANTS
    Ids <- Jobs
    Coroutines <- Probe
    PoolSize = 1
    MaxLoops = 2
    AllowReplace = FALSE
INVARIANTS
    TypeOK
    OneLoopPerJob
    StoppedMeansQuiet
PROPERTIES
    NoStartAfterStop
    LockIsReleased
    JobsKeepFiring
