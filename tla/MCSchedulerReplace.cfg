SPECIFICATION Spec
CONSTANTS
    Ids <- OneJob
    Coroutines <- NoJob
    PoolSize = 1
    MaxLoops = 3
    AllowReplace = TRUE
PROPERTIES
    NoStartAfterStop
