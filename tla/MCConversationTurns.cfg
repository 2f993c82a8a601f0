SPECIFICATION Spec
CONSTANTS
    t1 = t1
    t2 = t2
    t3 = t3
    Scopes <- ChatScope
    Turns <- ThreeTurns
    Contexts <- MCContexts
    NoContext <- MCNoContext
    MaxMessages = 4
    Kinds <- MCKinds
    Entities <- MCEntities
    Requests <- MixedRequests
    Content <- MixedContent
    MaxHistory = 2
    Overlap = TRUE
    Reliable = FALSE
SYMMETRY Same
INVARIANTS
    TypeOK
    FreshRunsAreGrounded
    ResumedRunsAnswer
    MemoryIsOfAnsweredTurns
    SettledStaysSettled
PROPERTIES
    UndisturbedTurnsKeepContext
CHECK_DEADLOCK FALSE
