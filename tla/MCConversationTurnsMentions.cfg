SPECIFICATION Spec
CONSTANTS
    t1 = t1
    t2 = t2
    t3 = t3
    Scopes <- ChatScope
    Turns <- ThreeTurns
    Contexts <- MCContexts
    NoContext <- MCNoContext
    MaxMessages = 4
    Kinds <- MCKinds
    Entities <- MCEntities
    Requests <- CoreRequests
    Content <- CoreContent
    MaxHistory = 2
    Overlap = FALSE
    Reliable = TRUE
INVARIANTS
    EveryMentionReachesTheRun
CHECK_DEADLOCK FALSE
