SPECIFICATION FairSpec
CONSTANTS
    Turns <- MCTurns
    Scopes <- MCScopes
    ScopeOf <- MCScopeOf
    Contexts <- MCContexts
    ContextOf <- MCContextOf
    NoContext = "empty"
    MaxMessages = 4
INVARIANTS
    RetentionHolds
PROPERTIES
    ImplementsMemory
    EverySaveEnds
CHECK_DEADLOCK FALSE
