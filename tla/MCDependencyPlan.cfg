SPECIFICATION FairSpec
CONSTANTS
    Executable <- MCExecutable
    Unsupported <- MCUnsupported
    Inputs <- MCInputs
INVARIANTS
    PlanIsTopological
    PlanIsClosure
    PlannedIffPossible
    RefusalIsTrue
    PlanMeetsPrerequisites
PROPERTIES
    Terminates
CHECK_DEADLOCK FALSE
