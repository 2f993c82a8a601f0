SPECIFICATION FairSpec
CONSTANTS
    Plans <- MCPlans
    StepLimits <- MCStepLimits
INVARIANTS
    TypeOK
    PlanConserved
    StatusIsHonest
    DerivedResultsEarned
    CleanResponseIsEarned
    NeverAborted
PROPERTIES
    Terminates
CHECK_DEADLOCK FALSE
