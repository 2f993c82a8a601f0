SPECIFICATION ChainSpec
CONSTANT Students <- MCStudents
INVARIANTS
    PartialLevelIsBracketed
    HealthMirrorsRisk
    DetectedIsShownEverywhere
    AdviceIsEarned
CHECK_DEADLOCK FALSE
