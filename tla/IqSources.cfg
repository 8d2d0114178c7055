CONSTANTS
    t1 = t1
    source = source
    None = None
    Rates <- DeviceRates
    Stages <- StageCounts
    Target = 250000
SPECIFICATION MCSpec
CHECK_DEADLOCK FALSE
INVARIANT TypeOK
INVARIANT SourceFollowed
INVARIANT StartKnows
INVARIANT NeverBelowTarget
INVARIANT Lightest
INVARIANT AsDefined
