SPECIFICATION FairSpec
CONSTANTS
    c1 = c1
    c2 = c2
    Commands = {c1, c2}
    Handlers = {h1, h2}
    Sweeper = sweeper
    AckReasons = {"succeeded", "canceled"}
    NoKey = none
    Plans <- MCPlans
    MaxTime = 2
    MaxFaults = 1
INVARIANTS
    PendingCap
    OneActivePerKey
    OneOutcome
PROPERTIES
    OverdueEnds
CHECK_DEADLOCK FALSE
