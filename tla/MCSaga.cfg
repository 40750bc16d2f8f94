\* One saga of three steps, the second without Compensate, and two coordinators,
\* with the leader gate and without it.
CONSTANTS
    c1 = c1
    c2 = c2
    i1 = i1
    Nobody = Nobody
    Orphan = Orphan
    Instances = {i1}
    Coordinators = {c1, c2}
    NSteps = 3
    Compensable = {1, 3}
    ClaimBatchSize = 1
    MaxAttempts = 2
    Deployments <- Both
    MaxMishaps = 2
SPECIFICATION FairSpec
INVARIANTS
    LogIsOneRun
    StatusIsFold
    RollbackComplete
    NothingUndoneInSecret
    FailedHasNothingToUndo
    InvocationsBounded
PROPERTIES
    KeepsPromise
    EventuallyTerminal
