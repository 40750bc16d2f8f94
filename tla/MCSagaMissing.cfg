\* The definition is dropped while the saga is being rolled back.
CONSTANTS
    c1 = c1
    i1 = i1
    Nobody = Nobody
    Orphan = Orphan
    Instances = {i1}
    Coordinators = {c1}
    NSteps = 2
    Compensable = {1, 2}
    ClaimBatchSize = 1
    MaxAttempts = 1
    Deployments <- Dropped
    MaxMishaps = 1
SPECIFICATION FairSpec
PROPERTIES
    MissingDefinitionFails
