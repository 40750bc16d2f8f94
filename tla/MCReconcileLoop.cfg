SPECIFICATION FairSpec
CONSTANTS
    r1 = r1
    r2 = r2
    w1 = w1
    w2 = w2
    e1 = e1
    e2 = e2
    Nobody = Nobody
    None = None
    Replicas <- MCReplicas
    Entities <- MCEntities
    Deployments <- MCDeployments
    MaxEpoch = 3
    MaxFaults = 1
    MaxTriggers = 2
CHECK_DEADLOCK FALSE
INVARIANT OneRunPerEntity
PROPERTIES HandoverRaisesEpoch OwedRuns
