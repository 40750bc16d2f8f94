SPECIFICATION Spec
CONSTANTS
    r1 = r1
    r2 = r2
    w1 = w1
    w2 = w2
    e1 = e1
    e2 = e2
    Nobody = Nobody
    None = None
    Replicas <- MCReplicas
    Entities <- MCEntities
    Deployments <- MCFailing
    MaxEpoch = 1
    MaxFaults = 1
    MaxTriggers = 3
CHECK_DEADLOCK FALSE
INVARIANT OwedIsScheduled
