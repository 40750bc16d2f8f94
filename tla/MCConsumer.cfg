\* Two copies of one event and two goroutines.
CONSTANTS
    k1 = k1
    Event1 = k1
    m1 = m1
    m2 = m2
    w1 = w1
    w2 = w2
    Nobody = Nobody
    Keys = {k1}
    Claimants = {w1, w2}
    Messages = {m1, m2, m3}
    m3 = m3
    EventOf <- OneEvent
    RetryCount = 2
    ClaimRetryCount = 2
    Deployments <- MCDeployments
    MaxDrops = 1
SPECIFICATION FairSpec
INVARIANTS
    AckedWasHandled
    EffectsBounded
    DeadLetterEarned
PROPERTIES
    DoneIsEarned
    EventuallySettled
