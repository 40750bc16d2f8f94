\* Two entries, one of them unencodable, two relays, a budget of two attempts.
CONSTANTS
    e1 = e1
    e2 = e2
    r1 = r1
    r2 = r2
    Entries = {e1, e2}
    Relays = {r1, r2}
    Unencodable = {e2}
    MaxAttempts = 2
    BatchSize = 2
    ReclaimBatchSize = 2
SPECIFICATION FairSpec
INVARIANTS
    PublishedWasSent
    DeliveryBudget
    DeadWasHopeless
    SnapshotCurrent
PROPERTIES
    ClaimCostsAttempt
    KeepsPromise
    EventuallySettled
