\* The last Release of a process overlaps its next Acquire.
CONSTANTS
    p1 = p1
    p2 = p2
    l1 = l1
    l2 = l2
    k1 = k1
    k2 = k2
    Nobody = Nobody
    Procs = {p1, p2}
    Locks = {l1, l2}
    Keys = {k1, k2}
    Placements <- MCPlacements
    MaxRenewAttempts = 2
    MaxFaults = 1
SPECIFICATION FairSpec
CHECK_DEADLOCK FALSE
PROPERTIES
    ReleaseReturns
