\* Two callers of Start, two of Stop, three runs.
CONSTANTS
    s1 = s1
    s2 = s2
    t1 = t1
    t2 = t2
    Starters = {s1, s2}
    Stoppers = {t1, t2}
    MaxRuns = 3
SPECIFICATION FairSpec
INVARIANTS
    OneRun
    ReadyClosedOnce
    TakenRunIsCanceled
PROPERTIES
    StopReturns
