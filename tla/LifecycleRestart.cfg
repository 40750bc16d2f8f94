\* One caller of Start and one of Stop.
CONSTANTS
    s1 = s1
    t1 = t1
    Starters = {s1}
    Stoppers = {t1}
    MaxRuns = 2
SPECIFICATION Spec
INVARIANTS
    CanRestartAfterStop
