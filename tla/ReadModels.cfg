\* A journal of three entries, the first of them foreign; two tailers.
CONSTANTS
    Nobody = Nobody
    Tailers = {t1, t2}
    MaxJournal = 3
    Own = {2, 3}
    MaxRetries = 2
    MaxFaults = 2
    MaxMishaps = 2
SPECIFICATION FairSpec
CHECK_DEADLOCK FALSE
INVARIANTS
    NoHole
    CommittedOnce
    DuplicateApplyBounded
PROPERTIES
    ParkedResumes
    EventuallyProjected
