SPECIFICATION FairSpec
CONSTANTS
    None = None
    Phones = {p1}
    Challenges = {k1, k2}
    Calls = {t1, t2}
    MaxDay = 2
    MaxAttempts = 2
    DailyCap = 1
    VerifyFailCap = 2
INVARIANTS SendsCapped CapsOvershoot
PROPERTIES UsedStaysUsed LockoutEnds
