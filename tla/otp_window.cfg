SPECIFICATION FairSpec
CONSTANTS
    None = None
    Phones = {p1}
    Challenges = {k1, k2}
    Calls = {t1, t2}
    MaxDay = 1
    MaxAttempts = 2
    DailyCap = 2
    VerifyFailCap = 2
PROPERTY FailuresHaveWindow
