SPECIFICATION FairSpec
CONSTANTS
    Phones = {p1, p2}
    Emails = {e1}
    Ids = {i1, i2, i3}
    Txns = {t1, t2}
    None = None
INVARIANTS RegistrationInv TokensNameUsers OneAccountPerPhone
PROPERTIES DirectorySpec EveryRegistrationEnds
