SPECIFICATION FairSpec
CONSTANTS
    s1 = s1
    s2 = s2
    s3 = s3
    c1 = c1
    c2 = c2
    None = None
    Shipments = {s1, s2, s3}
    CaptainOf <- MCCaptainOf
    Average <- SumAndCount
    Stars = {1, 5}
    Txns = {t1, t2}
INVARIANTS MeanIsCurrent RatingsInv
PROPERTIES BookSpec EveryRatingEnds
