SPECIFICATION FairSpec
CONSTANTS
    Locations = {l1, l2, l3}
    Places = {p1, p2}
    Labels = {home, work}
    Txns = {t1, t2}
    None = None
INVARIANTS LocationsInv
PROPERTIES BookSpec UpdateReplaces EveryRequestEnds
