SPECIFICATION Spec
CONSTANTS
    sender = sender
    None = None
    Shipments = {s1}
    BidIds = {b1, b2, b3}
    Captains = {c1, c2}
    Prices = {p1, p2}
    Txns = {t1, t2, t3}
    Requests = {"create", "place_bid", "accept_bid", "withdraw_bid", "cancel"}
    Users <- MCUsers
    SenderOf <- MCSenderOf
SYMMETRY Interchangeable
INVARIANTS AwardConsistent OneBidPerCaptain ToldWhatIsWritten IInv
PROPERTIES NeverReopened AwardStands AuctionSpec
