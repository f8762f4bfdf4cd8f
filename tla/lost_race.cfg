SPECIFICATION Spec
CONSTANTS
    sender = sender
    None = None
    Shipments = {s1}
    BidIds = {b1, b2}
    Captains = {c1, c2}
    Prices = {p1}
    Txns = {t1, t2}
    Requests = {"create", "place_bid", "accept_bid", "withdraw_bid", "cancel_by_sender"}
    Users <- MCUsers
    SenderOf <- MCSenderOf
INVARIANT LostRaceIs409
