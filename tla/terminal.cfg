SPECIFICATION Spec
CONSTANTS
    sender = sender
    None = None
    Shipments = {s1}
    BidIds = {b1}
    Captains = {c1}
    Prices = {p1}
    Txns = {t1, t2}
    Requests = {"create", "place_bid", "accept_bid", "withdraw_bid", "cancel", "cancel_by_sender", "pickup", "out", "deliver"}
    Users <- MCUsers
    SenderOf <- MCSenderOf
PROPERTY TerminalIsFinal
