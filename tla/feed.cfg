SPECIFICATION EventsSpec
CONSTANTS
    sender = sender
    None = None
    Shipments = {s1}
    BidIds = {b1}
    Captains = {c1}
    Prices = {p1}
    Txns = {t1}
    Requests = {"create", "place_bid", "accept_bid"}
    Users <- MCUsers
    SenderOf <- MCSenderOf
    Streams = {q1, q2}
    MaxUnread = 1
SYMMETRY Interchangeable
INVARIANTS DirectoryIsLive ScreenFollows
PROPERTY StreamBeforePush
