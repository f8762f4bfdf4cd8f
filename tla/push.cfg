SPECIFICATION FairSpec
CONSTANTS
    Users = {u1, u2}
    Notified = {u1}
    Tokens = {k1, k2}
    Jobs = {j1}
    Sessions = {x1}
    Worker = worker
    None = None
    Lapsed = Lapsed
    Events = {new_bid, shipment_picked}
    EventsWithCopy = {new_bid}
    MaxAttempts = 1
INVARIANTS PushInv OwnerAsTold PushFollowsLogin TakenAgainOnlyUnanswered
PROPERTIES OnlyDeadPruned DeadArePruned EveryPushEnds
