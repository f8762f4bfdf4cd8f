--------------------------- MODULE ShipmentService ---------------------------
(***************************************************************************)
(* The shipment state machine and its bidding: ShipmentsService, the DALs  *)
(* it calls, the routes and the session dependency around it, and the      *)
(* expiry job.  Every request and every job is one PostgreSQL transaction  *)
(* at READ COMMITTED; its statements interleave with those of the others.  *)
(*                                                                         *)
(* The database.  shipment and bid hold the committed rows, the ones every *)
(* other transaction reads.  A row a transaction has written and not yet   *)
(* committed is locked by it, and shipmentW / bidW hold the version it is  *)
(* writing (elsewhere they repeat the committed row).  A conditional       *)
(* UPDATE or DELETE judges its WHERE on the committed row: no match and it *)
(* ends with no row at once; a match on a locked row and it waits, to      *)
(* judge again what the holder leaves.  So a statement takes effect in a   *)
(* state where its row matches and is free, and misses in one where the    *)
(* committed row does not match.                                           *)
(*                                                                         *)
(* Time.  due[s] says that expires_at of s has passed; early in a          *)
(* transaction says that its func.now(), the instant it began, came before *)
(* that.  Request slots are reused: Txns bounds how many run at once, not  *)
(* how many there are.  note and reply hold what the last step sent out.   *)
(***************************************************************************)
EXTENDS FiniteSets

CONSTANTS
    Shipments,   \* shipment ids
    BidIds,      \* bid ids, one of which is drawn for each inserted bid
    Users,       \* user ids
    Captains,    \* the users with a captain profile
    Prices,      \* the prices a bid may name
    SenderOf,    \* the user who creates each shipment
    Txns,        \* slots for requests and jobs that are under way
    Requests,    \* the kinds of request clients make in this instance
    None         \* SQL NULL, and "no row", "no holder"

Milestones == {"accepted_at", "picked_at", "out_for_delivery_at", "delivered_at"}

ShipmentStatus == {"pending", "accepted", "picked", "out_for_delivery",
                   "delivered", "expired", "cancelled"}

BidStatus == {"pending", "accepted", "rejected"}

\* States from which a shipment can no longer change.
Terminal == {"delivered", "expired", "cancelled"}

\* Mutant: out for delivery straight from accepted.
MarkSkipping ==
    [pickup  |-> [from |-> "accepted", to |-> "picked",
                  stamp |-> "picked_at", coded |-> TRUE],
     out     |-> [from |-> "accepted", to |-> "out_for_delivery",
                  stamp |-> "out_for_delivery_at", coded |-> FALSE],
     deliver |-> [from |-> "out_for_delivery", to |-> "delivered",
                  stamp |-> "delivered_at", coded |-> TRUE]]

\* The post-accept transitions: the status each asks for and leaves, the
\* milestone it stamps, and whether the captain must enter a code.
Mark == [pickup  |-> [from |-> "accepted", to |-> "picked",
                      stamp |-> "picked_at", coded |-> TRUE],
         out     |-> [from |-> "picked", to |-> "out_for_delivery",
                      stamp |-> "out_for_delivery_at", coded |-> FALSE],
         deliver |-> [from |-> "out_for_delivery", to |-> "delivered",
                      stamp |-> "delivered_at", coded |-> TRUE]]

Marks == {"pickup", "out", "deliver"}

Operations == {"create", "place_bid", "accept_bid", "withdraw_bid",
               "cancel", "cancel_by_sender"} \cup Marks

ASSUME ShipmentServiceAssumption ==
    /\ Captains \subseteq Users
    /\ SenderOf \in [Shipments -> Users]
    /\ Requests \subseteq Operations
    /\ None \notin Shipments \cup BidIds \cup Users \cup Prices \cup Txns

VARIABLES
    shipment, shipmentW, shipmentLock,   \* the shipments table
    bid, bidW, bidLock,                  \* the bids table
    due,     \* due[s]: expires_at of s has passed
    job,     \* job[s]: the expire_shipment job of s
    txn,     \* txn[t]: the request or job in slot t
    note,    \* notifications sent by the last step
    reply    \* answers returned by the last step

tables == <<shipment, shipmentW, shipmentLock, bid, bidW, bidLock>>
vars == <<shipment, shipmentW, shipmentLock, bid, bidW, bidLock,
          due, job, txn, note, reply>>
-----------------------------------------------------------------------------
(* Rows and slots *)

NoShipment == [status |-> "absent", capitan |-> None, price |-> None,
               stamps |-> {}]

ShipmentRow == [status : ShipmentStatus \cup {"absent"},
                capitan : Captains \cup {None},
                price : Prices \cup {None},
                stamps : SUBSET Milestones]

NoBid   == [status |-> "absent", shipment |-> None, capitan |-> None,
            price |-> None]
Deleted == [NoBid EXCEPT !.status = "deleted"]

BidRow == [status : BidStatus \cup {"absent", "deleted"},
           shipment : Shipments \cup {None},
           capitan : Captains \cup {None},
           price : Prices \cup {None}]

Idle == [op |-> "idle", pc |-> "idle", s |-> None, b |-> None,
         capitan |-> None, price |-> None, early |-> FALSE, todo |-> {}]

Slot == [op : Operations \cup {"idle", "expire"},
         pc : {"idle", "upsert", "bid_gate", "shipment_gate", "siblings",
               "reject", "mark", "commit", "notify"},
         s : Shipments \cup {None},
         b : BidIds \cup {None},
         capitan : Captains \cup {None},
         price : Prices \cup {None},
         early : BOOLEAN,
         todo : SUBSET BidIds]

Exists(s) == shipment[s].status # "absent"

\* A bid row is in the table, in the version given.
Live(row) == row.status \in BidStatus

IsBidOf(row, s, c) == Live(row) /\ row.shipment = s /\ row.capitan = c

\* Mutant: a SELECT before the INSERT instead of the unique index.
CommittedKeyRows(s, c) == {b \in BidIds : IsBidOf(bid[b], s, c)}

\* b is in the index of the unique key (shipment, captain): committed, or put
\* there by a transaction under way.
Indexed(b, s, c) == IsBidOf(bid[b], s, c) \/ IsBidOf(bidW[b], s, c)

KeyRows(s, c) == {b \in BidIds : Indexed(b, s, c)}

\* The row a place_bid inserts.
NewBid(x) == [status |-> "pending", shipment |-> x.s, capitan |-> x.capitan,
              price |-> x.price]

TypeOK ==
    /\ shipment \in [Shipments -> ShipmentRow]
    /\ shipmentW \in [Shipments -> ShipmentRow]
    /\ shipmentLock \in [Shipments -> Txns \cup {None}]
    /\ bid \in [BidIds -> BidRow]
    /\ bidW \in [BidIds -> BidRow]
    /\ bidLock \in [BidIds -> Txns \cup {None}]
    /\ due \in [Shipments -> BOOLEAN]
    /\ job \in [Shipments -> {"none", "todo", "doing", "done", "lost"}]
    /\ txn \in [Txns -> Slot]

Init ==
    /\ shipment = [s \in Shipments |-> NoShipment]
    /\ shipmentW = shipment
    /\ shipmentLock = [s \in Shipments |-> None]
    /\ bid = [b \in BidIds |-> NoBid]
    /\ bidW = bid
    /\ bidLock = [b \in BidIds |-> None]
    /\ due = [s \in Shipments |-> FALSE]
    /\ job = [s \in Shipments |-> "none"]
    /\ txn = [t \in Txns |-> Idle]
    /\ note = {}
    /\ reply = {}
-----------------------------------------------------------------------------
(* What statements, answers and transactions do *)

WriteShipment(t, s, row) ==
    /\ shipmentLock[s] = None
    /\ shipmentLock' = [shipmentLock EXCEPT ![s] = t]
    /\ shipmentW' = [shipmentW EXCEPT ![s] = row]

WriteBid(t, b, row) ==
    /\ bidLock[b] = None
    /\ bidLock' = [bidLock EXCEPT ![b] = t]
    /\ bidW' = [bidW EXCEPT ![b] = row]

Publish(t) ==
    /\ shipment' = [s \in Shipments |->
                      IF shipmentLock[s] = t THEN shipmentW[s] ELSE shipment[s]]
    /\ bid' = [b \in BidIds |-> IF bidLock[b] = t THEN bidW[b] ELSE bid[b]]
    /\ UNCHANGED <<shipmentW, bidW>>

Discard(t) ==
    /\ shipmentW' = [s \in Shipments |->
                      IF shipmentLock[s] = t THEN shipment[s] ELSE shipmentW[s]]
    /\ bidW' = [b \in BidIds |-> IF bidLock[b] = t THEN bid[b] ELSE bidW[b]]
    /\ UNCHANGED <<shipment, bid>>

Release(t) ==
    /\ shipmentLock' = [s \in Shipments |->
                          IF shipmentLock[s] = t THEN None ELSE shipmentLock[s]]
    /\ bidLock' = [b \in BidIds |-> IF bidLock[b] = t THEN None ELSE bidLock[b]]

Quiet == note' = {} /\ reply' = {}

\* A request is answered before anything of it is written: nothing changes.
Refuse(op, code) ==
    /\ note' = {}
    /\ reply' = {<<op, code>>}
    /\ UNCHANGED <<tables, due, job, txn>>

\* Mutant: the error is answered and the session commits.
FailCommitting(t, code) ==
    /\ Publish(t)
    /\ Release(t)
    /\ txn' = [txn EXCEPT ![t] = Idle]
    /\ note' = {}
    /\ reply' = {<<txn[t].op, code>>}
    /\ UNCHANGED <<due, job>>

\* Mutant: the error is answered and the session stays open.
FailHolding(t, code) ==
    /\ txn' = [txn EXCEPT ![t] = Idle]
    /\ note' = {}
    /\ reply' = {<<txn[t].op, code>>}
    /\ UNCHANGED <<tables, due, job>>

\* A request fails at a later statement: the session rolls back, then the
\* error is answered.
Fail(t, code) ==
    /\ Discard(t)
    /\ Release(t)
    /\ txn' = [txn EXCEPT ![t] = Idle]
    /\ note' = {}
    /\ reply' = {<<txn[t].op, code>>}
    /\ UNCHANGED <<due, job>>

\* The handler is done: its notifications have gone out and its answer is
\* sent, and only then does the session dependency commit.
Answer(op, events) ==
    /\ note' = events
    /\ reply' = {<<op, "ok">>}

Begin(t, slot) == /\ txn[t] = Idle
                  /\ txn' = [txn EXCEPT ![t] = slot]

Proceed(t, pc) == txn' = [txn EXCEPT ![t].pc = pc]
-----------------------------------------------------------------------------
(* create *)

\* Insert the row, enqueue the job on the same connection, tell the feed.
Create(t, s) ==
    /\ "create" \in Requests
    /\ ~Exists(s)
    /\ Begin(t, [Idle EXCEPT !.op = "create", !.pc = "commit", !.s = s])
    /\ WriteShipment(t, s, [NoShipment EXCEPT !.status = "pending"])
    /\ Answer("create", {<<"new_request", s>>})
    /\ UNCHANGED <<shipment, bid, bidW, bidLock, due, job>>
-----------------------------------------------------------------------------
(* place_bid: a read of the shipment, then an upsert of the bid *)

PlaceBidRead(t, s, c, p) ==
    /\ "place_bid" \in Requests
    /\ txn[t] = Idle
    /\ \/ /\ ~Exists(s)
          /\ Refuse("place_bid", "404")
       \/ /\ Exists(s)
          /\ shipment[s].status # "pending" \/ due[s]
          /\ Refuse("place_bid", "409")
       \/ /\ shipment[s].status = "pending"
          /\ ~due[s]
          /\ Begin(t, [Idle EXCEPT !.op = "place_bid", !.pc = "upsert", !.s = s,
                                   !.capitan = c, !.price = p])
          /\ Quiet
          /\ UNCHANGED <<tables, due, job>>

\* Mutant: no WHERE on the conflict update.
RepriceableAlways(row) == Live(row)

Repriceable(row) == row.status = "pending"

\* INSERT ... ON CONFLICT (shipment_id, capitan_id) DO UPDATE ... WHERE the
\* bid is pending.  It waits for any transaction that is writing that key.
\* The shipment is not looked at again.
PlaceBidUpsert(t) ==
    LET s == txn[t].s
        c == txn[t].capitan
        p == txn[t].price
    IN  /\ txn[t].pc = "upsert"
        /\ \A b \in KeyRows(s, c) : bidLock[b] = None
        /\ \/ \E b \in KeyRows(s, c) :
                 /\ Repriceable(bid[b])
                 /\ WriteBid(t, b, [bid[b] EXCEPT !.price = p])
                 /\ Answer("place_bid", {<<"new_bid", b>>})
                 /\ Proceed(t, "commit")
                 /\ UNCHANGED <<shipment, shipmentW, shipmentLock, bid, due, job>>
           \/ /\ \E b \in KeyRows(s, c) : ~Repriceable(bid[b])
              /\ Fail(t, "409")
           \/ \E b \in BidIds :
                 /\ KeyRows(s, c) = {}
                 /\ bid[b] = NoBid
                 /\ WriteBid(t, b, NewBid(txn[t]))
                 /\ Answer("place_bid", {<<"new_bid", b>>})
                 /\ Proceed(t, "commit")
                 /\ UNCHANGED <<shipment, shipmentW, shipmentLock, bid, due, job>>
-----------------------------------------------------------------------------
(* accept_bid: gate on the bid, gate on the shipment, reject the siblings *)

AcceptBid(t, s, b, u) ==
    /\ "accept_bid" \in Requests
    /\ txn[t] = Idle
    /\ \/ /\ ~Exists(s) \/ SenderOf[s] # u
          /\ Refuse("accept_bid", "404")
       \/ /\ Exists(s)
          /\ SenderOf[s] = u
          /\ Begin(t, [Idle EXCEPT !.op = "accept_bid", !.pc = "bid_gate", !.s = s,
                                   !.b = b, !.early = ~due[s]])
          /\ Quiet
          /\ UNCHANGED <<tables, due, job>>

PendingOn(row, s) == row.status = "pending" /\ row.shipment = s

AcceptBidGate(t) ==
    LET s == txn[t].s
        b == txn[t].b
    IN  /\ txn[t].pc = "bid_gate"
        /\ \/ /\ PendingOn(bid[b], s)
              /\ WriteBid(t, b, [bid[b] EXCEPT !.status = "accepted"])
              /\ txn' = [txn EXCEPT ![t].pc = "shipment_gate",
                                    ![t].capitan = bid[b].capitan,
                                    ![t].price = bid[b].price]
              /\ Quiet
              /\ UNCHANGED <<shipment, shipmentW, shipmentLock, bid, due, job>>
           \/ /\ ~Live(bid[b]) \/ bid[b].shipment # s
              /\ Fail(t, "404")
           \/ /\ Live(bid[b]) /\ bid[b].shipment = s
              /\ bid[b].status # "pending"
              /\ Fail(t, "409")

\* Mutant: the deadline is checked and the status is not.
OpenAtByTime(row, early) == row.status # "absent" /\ early

\* Open for an award, judged by a transaction that began early or not.
OpenAt(row, early) == row.status = "pending" /\ early

\* Mutant: the agreed price is not copied.
AwardedUnpriced(row, x) == [row EXCEPT !.status = "accepted",
                                       !.capitan = x.capitan,
                                       !.stamps = @ \cup {"accepted_at"}]

Awarded(row, x) == [row EXCEPT !.status = "accepted",
                               !.capitan = x.capitan,
                               !.price = x.price,
                               !.stamps = @ \cup {"accepted_at"}]

AcceptShipmentGate(t) ==
    LET s == txn[t].s
    IN  /\ txn[t].pc = "shipment_gate"
        /\ \/ /\ OpenAt(shipment[s], txn[t].early)
              /\ WriteShipment(t, s, Awarded(shipment[s], txn[t]))
              /\ Proceed(t, "siblings")
              /\ Quiet
              /\ UNCHANGED <<shipment, bid, bidW, bidLock, due, job>>
           \/ /\ ~OpenAt(shipment[s], txn[t].early)
              /\ Fail(t, "409")

\* The UPDATE of the siblings finds its rows in one snapshot ...
RejectSiblings(t) ==
    /\ txn[t].pc = "siblings"
    /\ txn' = [txn EXCEPT ![t].pc = "reject",
                          ![t].todo = {b \in BidIds \ {txn[t].b} :
                                         PendingOn(bid[b], txn[t].s)}]
    /\ Quiet
    /\ UNCHANGED <<tables, due, job>>

\* ... and writes them one by one, waiting for each and judging it again.
RejectOne(t, b) ==
    /\ txn[t].pc = "reject"
    /\ b \in txn[t].todo
    /\ \/ /\ PendingOn(bid[b], txn[t].s)
          /\ WriteBid(t, b, [bid[b] EXCEPT !.status = "rejected"])
       \/ /\ ~PendingOn(bid[b], txn[t].s)
          /\ UNCHANGED <<bidW, bidLock>>
    /\ txn' = [txn EXCEPT ![t].todo = @ \ {b}]
    /\ Quiet
    /\ UNCHANGED <<shipment, shipmentW, shipmentLock, bid, due, job>>

\* Mutant: the losers are not taken from RETURNING but read from committed rows.
CommittedLosers(t) ==
    {b \in BidIds : bid[b].shipment = txn[t].s /\ bid[b].status = "rejected"}

Losers(t) == {b \in BidIds : bidLock[b] = t /\ bidW[b].status = "rejected"}

AcceptAnswer(t) ==
    /\ txn[t].pc = "reject"
    /\ txn[t].todo = {}
    /\ Proceed(t, "commit")
    /\ Answer("accept_bid",
              {<<"bid_accepted", txn[t].b>>, <<"request_closed", txn[t].s>>}
                \cup {<<"bid_rejected", b>> : b \in Losers(t)})
    /\ UNCHANGED <<tables, due, job>>
-----------------------------------------------------------------------------
(* withdraw_bid, cancel, cancel_by_sender: one conditional statement each *)

WithdrawBid(t, s, b, c) ==
    /\ "withdraw_bid" \in Requests
    /\ txn[t] = Idle
    /\ \/ /\ PendingOn(bid[b], s)
          /\ bid[b].capitan = c
          /\ Begin(t, [Idle EXCEPT !.op = "withdraw_bid", !.pc = "commit",
                                   !.s = s, !.b = b])
          /\ WriteBid(t, b, Deleted)
          /\ Answer("withdraw_bid", {})
          /\ UNCHANGED <<shipment, shipmentW, shipmentLock, bid, due, job>>
       \/ /\ ~IsBidOf(bid[b], s, c)
          /\ Refuse("withdraw_bid", "404")
       \/ /\ IsBidOf(bid[b], s, c)
          /\ bid[b].status # "pending"
          /\ Refuse("withdraw_bid", "409")

Cancelled(row) == [row EXCEPT !.status = "cancelled"]

\* The conditional UPDATE of both cancellations.
CancelWhere(t, s, op, gate) ==
    /\ gate
    /\ Begin(t, [Idle EXCEPT !.op = op, !.pc = "commit", !.s = s])
    /\ WriteShipment(t, s, Cancelled(shipment[s]))
    /\ Answer(op, {<<"request_closed", s>>})
    /\ UNCHANGED <<shipment, bid, bidW, bidLock, due, job>>

Cancel(t, s) ==
    /\ "cancel" \in Requests
    /\ txn[t] = Idle
    /\ \/ CancelWhere(t, s, "cancel",
                      Exists(s) /\ shipment[s].status \notin Terminal)
       \/ ~Exists(s) /\ Refuse("cancel", "404")
       \/ shipment[s].status \in Terminal /\ Refuse("cancel", "409")

CancelBySender(t, s, u) ==
    /\ "cancel_by_sender" \in Requests
    /\ txn[t] = Idle
    /\ \/ CancelWhere(t, s, "cancel_by_sender",
                      shipment[s].status = "pending" /\ SenderOf[s] = u)
       \/ /\ ~Exists(s) \/ SenderOf[s] # u
          /\ Refuse("cancel_by_sender", "404")
       \/ /\ Exists(s) /\ SenderOf[s] = u
          /\ shipment[s].status # "pending"
          /\ Refuse("cancel_by_sender", "409")
-----------------------------------------------------------------------------
(* mark_picked_up, mark_out_for_delivery, mark_delivered: a read that is   *)
(* checked in memory, then an UPDATE by primary key alone                  *)

MarkRead(t, s, c, op, code) ==
    /\ op \in Requests \cap Marks
    /\ txn[t] = Idle
    /\ \/ /\ shipment[s].capitan # c
          /\ Refuse(op, "404")
       \/ /\ shipment[s].capitan = c
          /\ shipment[s].status # Mark[op].from
          /\ Refuse(op, "409")
       \/ /\ shipment[s].capitan = c
          /\ shipment[s].status = Mark[op].from
          /\ Mark[op].coded /\ code = "wrong"
          /\ Refuse(op, "422")
       \/ /\ shipment[s].capitan = c
          /\ shipment[s].status = Mark[op].from
          /\ Mark[op].coded => code = "right"
          /\ Begin(t, [Idle EXCEPT !.op = op, !.pc = "mark", !.s = s])
          /\ Quiet
          /\ UNCHANGED <<tables, due, job>>

\* The columns update_status writes; the rest of the row stays.
Marked(row, op) == [row EXCEPT !.status = Mark[op].to,
                               !.stamps = @ \cup {Mark[op].stamp}]

MarkWrite(t) ==
    LET s == txn[t].s
    IN  /\ txn[t].pc = "mark"
        /\ WriteShipment(t, s, Marked(shipment[s], txn[t].op))
        /\ Proceed(t, "commit")
        /\ Answer(txn[t].op, {<<Mark[txn[t].op].to, s>>})
        /\ UNCHANGED <<shipment, bid, bidW, bidLock, due, job>>
-----------------------------------------------------------------------------
(* The expire_shipment job, and the clock *)

\* expires_at of a listed shipment passes.
Deadline(s) ==
    /\ Exists(s)
    /\ ~due[s]
    /\ due' = [due EXCEPT ![s] = TRUE]
    /\ Quiet
    /\ UNCHANGED <<tables, job, txn>>

\* Mutant: the deadline is not checked, nor is the status.
ExpirableAlways(s) == Exists(s)

\* Mutant: the comparison with the deadline is the wrong way round.
ExpirableEarly(s) == shipment[s].status = "pending" /\ ~due[s]

Expirable(s) == shipment[s].status = "pending" /\ due[s]

\* The worker takes the job when it is due and runs the conditional UPDATE.
Expire(t, s) ==
    /\ job[s] = "todo"
    /\ due[s]
    /\ txn[t] = Idle
    /\ Quiet
    /\ \/ /\ Expirable(s)
          /\ Begin(t, [Idle EXCEPT !.op = "expire", !.pc = "commit", !.s = s])
          /\ WriteShipment(t, s, [shipment[s] EXCEPT !.status = "expired"])
          /\ job' = [job EXCEPT ![s] = "doing"]
          /\ UNCHANGED <<shipment, bid, bidW, bidLock, due>>
       \/ /\ ~Expirable(s)
          /\ job' = [job EXCEPT ![s] = "done"]
          /\ UNCHANGED <<tables, due, txn>>

\* The job tells the sender and the feed once it has committed.
ExpireNotify(t) ==
    /\ txn[t].pc = "notify"
    /\ txn' = [txn EXCEPT ![t] = Idle]
    /\ job' = [job EXCEPT ![txn[t].s] = "done"]
    /\ note' = {<<"shipment_expired", txn[t].s>>, <<"request_closed", txn[t].s>>}
    /\ reply' = {}
    /\ UNCHANGED <<tables, due>>
-----------------------------------------------------------------------------
(* How transactions end *)

\* Commit.  The job row of a new shipment becomes visible with it.
Commit(t) ==
    LET s == txn[t].s
    IN  /\ txn[t].pc = "commit"
        /\ Publish(t)
        /\ Release(t)
        /\ \/ /\ txn[t].op = "expire"
              /\ Proceed(t, "notify")
              /\ UNCHANGED job
           \/ /\ txn[t].op = "create"
              /\ txn' = [txn EXCEPT ![t] = Idle]
              /\ job' = [job EXCEPT ![s] = "todo"]
           \/ /\ txn[t].op \notin {"expire", "create"}
              /\ txn' = [txn EXCEPT ![t] = Idle]
              /\ UNCHANGED job
        /\ Quiet
        /\ UNCHANGED due

\* The process dies or the connection breaks: the transaction is rolled back
\* and nobody is told.  A job is not run again: the task has no retry.
Abort(t) ==
    /\ txn[t] # Idle
    /\ Discard(t)
    /\ Release(t)
    /\ txn' = [txn EXCEPT ![t] = Idle]
    /\ IF txn[t].op = "expire"
         THEN job' = [job EXCEPT ![txn[t].s] = "lost"]
         ELSE UNCHANGED job
    /\ Quiet
    /\ UNCHANGED due

\* The statement t is at needs a row that u has locked.
WaitsFor(t, u) ==
    \/ /\ txn[t].pc = "shipment_gate"
       /\ OpenAt(shipment[txn[t].s], txn[t].early)
       /\ shipmentLock[txn[t].s] = u
    \/ /\ txn[t].pc = "reject"
       /\ \E b \in txn[t].todo : PendingOn(bid[b], txn[t].s) /\ bidLock[b] = u

\* Only a transaction that holds a lock can close a cycle, so these are the
\* waits that matter.  PostgreSQL breaks a cycle by failing one member; no
\* handler maps that error, so the client sees 500.
DeadlockVictim(t) ==
    /\ \E u \in Txns \ {t} : WaitsFor(t, u) /\ WaitsFor(u, t)
    /\ Fail(t, "500")
-----------------------------------------------------------------------------
Arrive(t) ==
    \E s \in Shipments :
       \/ Create(t, s)
       \/ Cancel(t, s)
       \/ \E u \in Users : CancelBySender(t, s, u)
       \/ \E c \in Captains :
             \/ \E p \in Prices : PlaceBidRead(t, s, c, p)
             \/ \E b \in BidIds : WithdrawBid(t, s, b, c)
             \/ \E op \in Marks, code \in {"right", "wrong"} :
                   MarkRead(t, s, c, op, code)
       \/ \E b \in BidIds, u \in Users : AcceptBid(t, s, b, u)

\* What a request or job under way does next.
Continue(t) ==
    \/ PlaceBidUpsert(t)
    \/ AcceptBidGate(t)
    \/ AcceptShipmentGate(t)
    \/ RejectSiblings(t)
    \/ \E b \in BidIds : RejectOne(t, b)
    \/ AcceptAnswer(t)
    \/ MarkWrite(t)
    \/ Commit(t)
    \/ ExpireNotify(t)
    \/ DeadlockVictim(t)

Next ==
    \/ \E t \in Txns : Arrive(t) \/ Continue(t) \/ Abort(t)
    \/ \E t \in Txns, s \in Shipments : Expire(t, s)
    \/ \E s \in Shipments : Deadline(s)

Spec == Init /\ [][Next]_vars

\* PostgreSQL queues the waiters of a row, so a statement that can run again
\* and again does run; the worker polls; time passes.  Nothing makes clients
\* send requests, and nothing makes a process die.
Fairness ==
    /\ \A t \in Txns : SF_vars(Continue(t))
    /\ \A s \in Shipments : WF_vars(Deadline(s))
    /\ \A s \in Shipments : SF_vars(\E t \in Txns : Expire(t, s))

FairSpec == Spec /\ Fairness
-----------------------------------------------------------------------------
(* Properties *)

Won(b, s) == bid[b].status = "accepted" /\ bid[b].shipment = s

\* The award is one fact told twice, in the shipments row and in the bids
\* row, and the two rows never disagree for anyone who reads them: a shipment
\* has a captain exactly when one bid on it is accepted, that bid alone, and
\* captain and price are those of the bid.  A shipment that was never awarded
\* is pending, expired or cancelled, and one under way has its captain.
\* accept_bid writes the two rows in different statements.
AwardConsistent ==
    \A s \in Shipments :
       /\ shipment[s].capitan # None =>
             \E b \in BidIds : /\ Won(b, s)
                               /\ bid[b].capitan = shipment[s].capitan
                               /\ bid[b].price = shipment[s].price
       /\ \A b \in BidIds : Won(b, s) => shipment[s].capitan # None
       /\ \A a, b \in BidIds : Won(a, s) /\ Won(b, s) => a = b
       /\ shipment[s].capitan = None =>
             shipment[s].status \in {"absent", "pending", "expired", "cancelled"}
       /\ shipment[s].capitan # None =>
             shipment[s].status \notin {"absent", "pending", "expired"}

\* No race takes an award back or changes it: once committed, the captain and
\* the price of a shipment stay, whatever re-bids, withdrawals, marks, expiry
\* or cancellations follow, and a decided bid is never edited or deleted.
AwardStands ==
    [][/\ \A s \in Shipments :
             shipment[s].capitan # None =>
                /\ shipment'[s].capitan = shipment[s].capitan
                /\ shipment'[s].price = shipment[s].price
       /\ \A b \in BidIds :
             bid[b].status \in {"accepted", "rejected"} => bid'[b] = bid[b]]_vars

\* The bidding on a shipment ends once: a shipment that has left pending
\* never returns to it, and one that ended without an award (expired, or
\* cancelled while pending) never changes again.
NeverReopened ==
    [][\A s \in Shipments :
          Exists(s) /\ shipment[s].status # "pending" =>
             /\ shipment'[s].status # "pending"
             /\ shipment[s].capitan = None => shipment'[s] = shipment[s]]_vars

\* Whatever order racing marks commit in, a milestone is stamped only after
\* the ones before it, and the status never runs ahead of the stamps: a mark
\* that writes by primary key alone, over whatever the row has become since
\* it read it, still finds there the milestones it was read to follow.
MilestonesInOrder ==
    \A s \in Shipments :
       LET has(m) == m \in shipment[s].stamps
       IN  /\ has("delivered_at") => has("out_for_delivery_at")
           /\ has("out_for_delivery_at") => has("picked_at")
           /\ has("picked_at") => has("accepted_at")
           /\ has("accepted_at") <=> shipment[s].capitan # None
           /\ \A op \in Marks :
                 shipment[s].status = Mark[op].to => has(Mark[op].stamp)
           /\ \A t \in Txns, op \in Marks :
                 txn[t].op \in Marks /\ txn[t].s = s =>
                    (Mark[txn[t].op].from = Mark[op].to => has(Mark[op].stamp))

\* One live bid per captain and shipment, counting the rows under way that
\* may still commit, although inserts, re-pricings, withdrawals and new bids
\* of the same captain race.
OneBidPerCaptain ==
    \A a, b \in BidIds, s \in Shipments, c \in Captains :
       Indexed(a, s, c) /\ Indexed(b, s, c) => a = b

\* Whoever is awarded or turned down is told, and told the truth.  When the
\* answer of accept_bid goes out, it names the winner, whose price and captain
\* the shipment has, and every bid this transaction has turned down and no
\* other; those were pending on the shipment until then, and the transaction
\* holds all these rows, so nobody can change them under it.  The rows are those
\* it has written: that its commit, which comes after the answer, succeeds is
\* not said.
ToldWhatIsWritten ==
   /\ \A w \in BidIds : <<"bid_accepted", w>> \in note =>
         LET t == bidLock[w]
             s == bidW[w].shipment
         IN  /\ t # None /\ shipmentLock[s] = t
             /\ bidW[w].status = "accepted"
             /\ shipmentW[s].capitan = bidW[w].capitan
             /\ shipmentW[s].price = bidW[w].price
             /\ <<"request_closed", s>> \in note
             /\ \A b \in BidIds :
                   /\ <<"bid_rejected", b>> \in note <=>
                         bidLock[b] = t /\ bidW[b].status = "rejected"
                   /\ <<"bid_rejected", b>> \in note => PendingOn(bid[b], s)
   /\ \A b \in BidIds : <<"bid_rejected", b>> \in note =>
         \E w \in BidIds : <<"bid_accepted", w>> \in note

\* Every request and every job that is started comes to an end: the locks of
\* accept_bid, taken bid first and shipment second, leave nobody waiting for
\* ever once PostgreSQL has broken the cycles they make.
EveryRequestEnds == \A t \in Txns : txn[t] # Idle ~> txn[t] = Idle

\* A shipment whose window has closed does not stay pending, unless the run
\* of its expiry job was lost.
ExpiryHappens ==
    \A s \in Shipments :
       due[s] /\ shipment[s].status = "pending"
          ~> shipment[s].status # "pending" \/ job[s] = "lost"

\* The committed rows implement the abstract auction: every commit is one
\* step of it or none, and the award goes to an offer that stands at the
\* instant of the commit, at the price it stands at.
SaleOf(row) ==
    [state |-> IF row.capitan # None THEN "awarded"
               ELSE CASE row.status = "absent" -> "unlisted"
                      [] row.status = "pending" -> "open"
                      [] OTHER -> "closed",
     capitan |-> row.capitan,
     price |-> row.price]

OffersOn(s) == {<<bid[b].capitan, bid[b].price>> :
                   b \in {x \in BidIds : PendingOn(bid[x], s)}}

TheAuction == INSTANCE Auction WITH
                 sale   <- [s \in Shipments |-> SaleOf(shipment[s])],
                 offers <- [s \in Shipments |-> OffersOn(s)]

AuctionSpec == TheAuction!Spec
-----------------------------------------------------------------------------
(* The inductive invariant: AwardInv is what keeps the two rows of an award *)
(* in agreement, OfferInv what AuctionSpec needs besides                    *)

\* What the slot of a request or job says of its operation.
SlotShape ==
    \A t \in Txns :
       /\ txn[t].pc = "idle" <=> txn[t].op = "idle"
       /\ txn[t].pc # "idle" => txn[t].s # None
       /\ txn[t].pc = "upsert" => txn[t].op = "place_bid"
       /\ txn[t].op = "place_bid" => /\ txn[t].capitan # None
                                     /\ txn[t].price # None
       /\ txn[t].pc \in {"bid_gate", "shipment_gate", "siblings", "reject"}
             => txn[t].op = "accept_bid"
       /\ txn[t].op = "accept_bid" => txn[t].b # None
       /\ txn[t].pc = "mark" => txn[t].op \in Marks
       /\ txn[t].pc = "notify" => txn[t].op = "expire"

\* A bid in the table names its shipment and its captain.
BidShape ==
    \A b \in BidIds : Live(bid[b]) => /\ bid[b].shipment # None
                                      /\ bid[b].capitan # None

\* A row nobody has locked has no version but the committed one.
Settled ==
    /\ \A s \in Shipments : shipmentLock[s] = None => shipmentW[s] = shipment[s]
    /\ \A b \in BidIds : bidLock[b] = None => bidW[b] = bid[b]

HoldsShipment(t) == /\ txn[t].op = "accept_bid"
                    /\ txn[t].pc \in {"siblings", "reject", "commit"}

HoldsBid(t) == /\ txn[t].op = "accept_bid"
               /\ txn[t].pc \in {"shipment_gate", "siblings", "reject", "commit"}

\* The version of a shipment its holder writes follows from the committed
\* one, which cannot move meanwhile, by the holder's operation.
ShipmentStep(x, old, new) ==
    \/ /\ x.op = "create" /\ x.pc = "commit"
       /\ old.status = "absent"
       /\ new = [NoShipment EXCEPT !.status = "pending"]
    \/ /\ x.op = "accept_bid" /\ x.pc \in {"siblings", "reject", "commit"}
       /\ old.status = "pending"
       /\ new = Awarded(old, x)
    \/ /\ x.op \in {"cancel", "cancel_by_sender"} /\ x.pc = "commit"
       /\ old.status \notin Terminal \cup {"absent"}
       /\ new = Cancelled(old)
    \/ /\ x.op = "expire" /\ x.pc = "commit"
       /\ old.status = "pending"
       /\ new = [old EXCEPT !.status = "expired"]
    \/ /\ x.op \in Marks /\ x.pc = "commit"
       /\ old.capitan # None
       /\ new = Marked(old, x.op)

\* The same of a bid.
BidStep(x, b, old, new) ==
    \/ /\ x.op = "place_bid" /\ x.pc = "commit"
       /\ \/ /\ PendingOn(old, x.s) /\ old.capitan = x.capitan
             /\ new = [old EXCEPT !.price = x.price]
          \/ old = NoBid /\ new = NewBid(x)
    \/ /\ x.op = "withdraw_bid" /\ x.pc = "commit"
       /\ old.status = "pending"
       /\ new = Deleted
    \/ /\ x.op = "accept_bid"
       /\ x.pc \in {"shipment_gate", "siblings", "reject", "commit"}
       /\ PendingOn(old, x.s)
       /\ IF b = x.b THEN /\ new = [old EXCEPT !.status = "accepted"]
                          /\ x.capitan = old.capitan
                          /\ x.price = old.price
                     ELSE /\ new = [old EXCEPT !.status = "rejected"]
                          /\ x.pc \in {"reject", "commit"}

LockedShipments ==
    \A s \in Shipments : shipmentLock[s] # None =>
       /\ txn[shipmentLock[s]].s = s
       /\ ShipmentStep(txn[shipmentLock[s]], shipment[s], shipmentW[s])

LockedBids ==
    \A b \in BidIds : bidLock[b] # None =>
       BidStep(txn[bidLock[b]], b, bid[b], bidW[b])

\* An accept_bid past its gates holds the rows it has written.
AcceptHolds ==
    \A t \in Txns : /\ HoldsBid(t) => bidLock[txn[t].b] = t
                    /\ HoldsShipment(t) => shipmentLock[txn[t].s] = t

\* Marks run on shipments that have a captain.
MarksAwarded ==
    \A t \in Txns : txn[t].op \in Marks => shipment[txn[t].s].capitan # None

AwardInv == /\ TypeOK
            /\ SlotShape
            /\ BidShape
            /\ Settled
            /\ LockedShipments
            /\ LockedBids
            /\ AcceptHolds
            /\ MarksAwarded
            /\ AwardConsistent

\* Only an award gives a shipment a price; a bid always has one.
Priced ==
    /\ \A s \in Shipments : shipment[s].capitan = None => shipment[s].price = None
    /\ \A b \in BidIds : Live(bid[b]) => bid[b].price # None

\* A place_bid under way is about a shipment that is there to stay.
PlaceBidsListed ==
    \A t \in Txns : txn[t].op = "place_bid" => Exists(txn[t].s)

\* Only accept_bid writes more than one bid.
OneWrite ==
    \A a, b \in BidIds :
       bidLock[a] # None /\ bidLock[a] = bidLock[b] =>
          txn[bidLock[a]].op = "accept_bid" \/ a = b

OfferInv == Priced /\ PlaceBidsListed /\ OneWrite /\ OneBidPerCaptain

\* The run of the expiry job of s is under way.
Expiring(s) == \E t \in Txns : txn[t].op = "expire" /\ txn[t].s = s

\* A shipment that is pending is owed its expiry: the job is to come, or is
\* running, or its one run was lost.
ExpiryOwed ==
    \A s \in Shipments :
       shipment[s].status = "pending" =>
          \/ job[s] \in {"todo", "lost"}
          \/ job[s] = "doing" /\ Expiring(s)

\* A create holds its row; a job runs once, with the row until its commit and
\* of a shipment that has left pending from then on.
Runs(t) ==
    /\ txn[t].op = "create" => shipmentLock[txn[t].s] = t
    /\ txn[t].op = "expire" =>
          /\ job[txn[t].s] = "doing"
          /\ \/ /\ txn[t].pc = "commit"
                /\ shipmentLock[txn[t].s] = t
             \/ /\ txn[t].pc = "notify"
                /\ shipment[txn[t].s].status \notin {"absent", "pending"}

JobRuns ==
    /\ \A t \in Txns : Runs(t)
    /\ \A t, u \in Txns :
          txn[t].op = "expire" /\ txn[u].op = "expire" /\ txn[t].s = txn[u].s => t = u

IInv == AwardInv /\ OfferInv /\ JobRuns /\ ExpiryOwed
-----------------------------------------------------------------------------
(* What the documentation says and the code does not do *)

\* docs/SHIPMENT.md: "Lost race -> 409 Conflict".
LostRaceIs409 == <<"accept_bid", "500">> \notin reply

\* service.py: "States from which a shipment can no longer change."
TerminalIsFinal ==
    [][\A s \in Shipments : shipment[s].status \in Terminal
                               => shipment'[s] = shipment[s]]_vars
=============================================================================
