------------------------ MODULE ShipmentServiceProofs ------------------------
(***************************************************************************)
(* Proofs about ShipmentService, for every number of shipments, bids,      *)
(* users, prices and concurrent transactions: its types; that AwardInv is  *)
(* an inductive invariant, so an award is consistent in every committed    *)
(* state; that IInv is one, and with it that a captain has one bid on a    *)
(* shipment and that what is pending is owed its expiry; that milestones   *)
(* are stamped in order and the answer of accept_bid tells what is         *)
(* written; and that the committed rows implement Auction.                 *)
(***************************************************************************)
EXTENDS ShipmentService, TLAPS

USE ShipmentServiceAssumption

-----------------------------------------------------------------------------
(* Types *)

Typed == TypeOK /\ SlotShape

\* A rollback, whatever it answers: the part Fail and Abort share.
Rollback(t) == /\ Discard(t)
               /\ Release(t)
               /\ txn' = [txn EXCEPT ![t] = Idle]

\* A request that fails rolls back.
LEMMA FailIsRollback ==
    ASSUME NEW t \in Txns, NEW code, Fail(t, code)
    PROVE  Rollback(t) /\ UNCHANGED <<due, job>>
BY DEF Fail, Rollback

\* A shipment whose status changes is a row of shipments.
LEMMA RestatedShipment ==
    ASSUME NEW r \in ShipmentRow, NEW st \in ShipmentStatus
    PROVE  [r EXCEPT !.status = st] \in ShipmentRow
BY DEF ShipmentRow

\* A mark writes a row of shipments.
LEMMA MarkedShipment ==
    ASSUME NEW r \in ShipmentRow, NEW st \in ShipmentStatus, NEW m \in Milestones
    PROVE  [r EXCEPT !.status = st, !.stamps = @ \cup {m}] \in ShipmentRow
BY DEF ShipmentRow

\* An award writes a row of shipments.
LEMMA AwardedShipment ==
    ASSUME NEW r \in ShipmentRow, NEW st \in ShipmentStatus, NEW m \in Milestones,
           NEW c \in Captains \cup {None}, NEW p \in Prices \cup {None}
    PROVE  [r EXCEPT !.status = st, !.capitan = c, !.price = p,
                     !.stamps = @ \cup {m}] \in ShipmentRow
BY DEF ShipmentRow

\* A bid that is decided is a row of bids.
LEMMA RestatedBid ==
    ASSUME NEW r \in BidRow, NEW st \in BidStatus
    PROVE  [r EXCEPT !.status = st] \in BidRow
BY DEF BidRow

\* A bid that is re-priced is a row of bids.
LEMMA RepricedBid ==
    ASSUME NEW r \in BidRow, NEW p \in Prices
    PROVE  [r EXCEPT !.price = p] \in BidRow
BY DEF BidRow

\* Where a slot may go.
Counters == {"shipment_gate", "siblings", "reject", "commit", "notify"}

\* A slot that goes to its next statement is a slot.
LEMMA MovedSlot ==
    ASSUME NEW x \in Slot, NEW pc \in Counters
    PROVE  [x EXCEPT !.pc = pc] \in Slot
BY DEF Slot, Counters

\* A slot that has siblings to reject is a slot.
LEMMA SweepingSlot ==
    ASSUME NEW x \in Slot, NEW todo \in SUBSET BidIds
    PROVE  /\ [x EXCEPT !.todo = todo] \in Slot
           /\ [x EXCEPT !.pc = "reject", !.todo = todo] \in Slot
BY DEF Slot

\* A slot that has the captain and the price of its bid is a slot.
LEMMA GatedSlot ==
    ASSUME NEW x \in Slot, NEW c \in Captains \cup {None}, NEW p \in Prices \cup {None}
    PROVE  [x EXCEPT !.pc = "shipment_gate", !.capitan = c, !.price = p] \in Slot
BY DEF Slot

\* A rollback keeps the types.
LEMMA RollbackTyped ==
    ASSUME Typed, NEW t \in Txns, Rollback(t), due' = due,
           job' \in [Shipments -> {"none", "todo", "doing", "done", "lost"}]
    PROVE  Typed'
<1>1. Idle \in Slot
  BY DEF Idle, Slot
<1>2. TypeOK'
  BY <1>1 DEF Typed, TypeOK, Rollback, Discard, Release
<1>3. SlotShape'
  BY DEF Typed, TypeOK, SlotShape, Rollback, Idle, Marks
<1> QED
  BY <1>2, <1>3 DEF Typed

\* The empty tables are well typed.
LEMMA TypedInit == Init => Typed
<1> SUFFICES ASSUME Init PROVE Typed
  OBVIOUS
<1>1. NoShipment \in ShipmentRow /\ NoBid \in BidRow /\ Idle \in Slot
  BY DEF NoShipment, NoBid, Idle, ShipmentRow, BidRow, Slot
<1>2. TypeOK
  BY <1>1 DEF Init, TypeOK
<1>3. SlotShape
  BY DEF Init, SlotShape, Idle, Marks
<1> QED
  BY <1>2, <1>3 DEF Typed

\* Every statement keeps the types.
LEMMA TypedNext == Typed /\ [Next]_vars => Typed'
<1> SUFFICES ASSUME Typed, [Next]_vars PROVE Typed'
  OBVIOUS
<1> USE DEF Typed
<1>a. ASSUME NEW op, NEW code, Refuse(op, code)
      PROVE  Typed'
  BY <1>a DEF Refuse, tables, TypeOK, SlotShape
<1>f. ASSUME NEW t \in Txns, NEW code, Fail(t, code)
      PROVE  Typed'
  BY <1>f, FailIsRollback, RollbackTyped DEF TypeOK
<1>1. ASSUME NEW t \in Txns, NEW s \in Shipments, Create(t, s)
      PROVE  Typed'
  <2>1. [NoShipment EXCEPT !.status = "pending"] \in ShipmentRow
    BY DEF NoShipment, ShipmentRow, ShipmentStatus
  <2>2. [Idle EXCEPT !.op = "create", !.pc = "commit", !.s = s] \in Slot
    BY DEF Idle, Slot, Operations
  <2>3. TypeOK'
    BY <1>1, <2>1, <2>2 DEF Create, Begin, WriteShipment, TypeOK
  <2>4. SlotShape'
    BY <1>1 DEF Create, Begin, TypeOK, SlotShape, Idle, Marks
  <2> QED
    BY <2>3, <2>4
<1>2. ASSUME NEW t \in Txns, NEW s \in Shipments, NEW c \in Captains,
             NEW p \in Prices, PlaceBidRead(t, s, c, p)
      PROVE  Typed'
  <2> DEFINE slot == [Idle EXCEPT !.op = "place_bid", !.pc = "upsert", !.s = s,
                                  !.capitan = c, !.price = p]
  <2>1. CASE txn' = [txn EXCEPT ![t] = slot] /\ UNCHANGED <<tables, due, job>>
    <3>1. slot \in Slot
      BY DEF Idle, Slot, Operations
    <3>2. TypeOK'
      BY <2>1, <3>1 DEF tables, TypeOK
    <3>3. SlotShape'
      BY <2>1 DEF TypeOK, SlotShape, Idle, Marks
    <3> QED
      BY <3>2, <3>3
  <2> QED
    BY <1>2, <1>a, <2>1 DEF PlaceBidRead, Begin
<1>3. ASSUME NEW t \in Txns, PlaceBidUpsert(t)
      PROVE  Typed'
  <2>1. ASSUME NEW b \in BidIds, NEW row \in BidRow, WriteBid(t, b, row),
               Proceed(t, "commit"), txn[t].pc = "upsert",
               UNCHANGED <<shipment, shipmentW, shipmentLock, bid, due, job>>
        PROVE  Typed'
    <3>1. TypeOK'
      <4>1. [txn[t] EXCEPT !.pc = "commit"] \in Slot
        BY MovedSlot DEF TypeOK, Counters
      <4> QED
        BY <2>1, <4>1 DEF TypeOK, WriteBid, Proceed
    <3>2. SlotShape'
      BY <2>1 DEF TypeOK, SlotShape, Proceed, Slot, Marks
    <3> QED
      BY <3>1, <3>2
  <2>2. txn[t].s \in Shipments /\ txn[t].capitan \in Captains /\ txn[t].price \in Prices
    BY <1>3 DEF PlaceBidUpsert, TypeOK, SlotShape, Slot
  <2>3. \A b \in BidIds : [bid[b] EXCEPT !.price = txn[t].price] \in BidRow
    BY <2>2, RepricedBid DEF TypeOK
  <2>4. NewBid(txn[t]) \in BidRow
    BY <2>2 DEF NewBid, BidRow, BidStatus
  <2> QED
    BY <1>3, <1>f, <2>1, <2>3, <2>4 DEF PlaceBidUpsert, KeyRows
<1>4. ASSUME NEW t \in Txns, NEW s \in Shipments, NEW b \in BidIds,
             NEW u \in Users, AcceptBid(t, s, b, u)
      PROVE  Typed'
  <2> DEFINE slot == [Idle EXCEPT !.op = "accept_bid", !.pc = "bid_gate", !.s = s,
                                  !.b = b, !.early = ~due[s]]
  <2>1. CASE txn' = [txn EXCEPT ![t] = slot] /\ UNCHANGED <<tables, due, job>>
    <3>1. slot \in Slot
      BY DEF Idle, Slot, Operations
    <3>2. TypeOK'
      BY <2>1, <3>1 DEF tables, TypeOK
    <3>3. SlotShape'
      BY <2>1 DEF TypeOK, SlotShape, Idle, Marks
    <3> QED
      BY <3>2, <3>3
  <2> QED
    BY <1>4, <1>a, <2>1 DEF AcceptBid, Begin
<1>5. ASSUME NEW t \in Txns, AcceptBidGate(t)
      PROVE  Typed'
  <2> DEFINE b == txn[t].b
  <2>1. b \in BidIds
    BY <1>5 DEF AcceptBidGate, TypeOK, SlotShape, Slot
  <2>2. CASE /\ WriteBid(t, b, [bid[b] EXCEPT !.status = "accepted"])
             /\ txn' = [txn EXCEPT ![t].pc = "shipment_gate",
                                   ![t].capitan = bid[b].capitan,
                                   ![t].price = bid[b].price]
             /\ UNCHANGED <<shipment, shipmentW, shipmentLock, bid, due, job>>
    <3>1. bid[b] \in BidRow /\ [bid[b] EXCEPT !.status = "accepted"] \in BidRow
      BY <2>1, RestatedBid DEF TypeOK, BidStatus
    <3>2. /\ bid[b].capitan \in Captains \cup {None}
          /\ bid[b].price \in Prices \cup {None}
      BY <3>1 DEF BidRow
    <3>3. [txn[t] EXCEPT !.pc = "shipment_gate", !.capitan = bid[b].capitan,
                         !.price = bid[b].price] \in Slot
      BY <3>2, GatedSlot DEF TypeOK
    <3>4. TypeOK'
      BY <2>1, <2>2, <3>1, <3>3 DEF TypeOK, WriteBid
    <3>5. SlotShape'
      BY <1>5, <2>2 DEF AcceptBidGate, TypeOK, SlotShape, Slot, Marks
    <3> QED
      BY <3>4, <3>5
  <2> QED
    BY <1>5, <1>f, <2>2 DEF AcceptBidGate
<1>6. ASSUME NEW t \in Txns, AcceptShipmentGate(t)
      PROVE  Typed'
  <2> DEFINE s == txn[t].s
             row == Awarded(shipment[s], txn[t])
  <2>1. s \in Shipments
    BY <1>6 DEF AcceptShipmentGate, TypeOK, SlotShape, Slot
  <2>2. CASE /\ WriteShipment(t, s, row)
             /\ Proceed(t, "siblings")
             /\ UNCHANGED <<shipment, bid, bidW, bidLock, due, job>>
    <3>1. /\ txn[t].capitan \in Captains \cup {None}
          /\ txn[t].price \in Prices \cup {None}
      BY DEF TypeOK, Slot
    <3>2. row \in ShipmentRow
      BY <2>1, <3>1, AwardedShipment DEF Awarded, TypeOK, ShipmentStatus, Milestones
    <3>3. [txn[t] EXCEPT !.pc = "siblings"] \in Slot
      BY MovedSlot DEF TypeOK, Counters
    <3>4. TypeOK'
      BY <2>1, <2>2, <3>2, <3>3 DEF TypeOK, WriteShipment, Proceed
    <3>5. SlotShape'
      BY <1>6, <2>2 DEF AcceptShipmentGate, Proceed, TypeOK, SlotShape, Slot, Marks
    <3> QED
      BY <3>4, <3>5
  <2> QED
    BY <1>6, <1>f, <2>2 DEF AcceptShipmentGate
<1>7. ASSUME NEW t \in Txns, RejectSiblings(t)
      PROVE  Typed'
  <2> DEFINE siblings == {b \in BidIds \ {txn[t].b} : PendingOn(bid[b], txn[t].s)}
  <2>1. TypeOK'
    <3>1. [txn[t] EXCEPT !.pc = "reject", !.todo = siblings] \in Slot
      BY SweepingSlot DEF TypeOK
    <3> QED
      BY <1>7, <3>1 DEF RejectSiblings, tables, TypeOK
  <2>2. SlotShape'
    BY <1>7 DEF RejectSiblings, TypeOK, SlotShape, Slot, Marks
  <2> QED
    BY <2>1, <2>2
<1>8. ASSUME NEW t \in Txns, NEW b \in BidIds, RejectOne(t, b)
      PROVE  Typed'
  <2>1. [bid[b] EXCEPT !.status = "rejected"] \in BidRow
    BY RestatedBid DEF TypeOK, BidStatus
  <2>2. TypeOK'
    <3>1. txn[t].todo \ {b} \in SUBSET BidIds
      BY DEF TypeOK, Slot
    <3>2. [txn[t] EXCEPT !.todo = txn[t].todo \ {b}] \in Slot
      BY <3>1, SweepingSlot DEF TypeOK
    <3> QED
      BY <1>8, <2>1, <3>2 DEF RejectOne, WriteBid, TypeOK
  <2>3. SlotShape'
    BY <1>8 DEF RejectOne, TypeOK, SlotShape, Slot, Marks
  <2> QED
    BY <2>2, <2>3
<1>9. ASSUME NEW t \in Txns, AcceptAnswer(t)
      PROVE  Typed'
  <2>1. TypeOK'
    <3>1. [txn[t] EXCEPT !.pc = "commit"] \in Slot
      BY MovedSlot DEF TypeOK, Counters
    <3> QED
      BY <1>9, <3>1 DEF AcceptAnswer, Proceed, tables, TypeOK
  <2>2. SlotShape'
    BY <1>9 DEF AcceptAnswer, Proceed, TypeOK, SlotShape, Slot, Marks
  <2> QED
    BY <2>1, <2>2
<1>10. ASSUME NEW t \in Txns, NEW s \in Shipments, NEW b \in BidIds,
              NEW c \in Captains, WithdrawBid(t, s, b, c)
       PROVE  Typed'
  <2> DEFINE slot == [Idle EXCEPT !.op = "withdraw_bid", !.pc = "commit",
                                  !.s = s, !.b = b]
  <2>1. CASE /\ txn' = [txn EXCEPT ![t] = slot]
             /\ WriteBid(t, b, Deleted)
             /\ UNCHANGED <<shipment, shipmentW, shipmentLock, bid, due, job>>
    <3>1. slot \in Slot
      BY DEF Idle, Slot, Operations
    <3>2. Deleted \in BidRow
      BY DEF Deleted, NoBid, BidRow
    <3>3. TypeOK'
      BY <2>1, <3>1, <3>2 DEF WriteBid, TypeOK
    <3>4. SlotShape'
      BY <2>1 DEF TypeOK, SlotShape, Idle, Marks
    <3> QED
      BY <3>3, <3>4
  <2> QED
    BY <1>10, <1>a, <2>1 DEF WithdrawBid, Begin
<1>11. ASSUME NEW t \in Txns, NEW s \in Shipments, NEW op \in Operations \ Marks,
              op \notin {"accept_bid", "place_bid"}, NEW gate, CancelWhere(t, s, op, gate)
       PROVE  Typed'
  <2> DEFINE slot == [Idle EXCEPT !.op = op, !.pc = "commit", !.s = s]
  <2>1. slot \in Slot
    BY DEF Idle, Slot
  <2>2. Cancelled(shipment[s]) \in ShipmentRow
    BY RestatedShipment DEF Cancelled, TypeOK, ShipmentStatus
  <2>3. TypeOK'
    BY <1>11, <2>1, <2>2 DEF CancelWhere, Begin, WriteShipment, TypeOK
  <2>4. SlotShape'
    BY <1>11 DEF CancelWhere, Begin, TypeOK, SlotShape, Idle, Marks, Operations
  <2> QED
    BY <2>3, <2>4
<1>12. ASSUME NEW t \in Txns, NEW s \in Shipments, Cancel(t, s)
       PROVE  Typed'
  BY <1>12, <1>a, <1>11 DEF Cancel, Operations, Marks
<1>13. ASSUME NEW t \in Txns, NEW s \in Shipments, NEW u \in Users,
              CancelBySender(t, s, u)
       PROVE  Typed'
  BY <1>13, <1>a, <1>11 DEF CancelBySender, Operations, Marks
<1>14. ASSUME NEW t \in Txns, NEW s \in Shipments, NEW c \in Captains,
              NEW op \in Marks, NEW code, MarkRead(t, s, c, op, code)
       PROVE  Typed'
  <2> DEFINE slot == [Idle EXCEPT !.op = op, !.pc = "mark", !.s = s]
  <2>1. CASE txn' = [txn EXCEPT ![t] = slot] /\ UNCHANGED <<tables, due, job>>
    <3>1. slot \in Slot
      BY DEF Idle, Slot, Operations
    <3>2. TypeOK'
      BY <2>1, <3>1 DEF tables, TypeOK
    <3>3. SlotShape'
      BY <2>1 DEF TypeOK, SlotShape, Idle, Marks
    <3> QED
      BY <3>2, <3>3
  <2> QED
    BY <1>14, <1>a, <2>1 DEF MarkRead, Begin
<1>15. ASSUME NEW t \in Txns, MarkWrite(t)
       PROVE  Typed'
  <2> DEFINE s == txn[t].s
             m == Mark[txn[t].op]
             row == Marked(shipment[s], txn[t].op)
  <2>1. s \in Shipments /\ txn[t].op \in Marks
    BY <1>15 DEF MarkWrite, TypeOK, SlotShape, Slot
  <2>2. m.to \in ShipmentStatus /\ m.stamp \in Milestones
    BY <2>1 DEF Mark, Marks, ShipmentStatus, Milestones
  <2>3. row \in ShipmentRow
    BY <2>1, <2>2, MarkedShipment DEF Marked, TypeOK
  <2>4. TypeOK'
    <3>1. [txn[t] EXCEPT !.pc = "commit"] \in Slot
      BY MovedSlot DEF TypeOK, Counters
    <3> QED
      BY <1>15, <2>1, <2>3, <3>1 DEF MarkWrite, TypeOK, WriteShipment, Proceed
  <2>5. SlotShape'
    BY <1>15, <2>1 DEF MarkWrite, Proceed, TypeOK, SlotShape, Slot, Marks
  <2> QED
    BY <2>4, <2>5
<1>16. ASSUME NEW s \in Shipments, Deadline(s)
       PROVE  Typed'
  BY <1>16 DEF Deadline, tables, TypeOK, SlotShape
<1>17. ASSUME NEW t \in Txns, NEW s \in Shipments, Expire(t, s)
       PROVE  Typed'
  <2> DEFINE slot == [Idle EXCEPT !.op = "expire", !.pc = "commit", !.s = s]
  <2>1. CASE /\ txn' = [txn EXCEPT ![t] = slot]
             /\ WriteShipment(t, s, [shipment[s] EXCEPT !.status = "expired"])
             /\ job' = [job EXCEPT ![s] = "doing"]
             /\ UNCHANGED <<shipment, bid, bidW, bidLock, due>>
    <3>1. slot \in Slot
      BY DEF Idle, Slot
    <3>2. [shipment[s] EXCEPT !.status = "expired"] \in ShipmentRow
      BY RestatedShipment DEF TypeOK, ShipmentStatus
    <3>3. TypeOK'
      BY <2>1, <3>1, <3>2 DEF WriteShipment, TypeOK
    <3>4. SlotShape'
      BY <2>1 DEF TypeOK, SlotShape, Idle, Marks, Operations
    <3> QED
      BY <3>3, <3>4
  <2>2. CASE job' = [job EXCEPT ![s] = "done"] /\ UNCHANGED <<tables, due, txn>>
    BY <2>2 DEF tables, TypeOK, SlotShape
  <2> QED
    BY <1>17, <2>1, <2>2 DEF Expire, Begin
<1>18. ASSUME NEW t \in Txns, ExpireNotify(t)
       PROVE  Typed'
  <2>1. Idle \in Slot
    BY DEF Idle, Slot
  <2>2. TypeOK'
    BY <1>18, <2>1 DEF ExpireNotify, tables, TypeOK
  <2>3. SlotShape'
    BY <1>18 DEF ExpireNotify, TypeOK, SlotShape, Idle, Marks
  <2> QED
    BY <2>2, <2>3
<1>19. ASSUME NEW t \in Txns, Commit(t)
       PROVE  Typed'
  <2>1. Idle \in Slot /\ [txn[t] EXCEPT !.pc = "notify"] \in Slot
    BY DEF Idle, Slot, TypeOK
  <2>2. /\ shipment' \in [Shipments -> ShipmentRow]
        /\ shipmentW' \in [Shipments -> ShipmentRow]
        /\ shipmentLock' \in [Shipments -> Txns \cup {None}]
        /\ bid' \in [BidIds -> BidRow]
        /\ bidW' \in [BidIds -> BidRow]
        /\ bidLock' \in [BidIds -> Txns \cup {None}]
        /\ due' \in [Shipments -> BOOLEAN]
    BY <1>19 DEF Commit, Publish, Release, TypeOK
  <2>3. /\ job' \in [Shipments -> {"none", "todo", "doing", "done", "lost"}]
        /\ txn' \in [Txns -> Slot]
    BY <1>19, <2>1 DEF Commit, Proceed, TypeOK
  <2>4. SlotShape'
    BY <1>19 DEF Commit, Proceed, TypeOK, SlotShape, Slot, Idle, Marks
  <2> QED
    BY <2>2, <2>3, <2>4 DEF TypeOK
<1>20. ASSUME NEW t \in Txns, Abort(t)
       PROVE  Typed'
  BY <1>20, RollbackTyped DEF Abort, Rollback, TypeOK
<1>21. ASSUME NEW t \in Txns, DeadlockVictim(t)
       PROVE  Typed'
  BY <1>21, <1>f DEF DeadlockVictim
<1>22. CASE UNCHANGED vars
  BY <1>22 DEF vars, TypeOK, SlotShape
<1> QED
  BY <1>1, <1>2, <1>3, <1>4, <1>5, <1>6, <1>7, <1>8, <1>9, <1>10, <1>12, <1>13,
     <1>14, <1>15, <1>16, <1>17, <1>18, <1>19, <1>20, <1>21, <1>22
  DEF Next, Arrive, Continue

\* Type correctness: every row, lock, job and slot keeps the shape the
\* tables and the handlers give it.
THEOREM TypeCorrect == Spec => []TypeOK
<1>1. Typed => TypeOK
  BY DEF Typed
<1> QED
  BY <1>1, TypedInit, TypedNext, PTL DEF Spec
-----------------------------------------------------------------------------
(* The award *)

\* A transaction that has not written yet, or has finished, holds no lock.
LEMMA HoldsNothing ==
    ASSUME AwardInv, NEW t \in Txns,
           txn[t].pc \in {"idle", "upsert", "bid_gate", "mark", "notify"}
    PROVE  /\ \A s \in Shipments : shipmentLock[s] # t
           /\ \A b \in BidIds : bidLock[b] # t
<1>1. t # None
  OBVIOUS
<1>2. ASSUME NEW s \in Shipments, shipmentLock[s] = t
      PROVE  FALSE
  BY <1>1, <1>2 DEF AwardInv, LockedShipments, ShipmentStep
<1>3. ASSUME NEW b \in BidIds, bidLock[b] = t
      PROVE  FALSE
  BY <1>1, <1>3 DEF AwardInv, LockedBids, BidStep
<1> QED
  BY <1>2, <1>3

\* A step of t that commits nothing keeps the invariant if it takes only free
\* rows, and what t holds and writes afterwards is as the invariant says.
LEMMA Frame ==
    ASSUME AwardInv, Typed', NEW t \in Txns,
           UNCHANGED <<shipment, bid>>,
           \A u \in Txns \ {t} : txn'[u] = txn[u],
           \A s \in Shipments :
              \/ shipmentLock'[s] = shipmentLock[s] /\ shipmentW'[s] = shipmentW[s]
              \/ shipmentLock[s] = None /\ shipmentLock'[s] = t,
           \A b \in BidIds :
              \/ bidLock'[b] = bidLock[b] /\ bidW'[b] = bidW[b]
              \/ bidLock[b] = None /\ bidLock'[b] = t,
           \A s \in Shipments : shipmentLock'[s] = t =>
              txn'[t].s = s /\ ShipmentStep(txn'[t], shipment[s], shipmentW'[s]),
           \A b \in BidIds : bidLock'[b] = t =>
              BidStep(txn'[t], b, bid[b], bidW'[b]),
           HoldsBid(t)' => bidLock'[txn'[t].b] = t,
           HoldsShipment(t)' => shipmentLock'[txn'[t].s] = t,
           txn'[t].op \in Marks => shipment[txn'[t].s].capitan # None
    PROVE  AwardInv'
<1>1. t # None
  OBVIOUS
<1>2. BidShape' /\ AwardConsistent'
  BY DEF AwardInv, BidShape, AwardConsistent, Live, Won
<1>3. Settled'
  BY <1>1 DEF AwardInv, Settled
<1>4. LockedShipments'
  BY DEF AwardInv, LockedShipments, TypeOK
<1>5. LockedBids'
  BY DEF AwardInv, LockedBids, TypeOK
<1>6. AcceptHolds'
  <2>1. ASSUME NEW u \in Txns \ {t}
        PROVE  /\ HoldsBid(u)' => bidLock'[txn'[u].b] = u
               /\ HoldsShipment(u)' => shipmentLock'[txn'[u].s] = u
    <3>1. /\ HoldsBid(u) => bidLock[txn[u].b] = u
          /\ HoldsShipment(u) => shipmentLock[txn[u].s] = u
      BY DEF AwardInv, AcceptHolds
    <3>2. HoldsBid(u) => txn[u].b \in BidIds
      BY DEF AwardInv, TypeOK, SlotShape, HoldsBid, Slot
    <3>3. HoldsShipment(u) => txn[u].s \in Shipments
      BY DEF AwardInv, TypeOK, SlotShape, HoldsShipment, Slot
    <3> QED
      BY <3>1, <3>2, <3>3 DEF HoldsBid, HoldsShipment
  <2> QED
    BY <2>1 DEF AcceptHolds
<1>7. MarksAwarded'
  BY DEF AwardInv, MarksAwarded
<1> QED
  BY <1>2, <1>3, <1>4, <1>5, <1>6, <1>7 DEF AwardInv, Typed

\* A rollback keeps the invariant: what t wrote is gone, the rest stands.
LEMMA RollbackKeeps ==
    ASSUME AwardInv, Typed', NEW t \in Txns, Rollback(t)
    PROVE  AwardInv'
<1>1. t # None /\ txn'[t] = Idle /\ UNCHANGED <<shipment, bid>>
  BY DEF Rollback, Discard, AwardInv, TypeOK
<1>2. BidShape' /\ AwardConsistent'
  BY <1>1 DEF AwardInv, BidShape, AwardConsistent, Live, Won
<1>3. Settled'
  BY <1>1 DEF AwardInv, Settled, TypeOK, Rollback, Discard, Release
<1>4. LockedShipments'
  BY <1>1 DEF AwardInv, LockedShipments, TypeOK, Rollback, Discard, Release
<1>5. LockedBids'
  BY <1>1 DEF AwardInv, LockedBids, TypeOK, Rollback, Discard, Release
<1>6. AcceptHolds'
  <2>1. ~HoldsBid(t)' /\ ~HoldsShipment(t)'
    BY <1>1 DEF HoldsBid, HoldsShipment, Idle
  <2>2. ASSUME NEW u \in Txns \ {t}
        PROVE  /\ HoldsBid(u)' => bidLock'[txn'[u].b] = u
               /\ HoldsShipment(u)' => shipmentLock'[txn'[u].s] = u
    <3>1. txn'[u] = txn[u]
      BY DEF Rollback, AwardInv, TypeOK
    <3>2. HoldsBid(u) => txn[u].b \in BidIds /\ bidLock[txn[u].b] = u
      BY DEF AwardInv, TypeOK, SlotShape, AcceptHolds, HoldsBid, Slot
    <3>3. HoldsShipment(u) => txn[u].s \in Shipments /\ shipmentLock[txn[u].s] = u
      BY DEF AwardInv, TypeOK, SlotShape, AcceptHolds, HoldsShipment, Slot
    <3> QED
      BY <3>1, <3>2, <3>3 DEF HoldsBid, HoldsShipment, Rollback, Release
  <2> QED
    BY <2>1, <2>2 DEF AcceptHolds
<1>7. MarksAwarded'
  BY <1>1 DEF AwardInv, MarksAwarded, TypeOK, Rollback, Idle, Marks
<1> QED
  BY <1>2, <1>3, <1>4, <1>5, <1>6, <1>7 DEF AwardInv, Typed

\* So does a request that fails.
LEMMA FailKeeps ==
    ASSUME AwardInv, Typed', NEW t \in Txns, NEW code, Fail(t, code)
    PROVE  AwardInv'
BY FailIsRollback, RollbackKeeps

\* A step that changes no row, no lock and no slot.
LEMMA IdleKeeps ==
    ASSUME AwardInv, Typed', UNCHANGED <<tables, txn>>
    PROVE  AwardInv'
<1>1. BidShape' /\ AwardConsistent' /\ Settled'
  BY DEF AwardInv, BidShape, AwardConsistent, Settled, Live, Won, tables
<1>2. LockedShipments' /\ LockedBids'
  BY DEF AwardInv, LockedShipments, LockedBids, tables
<1>3. AcceptHolds' /\ MarksAwarded'
  BY DEF AwardInv, AcceptHolds, HoldsBid, HoldsShipment, MarksAwarded, tables
<1> QED
  BY <1>1, <1>2, <1>3 DEF AwardInv, Typed

\* A request that begins with no lock and takes one shipment row.
LEMMA TakesShipment ==
    ASSUME AwardInv, Typed', NEW t \in Txns, NEW s \in Shipments, NEW row,
           txn[t].pc \in {"idle", "mark"},
           WriteShipment(t, s, row), UNCHANGED <<shipment, bid, bidW, bidLock>>,
           \A u \in Txns \ {t} : txn'[u] = txn[u],
           txn'[t].s = s, txn'[t].op # "accept_bid",
           ShipmentStep(txn'[t], shipment[s], row)
    PROVE  AwardInv'
<1>1. \A r \in Shipments : shipmentLock[r] # t
  BY HoldsNothing
<1>2. \A b \in BidIds : bidLock'[b] # t
  BY HoldsNothing
<1>3. /\ shipmentLock' = [shipmentLock EXCEPT ![s] = t]
      /\ shipmentW' = [shipmentW EXCEPT ![s] = row]
      /\ shipmentLock[s] = None
  BY DEF WriteShipment
<1>4. \A r \in Shipments : shipmentLock'[r] = t => r = s /\ shipmentW'[r] = row
  BY <1>1, <1>3 DEF AwardInv, TypeOK
<1>5. \A r \in Shipments :
         \/ shipmentLock'[r] = shipmentLock[r] /\ shipmentW'[r] = shipmentW[r]
         \/ shipmentLock[r] = None /\ shipmentLock'[r] = t
  BY <1>3 DEF AwardInv, TypeOK
<1>6. ~HoldsBid(t)' /\ ~HoldsShipment(t)'
  BY DEF HoldsBid, HoldsShipment
<1>7. txn'[t].op \in Marks => shipment[txn'[t].s].capitan # None
  BY DEF ShipmentStep, Marks
<1> QED
  BY <1>2, <1>4, <1>5, <1>6, <1>7, Frame

\* A request that begins with no lock and takes one bid row.
LEMMA TakesBid ==
    ASSUME AwardInv, Typed', NEW t \in Txns, NEW b \in BidIds, NEW row,
           txn[t].pc \in {"idle", "upsert", "bid_gate"},
           WriteBid(t, b, row),
           UNCHANGED <<shipment, shipmentW, shipmentLock, bid>>,
           \A u \in Txns \ {t} : txn'[u] = txn[u],
           txn'[t].op \in {"place_bid", "withdraw_bid"} \/
              (txn'[t].op = "accept_bid" /\ txn'[t].pc = "shipment_gate"
                 /\ txn'[t].b = b),
           BidStep(txn'[t], b, bid[b], row)
    PROVE  AwardInv'
<1>1. \A r \in Shipments : shipmentLock'[r] # t
  BY HoldsNothing
<1>2. \A a \in BidIds : bidLock[a] # t
  BY HoldsNothing
<1>3. /\ bidLock' = [bidLock EXCEPT ![b] = t]
      /\ bidW' = [bidW EXCEPT ![b] = row]
      /\ bidLock[b] = None
  BY DEF WriteBid
<1>4. \A a \in BidIds : bidLock'[a] = t => a = b /\ bidW'[a] = row
  BY <1>2, <1>3 DEF AwardInv, TypeOK
<1>5. \A a \in BidIds :
         \/ bidLock'[a] = bidLock[a] /\ bidW'[a] = bidW[a]
         \/ bidLock[a] = None /\ bidLock'[a] = t
  BY <1>3 DEF AwardInv, TypeOK
<1>6. ~HoldsShipment(t)' /\ (HoldsBid(t)' => bidLock'[txn'[t].b] = t)
  BY <1>3 DEF HoldsBid, HoldsShipment, AwardInv, TypeOK
<1>7. txn'[t].op \notin Marks
  BY DEF Marks
<1> QED
  BY <1>1, <1>4, <1>5, <1>6, <1>7, Frame

\* A request that has read and written nothing yet.
LEMMA Begins ==
    ASSUME AwardInv, Typed', NEW t \in Txns,
           txn[t].pc \in {"idle", "notify"},
           \A u \in Txns \ {t} : txn'[u] = txn[u], UNCHANGED tables,
           txn'[t].pc \in {"idle", "upsert", "bid_gate", "mark"},
           txn'[t].op \in Marks => shipment[txn'[t].s].capitan # None
    PROVE  AwardInv'
<1>1. /\ \A s \in Shipments : shipmentLock'[s] # t
      /\ \A b \in BidIds : bidLock'[b] # t
  BY HoldsNothing DEF tables
<1>2. ~HoldsBid(t)' /\ ~HoldsShipment(t)'
  BY DEF HoldsBid, HoldsShipment
<1> QED
  BY <1>1, <1>2, Frame DEF tables

\* What a commit publishes is what the lock invariants say of each row.
LEMMA Published ==
    ASSUME AwardInv, NEW t \in Txns, Commit(t)
    PROVE  /\ \A s \in Shipments :
                 \/ /\ shipmentLock[s] # t /\ shipment'[s] = shipment[s]
                    /\ shipmentLock'[s] = shipmentLock[s]
                 \/ /\ shipmentLock[s] = t /\ shipment'[s] = shipmentW[s]
                    /\ shipmentLock'[s] = None
                    /\ txn[t].s = s
                    /\ ShipmentStep(txn[t], shipment[s], shipment'[s])
           /\ \A b \in BidIds :
                 \/ /\ bidLock[b] # t /\ bid'[b] = bid[b]
                    /\ bidLock'[b] = bidLock[b]
                 \/ /\ bidLock[b] = t /\ bid'[b] = bidW[b]
                    /\ bidLock'[b] = None
                    /\ BidStep(txn[t], b, bid[b], bid'[b])
           /\ UNCHANGED <<shipmentW, bidW>>
           /\ \A u \in Txns \ {t} : txn'[u] = txn[u]
           /\ txn'[t] = Idle \/ (txn'[t].op = "expire" /\ txn'[t].pc = "notify")
<1>1. t # None
  OBVIOUS
<1>2. ASSUME NEW s \in Shipments
      PROVE  \/ /\ shipmentLock[s] # t /\ shipment'[s] = shipment[s]
                /\ shipmentLock'[s] = shipmentLock[s]
             \/ /\ shipmentLock[s] = t /\ shipment'[s] = shipmentW[s]
                /\ shipmentLock'[s] = None
                /\ txn[t].s = s
                /\ ShipmentStep(txn[t], shipment[s], shipment'[s])
  BY <1>1 DEF Commit, Publish, Release, AwardInv, LockedShipments
<1>3. ASSUME NEW b \in BidIds
      PROVE  \/ /\ bidLock[b] # t /\ bid'[b] = bid[b]
                /\ bidLock'[b] = bidLock[b]
             \/ /\ bidLock[b] = t /\ bid'[b] = bidW[b]
                /\ bidLock'[b] = None
                /\ BidStep(txn[t], b, bid[b], bid'[b])
  BY <1>1 DEF Commit, Publish, Release, AwardInv, LockedBids
<1>4. /\ UNCHANGED <<shipmentW, bidW>>
      /\ \A u \in Txns \ {t} : txn'[u] = txn[u]
      /\ txn'[t] = Idle \/ (txn'[t].op = "expire" /\ txn'[t].pc = "notify")
  BY DEF Commit, Publish, Proceed, AwardInv, TypeOK, Slot
<1> QED
  BY <1>2, <1>3, <1>4

\* The commit of accept_bid publishes the winner and the shipment together.
LEMMA AwardCommits ==
    ASSUME AwardInv, NEW t \in Txns, Commit(t), txn[t].op = "accept_bid"
    PROVE  \E s \in Shipments, b \in BidIds :
              /\ s = txn[t].s /\ b = txn[t].b
              /\ shipment[s].status = "pending"
              /\ shipment'[s].status = "accepted"
              /\ shipment'[s].capitan = bid[b].capitan
              /\ shipment'[s].price = bid[b].price
              /\ bid[b].capitan # None
              /\ PendingOn(bid[b], s)
              /\ bid'[b] = [bid[b] EXCEPT !.status = "accepted"]
              /\ \A a \in BidIds \ {b} :
                    bid'[a] = bid[a] \/ (/\ PendingOn(bid[a], s)
                                         /\ bid'[a].status = "rejected")
              /\ \A r \in Shipments \ {s} : shipment'[r] = shipment[r]
<1> DEFINE s == txn[t].s
           b == txn[t].b
<1>1. txn[t].pc = "commit" /\ s \in Shipments /\ b \in BidIds
  BY DEF Commit, AwardInv, TypeOK, SlotShape, Slot
<1>2. shipmentLock[s] = t /\ bidLock[b] = t
  BY <1>1 DEF AwardInv, AcceptHolds, HoldsBid, HoldsShipment
<1>3. BidStep(txn[t], b, bid[b], bid'[b])
  BY <1>1, <1>2, Published
<1>4. /\ PendingOn(bid[b], s)
      /\ bid'[b] = [bid[b] EXCEPT !.status = "accepted"]
      /\ txn[t].capitan = bid[b].capitan /\ txn[t].price = bid[b].price
  BY <1>3 DEF BidStep
<1>5. bid[b].capitan # None
  BY <1>1, <1>4 DEF AwardInv, BidShape, Live, PendingOn, BidStatus
<1>6. ShipmentStep(txn[t], shipment[s], shipment'[s])
  BY <1>1, <1>2, Published
<1>7. /\ shipment[s].status = "pending"
      /\ shipment'[s] = Awarded(shipment[s], txn[t])
  BY <1>6 DEF ShipmentStep, Marks
<1>8. shipment[s] \in ShipmentRow
  BY <1>1 DEF AwardInv, TypeOK
<1>9. /\ shipment'[s].status = "accepted"
      /\ shipment'[s].capitan = txn[t].capitan
      /\ shipment'[s].price = txn[t].price
  BY <1>7, <1>8 DEF ShipmentRow, Awarded
<1>10. ASSUME NEW a \in BidIds \ {b}
       PROVE  bid'[a] = bid[a] \/ (PendingOn(bid[a], s) /\ bid'[a].status = "rejected")
  <2>1. CASE BidStep(txn[t], a, bid[a], bid'[a])
    <3>1. PendingOn(bid[a], s) /\ bid'[a] = [bid[a] EXCEPT !.status = "rejected"]
      BY <2>1 DEF BidStep
    <3>2. bid[a] \in BidRow
      BY DEF AwardInv, TypeOK
    <3> QED
      BY <3>1, <3>2 DEF BidRow
  <2> QED
    BY <2>1, Published
<1>11. \A r \in Shipments \ {s} : shipment'[r] = shipment[r]
  BY Published
<1>12. /\ s = txn[t].s /\ b = txn[t].b
       /\ shipment'[s].capitan = bid[b].capitan /\ shipment'[s].price = bid[b].price
  BY <1>4, <1>9
<1> HIDE DEF s, b
<1> QED
  BY <1>1, <1>4, <1>5, <1>7, <1>9, <1>10, <1>11, <1>12

\* Any other commit leaves awards and decided bids as they are.
LEMMA OtherCommits ==
    ASSUME AwardInv, Typed', NEW t \in Txns, Commit(t), txn[t].op # "accept_bid"
    PROVE  /\ \A s \in Shipments :
                 /\ shipment'[s].capitan = shipment[s].capitan
                 /\ shipment[s].capitan # None =>
                       shipment'[s].price = shipment[s].price
                 /\ shipment[s].capitan = None =>
                       \/ shipment'[s].status = shipment[s].status
                       \/ shipment'[s].status \in {"pending", "expired", "cancelled"}
                 /\ shipment[s].capitan # None =>
                       \/ shipment'[s].status = shipment[s].status
                       \/ shipment'[s].status \notin {"absent", "pending", "expired"}
           /\ \A b \in BidIds :
                 \/ bid'[b] = bid[b]
                 \/ /\ bid[b].status \in {"pending", "absent"}
                    /\ bid'[b].status \in {"pending", "deleted"}
<1>1. ASSUME NEW s \in Shipments
      PROVE  /\ shipment'[s].capitan = shipment[s].capitan
             /\ shipment[s].capitan # None =>
                   shipment'[s].price = shipment[s].price
             /\ shipment[s].capitan = None =>
                   \/ shipment'[s].status = shipment[s].status
                   \/ shipment'[s].status \in {"pending", "expired", "cancelled"}
             /\ shipment[s].capitan # None =>
                   \/ shipment'[s].status = shipment[s].status
                   \/ shipment'[s].status \notin {"absent", "pending", "expired"}
  <2>1. shipment[s] \in ShipmentRow
    BY DEF AwardInv, TypeOK
  <2>2. CASE ShipmentStep(txn[t], shipment[s], shipment'[s])
    <3>1. shipment[s].status = "pending" => shipment[s].capitan = None
      BY DEF AwardInv, AwardConsistent
    <3>2. CASE /\ shipment[s].status = "absent"
               /\ shipment'[s] = [NoShipment EXCEPT !.status = "pending"]
      BY <3>2 DEF NoShipment, AwardInv, AwardConsistent
    <3>3. CASE shipment'[s] = Cancelled(shipment[s])
      BY <2>1, <3>3 DEF ShipmentRow, Cancelled
    <3>4. CASE /\ shipment[s].status = "pending"
               /\ shipment'[s] = [shipment[s] EXCEPT !.status = "expired"]
      BY <2>1, <3>1, <3>4 DEF ShipmentRow
    <3>5. CASE /\ txn[t].op \in Marks
               /\ shipment[s].capitan # None
               /\ shipment'[s] = Marked(shipment[s], txn[t].op)
      <4>1. Mark[txn[t].op].to \in {"picked", "out_for_delivery", "delivered"}
        BY <3>5 DEF Mark, Marks
      <4> QED
        BY <2>1, <3>5, <4>1 DEF ShipmentRow, Marked
    <3> QED
      BY <2>2, <3>2, <3>3, <3>4, <3>5 DEF ShipmentStep
  <2> QED
    BY <2>2, Published
<1>2. ASSUME NEW b \in BidIds
      PROVE  \/ bid'[b] = bid[b]
             \/ /\ bid[b].status \in {"pending", "absent"}
                /\ bid'[b].status \in {"pending", "deleted"}
  <2>1. bid[b] \in BidRow
    BY DEF AwardInv, TypeOK
  <2>2. CASE BidStep(txn[t], b, bid[b], bid'[b])
    <3>1. CASE /\ bid[b].status = "pending"
               /\ bid'[b] = [bid[b] EXCEPT !.price = txn[t].price]
      BY <2>1, <3>1 DEF BidRow
    <3>2. CASE bid[b] = NoBid /\ bid'[b] = NewBid(txn[t])
      BY <3>2 DEF NoBid, NewBid
    <3>3. CASE bid[b].status = "pending" /\ bid'[b] = Deleted
      BY <3>3 DEF Deleted, NoBid
    <3> QED
      BY <2>2, <3>1, <3>2, <3>3 DEF BidStep, PendingOn
  <2> QED
    BY <2>2, Published
<1> QED
  BY <1>1, <1>2

\* Publishing an award in both rows at once keeps them in agreement.
LEMMA AwardAgrees ==
    ASSUME AwardInv, NEW x \in Shipments, NEW w \in BidIds,
           shipment[x].status = "pending",
           shipment'[x].status = "accepted",
           shipment'[x].capitan = bid[w].capitan,
           shipment'[x].price = bid[w].price,
           bid[w].capitan # None,
           PendingOn(bid[w], x),
           bid'[w] = [bid[w] EXCEPT !.status = "accepted"],
           \A a \in BidIds \ {w} :
              bid'[a] = bid[a] \/ (/\ PendingOn(bid[a], x)
                                   /\ bid'[a].status = "rejected"),
           \A r \in Shipments \ {x} : shipment'[r] = shipment[r]
    PROVE  AwardConsistent'
<1>1. \A b \in BidIds : ~Won(b, x)
  BY DEF AwardInv, AwardConsistent
<1>2. /\ bid'[w].status = "accepted" /\ bid'[w].shipment = x
      /\ bid'[w].capitan = bid[w].capitan /\ bid'[w].price = bid[w].price
  <2>1. bid[w] \in BidRow
    BY DEF AwardInv, TypeOK
  <2> QED
    BY <2>1 DEF BidRow, PendingOn
<1>3. \A b \in BidIds \ {w}, s \in Shipments :
         /\ Won(b, s)' <=> Won(b, s)
         /\ Won(b, s) => bid'[b] = bid[b]
  BY DEF Won, PendingOn
<1>4. \A s \in Shipments \ {x} : ~Won(w, s) /\ ~Won(w, s)'
  BY <1>2 DEF Won, PendingOn
<1>5. ASSUME NEW s \in Shipments, s = x
      PROVE  /\ Won(w, s)' /\ (\A b \in BidIds : Won(b, s)' => b = w)
             /\ bid'[w].capitan = shipment'[s].capitan
             /\ bid'[w].price = shipment'[s].price
             /\ shipment'[s].capitan # None
             /\ shipment'[s].status = "accepted"
  <2>1. Won(w, s)'
    BY <1>2, <1>5 DEF Won
  <2>2. \A b \in BidIds : Won(b, s)' => b = w
    BY <1>1, <1>3, <1>5
  <2> QED
    BY <1>2, <1>5, <2>1, <2>2
<1>6. ASSUME NEW s \in Shipments, s # x
       PROVE  /\ shipment'[s] = shipment[s]
              /\ \A b \in BidIds : Won(b, s)' <=> Won(b, s)
              /\ \A b \in BidIds : Won(b, s) => bid'[b] = bid[b]
  BY <1>3, <1>4, <1>6
<1>7. ASSUME NEW s \in Shipments
       PROVE  /\ shipment'[s].capitan # None =>
                   \E b \in BidIds : /\ Won(b, s)'
                                     /\ bid'[b].capitan = shipment'[s].capitan
                                     /\ bid'[b].price = shipment'[s].price
              /\ \A b \in BidIds : Won(b, s)' => shipment'[s].capitan # None
              /\ \A a, b \in BidIds : Won(a, s)' /\ Won(b, s)' => a = b
              /\ shipment'[s].capitan = None =>
                   shipment'[s].status \in {"absent", "pending", "expired", "cancelled"}
              /\ shipment'[s].capitan # None =>
                   shipment'[s].status \notin {"absent", "pending", "expired"}
  <2>1. CASE s = x
    BY <1>5, <2>1
  <2>2. CASE s # x
    BY <1>6, <2>2 DEF AwardInv, AwardConsistent
  <2> QED
    BY <2>1, <2>2
<1> QED
  BY <1>7 DEF AwardConsistent

\* A commit keeps AwardInv: what it publishes follows from what was there.
LEMMA CommitKeeps ==
    ASSUME AwardInv, Typed', NEW t \in Txns, Commit(t)
    PROVE  AwardInv'
<1>0. t # None /\ txn'[t].op \notin Marks \cup {"accept_bid"}
  BY Published DEF Idle, Marks
<1>1. BidShape'
  <2>1. ASSUME NEW b \in BidIds, Live(bid'[b])
        PROVE  bid'[b].shipment # None /\ bid'[b].capitan # None
    <3>1. bid[b] \in BidRow /\ (Live(bid[b]) => /\ bid[b].shipment # None
                                                /\ bid[b].capitan # None)
      BY DEF AwardInv, TypeOK, BidShape
    <3>2. CASE bid'[b] = bid[b]
      BY <2>1, <3>1, <3>2
    <3>3. CASE BidStep(txn[t], b, bid[b], bid'[b])
      <4>1. CASE /\ bid[b].status = "pending"
                 /\ bid'[b] = [bid[b] EXCEPT !.price = txn[t].price]
        BY <3>1, <4>1 DEF Live, BidStatus, BidRow
      <4>2. CASE /\ txn[t].op = "place_bid" /\ txn[t].pc = "commit"
                 /\ bid'[b] = NewBid(txn[t])
        BY <4>2 DEF NewBid, AwardInv, SlotShape
      <4>3. CASE bid'[b] = Deleted
        BY <2>1, <4>3 DEF Deleted, NoBid, Live, BidStatus
      <4>4. CASE /\ bid[b].status = "pending"
                 /\ \E st \in BidStatus : bid'[b] = [bid[b] EXCEPT !.status = st]
        BY <3>1, <4>4 DEF Live, BidStatus, BidRow
      <4> QED
        BY <3>3, <4>1, <4>2, <4>3, <4>4 DEF BidStep, PendingOn, BidStatus
    <3> QED
      BY <3>2, <3>3, Published
  <2> QED
    BY <2>1 DEF BidShape, Live
<1>2. Settled'
  BY <1>0, Published DEF AwardInv, Settled
<1>3. LockedShipments'
  BY <1>0, Published DEF AwardInv, LockedShipments, TypeOK
<1>4. LockedBids'
  BY <1>0, Published DEF AwardInv, LockedBids, TypeOK
<1>5. AcceptHolds'
  <2>1. ASSUME NEW u \in Txns \ {t}
        PROVE  /\ HoldsBid(u)' => bidLock'[txn'[u].b] = u
               /\ HoldsShipment(u)' => shipmentLock'[txn'[u].s] = u
    <3>1. txn'[u] = txn[u] /\ u # None
      BY Published
    <3>2. HoldsBid(u) => txn[u].b \in BidIds /\ bidLock[txn[u].b] = u
      BY DEF AwardInv, TypeOK, SlotShape, AcceptHolds, HoldsBid, Slot
    <3>3. HoldsShipment(u) => txn[u].s \in Shipments /\ shipmentLock[txn[u].s] = u
      BY DEF AwardInv, TypeOK, SlotShape, AcceptHolds, HoldsShipment, Slot
    <3> QED
      BY <3>1, <3>2, <3>3, Published DEF HoldsBid, HoldsShipment
  <2> QED
    BY <1>0, <2>1 DEF AcceptHolds, HoldsBid, HoldsShipment
<1>6. MarksAwarded'
  <2>1. ASSUME NEW u \in Txns, txn'[u].op \in Marks
        PROVE  shipment'[txn'[u].s].capitan # None
    <3>1. u # t /\ txn'[u] = txn[u]
      BY <1>0, <2>1, Published
    <3>2. txn[u].s \in Shipments /\ shipment[txn[u].s].capitan # None
      BY <2>1, <3>1 DEF AwardInv, MarksAwarded, TypeOK, SlotShape, Slot, Marks
    <3>3. CASE txn[t].op = "accept_bid"
      <4>1. PICK s \in Shipments :
               /\ \A r \in Shipments \ {s} : shipment'[r] = shipment[r]
               /\ shipment'[s].capitan # None
        BY <3>3, AwardCommits
      <4> QED
        BY <3>1, <3>2, <4>1
    <3>4. CASE txn[t].op # "accept_bid"
      BY <3>1, <3>2, <3>4, OtherCommits
    <3> QED
      BY <3>3, <3>4
  <2> QED
    BY <2>1 DEF MarksAwarded
<1>7. AwardConsistent'
  <2>1. CASE txn[t].op = "accept_bid"
    <3>1. PICK x \in Shipments, w \in BidIds :
             /\ shipment[x].status = "pending"
             /\ shipment'[x].status = "accepted"
             /\ shipment'[x].capitan = bid[w].capitan
             /\ shipment'[x].price = bid[w].price
             /\ bid[w].capitan # None
             /\ PendingOn(bid[w], x)
             /\ bid'[w] = [bid[w] EXCEPT !.status = "accepted"]
             /\ \A a \in BidIds \ {w} :
                   bid'[a] = bid[a] \/ (/\ PendingOn(bid[a], x)
                                        /\ bid'[a].status = "rejected")
             /\ \A r \in Shipments \ {x} : shipment'[r] = shipment[r]
      BY <2>1, AwardCommits
    <3> QED
      BY <3>1, AwardAgrees
  <2>2. CASE txn[t].op # "accept_bid"
    <3>1. \A b \in BidIds, s \in Shipments : /\ Won(b, s)' <=> Won(b, s)
                                             /\ Won(b, s) => bid'[b] = bid[b]
      BY <2>2, OtherCommits DEF Won
    <3> QED
      BY <2>2, <3>1, OtherCommits DEF AwardInv, AwardConsistent
  <2> QED
    BY <2>1, <2>2
<1> QED
  BY <1>1, <1>2, <1>3, <1>4, <1>5, <1>6, <1>7 DEF AwardInv, Typed

\* AwardInv holds of the empty tables.
LEMMA AwardInvInit == Init => AwardInv
<1> SUFFICES ASSUME Init PROVE AwardInv
  OBVIOUS
<1>1. TypeOK /\ SlotShape
  BY TypedInit DEF Typed
<1>2. BidShape /\ Settled
  BY DEF Init, BidShape, Settled, Live, NoBid, BidStatus
<1>3. LockedShipments /\ LockedBids
  BY DEF Init, LockedShipments, LockedBids
<1>4. AcceptHolds /\ MarksAwarded
  BY DEF Init, AcceptHolds, MarksAwarded, HoldsBid, HoldsShipment, Idle, Marks
<1>5. AwardConsistent
  BY DEF Init, AwardConsistent, Won, NoShipment, NoBid
<1> QED
  BY <1>1, <1>2, <1>3, <1>4, <1>5 DEF AwardInv

\* accept_bid once it holds its bid: each of its statements keeps AwardInv.
LEMMA AcceptKeeps ==
    ASSUME AwardInv, Typed', NEW t \in Txns,
           \/ AcceptShipmentGate(t)
           \/ RejectSiblings(t)
           \/ \E b \in BidIds : RejectOne(t, b)
           \/ AcceptAnswer(t)
    PROVE  AwardInv'
<1>1. t # None /\ txn[t] \in Slot
  BY DEF AwardInv, TypeOK
<1>2. txn[t].op = "accept_bid" /\ txn[t].b \in BidIds /\ txn[t].s \in Shipments
  BY <1>1 DEF AcceptShipmentGate, RejectSiblings, RejectOne, AcceptAnswer, AwardInv,
              SlotShape, Slot
<1>3. bidLock[txn[t].b] = t
  BY <1>2 DEF AcceptShipmentGate, RejectSiblings, RejectOne, AcceptAnswer, AwardInv,
              AcceptHolds, HoldsBid
<1>4. \A b \in BidIds : bidLock[b] = t => BidStep(txn[t], b, bid[b], bidW[b])
  BY <1>1 DEF AwardInv, LockedBids
<1>5. \A s \in Shipments : shipmentLock[s] = t =>
         txn[t].s = s /\ ShipmentStep(txn[t], shipment[s], shipmentW[s])
  BY <1>1 DEF AwardInv, LockedShipments
<1>6. CASE AcceptShipmentGate(t)
  <2> DEFINE s == txn[t].s
             row == Awarded(shipment[s], txn[t])
  <2>1. CASE /\ OpenAt(shipment[s], txn[t].early)
             /\ WriteShipment(t, s, row)
             /\ Proceed(t, "siblings")
             /\ UNCHANGED <<shipment, bid, bidW, bidLock, due, job>>
    <3>1. /\ txn'[t] = [txn[t] EXCEPT !.pc = "siblings"]
          /\ \A u \in Txns \ {t} : txn'[u] = txn[u]
      BY <2>1 DEF Proceed, AwardInv, TypeOK
    <3>2. /\ txn'[t].op = "accept_bid" /\ txn'[t].pc = "siblings"
          /\ txn'[t].s = s /\ txn'[t].b = txn[t].b
          /\ txn'[t].capitan = txn[t].capitan /\ txn'[t].price = txn[t].price
      BY <1>1, <1>2, <3>1 DEF Slot
    <3>3. /\ shipmentLock[s] = None
          /\ shipmentLock' = [shipmentLock EXCEPT ![s] = t]
          /\ shipmentW' = [shipmentW EXCEPT ![s] = row]
      BY <2>1 DEF WriteShipment
    <3>4. \A r \in Shipments : shipmentLock[r] # t
      BY <1>5, <3>3, <1>1
    <3>5. ShipmentStep(txn'[t], shipment[s], row)
      BY <2>1, <3>2 DEF ShipmentStep, OpenAt, Awarded
    <3>6. \A r \in Shipments : shipmentLock'[r] = t =>
             txn'[t].s = r /\ ShipmentStep(txn'[t], shipment[r], shipmentW'[r])
      <4> HIDE DEF row, s
      <4> QED
        BY <1>2, <3>2, <3>3, <3>4, <3>5 DEF AwardInv, TypeOK, s
    <3>7. \A b \in BidIds : bidLock'[b] = t => BidStep(txn'[t], b, bid[b], bidW'[b])
      BY <1>4, <1>6, <2>1, <3>2 DEF AcceptShipmentGate, BidStep
    <3>8. HoldsBid(t)' => bidLock'[txn'[t].b] = t
      BY <1>3, <2>1, <3>2
    <3>9. HoldsShipment(t)' => shipmentLock'[txn'[t].s] = t
      BY <1>2, <3>2, <3>3 DEF AwardInv, TypeOK
    <3>10. txn'[t].op \notin Marks
      BY <3>2 DEF Marks
    <3>11. /\ \A r \in Shipments :
                \/ shipmentLock'[r] = shipmentLock[r] /\ shipmentW'[r] = shipmentW[r]
                \/ shipmentLock[r] = None /\ shipmentLock'[r] = t
           /\ UNCHANGED <<shipment, bid, bidLock, bidW>>
      BY <2>1, <3>3 DEF AwardInv, TypeOK
    <3> QED
      BY <3>1, <3>6, <3>7, <3>8, <3>9, <3>10, <3>11, Frame
  <2> QED
    BY <1>6, <2>1, FailKeeps DEF AcceptShipmentGate
<1>7. ASSUME txn[t].pc \in {"siblings", "reject"},
             txn'[t].pc \in {"reject", "commit"},
             txn'[t].op = "accept_bid", txn'[t].s = txn[t].s, txn'[t].b = txn[t].b,
             txn'[t].capitan = txn[t].capitan, txn'[t].price = txn[t].price,
             \A u \in Txns \ {t} : txn'[u] = txn[u],
             UNCHANGED <<shipment, shipmentW, shipmentLock, bid>>,
             \A b \in BidIds :
                \/ bidLock'[b] = bidLock[b] /\ bidW'[b] = bidW[b]
                \/ /\ bidLock[b] = None /\ bidLock'[b] = t
                   /\ PendingOn(bid[b], txn[t].s)
                   /\ bidW'[b] = [bid[b] EXCEPT !.status = "rejected"]
      PROVE  AwardInv'
  <2>1. shipmentLock[txn[t].s] = t
    BY <1>2, <1>7 DEF AwardInv, AcceptHolds, HoldsShipment
  <2>2. ASSUME NEW s \in Shipments, shipmentLock'[s] = t
        PROVE  txn'[t].s = s /\ ShipmentStep(txn'[t], shipment[s], shipmentW'[s])
    <3>1. txn[t].s = s /\ ShipmentStep(txn[t], shipment[s], shipmentW[s])
      BY <1>5, <1>7, <2>2
    <3>2. /\ shipment[s].status = "pending"
          /\ shipmentW'[s] = Awarded(shipment[s], txn'[t])
      BY <1>2, <1>7, <3>1 DEF ShipmentStep, Marks, Awarded
    <3> QED
      BY <1>7, <3>1, <3>2 DEF ShipmentStep
  <2>3. ASSUME NEW b \in BidIds, bidLock'[b] = t
        PROVE  BidStep(txn'[t], b, bid[b], bidW'[b])
    <3>1. CASE bidLock[b] = t /\ bidW'[b] = bidW[b]
      BY <1>2, <1>4, <1>7, <3>1 DEF BidStep
    <3>2. CASE /\ bidLock[b] = None
               /\ PendingOn(bid[b], txn[t].s)
               /\ bidW'[b] = [bid[b] EXCEPT !.status = "rejected"]
      <4>1. b # txn[t].b
        BY <1>1, <1>3, <3>2
      <4> QED
        BY <1>7, <3>2, <4>1 DEF BidStep
    <3> QED
      BY <1>7, <2>3, <3>1, <3>2
  <2>4. HoldsBid(t)' => bidLock'[txn'[t].b] = t
    BY <1>1, <1>2, <1>3, <1>7
  <2>5. HoldsShipment(t)' => shipmentLock'[txn'[t].s] = t
    BY <1>7, <2>1
  <2>6. txn'[t].op \notin Marks
    BY <1>7 DEF Marks
  <2> QED
    BY <1>7, <2>2, <2>3, <2>4, <2>5, <2>6, Frame
<1>8. CASE RejectSiblings(t)
  <2>1. /\ txn'[t].pc = "reject" /\ txn'[t].op = txn[t].op
        /\ txn'[t].s = txn[t].s /\ txn'[t].b = txn[t].b
        /\ txn'[t].capitan = txn[t].capitan /\ txn'[t].price = txn[t].price
        /\ \A u \in Txns \ {t} : txn'[u] = txn[u]
    BY <1>1, <1>8 DEF RejectSiblings, AwardInv, TypeOK, Slot
  <2> QED
    BY <1>2, <1>7, <1>8, <2>1 DEF RejectSiblings, tables
<1>9. ASSUME NEW b \in BidIds, RejectOne(t, b)
      PROVE  AwardInv'
  <2>1. /\ txn'[t].pc = "reject" /\ txn[t].pc = "reject" /\ txn'[t].op = txn[t].op
        /\ txn'[t].s = txn[t].s /\ txn'[t].b = txn[t].b
        /\ txn'[t].capitan = txn[t].capitan /\ txn'[t].price = txn[t].price
        /\ \A u \in Txns \ {t} : txn'[u] = txn[u]
    BY <1>1, <1>9 DEF RejectOne, AwardInv, TypeOK, Slot
  <2>2. UNCHANGED <<shipment, shipmentW, shipmentLock, bid>>
    BY <1>9 DEF RejectOne
  <2>3. \A a \in BidIds :
           \/ bidLock'[a] = bidLock[a] /\ bidW'[a] = bidW[a]
           \/ /\ bidLock[a] = None /\ bidLock'[a] = t
              /\ PendingOn(bid[a], txn[t].s)
              /\ bidW'[a] = [bid[a] EXCEPT !.status = "rejected"]
    BY <1>9 DEF RejectOne, WriteBid, AwardInv, TypeOK
  <2> QED
    BY <1>2, <1>7, <2>1, <2>2, <2>3
<1>10. CASE AcceptAnswer(t)
  <2>1. /\ txn'[t].pc = "commit" /\ txn[t].pc = "reject" /\ txn'[t].op = txn[t].op
        /\ txn'[t].s = txn[t].s /\ txn'[t].b = txn[t].b
        /\ txn'[t].capitan = txn[t].capitan /\ txn'[t].price = txn[t].price
        /\ \A u \in Txns \ {t} : txn'[u] = txn[u]
    BY <1>1, <1>10 DEF AcceptAnswer, Proceed, AwardInv, TypeOK, Slot
  <2> QED
    BY <1>2, <1>7, <1>10, <2>1 DEF AcceptAnswer, tables
<1> QED
  BY <1>6, <1>8, <1>9, <1>10

\* Every step keeps AwardInv.
LEMMA AwardInvNext == AwardInv /\ [Next]_vars => AwardInv'
<1> SUFFICES ASSUME AwardInv, [Next]_vars PROVE AwardInv'
  OBVIOUS
<1>t. Typed'
  BY TypedNext DEF AwardInv, Typed
<1>s. \A t \in Txns : txn[t] = Idle => txn[t].pc = "idle"
  BY DEF Idle
<1>r. ASSUME NEW op, NEW code, Refuse(op, code)
      PROVE  AwardInv'
  BY <1>t, <1>r, IdleKeeps DEF Refuse
<1>f. ASSUME NEW t \in Txns, NEW code, Fail(t, code)
      PROVE  AwardInv'
  BY <1>t, <1>f, FailKeeps
<1>1. ASSUME NEW t \in Txns, NEW s \in Shipments, Create(t, s)
      PROVE  AwardInv'
  <2> DEFINE slot == [Idle EXCEPT !.op = "create", !.pc = "commit", !.s = s]
             row == [NoShipment EXCEPT !.status = "pending"]
  <2>1. slot.op = "create" /\ slot.pc = "commit" /\ slot.s = s
    BY DEF Idle
  <2>2. shipment[s].status = "absent"
    BY <1>1 DEF Create, Exists
  <2>3. ShipmentStep(slot, shipment[s], row)
    BY <2>1, <2>2 DEF ShipmentStep
  <2>4. /\ txn'[t] = slot /\ \A v \in Txns \ {t} : txn'[v] = txn[v]
        /\ txn[t].pc = "idle"
    BY <1>1, <1>s DEF Create, Begin, AwardInv, TypeOK
  <2> HIDE DEF slot, row
  <2> QED
    BY <1>1, <1>t, <2>1, <2>3, <2>4, TakesShipment DEF Create, row
<1>2. ASSUME NEW t \in Txns, NEW s \in Shipments, NEW c \in Captains,
             NEW p \in Prices, PlaceBidRead(t, s, c, p)
      PROVE  AwardInv'
  <2> DEFINE slot == [Idle EXCEPT !.op = "place_bid", !.pc = "upsert", !.s = s,
                                  !.capitan = c, !.price = p]
  <2>1. slot.op \notin Marks /\ slot.pc = "upsert"
    BY DEF Idle, Marks
  <2>2. CASE txn[t] = Idle /\ txn' = [txn EXCEPT ![t] = slot] /\ UNCHANGED tables
    <3>1. txn'[t] = slot /\ \A v \in Txns \ {t} : txn'[v] = txn[v]
      BY <2>2 DEF AwardInv, TypeOK
    <3> HIDE DEF slot
    <3> QED
      BY <1>t, <1>s, <2>1, <2>2, <3>1, Begins
  <2> QED
    BY <1>2, <1>r, <2>2 DEF PlaceBidRead, Begin
<1>3. ASSUME NEW t \in Txns, PlaceBidUpsert(t)
      PROVE  AwardInv'
  <2>1. /\ txn[t].pc = "upsert" /\ txn[t].op = "place_bid" /\ txn[t].s # None
        /\ txn[t].capitan # None /\ txn[t].price \in Prices
    BY <1>3 DEF PlaceBidUpsert, AwardInv, TypeOK, SlotShape, Slot
  <2>2. ASSUME NEW b \in BidIds, NEW row, WriteBid(t, b, row), Proceed(t, "commit"),
               UNCHANGED <<shipment, shipmentW, shipmentLock, bid, due, job>>,
               \/ /\ bid[b].status = "pending"
                  /\ IsBidOf(bid[b], txn[t].s, txn[t].capitan)
                  /\ row = [bid[b] EXCEPT !.price = txn[t].price]
               \/ bid[b] = NoBid /\ row = NewBid(txn[t])
        PROVE  AwardInv'
    <3>1. /\ txn'[t].op = "place_bid" /\ txn'[t].pc = "commit"
          /\ txn'[t].s = txn[t].s /\ txn'[t].capitan = txn[t].capitan
          /\ txn'[t].price = txn[t].price
          /\ \A u \in Txns \ {t} : txn'[u] = txn[u]
      BY <2>1, <2>2 DEF Proceed, AwardInv, TypeOK, Slot
    <3>2. BidStep(txn'[t], b, bid[b], row)
      BY <2>1, <2>2, <3>1 DEF BidStep, NewBid, PendingOn, IsBidOf
    <3> QED
      BY <1>t, <2>1, <2>2, <3>1, <3>2, TakesBid
  <2>3. \A b \in KeyRows(txn[t].s, txn[t].capitan) :
           bidLock[b] = None => IsBidOf(bid[b], txn[t].s, txn[t].capitan)
    BY DEF KeyRows, Indexed, AwardInv, Settled
  <2>4. \A s, c : KeyRows(s, c) \subseteq BidIds
    BY DEF KeyRows
  <2> QED
    BY <1>3, <1>f, <2>2, <2>3, <2>4 DEF PlaceBidUpsert, Repriceable
<1>4. ASSUME NEW t \in Txns, NEW s \in Shipments, NEW b \in BidIds,
             NEW u \in Users, AcceptBid(t, s, b, u)
      PROVE  AwardInv'
  <2> DEFINE slot == [Idle EXCEPT !.op = "accept_bid", !.pc = "bid_gate", !.s = s,
                                  !.b = b, !.early = ~due[s]]
  <2>1. slot.op \notin Marks /\ slot.pc = "bid_gate"
    BY DEF Idle, Marks
  <2>2. CASE txn[t] = Idle /\ txn' = [txn EXCEPT ![t] = slot] /\ UNCHANGED tables
    <3>1. txn'[t] = slot /\ \A v \in Txns \ {t} : txn'[v] = txn[v]
      BY <2>2 DEF AwardInv, TypeOK
    <3> HIDE DEF slot
    <3> QED
      BY <1>t, <1>s, <2>1, <2>2, <3>1, Begins
  <2> QED
    BY <1>4, <1>r, <2>2 DEF AcceptBid, Begin
<1>5. ASSUME NEW t \in Txns, AcceptBidGate(t)
      PROVE  AwardInv'
  <2> DEFINE b == txn[t].b
             row == [bid[b] EXCEPT !.status = "accepted"]
  <2>1. txn[t].pc = "bid_gate" /\ txn[t].op = "accept_bid" /\ b \in BidIds
    BY <1>5 DEF AcceptBidGate, AwardInv, TypeOK, SlotShape, Slot
  <2>2. CASE /\ PendingOn(bid[b], txn[t].s)
             /\ WriteBid(t, b, row)
             /\ txn' = [txn EXCEPT ![t].pc = "shipment_gate",
                                   ![t].capitan = bid[b].capitan,
                                   ![t].price = bid[b].price]
             /\ UNCHANGED <<shipment, shipmentW, shipmentLock, bid, due, job>>
    <3>1. /\ txn'[t].op = "accept_bid" /\ txn'[t].pc = "shipment_gate"
          /\ txn'[t].b = b /\ txn'[t].s = txn[t].s
          /\ txn'[t].capitan = bid[b].capitan /\ txn'[t].price = bid[b].price
          /\ \A u \in Txns \ {t} : txn'[u] = txn[u]
      BY <2>1, <2>2 DEF AwardInv, TypeOK, Slot
    <3>2. BidStep(txn'[t], b, bid[b], row)
      BY <2>2, <3>1 DEF BidStep
    <3>3. /\ txn[t].pc \in {"idle", "upsert", "bid_gate"}
          /\ WriteBid(t, b, row)
          /\ UNCHANGED <<shipment, shipmentW, shipmentLock, bid>>
      BY <2>1, <2>2
    <3> HIDE DEF b, row
    <3> QED
      BY <1>t, <2>1, <3>1, <3>2, <3>3, TakesBid
  <2> QED
    BY <1>5, <1>f, <2>2 DEF AcceptBidGate
<1>6. ASSUME NEW t \in Txns,
             \/ AcceptShipmentGate(t) \/ RejectSiblings(t)
             \/ (\E b \in BidIds : RejectOne(t, b)) \/ AcceptAnswer(t)
      PROVE  AwardInv'
  BY <1>t, <1>6, AcceptKeeps
<1>7. ASSUME NEW t \in Txns, NEW s \in Shipments, NEW b \in BidIds,
             NEW c \in Captains, WithdrawBid(t, s, b, c)
      PROVE  AwardInv'
  <2> DEFINE slot == [Idle EXCEPT !.op = "withdraw_bid", !.pc = "commit",
                                  !.s = s, !.b = b]
  <2>1. slot.op = "withdraw_bid" /\ slot.pc = "commit"
    BY DEF Idle
  <2>2. CASE /\ PendingOn(bid[b], s) /\ txn[t] = Idle
             /\ txn' = [txn EXCEPT ![t] = slot]
             /\ WriteBid(t, b, Deleted)
             /\ UNCHANGED <<shipment, shipmentW, shipmentLock, bid, due, job>>
    <3>1. BidStep(slot, b, bid[b], Deleted)
      BY <2>1, <2>2 DEF BidStep, PendingOn
    <3>2. txn'[t] = slot /\ \A v \in Txns \ {t} : txn'[v] = txn[v]
      BY <2>2 DEF AwardInv, TypeOK
    <3> HIDE DEF slot
    <3> QED
      BY <1>t, <1>s, <2>1, <2>2, <3>1, <3>2, TakesBid
  <2> QED
    BY <1>7, <1>r, <2>2 DEF WithdrawBid, Begin
<1>8. ASSUME NEW t \in Txns, NEW s \in Shipments,
             NEW op \in {"cancel", "cancel_by_sender"}, NEW gate,
             gate => shipment[s].status \notin Terminal \cup {"absent"},
             CancelWhere(t, s, op, gate)
      PROVE  AwardInv'
  <2> DEFINE slot == [Idle EXCEPT !.op = op, !.pc = "commit", !.s = s]
             row == Cancelled(shipment[s])
  <2>1. slot.op = op /\ slot.pc = "commit" /\ slot.s = s
    BY DEF Idle
  <2>2. ShipmentStep(slot, shipment[s], row)
    BY <1>8, <2>1 DEF CancelWhere, ShipmentStep
  <2>3. /\ txn'[t] = slot /\ \A v \in Txns \ {t} : txn'[v] = txn[v]
        /\ txn[t].pc = "idle"
    BY <1>8, <1>s DEF CancelWhere, Begin, AwardInv, TypeOK
  <2> HIDE DEF slot, row
  <2> QED
    BY <1>8, <1>t, <2>1, <2>2, <2>3, TakesShipment DEF CancelWhere, row
<1>9. ASSUME NEW t \in Txns, NEW s \in Shipments, Cancel(t, s)
      PROVE  AwardInv'
  BY <1>9, <1>r, <1>8 DEF Cancel, Exists
<1>10. ASSUME NEW t \in Txns, NEW s \in Shipments, NEW u \in Users,
              CancelBySender(t, s, u)
       PROVE  AwardInv'
  BY <1>10, <1>r, <1>8 DEF CancelBySender, Terminal
<1>11. ASSUME NEW t \in Txns, NEW s \in Shipments, NEW c \in Captains,
              NEW op \in Marks, NEW code, MarkRead(t, s, c, op, code)
       PROVE  AwardInv'
  <2> DEFINE slot == [Idle EXCEPT !.op = op, !.pc = "mark", !.s = s]
  <2>1. slot.s = s /\ slot.pc = "mark"
    BY DEF Idle
  <2>2. CASE /\ txn[t] = Idle /\ shipment[s].capitan = c
             /\ txn' = [txn EXCEPT ![t] = slot] /\ UNCHANGED tables
    <3>1. slot.op \in Marks => shipment[slot.s].capitan # None
      BY <2>1, <2>2
    <3>2. txn'[t] = slot /\ \A v \in Txns \ {t} : txn'[v] = txn[v]
      BY <2>2 DEF AwardInv, TypeOK
    <3> HIDE DEF slot
    <3> QED
      BY <1>t, <1>s, <2>1, <2>2, <3>1, <3>2, Begins
  <2> QED
    BY <1>11, <1>r, <2>2 DEF MarkRead, Begin
<1>12. ASSUME NEW t \in Txns, MarkWrite(t)
       PROVE  AwardInv'
  <2> DEFINE s == txn[t].s
             row == Marked(shipment[s], txn[t].op)
  <2>1. txn[t].pc = "mark" /\ txn[t].op \in Marks /\ s \in Shipments
    BY <1>12 DEF MarkWrite, AwardInv, TypeOK, SlotShape, Slot
  <2>2. /\ txn'[t].op = txn[t].op /\ txn'[t].pc = "commit" /\ txn'[t].s = s
        /\ \A u \in Txns \ {t} : txn'[u] = txn[u]
    BY <1>12 DEF MarkWrite, Proceed, AwardInv, TypeOK, Slot
  <2>3. shipment[s].capitan # None
    BY <2>1 DEF AwardInv, MarksAwarded
  <2>4. ShipmentStep(txn'[t], shipment[s], row)
    BY <2>1, <2>2, <2>3 DEF ShipmentStep
  <2>5. txn'[t].op # "accept_bid"
    BY <2>1, <2>2 DEF Marks
  <2>6. WriteShipment(t, s, row) /\ UNCHANGED <<shipment, bid, bidW, bidLock>>
    BY <1>12 DEF MarkWrite
  <2> HIDE DEF s, row
  <2> QED
    BY <1>t, <2>1, <2>2, <2>4, <2>5, <2>6, TakesShipment
<1>13. ASSUME NEW s \in Shipments, Deadline(s)
       PROVE  AwardInv'
  BY <1>t, <1>13, IdleKeeps DEF Deadline
<1>14. ASSUME NEW t \in Txns, NEW s \in Shipments, Expire(t, s)
       PROVE  AwardInv'
  <2> DEFINE slot == [Idle EXCEPT !.op = "expire", !.pc = "commit", !.s = s]
             row == [shipment[s] EXCEPT !.status = "expired"]
  <2>1. slot.op = "expire" /\ slot.pc = "commit" /\ slot.s = s
    BY DEF Idle
  <2>2. CASE UNCHANGED <<tables, due, txn>>
    BY <1>t, <2>2, IdleKeeps
  <2>3. CASE /\ shipment[s].status = "pending" /\ txn[t] = Idle
             /\ txn' = [txn EXCEPT ![t] = slot]
             /\ WriteShipment(t, s, row)
             /\ UNCHANGED <<shipment, bid, bidW, bidLock, due>>
    <3>1. ShipmentStep(slot, shipment[s], row)
      BY <2>1, <2>3 DEF ShipmentStep
    <3>2. txn'[t] = slot /\ \A v \in Txns \ {t} : txn'[v] = txn[v]
      BY <2>3 DEF AwardInv, TypeOK
    <3> HIDE DEF slot, row
    <3> QED
      BY <1>t, <1>s, <2>1, <2>3, <3>1, <3>2, TakesShipment
  <2> QED
    BY <1>14, <2>2, <2>3 DEF Expire, Begin, Expirable
<1>15. ASSUME NEW t \in Txns, ExpireNotify(t)
       PROVE  AwardInv'
  <2>1. Idle.pc = "idle" /\ Idle.op \notin Marks
    BY DEF Idle, Marks
  <2>2. txn'[t] = Idle /\ \A v \in Txns \ {t} : txn'[v] = txn[v]
    BY <1>15 DEF ExpireNotify, AwardInv, TypeOK
  <2> QED
    BY <1>t, <1>15, <2>1, <2>2, Begins DEF ExpireNotify
<1>16. ASSUME NEW t \in Txns, Commit(t)
       PROVE  AwardInv'
  BY <1>t, <1>16, CommitKeeps
<1>17. ASSUME NEW t \in Txns, Abort(t)
       PROVE  AwardInv'
  BY <1>t, <1>17, RollbackKeeps DEF Abort, Rollback
<1>18. ASSUME NEW t \in Txns, DeadlockVictim(t)
       PROVE  AwardInv'
  BY <1>18, <1>f DEF DeadlockVictim
<1>19. CASE UNCHANGED vars
  BY <1>t, <1>19, IdleKeeps DEF vars, tables
<1> QED
  BY <1>1, <1>2, <1>3, <1>4, <1>5, <1>6, <1>7, <1>9, <1>10, <1>11, <1>12, <1>13,
     <1>14, <1>15, <1>16, <1>17, <1>18, <1>19
  DEF Next, Arrive, Continue

\* AwardInv holds in every reachable state.
THEOREM AwardInductive == Spec => []AwardInv
BY AwardInvInit, AwardInvNext, PTL DEF Spec

\* The award in the shipments row and the award in the bids row agree in
\* every committed state: accept_bid's gates, the row locks they take and
\* the mark_* updates by primary key notwithstanding.
THEOREM AwardIsConsistent == Spec => []AwardConsistent
<1>1. AwardInv => AwardConsistent
  BY DEF AwardInv
<1> QED
  BY <1>1, AwardInductive, PTL

\* Only a commit changes what other transactions read.
LEMMA OnlyCommitPublishes ==
    ASSUME [Next]_vars, \A t \in Txns : ~Commit(t)
    PROVE  UNCHANGED <<shipment, bid>>
<1> DEFINE Same == UNCHANGED <<shipment, bid>>
<1>1. ASSUME NEW t \in Txns, NEW s \in Shipments,
             \/ Create(t, s) \/ Cancel(t, s) \/ Expire(t, s)
             \/ \E u \in Users : CancelBySender(t, s, u)
      PROVE  Same
  BY <1>1 DEF Create, Cancel, CancelBySender, CancelWhere, Refuse, Expire, tables
<1>2. ASSUME NEW t \in Txns, NEW s \in Shipments, NEW c \in Captains,
             \/ \E p \in Prices : PlaceBidRead(t, s, c, p)
             \/ \E b \in BidIds : WithdrawBid(t, s, b, c)
             \/ \E op \in Marks, code \in {"right", "wrong"} :
                   MarkRead(t, s, c, op, code)
      PROVE  Same
  BY <1>2 DEF PlaceBidRead, WithdrawBid, MarkRead, Refuse, tables
<1>3. ASSUME NEW t \in Txns, NEW s \in Shipments, NEW b \in BidIds, NEW u \in Users,
             AcceptBid(t, s, b, u)
      PROVE  Same
  BY <1>3 DEF AcceptBid, Refuse, tables
<1>4. ASSUME NEW t \in Txns,
             PlaceBidUpsert(t) \/ AcceptBidGate(t) \/ AcceptShipmentGate(t)
      PROVE  Same
  BY <1>4 DEF PlaceBidUpsert, AcceptBidGate, AcceptShipmentGate, Fail, Discard
<1>5. ASSUME NEW t \in Txns,
             \/ RejectSiblings(t) \/ (\E b \in BidIds : RejectOne(t, b))
             \/ AcceptAnswer(t) \/ MarkWrite(t) \/ ExpireNotify(t)
             \/ Abort(t) \/ DeadlockVictim(t)
      PROVE  Same
  BY <1>5 DEF RejectSiblings, RejectOne, AcceptAnswer, MarkWrite, ExpireNotify, Abort,
              DeadlockVictim, Fail, Discard, tables
<1>6. ASSUME UNCHANGED vars
      PROVE  Same
  BY <1>6 DEF vars
<1>7. ASSUME NEW s \in Shipments, Deadline(s)
      PROVE  Same
  BY <1>7 DEF Deadline, tables
<1> QED
  <2> HIDE DEF Same
  <2>1. ASSUME NEW t \in Txns, Arrive(t) PROVE Same
    BY <1>1, <1>2, <1>3, <2>1 DEF Arrive
  <2>2. ASSUME NEW t \in Txns, Continue(t) PROVE Same
    BY <1>4, <1>5, <2>2 DEF Continue
  <2>3. ASSUME NEW t \in Txns, Arrive(t) \/ Continue(t) \/ Abort(t) PROVE Same
    BY <1>5, <2>1, <2>2, <2>3
  <2>4. ASSUME NEW t \in Txns, NEW s \in Shipments, Expire(t, s) PROVE Same
    BY <1>1, <2>4
  <2>5. Same
    BY <1>6, <1>7, <2>3, <2>4 DEF Next
  <2> QED
    BY <2>5 DEF Same

\* No step takes an award back, changes its captain or its price, or edits
\* or deletes a bid that is decided.
THEOREM AwardsStand == Spec => AwardStands
<1>1. ASSUME AwardInv, AwardInv', [Next]_vars
      PROVE  /\ \A s \in Shipments :
                   shipment[s].capitan # None =>
                      /\ shipment'[s].capitan = shipment[s].capitan
                      /\ shipment'[s].price = shipment[s].price
             /\ \A b \in BidIds :
                   bid[b].status \in {"accepted", "rejected"} => bid'[b] = bid[b]
  <2>1. CASE UNCHANGED <<shipment, bid>>
    BY <2>1
  <2>2. ASSUME NEW t \in Txns, Commit(t), txn[t].op = "accept_bid"
        PROVE  /\ \A s \in Shipments :
                     shipment[s].capitan # None => shipment'[s] = shipment[s]
               /\ \A b \in BidIds :
                     bid[b].status \in {"accepted", "rejected"} => bid'[b] = bid[b]
    <3>1. PICK s \in Shipments, b \in BidIds :
             /\ shipment[s].status = "pending"
             /\ PendingOn(bid[b], s)
             /\ \A a \in BidIds \ {b} : bid'[a] = bid[a] \/ PendingOn(bid[a], s)
             /\ \A r \in Shipments \ {s} : shipment'[r] = shipment[r]
      BY <1>1, <2>2, AwardCommits
    <3>2. shipment[s].capitan = None
      BY <1>1, <3>1 DEF AwardInv, AwardConsistent
    <3> QED
      BY <3>1, <3>2 DEF PendingOn
  <2>3. ASSUME NEW t \in Txns, Commit(t), txn[t].op # "accept_bid"
        PROVE  /\ \A s \in Shipments :
                     shipment[s].capitan # None =>
                        /\ shipment'[s].capitan = shipment[s].capitan
                        /\ shipment'[s].price = shipment[s].price
               /\ \A b \in BidIds :
                     bid[b].status \in {"accepted", "rejected"} => bid'[b] = bid[b]
    <3>1. Typed'
      BY <1>1 DEF AwardInv, Typed
    <3> QED
      BY <1>1, <2>3, <3>1, OtherCommits
  <2> QED
    BY <1>1, <2>1, <2>2, <2>3, OnlyCommitPublishes
<1> QED
  BY <1>1, AwardInductive, PTL DEF Spec, AwardStands

\* No step takes a listed shipment back to pending, nor changes one that is
\* neither pending nor awarded.
LEMMA LeftPending ==
    ASSUME AwardInv, [Next]_vars, NEW s \in Shipments, Exists(s),
           shipment[s].status # "pending"
    PROVE  /\ shipment'[s].status # "pending"
           /\ shipment[s].capitan = None => shipment'[s] = shipment[s]
<1>1. shipment[s] \in ShipmentRow
  BY DEF AwardInv, TypeOK
<1>2. ASSUME NEW t \in Txns, ShipmentStep(txn[t], shipment[s], shipment'[s])
      PROVE  /\ shipment'[s].status # "pending"
             /\ shipment[s].capitan # None
  <2>1. CASE /\ txn[t].op \in Marks /\ shipment[s].capitan # None
             /\ shipment'[s] = Marked(shipment[s], txn[t].op)
    <3>1. Mark[txn[t].op].to # "pending"
      BY <2>1 DEF Mark, Marks
    <3> QED
      BY <1>1, <2>1, <3>1 DEF ShipmentRow, Marked
  <2>2. CASE /\ shipment[s].status \notin Terminal \cup {"absent"}
             /\ shipment'[s] = Cancelled(shipment[s])
    <3>1. shipment[s].capitan # None
      BY <2>2 DEF AwardInv, AwardConsistent, Terminal
    <3> QED
      BY <1>1, <2>2, <3>1 DEF ShipmentRow, Cancelled
  <2> QED
    BY <1>2, <2>1, <2>2 DEF ShipmentStep, Exists
<1>3. CASE UNCHANGED <<shipment, bid>>
  BY <1>3
<1>4. ASSUME NEW t \in Txns, Commit(t)
      PROVE  /\ shipment'[s].status # "pending"
             /\ shipment[s].capitan = None => shipment'[s] = shipment[s]
  BY <1>2, <1>4, Published
<1> QED
  BY <1>3, <1>4, OnlyCommitPublishes

\* A shipment never returns to pending, and one that ended without an award
\* never changes again.
THEOREM NeverReopens == Spec => NeverReopened
<1>1. AwardInv /\ [Next]_vars =>
         [\A s \in Shipments :
             Exists(s) /\ shipment[s].status # "pending" =>
                /\ shipment'[s].status # "pending"
                /\ shipment[s].capitan = None => shipment'[s] = shipment[s]]_vars
  BY LeftPending
<1> QED
  BY <1>1, AwardInductive, PTL DEF Spec, NeverReopened
-----------------------------------------------------------------------------
(* What a step does to a slot *)

\* A slot is left alone, freed, moved on within its operation, or taken by a
\* request, and then by what that request has read.
SlotMoves(u) ==
    \/ txn'[u] \in {txn[u], Idle}
    \/ /\ txn[u] # Idle
       /\ txn'[u].op = txn[u].op
       /\ txn'[u].s = txn[u].s
    \/ /\ txn[u] = Idle
       /\ txn'[u].op = "place_bid" => Exists(txn'[u].s)
       /\ txn'[u].op \in Marks =>
             shipment[txn'[u].s].status = Mark[txn'[u].op].from

\* Every step moves every slot in one of these ways.
LEMMA EverySlotMoves ==
    ASSUME AwardInv, [Next]_vars, NEW u \in Txns
    PROVE  SlotMoves(u)
<1>1. txn \in [Txns -> Slot] /\ Idle.op = "idle"
  BY DEF AwardInv, TypeOK, Idle
<1>r. ASSUME UNCHANGED txn
      PROVE  SlotMoves(u)
  BY <1>r DEF SlotMoves
<1>f. ASSUME NEW t \in Txns, txn' = [txn EXCEPT ![t] = Idle]
      PROVE  SlotMoves(u)
  BY <1>1, <1>f DEF SlotMoves
<1>b. ASSUME NEW t \in Txns, NEW slot, Begin(t, slot),
             slot.op \notin Marks \cup {"place_bid"}
      PROVE  SlotMoves(u)
  BY <1>1, <1>b DEF SlotMoves, Begin
<1>p. ASSUME NEW t \in Txns, txn[t].pc # "idle",
             \A v \in Txns \ {t} : txn'[v] = txn[v],
             txn'[t].op = txn[t].op, txn'[t].s = txn[t].s
      PROVE  SlotMoves(u)
  BY <1>1, <1>p DEF SlotMoves, Idle
<1>2. ASSUME NEW t \in Txns, NEW s \in Shipments,
             \/ Create(t, s) \/ Cancel(t, s)
             \/ \E v \in Users : CancelBySender(t, s, v)
             \/ Expire(t, s)
      PROVE  SlotMoves(u)
  <2>1. \A op : [Idle EXCEPT !.op = op, !.pc = "commit", !.s = s].op = op
    BY DEF Idle
  <2>2. \A op \in {"create", "cancel", "cancel_by_sender", "expire"} :
           op \notin Marks \cup {"place_bid"}
    BY DEF Marks
  <2>3. ASSUME NEW op \in {"create", "cancel", "cancel_by_sender", "expire"},
               Begin(t, [Idle EXCEPT !.op = op, !.pc = "commit", !.s = s])
        PROVE  SlotMoves(u)
    BY <2>1, <2>2, <2>3, <1>b
  <2> QED
    BY <1>2, <1>r, <2>3 DEF Create, Cancel, CancelBySender, CancelWhere, Expire, Refuse
<1>3. ASSUME NEW t \in Txns, NEW s \in Shipments, NEW b \in BidIds,
             \/ \E c \in Captains : WithdrawBid(t, s, b, c)
             \/ \E v \in Users : AcceptBid(t, s, b, v)
      PROVE  SlotMoves(u)
  <2> DEFINE w == [Idle EXCEPT !.op = "withdraw_bid", !.pc = "commit", !.s = s,
                               !.b = b]
             a == [Idle EXCEPT !.op = "accept_bid", !.pc = "bid_gate", !.s = s,
                               !.b = b, !.early = ~due[s]]
  <2>1. w.op = "withdraw_bid" /\ a.op = "accept_bid"
    BY DEF Idle
  <2>2. {w.op, a.op} \cap (Marks \cup {"place_bid"}) = {}
    BY <2>1 DEF Marks
  <2>3. Begin(t, w) \/ Begin(t, a) \/ UNCHANGED txn
    BY <1>3 DEF WithdrawBid, AcceptBid, Refuse
  <2> HIDE DEF w, a
  <2> QED
    BY <1>b, <1>r, <2>2, <2>3
<1>4. ASSUME NEW t \in Txns, NEW s \in Shipments, NEW c \in Captains,
             NEW p \in Prices, PlaceBidRead(t, s, c, p)
      PROVE  SlotMoves(u)
  <2> DEFINE slot == [Idle EXCEPT !.op = "place_bid", !.pc = "upsert", !.s = s,
                                  !.capitan = c, !.price = p]
  <2>1. slot.op = "place_bid" /\ slot.s = s /\ "place_bid" \notin Marks
    BY DEF Idle, Marks
  <2>2. (Begin(t, slot) /\ Exists(s)) \/ UNCHANGED txn
    BY <1>4 DEF PlaceBidRead, Refuse, Exists
  <2> HIDE DEF slot
  <2> QED
    BY <1>1, <1>r, <2>1, <2>2 DEF Begin, SlotMoves
<1>5. ASSUME NEW t \in Txns, NEW s \in Shipments, NEW c \in Captains,
             NEW op \in Marks, NEW code, MarkRead(t, s, c, op, code)
      PROVE  SlotMoves(u)
  <2> DEFINE slot == [Idle EXCEPT !.op = op, !.pc = "mark", !.s = s]
  <2>1. slot.op = op /\ slot.s = s /\ op # "place_bid"
    BY DEF Idle, Marks
  <2>2. (Begin(t, slot) /\ shipment[s].status = Mark[op].from) \/ UNCHANGED txn
    BY <1>5 DEF MarkRead, Refuse
  <2> HIDE DEF slot
  <2> QED
    BY <1>1, <1>r, <2>1, <2>2 DEF Begin, SlotMoves
<1>6. ASSUME NEW t \in Txns,
             \/ PlaceBidUpsert(t) \/ AcceptBidGate(t) \/ AcceptShipmentGate(t)
             \/ RejectSiblings(t) \/ (\E b \in BidIds : RejectOne(t, b))
             \/ AcceptAnswer(t) \/ MarkWrite(t)
      PROVE  SlotMoves(u)
  <2>1. txn[t].pc # "idle"
    BY <1>6 DEF PlaceBidUpsert, AcceptBidGate, AcceptShipmentGate, RejectSiblings,
                RejectOne, AcceptAnswer, MarkWrite
  <2>2. ASSUME NEW pc, Proceed(t, pc)
        PROVE  SlotMoves(u)
    <3>1. /\ txn'[t] = [txn[t] EXCEPT !.pc = pc]
          /\ \A v \in Txns \ {t} : txn'[v] = txn[v]
      BY <1>1, <2>2 DEF Proceed
    <3>2. txn'[t].op = txn[t].op /\ txn'[t].s = txn[t].s
      BY <1>1, <3>1 DEF Slot
    <3> QED
      BY <1>p, <2>1, <3>1, <3>2
  <2>3. CASE AcceptBidGate(t)
    <3>1. CASE txn' = [txn EXCEPT ![t].pc = "shipment_gate",
                                  ![t].capitan = bid[txn[t].b].capitan,
                                  ![t].price = bid[txn[t].b].price]
      <4>1. /\ txn'[t] = [txn[t] EXCEPT !.pc = "shipment_gate",
                                        !.capitan = bid[txn[t].b].capitan,
                                        !.price = bid[txn[t].b].price]
            /\ \A v \in Txns \ {t} : txn'[v] = txn[v]
        BY <1>1, <3>1
      <4>2. txn'[t].op = txn[t].op /\ txn'[t].s = txn[t].s
        BY <1>1, <4>1 DEF Slot
      <4> QED
        BY <1>p, <2>1, <4>1, <4>2
    <3> QED
      BY <1>f, <2>3, <3>1 DEF AcceptBidGate, Fail
  <2>4. CASE RejectSiblings(t)
    <3> DEFINE todo == {b \in BidIds \ {txn[t].b} : PendingOn(bid[b], txn[t].s)}
    <3>1. /\ txn'[t] = [txn[t] EXCEPT !.pc = "reject", !.todo = todo]
          /\ \A v \in Txns \ {t} : txn'[v] = txn[v]
      BY <1>1, <2>4 DEF RejectSiblings
    <3>2. txn'[t].op = txn[t].op /\ txn'[t].s = txn[t].s
      BY <1>1, <3>1 DEF Slot
    <3> QED
      BY <1>p, <2>1, <3>1, <3>2
  <2>5. ASSUME NEW b \in BidIds, RejectOne(t, b)
        PROVE  SlotMoves(u)
    <3>1. /\ txn'[t] = [txn[t] EXCEPT !.todo = txn[t].todo \ {b}]
          /\ \A v \in Txns \ {t} : txn'[v] = txn[v]
      BY <1>1, <2>5 DEF RejectOne
    <3>2. txn'[t].op = txn[t].op /\ txn'[t].s = txn[t].s
      BY <1>1, <3>1 DEF Slot
    <3> QED
      BY <1>p, <2>1, <3>1, <3>2
  <2> QED
    BY <1>6, <1>f, <2>2, <2>3, <2>4, <2>5
       DEF PlaceBidUpsert, AcceptShipmentGate, AcceptAnswer, MarkWrite, Fail
<1>7. ASSUME NEW t \in Txns, Commit(t)
      PROVE  SlotMoves(u)
  BY <1>1, <1>f, <1>p, <1>7 DEF Commit, Proceed, Slot
<1>8. ASSUME NEW t \in Txns, ExpireNotify(t) \/ Abort(t) \/ DeadlockVictim(t)
      PROVE  SlotMoves(u)
  BY <1>f, <1>8 DEF ExpireNotify, Abort, DeadlockVictim, Fail
<1>9. ASSUME NEW s \in Shipments, Deadline(s)
      PROVE  SlotMoves(u)
  BY <1>r, <1>9 DEF Deadline
<1>10. ASSUME UNCHANGED vars
       PROVE  SlotMoves(u)
  BY <1>r, <1>10 DEF vars
<1>11. ASSUME NEW t \in Txns, Arrive(t) \/ Continue(t) \/ Abort(t)
       PROVE  SlotMoves(u)
  <2> HIDE DEF SlotMoves
  <2> QED
    BY <1>2, <1>3, <1>4, <1>5, <1>6, <1>7, <1>8, <1>11 DEF Arrive, Continue
<1> HIDE DEF SlotMoves
<1> QED
  BY <1>2, <1>9, <1>10, <1>11 DEF Next

-----------------------------------------------------------------------------
(* What a step does to the bids *)

\* A step leaves a bid alone, or ends the transaction that was writing it ...
BidKept(b) == /\ bid'[b] = bid[b]
              /\ bidW'[b] = bidW[b]
              /\ bidLock'[b] = bidLock[b]

BidEnded(b) == /\ bidLock'[b] = None
               /\ bid'[b] = bidW'[b]
               /\ bidW'[b] \in {bid[b], bidW[b]}

\* ... or t takes it, and no second one unless it runs accept_bid, and writes
\* a version that is in the index where the committed one is, or one whose
\* key was free.
BidTaken(t, w) ==
    /\ bidLock[w] = None
    /\ bidLock'[w] = t
    /\ bid'[w] = bid[w]
    /\ txn'[t].op = "accept_bid" \/ \A b \in BidIds : bidLock[b] # t
    /\ \/ \A s, c : IsBidOf(bidW'[w], s, c) => IsBidOf(bid[w], s, c)
       \/ /\ KeyRows(txn[t].s, txn[t].capitan) = {}
          /\ bid[w] = NoBid
          /\ bidW'[w] = NewBid(txn[t])

BidsMove ==
    \/ \A b \in BidIds : BidKept(b) \/ BidEnded(b)
    \/ \E t \in Txns, w \in BidIds :
          BidTaken(t, w) /\ \A b \in BidIds \ {w} : BidKept(b)

\* A write that keeps shipment and captain of a live row keeps its key.
LEMMA KeyKept ==
    ASSUME NEW old \in BidRow, NEW new, NEW p, NEW st \in BidStatus, Live(old),
           new = [old EXCEPT !.price = p] \/ new = [old EXCEPT !.status = st],
           NEW s, NEW c, IsBidOf(new, s, c)
    PROVE  IsBidOf(old, s, c)
BY DEF BidRow, IsBidOf

\* Every step moves the bids in one of these ways.
LEMMA EveryBidMoves ==
    ASSUME AwardInv, [Next]_vars
    PROVE  BidsMove
<1>1. /\ bid \in [BidIds -> BidRow] /\ bidW \in [BidIds -> BidRow]
      /\ bidLock \in [BidIds -> Txns \cup {None}] /\ txn \in [Txns -> Slot]
  BY DEF AwardInv, TypeOK
<1>u. ASSUME UNCHANGED <<bid, bidW, bidLock>>
      PROVE  BidsMove
  BY <1>u DEF BidsMove, BidKept
<1>b. ASSUME NEW t \in Txns, Rollback(t)
      PROVE  BidsMove
  <2>1. ASSUME NEW b \in BidIds
        PROVE  BidKept(b) \/ BidEnded(b)
    BY <1>1, <1>b DEF Rollback, Discard, Release, BidKept, BidEnded
  <2> QED
    BY <2>1 DEF BidsMove
<1>f. ASSUME NEW t \in Txns, NEW code, Fail(t, code)
      PROVE  BidsMove
  BY <1>b, <1>f, FailIsRollback
<1>w. ASSUME NEW t \in Txns, NEW w \in BidIds, NEW row, WriteBid(t, w, row),
             UNCHANGED bid,
             txn'[t].op = "accept_bid" \/ \A b \in BidIds : bidLock[b] # t,
             \/ \A s, c : IsBidOf(row, s, c) => IsBidOf(bid[w], s, c)
             \/ /\ KeyRows(txn[t].s, txn[t].capitan) = {}
                /\ bid[w] = NoBid
                /\ row = NewBid(txn[t])
      PROVE  BidsMove
  <2>1. bidLock[w] = None /\ bidLock'[w] = t /\ bidW'[w] = row /\ bid'[w] = bid[w]
    BY <1>1, <1>w DEF WriteBid
  <2>2. \A b \in BidIds \ {w} : BidKept(b)
    BY <1>1, <1>w DEF WriteBid, BidKept
  <2>3. BidTaken(t, w)
    BY <1>w, <2>1 DEF BidTaken
  <2> QED
    BY <2>2, <2>3 DEF BidsMove
<1>2. ASSUME NEW t \in Txns, NEW s \in Shipments,
             \/ Create(t, s) \/ Cancel(t, s) \/ Expire(t, s)
             \/ \E u \in Users : CancelBySender(t, s, u)
      PROVE  BidsMove
  BY <1>2, <1>u DEF Create, Cancel, CancelBySender, CancelWhere, Refuse, Expire, tables
<1>3. ASSUME NEW t \in Txns, NEW s \in Shipments, NEW c \in Captains,
             \/ \E p \in Prices : PlaceBidRead(t, s, c, p)
             \/ \E op \in Marks, code \in {"right", "wrong"} :
                   MarkRead(t, s, c, op, code)
      PROVE  BidsMove
  BY <1>3, <1>u DEF PlaceBidRead, MarkRead, Refuse, tables
<1>4. ASSUME NEW t \in Txns, NEW s \in Shipments, NEW b \in BidIds, NEW c \in Captains,
             WithdrawBid(t, s, b, c)
      PROVE  BidsMove
  <2>1. CASE WriteBid(t, b, Deleted) /\ txn[t] = Idle /\ UNCHANGED bid
    <3>1. \A a \in BidIds : bidLock[a] # t
      BY <2>1, HoldsNothing DEF Idle
    <3>2. \A r, d : ~IsBidOf(Deleted, r, d)
      BY DEF IsBidOf, Live, BidStatus, Deleted, NoBid
    <3> QED
      BY <1>w, <2>1, <3>1, <3>2
  <2> QED
    BY <1>4, <1>u, <2>1 DEF WithdrawBid, Refuse, tables
<1>5. ASSUME NEW t \in Txns, NEW s \in Shipments, NEW b \in BidIds, NEW u \in Users,
             AcceptBid(t, s, b, u)
      PROVE  BidsMove
  BY <1>5, <1>u DEF AcceptBid, Refuse, tables
<1>6. ASSUME NEW t \in Txns, PlaceBidUpsert(t)
      PROVE  BidsMove
  <2>1. \A a \in BidIds : bidLock[a] # t
    BY <1>6, HoldsNothing DEF PlaceBidUpsert
  <2> DEFINE row(b) == [bid[b] EXCEPT !.price = txn[t].price]
  <2>2. ASSUME NEW b \in BidIds, bid[b].status = "pending", UNCHANGED bid,
               WriteBid(t, b, row(b))
        PROVE  BidsMove
    <3>1. Live(bid[b]) /\ "pending" \in BidStatus
      BY <2>2 DEF Live, BidStatus
    <3>2. \A s, c : IsBidOf(row(b), s, c) => IsBidOf(bid[b], s, c)
      BY <1>1, <3>1, KeyKept
    <3> QED
      BY <1>w, <2>1, <2>2, <3>2
  <2>3. KeyRows(txn[t].s, txn[t].capitan) \subseteq BidIds
    BY DEF KeyRows
  <2>4. ASSUME NEW b \in BidIds, KeyRows(txn[t].s, txn[t].capitan) = {},
               bid[b] = NoBid, WriteBid(t, b, NewBid(txn[t])), UNCHANGED bid
        PROVE  BidsMove
    BY <1>w, <2>1, <2>4
  <2>5. \/ \E b \in BidIds : bid[b].status = "pending" /\ WriteBid(t, b, row(b))
                                                    /\ UNCHANGED bid
        \/ Fail(t, "409")
        \/ \E b \in BidIds :
              /\ KeyRows(txn[t].s, txn[t].capitan) = {}
              /\ bid[b] = NoBid
              /\ WriteBid(t, b, NewBid(txn[t]))
              /\ UNCHANGED bid
    BY <1>6, <2>3 DEF PlaceBidUpsert, Repriceable
  <2> HIDE DEF row
  <2> QED
    BY <1>f, <2>2, <2>4, <2>5
<1>7. ASSUME NEW t \in Txns, NEW b \in BidIds, NEW st \in BidStatus,
             bid[b].status = "pending", UNCHANGED bid, txn'[t].op = "accept_bid",
             WriteBid(t, b, [bid[b] EXCEPT !.status = st])
      PROVE  BidsMove
  <2>1. Live(bid[b])
    BY <1>7 DEF Live, BidStatus
  <2>2. \A s, c : IsBidOf([bid[b] EXCEPT !.status = st], s, c) => IsBidOf(bid[b], s, c)
    BY <1>1, <2>1, KeyKept
  <2> QED
    BY <1>7, <1>w, <2>2
<1>8. ASSUME NEW t \in Txns, AcceptBidGate(t) \/ \E b \in BidIds : RejectOne(t, b)
      PROVE  BidsMove
  <2>1. /\ txn[t].op = "accept_bid" /\ txn[t].pc # "idle" /\ txn[t].b \in BidIds
        /\ {"accepted", "rejected"} \subseteq BidStatus
    BY <1>1, <1>8 DEF AcceptBidGate, RejectOne, AwardInv, SlotShape, BidStatus, Slot
  <2>2. txn'[t].op = "accept_bid" \/ txn'[t] = Idle
    <3>1. SlotMoves(t) /\ txn[t] # Idle
      BY <2>1, EverySlotMoves DEF Idle
    <3> QED
      BY <2>1, <3>1 DEF SlotMoves
  <2>3. CASE AcceptBidGate(t)
    <3>1. CASE /\ PendingOn(bid[txn[t].b], txn[t].s)
               /\ WriteBid(t, txn[t].b, [bid[txn[t].b] EXCEPT !.status = "accepted"])
               /\ txn'[t].pc = "shipment_gate"
               /\ UNCHANGED bid
      BY <1>7, <2>1, <2>2, <3>1 DEF PendingOn, Idle
    <3> QED
      BY <1>1, <1>f, <2>3, <3>1 DEF AcceptBidGate, Slot
  <2>4. ASSUME NEW b \in BidIds, RejectOne(t, b)
        PROVE  BidsMove
    <3>1. txn'[t].pc = "reject" /\ UNCHANGED bid
      BY <1>1, <2>4 DEF RejectOne, Slot
    <3>2. CASE /\ PendingOn(bid[b], txn[t].s)
               /\ WriteBid(t, b, [bid[b] EXCEPT !.status = "rejected"])
      BY <1>7, <2>1, <2>2, <3>1, <3>2 DEF PendingOn, Idle
    <3> QED
      BY <1>u, <2>4, <3>1, <3>2 DEF RejectOne
  <2> QED
    BY <1>8, <2>3, <2>4
<1>9. ASSUME NEW t \in Txns,
             \/ AcceptShipmentGate(t) \/ RejectSiblings(t) \/ AcceptAnswer(t)
             \/ MarkWrite(t) \/ ExpireNotify(t) \/ DeadlockVictim(t)
      PROVE  BidsMove
  BY <1>9, <1>f, <1>u DEF AcceptShipmentGate, RejectSiblings, AcceptAnswer, MarkWrite,
                          ExpireNotify, DeadlockVictim, tables
<1>10. ASSUME NEW t \in Txns, Abort(t)
       PROVE  BidsMove
  BY <1>10, <1>b DEF Abort, Rollback
<1>11. ASSUME NEW t \in Txns, Commit(t)
       PROVE  BidsMove
  <2>1. ASSUME NEW b \in BidIds
        PROVE  BidKept(b) \/ BidEnded(b)
    BY <1>1, <1>11 DEF Commit, Publish, Release, BidKept, BidEnded
  <2> QED
    BY <2>1 DEF BidsMove
<1>12. ASSUME UNCHANGED vars
       PROVE  BidsMove
  BY <1>12, <1>u DEF vars
<1>13. ASSUME NEW s \in Shipments, Deadline(s)
       PROVE  BidsMove
  BY <1>13, <1>u DEF Deadline, tables
<1>14. ASSUME NEW t \in Txns, Continue(t) \/ Abort(t)
       PROVE  BidsMove
  BY <1>6, <1>8, <1>9, <1>10, <1>11, <1>14 DEF Continue
<1>15. ASSUME NEW t \in Txns, Arrive(t)
       PROVE  BidsMove
  BY <1>2, <1>3, <1>4, <1>5, <1>15 DEF Arrive
<1> QED
  BY <1>2, <1>12, <1>13, <1>14, <1>15 DEF Next

-----------------------------------------------------------------------------
(* What a step does to the committed rows *)

\* A committed row changes only by the commit of a transaction that holds it,
\* and then as its operation says.
LEMMA EveryRowMoves ==
    ASSUME AwardInv, [Next]_vars
    PROVE  /\ \A s \in Shipments :
                 \/ shipment'[s] = shipment[s]
                 \/ \E t \in Txns : /\ txn[t].s = s
                                   /\ ShipmentStep(txn[t], shipment[s], shipment'[s])
           /\ \A b \in BidIds :
                 \/ bid'[b] = bid[b]
                 \/ \E t \in Txns : BidStep(txn[t], b, bid[b], bid'[b])
<1>1. CASE UNCHANGED <<shipment, bid>>
  BY <1>1
<1>2. ASSUME NEW t \in Txns, Commit(t)
      PROVE  /\ \A s \in Shipments :
                   \/ shipment'[s] = shipment[s]
                   \/ /\ txn[t].s = s
                      /\ ShipmentStep(txn[t], shipment[s], shipment'[s])
             /\ \A b \in BidIds :
                   \/ bid'[b] = bid[b]
                   \/ BidStep(txn[t], b, bid[b], bid'[b])
  BY <1>2, Published
<1> QED
  BY <1>1, <1>2, OnlyCommitPublishes

\* A listed shipment stays listed and keeps its milestones.
LEMMA ListedStays ==
    ASSUME AwardInv, [Next]_vars, NEW s \in Shipments, Exists(s)
    PROVE  Exists(s)' /\ shipment[s].stamps \subseteq shipment'[s].stamps
<1>1. shipment[s] \in ShipmentRow
  BY DEF AwardInv, TypeOK
<1>2. ASSUME NEW t \in Txns, ShipmentStep(txn[t], shipment[s], shipment'[s])
      PROVE  /\ shipment'[s].status # "absent"
             /\ shipment[s].stamps \subseteq shipment'[s].stamps
  <2>1. CASE shipment'[s] = Awarded(shipment[s], txn[t])
    BY <1>1, <2>1 DEF Awarded, ShipmentRow
  <2>2. CASE shipment'[s] = Cancelled(shipment[s])
    BY <1>1, <2>2 DEF Cancelled, ShipmentRow
  <2>3. CASE shipment'[s] = [shipment[s] EXCEPT !.status = "expired"]
    BY <1>1, <2>3 DEF ShipmentRow
  <2>4. CASE txn[t].op \in Marks /\ shipment'[s] = Marked(shipment[s], txn[t].op)
    <3>1. Mark[txn[t].op].to # "absent"
      BY <2>4 DEF Mark, Marks
    <3> QED
      BY <1>1, <2>4, <3>1 DEF Marked, ShipmentRow
  <2> QED
    BY <1>2, <2>1, <2>2, <2>3, <2>4 DEF ShipmentStep, Exists
<1> QED
  BY <1>2, EveryRowMoves DEF Exists

-----------------------------------------------------------------------------
(* The rest of the inductive invariant *)

\* Prices of shipments come from awards only, and no bid loses its price.
LEMMA PricedNext ==
    ASSUME AwardInv, AwardInv', Priced, [Next]_vars
    PROVE  Priced'
<1>1. ASSUME NEW s \in Shipments, shipment'[s].capitan = None
      PROVE  shipment'[s].price = None
  <2>1. shipment[s] \in ShipmentRow /\ (shipment[s].capitan = None => shipment[s].price = None)
    BY DEF AwardInv, TypeOK, Priced
  <2>2. shipment'[s].status \in {"absent", "pending", "expired", "cancelled"}
    BY <1>1 DEF AwardInv, AwardConsistent
  <2>3. ASSUME NEW t \in Txns, ShipmentStep(txn[t], shipment[s], shipment'[s])
        PROVE  shipment'[s].price = None
    <3>1. CASE shipment'[s] = [NoShipment EXCEPT !.status = "pending"]
      BY <3>1 DEF NoShipment
    <3>2. CASE shipment'[s] = Awarded(shipment[s], txn[t])
      BY <2>1, <2>2, <3>2 DEF Awarded, ShipmentRow
    <3>3. CASE shipment'[s] = Cancelled(shipment[s])
      BY <1>1, <2>1, <3>3 DEF Cancelled, ShipmentRow
    <3>4. CASE shipment'[s] = [shipment[s] EXCEPT !.status = "expired"]
      BY <1>1, <2>1, <3>4 DEF ShipmentRow
    <3>5. CASE shipment'[s] = Marked(shipment[s], txn[t].op)
      BY <1>1, <2>1, <3>5 DEF Marked, ShipmentRow
    <3> QED
      BY <2>3, <3>1, <3>2, <3>3, <3>4, <3>5 DEF ShipmentStep
  <2> QED
    BY <1>1, <2>1, <2>3, EveryRowMoves
<1>2. ASSUME NEW b \in BidIds, Live(bid'[b])
      PROVE  bid'[b].price # None
  <2>1. bid[b] \in BidRow /\ (Live(bid[b]) => bid[b].price # None)
    BY DEF AwardInv, TypeOK, Priced
  <2>2. ASSUME NEW t \in Txns, BidStep(txn[t], b, bid[b], bid'[b])
        PROVE  bid'[b].price # None
    <3>1. txn[t].op = "place_bid" => txn[t].price # None
      BY DEF AwardInv, SlotShape
    <3>2. CASE txn[t].op = "place_bid" /\ bid'[b] = NewBid(txn[t])
      BY <3>1, <3>2 DEF NewBid
    <3>3. CASE txn[t].op = "place_bid" /\ bid'[b] = [bid[b] EXCEPT !.price = txn[t].price]
      BY <2>1, <3>1, <3>3 DEF BidRow
    <3>4. CASE bid'[b] = Deleted
      BY <1>2, <3>4 DEF Deleted, NoBid, Live, BidStatus
    <3>5. CASE /\ bid[b].status = "pending"
               /\ \E st \in BidStatus : bid'[b] = [bid[b] EXCEPT !.status = st]
      BY <2>1, <3>5 DEF Live, BidStatus, BidRow
    <3> QED
      BY <2>2, <3>2, <3>3, <3>4, <3>5 DEF BidStep, PendingOn, BidStatus
  <2> QED
    BY <1>2, <2>1, <2>2, EveryRowMoves
<1> QED
  BY <1>1, <1>2 DEF Priced, Live

\* A shipment that has been read is never deleted.
LEMMA PlaceBidsListedNext ==
    ASSUME AwardInv, AwardInv', PlaceBidsListed, [Next]_vars
    PROVE  PlaceBidsListed'
<1> SUFFICES ASSUME NEW t \in Txns, txn'[t].op = "place_bid"
             PROVE  shipment'[txn'[t].s].status # "absent"
  BY DEF PlaceBidsListed, Exists
<1>1. txn'[t].s \in Shipments
  BY DEF AwardInv, TypeOK, SlotShape, Slot
<1>2. SlotMoves(t) /\ Idle.op # "place_bid"
  BY EverySlotMoves DEF Idle
<1>3. txn[t].op = "place_bid" => Exists(txn[t].s)
  BY DEF PlaceBidsListed
<1>4. Exists(txn'[t].s)
  BY <1>2, <1>3 DEF SlotMoves
<1>5. \A s \in Shipments : Exists(s) => shipment'[s].status # "absent"
  BY ListedStays DEF Exists
<1> QED
  BY <1>1, <1>4, <1>5

\* No operation but accept_bid comes to hold a second bid.
LEMMA OneWriteNext ==
    ASSUME AwardInv, AwardInv', OneWrite, [Next]_vars
    PROVE  OneWrite'
<1> SUFFICES ASSUME NEW a \in BidIds, NEW b \in BidIds, a # b,
                    bidLock'[a] # None, bidLock'[a] = bidLock'[b],
                    txn'[bidLock'[a]].op # "accept_bid"
             PROVE  FALSE
  BY DEF OneWrite
<1> DEFINE t == bidLock'[a]
<1>1. t \in Txns
  BY DEF AwardInv, TypeOK
<1>2. txn'[t].op \in {"place_bid", "withdraw_bid"}
  BY <1>1 DEF AwardInv, LockedBids, BidStep
<1>3. CASE bidLock[a] = t /\ bidLock[b] = t
  <2>1. txn[t].op = "accept_bid"
    BY <1>1, <1>3 DEF OneWrite
  <2>2. txn[t] # Idle
    BY <2>1 DEF Idle
  <2>3. txn'[t].op \in {"accept_bid", "idle"}
    BY <1>1, <2>1, <2>2, EverySlotMoves DEF SlotMoves, Idle
  <2> QED
    BY <1>2, <2>3
<1>4. CASE \A d \in BidIds : BidKept(d) \/ BidEnded(d)
  BY <1>3, <1>4 DEF BidKept, BidEnded
<1>5. ASSUME NEW u \in Txns, NEW w \in BidIds, BidTaken(u, w),
             \A d \in BidIds \ {w} : BidKept(d)
      PROVE  FALSE
  <2>1. CASE w \notin {a, b}
    BY <1>3, <1>5, <2>1 DEF BidKept
  <2>2. CASE w \in {a, b}
    <3>1. u = t /\ \E d \in {a, b} : bidLock[d] = t
      BY <1>5, <2>2 DEF BidTaken, BidKept
    <3> QED
      BY <1>2, <1>5, <3>1 DEF BidTaken
  <2> QED
    BY <2>1, <2>2
<1> QED
  BY <1>4, <1>5, EveryBidMoves DEF BidsMove

\* An insert waits for the key, so no step gives a captain a second bid.
LEMMA OneBidPerCaptainNext ==
    ASSUME AwardInv, OneBidPerCaptain, [Next]_vars
    PROVE  OneBidPerCaptain'
<1>1. ASSUME NEW b \in BidIds, NEW s, NEW c, BidKept(b) \/ BidEnded(b), Indexed(b, s, c)'
      PROVE  Indexed(b, s, c)
  BY <1>1 DEF BidKept, BidEnded, Indexed
<1>2. CASE \A b \in BidIds : BidKept(b) \/ BidEnded(b)
  BY <1>1, <1>2 DEF OneBidPerCaptain
<1>3. ASSUME NEW t \in Txns, NEW w \in BidIds, BidTaken(t, w),
             \A b \in BidIds \ {w} : BidKept(b)
      PROVE  OneBidPerCaptain'
  <2>1. \A b \in BidIds \ {w} : \A s, c : Indexed(b, s, c)' => Indexed(b, s, c)
    BY <1>1, <1>3
  <2>2. CASE \A s, c : IsBidOf(bidW'[w], s, c) => IsBidOf(bid[w], s, c)
    <3>1. \A s, c : Indexed(w, s, c)' => Indexed(w, s, c)
      BY <1>3, <2>2 DEF BidTaken, Indexed
    <3> QED
      BY <2>1, <3>1 DEF OneBidPerCaptain
  <2>3. CASE /\ KeyRows(txn[t].s, txn[t].capitan) = {}
             /\ bid[w] = NoBid
             /\ bidW'[w] = NewBid(txn[t])
    <3>1. \A s, c : Indexed(w, s, c)' => s = txn[t].s /\ c = txn[t].capitan
      BY <1>3, <2>3 DEF BidTaken, Indexed, IsBidOf, NewBid, NoBid, Live, BidStatus
    <3>2. \A b \in BidIds : ~Indexed(b, txn[t].s, txn[t].capitan)
      BY <2>3 DEF KeyRows
    <3> QED
      BY <2>1, <3>1, <3>2 DEF OneBidPerCaptain
  <2> QED
    BY <1>3, <2>2, <2>3 DEF BidTaken
<1> QED
  BY <1>2, <1>3, EveryBidMoves DEF BidsMove

-----------------------------------------------------------------------------
(* The expiry job *)

\* A shipment that is listed and not pending stays so.
LEMMA OutOfPending ==
    ASSUME AwardInv, [Next]_vars, NEW s \in Shipments,
           shipment[s].status \notin {"absent", "pending"}
    PROVE  shipment'[s].status \notin {"absent", "pending"}
<1>1. Exists(s)
  BY DEF Exists
<1>2. shipment'[s].status # "pending"
  BY <1>1, LeftPending
<1> QED
  BY <1>1, <1>2, ListedStays DEF Exists

\* A step of t, as far as jobs go: it leaves other transactions and their
\* locks alone, and moves the job of its own shipment, or one that nobody runs.
LEMMA JobStep ==
    ASSUME AwardInv, AwardInv', JobRuns, ExpiryOwed, [Next]_vars, NEW t \in Txns,
           \A u \in Txns \ {t} : txn'[u] = txn[u],
           \A s \in Shipments : shipmentLock[s] \in Txns \ {t} =>
              shipmentLock'[s] = shipmentLock[s],
           \A s \in Shipments : shipment[s].status # "pending" =>
              shipment'[s].status # "pending" \/ job'[s] = "todo",
           Runs(t)',
           txn[t].op = "expire" =>
              \/ txn'[t].op = "expire" /\ txn'[t].s = txn[t].s
              \/ txn'[t].op # "expire" /\ job'[txn[t].s] # "doing",
           txn[t].op # "expire" /\ txn'[t].op = "expire" => job[txn'[t].s] = "todo",
           \A s \in Shipments :
              \/ job'[s] = job[s]
              \/ /\ job[s] = "todo" \/ (txn[t].op \in {"create", "expire"} /\ txn[t].s = s)
                 /\ \/ job'[s] \in {"todo", "lost"}
                    \/ job'[s] = "doing" /\ txn'[t].op = "expire" /\ txn'[t].s = s
                    \/ job'[s] = "done" /\ shipment'[s].status # "pending"
    PROVE  JobRuns' /\ ExpiryOwed'
<1>1. \A u \in Txns : txn[u].op \in {"create", "expire"} => txn[u].s \in Shipments
  BY DEF AwardInv, TypeOK, SlotShape, Slot
<1>2. ASSUME NEW u \in Txns \ {t}, txn[u].op = "expire"
      PROVE  /\ job[txn[u].s] = "doing" /\ job'[txn[u].s] = "doing"
  <2>1. /\ job[txn[u].s] = "doing" /\ txn[u].s \in Shipments
        /\ \/ shipmentLock[txn[u].s] = u
           \/ shipment[txn[u].s].status # "absent"
    BY <1>1, <1>2 DEF JobRuns, Runs
  <2>2. ~(txn[t].op = "expire" /\ txn[t].s = txn[u].s)
    BY <1>2 DEF JobRuns
  <2>3. ~(txn[t].op = "create" /\ txn[t].s = txn[u].s)
    <3>1. SUFFICES ASSUME txn[t].op = "create", txn[t].s = txn[u].s PROVE FALSE
      OBVIOUS
    <3>2. shipmentLock[txn[u].s] = t /\ t # None
      BY <3>1 DEF JobRuns, Runs
    <3>3. shipment[txn[u].s].status = "absent"
      BY <2>1, <3>1, <3>2 DEF AwardInv, LockedShipments, ShipmentStep, Marks
    <3> QED
      BY <2>1, <3>2, <3>3
  <2> QED
    BY <2>1, <2>2, <2>3
<1>3. ASSUME NEW u \in Txns \ {t} PROVE Runs(u)'
  <2>1. Runs(u) /\ txn'[u] = txn[u]
    BY DEF JobRuns
  <2>2. txn[u].op \in {"create", "expire"} /\ shipmentLock[txn[u].s] = u
           => shipmentLock'[txn[u].s] = u
    BY <1>1
  <2>3. txn[u].op = "expire" /\ shipment[txn[u].s].status \notin {"absent", "pending"}
           => shipment'[txn[u].s].status \notin {"absent", "pending"}
    BY <1>1, OutOfPending
  <2> QED
    BY <1>2, <2>1, <2>2, <2>3 DEF Runs
<1>4. ASSUME NEW u \in Txns \ {t}, txn[u].op = "expire", txn'[t].op = "expire"
      PROVE  txn[u].s # txn'[t].s
  BY <1>2, <1>4 DEF JobRuns
<1>5. JobRuns'
  <2>1. \A u \in Txns : Runs(u)'
    BY <1>3
  <2>2. ASSUME NEW u \in Txns, NEW v \in Txns, txn'[u].op = "expire",
               txn'[v].op = "expire", txn'[u].s = txn'[v].s
        PROVE  u = v
    BY <1>4, <2>2 DEF JobRuns
  <2> QED
    BY <2>1, <2>2 DEF JobRuns
<1>6. ASSUME NEW s \in Shipments, shipment'[s].status = "pending"
      PROVE  \/ job'[s] \in {"todo", "lost"}
             \/ job'[s] = "doing" /\ Expiring(s)'
  <2>1. CASE job'[s] # job[s]
    BY <1>6, <2>1 DEF Expiring
  <2>2. CASE job'[s] = job[s] /\ shipment[s].status # "pending"
    BY <1>6, <2>2
  <2>3. CASE job'[s] = job[s] /\ shipment[s].status = "pending" /\ job[s] = "doing"
    <3>1. PICK v \in Txns : txn[v].op = "expire" /\ txn[v].s = s
      BY <2>3 DEF ExpiryOwed, Expiring
    <3>2. txn'[v].op = "expire" /\ txn'[v].s = s
      BY <2>3, <3>1
    <3> QED
      BY <2>3, <3>2 DEF Expiring
  <2> QED
    BY <2>1, <2>2, <2>3 DEF ExpiryOwed
<1> QED
  BY <1>5, <1>6 DEF ExpiryOwed

\* A step of a transaction that is neither a create nor an expiry, before or
\* after, or that ends a create.
LEMMA JobsRest ==
    ASSUME AwardInv, AwardInv', JobRuns, ExpiryOwed, [Next]_vars, NEW t \in Txns,
           \A u \in Txns \ {t} : txn'[u] = txn[u],
           \A s \in Shipments : shipmentLock[s] \in Txns \ {t} =>
              shipmentLock'[s] = shipmentLock[s],
           \A s \in Shipments : shipment[s].status # "pending" =>
              shipment'[s].status # "pending",
           txn[t].op # "expire", txn'[t].op \notin {"create", "expire"},
           job' = job
    PROVE  JobRuns' /\ ExpiryOwed'
<1>1. Runs(t)'
  BY DEF Runs
<1> QED
  BY <1>1, JobStep

\* Every step keeps what is owed to the shipments that are pending.
LEMMA JobsNext ==
    ASSUME AwardInv, AwardInv', JobRuns, ExpiryOwed, [Next]_vars
    PROVE  JobRuns' /\ ExpiryOwed'
<1>1. /\ txn \in [Txns -> Slot] /\ shipmentLock \in [Shipments -> Txns \cup {None}]
      /\ job \in [Shipments -> {"none", "todo", "doing", "done", "lost"}]
      /\ None \notin Txns
  BY DEF AwardInv, TypeOK
<1>2. Idle.op = "idle" /\ Idle \in Slot
  BY DEF Idle, Slot
<1>u. ASSUME UNCHANGED <<tables, job, txn>>
      PROVE  JobRuns' /\ ExpiryOwed'
  BY <1>u DEF JobRuns, Runs, ExpiryOwed, Expiring, tables
<1>b. ASSUME NEW t \in Txns, Rollback(t), txn[t].op # "expire", job' = job
      PROVE  JobRuns' /\ ExpiryOwed'
  <2>1. txn'[t] = Idle /\ \A u \in Txns \ {t} : txn'[u] = txn[u]
    BY <1>1, <1>b DEF Rollback
  <2>2. /\ \A s \in Shipments : shipmentLock[s] \in Txns \ {t} =>
              shipmentLock'[s] = shipmentLock[s]
        /\ shipment' = shipment
    BY <1>b DEF Rollback, Release, Discard
  <2> QED
    BY <1>2, <1>b, <2>1, <2>2, JobsRest
<1>f. ASSUME NEW t \in Txns, NEW code, Fail(t, code), txn[t].op # "expire"
      PROVE  JobRuns' /\ ExpiryOwed'
  BY <1>b, <1>f, FailIsRollback
\* A transaction that begins, or goes on, and takes at most a free shipment.
<1>m. ASSUME NEW t \in Txns, UNCHANGED <<shipment, job>>,
             \A u \in Txns \ {t} : txn'[u] = txn[u],
             txn[t].op # "expire", txn'[t].op \notin {"create", "expire"},
             \/ UNCHANGED shipmentLock
             \/ \E s \in Shipments : \E row : WriteShipment(t, s, row)
      PROVE  JobRuns' /\ ExpiryOwed'
  <2>1. \A s \in Shipments : shipmentLock[s] \in Txns \ {t} =>
           shipmentLock'[s] = shipmentLock[s]
    BY <1>1, <1>m DEF WriteShipment
  <2> QED
    BY <1>m, <2>1, JobsRest
<1>3. ASSUME NEW t \in Txns, NEW s \in Shipments, Create(t, s)
      PROVE  JobRuns' /\ ExpiryOwed'
  <2> DEFINE slot == [Idle EXCEPT !.op = "create", !.pc = "commit", !.s = s]
  <2>1. slot.op = "create" /\ slot.s = s
    BY DEF Idle
  <2>2. /\ txn[t].op = "idle" /\ txn'[t] = slot /\ \A u \in Txns \ {t} : txn'[u] = txn[u]
        /\ shipmentLock[s] = None /\ shipmentLock' = [shipmentLock EXCEPT ![s] = t]
        /\ UNCHANGED <<shipment, job>>
    BY <1>1, <1>2, <1>3 DEF Create, Begin, WriteShipment
  <2> HIDE DEF slot
  <2>3. Runs(t)'
    BY <1>1, <2>1, <2>2 DEF Runs
  <2>4. \A r \in Shipments : shipmentLock[r] \in Txns \ {t} =>
           shipmentLock'[r] = shipmentLock[r]
    BY <1>1, <2>2
  <2> QED
    BY <2>1, <2>2, <2>3, <2>4, JobStep
<1>4. ASSUME NEW t \in Txns, NEW s \in Shipments,
             \/ Cancel(t, s) \/ \E u \in Users : CancelBySender(t, s, u)
      PROVE  JobRuns' /\ ExpiryOwed'
  <2>1. ASSUME NEW op \in {"cancel", "cancel_by_sender"}, NEW gate,
               CancelWhere(t, s, op, gate)
        PROVE  JobRuns' /\ ExpiryOwed'
    <3>1. [Idle EXCEPT !.op = op, !.pc = "commit", !.s = s].op = op
      BY DEF Idle
    <3>2. /\ txn[t].op = "idle" /\ txn'[t].op = op
          /\ \A u \in Txns \ {t} : txn'[u] = txn[u]
          /\ UNCHANGED <<shipment, job>>
          /\ WriteShipment(t, s, Cancelled(shipment[s]))
      BY <1>1, <1>2, <2>1, <3>1 DEF CancelWhere, Begin
    <3> QED
      BY <1>m, <3>2
  <2> QED
    BY <1>4, <1>u, <2>1 DEF Cancel, CancelBySender, Refuse
<1>5. ASSUME NEW t \in Txns, NEW slot, Begin(t, slot), UNCHANGED <<shipment, shipmentLock, job>>,
             slot.op \notin {"create", "expire"}
      PROVE  JobRuns' /\ ExpiryOwed'
  BY <1>1, <1>2, <1>5, <1>m DEF Begin
<1>6. ASSUME NEW t \in Txns, NEW s \in Shipments, NEW c \in Captains,
             \/ \E p \in Prices : PlaceBidRead(t, s, c, p)
             \/ \E op \in Marks, code \in {"right", "wrong"} :
                   MarkRead(t, s, c, op, code)
      PROVE  JobRuns' /\ ExpiryOwed'
  <2>1. CASE \E p \in Prices : PlaceBidRead(t, s, c, p)
    <3>1. PICK p \in Prices : PlaceBidRead(t, s, c, p)
      BY <2>1
    <3> DEFINE slot == [Idle EXCEPT !.op = "place_bid", !.pc = "upsert", !.s = s,
                                    !.capitan = c, !.price = p]
    <3>2. slot.op = "place_bid"
      BY DEF Idle
    <3>3. \/ Begin(t, slot) /\ UNCHANGED <<tables, job>>
          \/ UNCHANGED <<tables, job, txn>>
      BY <3>1 DEF PlaceBidRead, Refuse
    <3> HIDE DEF slot
    <3> QED
      BY <1>5, <1>u, <3>2, <3>3 DEF tables
  <2>2. CASE \E op \in Marks, code \in {"right", "wrong"} : MarkRead(t, s, c, op, code)
    <3>1. PICK op \in Marks, code \in {"right", "wrong"} : MarkRead(t, s, c, op, code)
      BY <2>2
    <3> DEFINE slot == [Idle EXCEPT !.op = op, !.pc = "mark", !.s = s]
    <3>2. slot.op \notin {"create", "expire"}
      BY DEF Idle, Marks
    <3>3. \/ Begin(t, slot) /\ UNCHANGED <<tables, job>>
          \/ UNCHANGED <<tables, job, txn>>
      BY <3>1 DEF MarkRead, Refuse
    <3> HIDE DEF slot
    <3> QED
      BY <1>5, <1>u, <3>2, <3>3 DEF tables
  <2> QED
    BY <1>6, <2>1, <2>2
<1>7. ASSUME NEW t \in Txns, NEW s \in Shipments, NEW b \in BidIds,
             \/ \E c \in Captains : WithdrawBid(t, s, b, c)
             \/ \E v \in Users : AcceptBid(t, s, b, v)
      PROVE  JobRuns' /\ ExpiryOwed'
  <2> DEFINE w == [Idle EXCEPT !.op = "withdraw_bid", !.pc = "commit", !.s = s,
                               !.b = b]
             a == [Idle EXCEPT !.op = "accept_bid", !.pc = "bid_gate", !.s = s,
                               !.b = b, !.early = ~due[s]]
  <2>1. w.op = "withdraw_bid" /\ a.op = "accept_bid"
    BY DEF Idle
  <2>2. \/ (Begin(t, w) \/ Begin(t, a)) /\ UNCHANGED <<shipment, shipmentLock, job>>
        \/ UNCHANGED <<tables, job, txn>>
    BY <1>7 DEF WithdrawBid, AcceptBid, Refuse, tables
  <2> HIDE DEF w, a
  <2> QED
    BY <1>5, <1>u, <2>1, <2>2
<1>8. ASSUME NEW t \in Txns,
             \/ PlaceBidUpsert(t) \/ AcceptBidGate(t) \/ AcceptShipmentGate(t)
             \/ RejectSiblings(t) \/ (\E b \in BidIds : RejectOne(t, b))
             \/ AcceptAnswer(t) \/ MarkWrite(t) \/ DeadlockVictim(t)
      PROVE  JobRuns' /\ ExpiryOwed'
  <2>1. /\ txn[t].op \in Marks \cup {"place_bid", "accept_bid"} /\ txn[t] # Idle
        /\ txn[t].s \in Shipments
    <3>1. txn[t].pc \in {"upsert", "bid_gate", "shipment_gate", "siblings", "reject", "mark"}
      BY <1>8 DEF PlaceBidUpsert, AcceptBidGate, AcceptShipmentGate, RejectSiblings,
                  RejectOne, AcceptAnswer, MarkWrite, DeadlockVictim, WaitsFor
    <3> QED
      BY <1>1, <1>2, <3>1 DEF AwardInv, SlotShape, Slot, Idle
  <2>2. txn[t].op \notin {"create", "expire"}
    BY <2>1 DEF Marks
  <2>3. txn'[t].op \notin {"create", "expire"}
    BY <1>2, <2>1, <2>2, EverySlotMoves DEF SlotMoves
  <2>4. ASSUME UNCHANGED <<shipment, job>>, \A u \in Txns \ {t} : txn'[u] = txn[u],
               \/ UNCHANGED shipmentLock
               \/ \E row : WriteShipment(t, txn[t].s, row)
        PROVE  JobRuns' /\ ExpiryOwed'
    BY <1>m, <2>1, <2>2, <2>3, <2>4
  <2>5. CASE PlaceBidUpsert(t)
    BY <1>1, <1>f, <2>2, <2>4, <2>5 DEF PlaceBidUpsert, Proceed
  <2>6. CASE AcceptBidGate(t)
    BY <1>1, <1>f, <2>2, <2>4, <2>6 DEF AcceptBidGate
  <2>7. CASE AcceptShipmentGate(t)
    BY <1>1, <1>f, <2>2, <2>4, <2>7 DEF AcceptShipmentGate, Proceed
  <2>8. CASE RejectSiblings(t) \/ (\E b \in BidIds : RejectOne(t, b)) \/ AcceptAnswer(t)
    BY <1>1, <2>4, <2>8 DEF RejectSiblings, RejectOne, AcceptAnswer, Proceed, tables
  <2>9. CASE MarkWrite(t)
    BY <1>1, <2>4, <2>9 DEF MarkWrite, Proceed
  <2>10. CASE DeadlockVictim(t)
    BY <1>f, <2>2, <2>10 DEF DeadlockVictim
  <2> QED
    BY <1>8, <2>5, <2>6, <2>7, <2>8, <2>9, <2>10
\* The job begins, or finds nothing to do.
<1>9. ASSUME NEW t \in Txns, NEW s \in Shipments, Expire(t, s)
      PROVE  JobRuns' /\ ExpiryOwed'
  <2> DEFINE slot == [Idle EXCEPT !.op = "expire", !.pc = "commit", !.s = s]
  <2>1. slot.op = "expire" /\ slot.s = s /\ slot.pc = "commit"
    BY DEF Idle
  <2>2. txn[t].op = "idle" /\ job[s] = "todo" /\ shipment' = shipment
    BY <1>2, <1>9 DEF Expire, tables
  <2>3. CASE /\ Begin(t, slot)
             /\ WriteShipment(t, s, [shipment[s] EXCEPT !.status = "expired"])
             /\ job' = [job EXCEPT ![s] = "doing"]
    <3>1. /\ txn'[t] = slot /\ \A u \in Txns \ {t} : txn'[u] = txn[u]
          /\ shipmentLock[s] = None /\ shipmentLock' = [shipmentLock EXCEPT ![s] = t]
      BY <1>1, <2>3 DEF Begin, WriteShipment
    <3> HIDE DEF slot
    <3>2. job'[s] = "doing" /\ \A r \in Shipments \ {s} : job'[r] = job[r]
      BY <1>1, <2>3
    <3>3. Runs(t)'
      BY <1>1, <2>1, <3>1, <3>2 DEF Runs
    <3>4. \A r \in Shipments : shipmentLock[r] \in Txns \ {t} =>
             shipmentLock'[r] = shipmentLock[r]
      BY <1>1, <3>1
    <3>5. \A r \in Shipments :
             \/ job'[r] = job[r]
             \/ job[r] = "todo" /\ job'[r] = "doing" /\ txn'[t].op = "expire" /\ txn'[t].s = r
      BY <2>1, <2>2, <3>1, <3>2
    <3> QED
      BY <2>1, <2>2, <3>1, <3>3, <3>4, <3>5, JobStep
  <2>4. CASE ~Expirable(s) /\ job' = [job EXCEPT ![s] = "done"] /\ UNCHANGED <<tables, due, txn>>
    <3>1. shipment'[s].status # "pending"
      BY <1>9, <2>2, <2>4 DEF Expirable, Expire
    <3>2. Runs(t)' /\ shipmentLock' = shipmentLock
      BY <2>2, <2>4 DEF Runs, tables
    <3>3. \A r \in Shipments :
             \/ job'[r] = job[r]
             \/ job[r] = "todo" /\ job'[r] = "done" /\ shipment'[r].status # "pending"
      BY <1>1, <2>2, <2>4, <3>1
    <3> QED
      BY <2>2, <2>4, <3>2, <3>3, JobStep
  <2> QED
    BY <1>9, <2>3, <2>4 DEF Expire
\* The job tells, or dies: it is over, and no longer "doing".
<1>10. ASSUME NEW t \in Txns, txn[t].op = "expire", NEW j \in {"done", "lost"},
              txn' = [txn EXCEPT ![t] = Idle], job' = [job EXCEPT ![txn[t].s] = j],
              UNCHANGED shipment,
              \A s \in Shipments : shipmentLock[s] \in Txns \ {t} =>
                 shipmentLock'[s] = shipmentLock[s],
              j = "done" => txn[t].pc = "notify"
       PROVE  JobRuns' /\ ExpiryOwed'
  <2>1. txn'[t] = Idle /\ (\A u \in Txns \ {t} : txn'[u] = txn[u]) /\ txn[t].s \in Shipments
    BY <1>1, <1>10 DEF AwardInv, SlotShape, Slot
  <2>2. Runs(t)'
    BY <1>2, <2>1 DEF Runs
  <2>3. j = "done" => shipment[txn[t].s].status # "pending"
    BY <1>10 DEF JobRuns, Runs
  <2>4. job'[txn[t].s] = j /\ \A s \in Shipments \ {txn[t].s} : job'[s] = job[s]
    BY <1>1, <1>10, <2>1
  <2>5. \A s \in Shipments :
           \/ job'[s] = job[s]
           \/ /\ txn[t].op = "expire" /\ txn[t].s = s
              /\ job'[s] = "lost" \/ (job'[s] = "done" /\ shipment'[s].status # "pending")
    BY <1>10, <2>3, <2>4
  <2> QED
    BY <1>2, <1>10, <2>1, <2>2, <2>4, <2>5, JobStep
<1>11. ASSUME NEW t \in Txns, ExpireNotify(t)
       PROVE  JobRuns' /\ ExpiryOwed'
  BY <1>10, <1>11 DEF ExpireNotify, tables, AwardInv, SlotShape
<1>12. ASSUME NEW t \in Txns, Abort(t)
       PROVE  JobRuns' /\ ExpiryOwed'
  <2>1. \A s \in Shipments : shipmentLock[s] \in Txns \ {t} =>
           shipmentLock'[s] = shipmentLock[s]
    BY <1>12 DEF Abort, Release
  <2>2. CASE txn[t].op = "expire"
    BY <1>10, <1>12, <2>1, <2>2 DEF Abort, Discard
  <2>3. CASE txn[t].op # "expire"
    BY <1>b, <1>12, <2>3 DEF Abort, Rollback
  <2> QED
    BY <2>2, <2>3
\* A commit: the job of a create is to come, an expiry leaves pending.
<1>13. ASSUME NEW t \in Txns, Commit(t)
       PROVE  JobRuns' /\ ExpiryOwed'
  <2>1. /\ \A s \in Shipments :
              \/ shipmentLock[s] # t /\ shipment'[s] = shipment[s]
              \/ /\ shipmentLock[s] = t /\ txn[t].s = s
                 /\ ShipmentStep(txn[t], shipment[s], shipment'[s])
        /\ \A s \in Shipments : shipmentLock[s] \in Txns \ {t} =>
              shipmentLock'[s] = shipmentLock[s]
    BY <1>1, <1>13, Published
  <2>2. /\ \A u \in Txns \ {t} : txn'[u] = txn[u]
        /\ txn[t].pc = "commit" /\ txn[t].s \in Shipments
    BY <1>1, <1>13 DEF Commit, Proceed, AwardInv, SlotShape, Slot
  <2>3. \A s \in Shipments : shipment[s].status # "pending" =>
           shipment'[s].status # "pending" \/ (txn[t].op = "create" /\ txn[t].s = s)
    <3>1. SUFFICES ASSUME NEW s \in Shipments, shipment[s].status # "pending",
                          shipment'[s].status = "pending"
                   PROVE  txn[t].op = "create" /\ txn[t].s = s
      OBVIOUS
    <3>2. shipment[s].status = "absent"
      BY <3>1, OutOfPending
    <3>3. shipment[s].capitan = None
      BY <3>2 DEF AwardInv, AwardConsistent
    <3> QED
      BY <2>1, <3>1, <3>2, <3>3 DEF ShipmentStep, Marks
  <2>4. CASE txn[t].op = "create"
    <3>1. txn'[t] = Idle /\ job' = [job EXCEPT ![txn[t].s] = "todo"]
      BY <1>1, <1>13, <2>4 DEF Commit
    <3>2. Runs(t)'
      BY <1>2, <3>1 DEF Runs
    <3>3. job'[txn[t].s] = "todo" /\ \A s \in Shipments \ {txn[t].s} : job'[s] = job[s]
      BY <1>1, <2>2, <3>1
    <3>4. \A s \in Shipments :
             \/ job'[s] = job[s]
             \/ txn[t].op \in {"create", "expire"} /\ txn[t].s = s /\ job'[s] = "todo"
      BY <2>4, <3>3
    <3> QED
      BY <1>2, <2>1, <2>2, <2>3, <2>4, <3>1, <3>2, <3>3, <3>4, JobStep
  <2>5. CASE txn[t].op = "expire"
    <3>1. txn' = [txn EXCEPT ![t].pc = "notify"] /\ job' = job
      BY <1>13, <2>5 DEF Commit, Proceed
    <3>2. txn'[t] = [txn[t] EXCEPT !.pc = "notify"]
      BY <1>1, <3>1
    <3>3. txn'[t].op = "expire" /\ txn'[t].s = txn[t].s /\ txn'[t].pc = "notify"
      BY <1>1, <2>5, <3>2 DEF Slot
    <3>4. job[txn[t].s] = "doing" /\ shipmentLock[txn[t].s] = t
      BY <2>2, <2>5 DEF JobRuns, Runs
    <3>5. shipment'[txn[t].s] = [shipment[txn[t].s] EXCEPT !.status = "expired"]
      BY <2>1, <2>2, <2>5, <3>4 DEF ShipmentStep, Marks
    <3>6. shipment'[txn[t].s].status = "expired"
      BY <2>2, <3>5 DEF AwardInv, TypeOK, ShipmentRow
    <3>7. Runs(t)'
      BY <3>1, <3>3, <3>4, <3>6 DEF Runs
    <3> QED
      BY <2>1, <2>2, <2>3, <2>5, <3>1, <3>3, <3>7, JobStep
  <2>6. CASE txn[t].op \notin {"create", "expire"}
    <3>1. txn'[t] = Idle /\ job' = job
      BY <1>1, <1>13, <2>6 DEF Commit
    <3> QED
      BY <1>2, <2>1, <2>2, <2>3, <2>6, <3>1, JobsRest
  <2> QED
    BY <2>4, <2>5, <2>6
<1>14. ASSUME NEW s \in Shipments, Deadline(s)
       PROVE  JobRuns' /\ ExpiryOwed'
  BY <1>14, <1>u DEF Deadline
<1>15. CASE UNCHANGED vars
  BY <1>15, <1>u DEF vars, tables
<1> QED
  BY <1>3, <1>4, <1>6, <1>7, <1>8, <1>9, <1>11, <1>12, <1>13, <1>14, <1>15
  DEF Next, Arrive, Continue

\* IInv holds of the empty tables.
LEMMA IInvInit == Init => IInv
<1> SUFFICES ASSUME Init PROVE IInv
  OBVIOUS
<1>1. Priced /\ PlaceBidsListed
  BY DEF Init, Priced, PlaceBidsListed, NoShipment, NoBid, Live, BidStatus, Idle
<1>2. OneWrite
  BY DEF Init, OneWrite
<1>3. OneBidPerCaptain
  BY DEF Init, OneBidPerCaptain, Indexed, IsBidOf, NoBid, Live, BidStatus
<1>4. JobRuns /\ ExpiryOwed
  BY DEF Init, JobRuns, Runs, ExpiryOwed, NoShipment, Idle
<1> QED
  BY <1>1, <1>2, <1>3, <1>4, AwardInvInit DEF IInv, OfferInv

\* Every step keeps IInv.
LEMMA IInvNext == IInv /\ [Next]_vars => IInv'
<1> SUFFICES ASSUME IInv, [Next]_vars PROVE IInv'
  OBVIOUS
<1>1. AwardInv /\ AwardInv'
  BY AwardInvNext DEF IInv
<1>2. Priced' /\ PlaceBidsListed'
  BY <1>1, PricedNext, PlaceBidsListedNext DEF IInv, OfferInv
<1>3. OneWrite' /\ OneBidPerCaptain'
  BY <1>1, OneWriteNext, OneBidPerCaptainNext DEF IInv, OfferInv
<1>4. JobRuns' /\ ExpiryOwed'
  BY <1>1, JobsNext DEF IInv
<1> QED
  BY <1>1, <1>2, <1>3, <1>4 DEF IInv, OfferInv

\* IInv holds in every reachable state.
THEOREM Inductive == Spec => []IInv
BY IInvInit, IInvNext, PTL DEF Spec

\* A pending shipment is owed its expiry by a job to come, a job under way, or
\* a job whose one run was lost: what ExpiryHappens leaves to fairness is that
\* jobs run.
THEOREM ExpiryIsOwed == Spec => []ExpiryOwed
<1>1. IInv => ExpiryOwed
  BY DEF IInv
<1> QED
  BY <1>1, Inductive, PTL

\* The unique key of the bids table and the upsert that waits on it leave a
\* captain one live bid on a shipment, however requests race.
THEOREM OneBidEach == Spec => []OneBidPerCaptain
<1>1. IInv => OneBidPerCaptain
  BY DEF IInv, OfferInv
<1> QED
  BY <1>1, Inductive, PTL

-----------------------------------------------------------------------------
(* Milestones *)

\* What MilestonesInOrder says of a row, and of a mark that is under way.
InOrder(row) ==
    /\ "delivered_at" \in row.stamps => "out_for_delivery_at" \in row.stamps
    /\ "out_for_delivery_at" \in row.stamps => "picked_at" \in row.stamps
    /\ "picked_at" \in row.stamps => "accepted_at" \in row.stamps
    /\ "accepted_at" \in row.stamps <=> row.capitan # None
    /\ \A op \in Marks : row.status = Mark[op].to => Mark[op].stamp \in row.stamps

Follows(x, row) ==
    x.op \in Marks =>
       \A op \in Marks : Mark[x.op].from = Mark[op].to => Mark[op].stamp \in row.stamps

\* MilestonesInOrder is about each row, and about each mark and its row.
LEMMA MilestonesSplit ==
    ASSUME TypeOK, SlotShape
    PROVE  MilestonesInOrder <=> /\ \A s \in Shipments : InOrder(shipment[s])
                                 /\ \A t \in Txns : Follows(txn[t], shipment[txn[t].s])
<1>1. \A t \in Txns : txn[t].op \in Marks => txn[t].s \in Shipments
  BY DEF TypeOK, SlotShape, Slot, Marks
<1> QED
  BY <1>1 DEF MilestonesInOrder, InOrder, Follows

\* Each of the writes of a shipment keeps its milestones in order.
LEMMA StepInOrder ==
    ASSUME NEW x \in Slot, NEW old \in ShipmentRow, NEW new \in ShipmentRow,
           ShipmentStep(x, old, new), InOrder(old), Follows(x, old),
           old.status = "pending" => old.capitan = None,
           new.status = "accepted" => new.capitan # None
    PROVE  InOrder(new)
<1> USE DEF ShipmentRow, InOrder
<1>0. \A op \in Marks :
         Mark[op].to \notin {"absent", "pending", "accepted", "expired", "cancelled"}
  BY DEF Mark, Marks
<1>1. CASE new = [NoShipment EXCEPT !.status = "pending"]
  BY <1>0, <1>1 DEF NoShipment
<1>2. CASE old.status = "pending" /\ new = Awarded(old, x)
  <2>1. new.status = "accepted" /\ new.stamps = old.stamps \cup {"accepted_at"}
    BY <1>2 DEF Awarded
  <2> QED
    BY <1>0, <1>2, <2>1
<1>3. CASE new = Cancelled(old) \/ new = [old EXCEPT !.status = "expired"]
  <2>1. /\ new.status \in {"cancelled", "expired"}
        /\ new.stamps = old.stamps /\ new.capitan = old.capitan
    BY <1>3 DEF Cancelled
  <2> QED
    BY <1>0, <2>1
<1>4. CASE x.op \in Marks /\ old.capitan # None /\ new = Marked(old, x.op)
  <2>1. /\ new.status = Mark[x.op].to /\ new.capitan = old.capitan
        /\ new.stamps = old.stamps \cup {Mark[x.op].stamp}
    BY <1>4 DEF Marked
  <2>2. CASE x.op = "pickup"
    BY <1>4, <2>1, <2>2 DEF Mark, Marks
  <2>3. CASE x.op = "out"
    BY <1>4, <2>1, <2>3 DEF Mark, Marks, Follows
  <2>4. CASE x.op = "deliver"
    BY <1>4, <2>1, <2>4 DEF Mark, Marks, Follows
  <2> QED
    BY <1>4, <2>2, <2>3, <2>4 DEF Marks
<1> QED
  BY <1>1, <1>2, <1>3, <1>4 DEF ShipmentStep

\* Every step keeps the milestones in order.
LEMMA MilestonesNext ==
    ASSUME AwardInv, AwardInv', MilestonesInOrder, [Next]_vars
    PROVE  MilestonesInOrder'
<1>1. /\ \A s \in Shipments : InOrder(shipment[s])
      /\ \A t \in Txns : Follows(txn[t], shipment[txn[t].s])
  BY MilestonesSplit DEF AwardInv
<1>2. ASSUME NEW s \in Shipments
      PROVE  InOrder(shipment'[s])
  <2>1. /\ shipment[s] \in ShipmentRow /\ shipment'[s] \in ShipmentRow
        /\ \A t \in Txns : txn[t] \in Slot
    BY DEF AwardInv, TypeOK
  <2>2. /\ shipment[s].status = "pending" => shipment[s].capitan = None
        /\ shipment'[s].status = "accepted" => shipment'[s].capitan # None
    BY DEF AwardInv, AwardConsistent
  <2> QED
    BY <1>1, <2>1, <2>2, StepInOrder, EveryRowMoves
<1>3. ASSUME NEW t \in Txns, txn'[t].op \in Marks
      PROVE  Follows(txn'[t], shipment'[txn'[t].s])
  <2> DEFINE s == txn'[t].s
  <2>1. s \in Shipments /\ "idle" \notin Marks
    BY <1>3 DEF AwardInv, TypeOK, SlotShape, Slot, Marks
  <2>2. Follows(txn'[t], shipment[s]) /\ Exists(s)
    <3>1. CASE txn'[t].op = txn[t].op /\ txn'[t].s = txn[t].s
      <4>1. Follows(txn'[t], shipment[s])
        BY <1>1, <3>1 DEF Follows
      <4>2. shipment[s].capitan # None
        BY <1>3, <3>1 DEF AwardInv, MarksAwarded
      <4>3. shipment[s].status # "absent"
        BY <2>1, <4>2 DEF AwardInv, AwardConsistent
      <4> QED
        BY <4>1, <4>3 DEF Exists
    <3>2. CASE shipment[s].status = Mark[txn'[t].op].from
      <4>1. shipment[s].status # "absent"
        BY <1>3, <3>2 DEF Mark, Marks
      <4>2. InOrder(shipment[s])
        BY <1>1, <2>1
      <4> QED
        BY <3>2, <4>1, <4>2 DEF Exists, InOrder, Follows
    <3> QED
      BY <1>3, <2>1, <3>1, <3>2, EverySlotMoves DEF SlotMoves, Idle
  <2>3. shipment[s].stamps \subseteq shipment'[s].stamps
    BY <2>1, <2>2, ListedStays
  <2> QED
    BY <2>2, <2>3 DEF Follows
<1>4. /\ \A s \in Shipments : InOrder(shipment'[s])
      /\ \A t \in Txns : Follows(txn'[t], shipment'[txn'[t].s])
  BY <1>2, <1>3 DEF Follows
<1>5. (TypeOK /\ SlotShape)'
  BY DEF AwardInv
<1>6. \A t \in Txns : txn'[t].op \in Marks => txn'[t].s \in Shipments
  BY <1>5 DEF TypeOK, SlotShape, Slot, Marks
<1> QED
  BY <1>4, <1>6 DEF MilestonesInOrder, InOrder, Follows

\* Milestones are stamped in order although a mark reads the shipment in one
\* statement and writes it by primary key in another.
THEOREM MilestonesAreInOrder == Spec => []MilestonesInOrder
<1>1. Init => MilestonesInOrder
  BY DEF Init, MilestonesInOrder, NoShipment, Idle, Mark, Marks
<1>2. /\ AwardInv /\ AwardInv' /\ MilestonesInOrder /\ [Next]_vars
         => MilestonesInOrder'
  BY MilestonesNext
<1> QED
  BY <1>1, <1>2, AwardInductive, PTL DEF Spec

-----------------------------------------------------------------------------
(* The answer of accept_bid *)

\* The last step turned nobody down and accepted nobody.
NoVerdict == \A b \in BidIds : /\ <<"bid_accepted", b>> \notin note
                             /\ <<"bid_rejected", b>> \notin note

\* Only the answer of accept_bid tells a captain how a bid has ended.
LEMMA OnlyAcceptTells ==
    ASSUME AwardInv, [Next]_vars, \A t \in Txns : ~AcceptAnswer(t)
    PROVE  NoVerdict' \/ UNCHANGED vars
<1>q. ASSUME note' = {}
      PROVE  NoVerdict'
  BY <1>q DEF NoVerdict
<1>1. ASSUME NEW t \in Txns, NEW s \in Shipments,
             \/ Create(t, s) \/ Cancel(t, s) \/ Expire(t, s)
             \/ \E u \in Users : CancelBySender(t, s, u)
      PROVE  NoVerdict'
  <2>1. note' \in {{}, {<<"new_request", s>>}, {<<"request_closed", s>>}}
    BY <1>1 DEF Create, Cancel, CancelBySender, CancelWhere, Refuse, Expire, Answer, Quiet
  <2> QED
    BY <2>1 DEF NoVerdict
<1>2. ASSUME NEW t \in Txns, NEW s \in Shipments, NEW c \in Captains,
             \/ \E p \in Prices : PlaceBidRead(t, s, c, p)
             \/ \E b \in BidIds : WithdrawBid(t, s, b, c)
             \/ \E op \in Marks, code \in {"right", "wrong"} :
                   MarkRead(t, s, c, op, code)
      PROVE  NoVerdict'
  BY <1>2, <1>q DEF PlaceBidRead, WithdrawBid, MarkRead, Refuse, Answer, Quiet
<1>3. ASSUME NEW t \in Txns, NEW s \in Shipments, NEW b \in BidIds, NEW u \in Users,
             AcceptBid(t, s, b, u)
      PROVE  NoVerdict'
  BY <1>3, <1>q DEF AcceptBid, Refuse, Quiet
<1>4. ASSUME NEW t \in Txns, PlaceBidUpsert(t)
      PROVE  NoVerdict'
  <2>1. note' = {} \/ \E b \in BidIds : note' = {<<"new_bid", b>>}
    BY <1>4 DEF PlaceBidUpsert, Answer, Fail, KeyRows
  <2> QED
    BY <2>1 DEF NoVerdict
<1>5. ASSUME NEW t \in Txns,
             \/ AcceptBidGate(t) \/ AcceptShipmentGate(t) \/ RejectSiblings(t)
             \/ (\E b \in BidIds : RejectOne(t, b))
             \/ Commit(t) \/ Abort(t) \/ DeadlockVictim(t)
      PROVE  NoVerdict'
  BY <1>5, <1>q DEF AcceptBidGate, AcceptShipmentGate, RejectSiblings, RejectOne, Commit,
                    Abort, DeadlockVictim, Fail, Quiet
<1>6. ASSUME NEW t \in Txns, MarkWrite(t)
      PROVE  NoVerdict'
  <2>1. txn[t].op \in Marks
    BY <1>6 DEF MarkWrite, AwardInv, SlotShape
  <2>2. Mark[txn[t].op].to \notin {"bid_accepted", "bid_rejected"}
    BY <2>1 DEF Mark, Marks
  <2>3. note' = {<<Mark[txn[t].op].to, txn[t].s>>}
    BY <1>6 DEF MarkWrite, Answer
  <2> QED
    BY <2>2, <2>3 DEF NoVerdict
<1>7. ASSUME NEW t \in Txns, ExpireNotify(t)
      PROVE  NoVerdict'
  BY <1>7 DEF ExpireNotify, NoVerdict
<1>8. ASSUME NEW s \in Shipments, Deadline(s)
      PROVE  NoVerdict'
  BY <1>8, <1>q DEF Deadline, Quiet
<1>9. ASSUME NEW t \in Txns, Arrive(t)
      PROVE  NoVerdict'
  BY <1>1, <1>2, <1>3, <1>9 DEF Arrive
<1>10. ASSUME NEW t \in Txns, Continue(t) \/ Abort(t)
       PROVE  NoVerdict'
  BY <1>4, <1>5, <1>6, <1>7, <1>10 DEF Continue
<1> QED
  BY <1>1, <1>8, <1>9, <1>10 DEF Next

\* When it does, it holds the rows it speaks of, and they say what it says.
LEMMA AcceptTells ==
    ASSUME AwardInv, NEW t \in Txns, AcceptAnswer(t)
    PROVE  ToldWhatIsWritten'
<1> DEFINE s == txn[t].s
           w == txn[t].b
<1>1. txn[t].op = "accept_bid" /\ txn[t].pc = "reject" /\ t # None
  BY DEF AcceptAnswer, AwardInv, SlotShape
<1>2. s \in Shipments /\ w \in BidIds
  BY <1>1 DEF AwardInv, TypeOK, SlotShape, Slot
<1>3. shipmentLock[s] = t /\ bidLock[w] = t
  BY <1>1 DEF AwardInv, AcceptHolds, HoldsBid, HoldsShipment
<1>4. BidStep(txn[t], w, bid[w], bidW[w]) /\ ShipmentStep(txn[t], shipment[s], shipmentW[s])
  BY <1>1, <1>2, <1>3 DEF AwardInv, LockedBids, LockedShipments
<1>5. /\ bidW[w].status = "accepted" /\ bidW[w].shipment = s
      /\ bidW[w].capitan = txn[t].capitan /\ bidW[w].price = txn[t].price
  <2>1. bid[w] \in BidRow
    BY <1>2 DEF AwardInv, TypeOK
  <2>2. /\ PendingOn(bid[w], s) /\ bidW[w] = [bid[w] EXCEPT !.status = "accepted"]
        /\ txn[t].capitan = bid[w].capitan /\ txn[t].price = bid[w].price
    BY <1>1, <1>4 DEF BidStep
  <2> QED
    BY <2>1, <2>2 DEF BidRow, PendingOn
<1>6. shipmentW[s].capitan = txn[t].capitan /\ shipmentW[s].price = txn[t].price
  <2>1. shipment[s] \in ShipmentRow
    BY <1>2 DEF AwardInv, TypeOK
  <2>2. shipmentW[s] = Awarded(shipment[s], txn[t])
    BY <1>1, <1>4 DEF ShipmentStep, Marks
  <2> QED
    BY <2>1, <2>2 DEF ShipmentRow, Awarded
<1>7. /\ UNCHANGED <<shipmentW, shipmentLock, bidW, bidLock>>
      /\ note' = {<<"bid_accepted", w>>, <<"request_closed", s>>}
                    \cup {<<"bid_rejected", b>> : b \in Losers(t)}
  BY DEF AcceptAnswer, Answer, tables
<1>8. ASSUME NEW b \in Losers(t)
      PROVE  PendingOn(bid[b], s)
  <2>1. b \in BidIds /\ bidLock[b] = t /\ bidW[b].status = "rejected"
    BY DEF Losers
  <2>2. BidStep(txn[t], b, bid[b], bidW[b])
    BY <1>1, <2>1 DEF AwardInv, LockedBids
  <2> QED
    BY <1>1, <2>2 DEF BidStep
<1> HIDE DEF s, w
<1>9. /\ \A b \in BidIds : <<"bid_accepted", b>> \in note' => b = w
      /\ <<"bid_accepted", w>> \in note' /\ <<"request_closed", s>> \in note'
      /\ \A b \in BidIds : <<"bid_rejected", b>> \in note' <=> b \in Losers(t)
  BY <1>7
<1>10. \A b \in BidIds : b \in Losers(t) <=> bidLock[b] = t /\ bidW[b].status = "rejected"
  BY DEF Losers
<1>11. bid' = bid
  BY DEF AcceptAnswer, tables
<1>12. \A b \in BidIds : <<"bid_rejected", b>> \in note' => PendingOn(bid'[b], s)
  BY <1>8, <1>9, <1>11
<1> QED
  BY <1>1, <1>2, <1>3, <1>5, <1>6, <1>7, <1>9, <1>10, <1>12 DEF ToldWhatIsWritten

\* The answer of accept_bid names the winner and exactly the bids this transaction
\* has turned down, and it holds all their rows.
THEOREM ToldTheTruth == Spec => []ToldWhatIsWritten
<1>1. Init => ToldWhatIsWritten
  BY DEF Init, ToldWhatIsWritten
<1>2. AwardInv /\ ToldWhatIsWritten /\ [Next]_vars => ToldWhatIsWritten'
  <2> SUFFICES ASSUME AwardInv, ToldWhatIsWritten, [Next]_vars
               PROVE  ToldWhatIsWritten'
    OBVIOUS
  <2>1. CASE NoVerdict'
    BY <2>1 DEF NoVerdict, ToldWhatIsWritten
  <2>2. CASE UNCHANGED vars
    BY <2>2 DEF vars, ToldWhatIsWritten
  <2> QED
    BY <2>1, <2>2, OnlyAcceptTells, AcceptTells
<1> QED
  BY <1>1, <1>2, AwardInductive, PTL DEF Spec

-----------------------------------------------------------------------------
(* The committed rows implement Auction *)

Sale   == [s \in Shipments |-> SaleOf(shipment[s])]
Offers == [s \in Shipments |-> OffersOn(s)]

\* How one commit moves a sale, accept_bid apart: it lists the shipment, or
\* closes it, or does not show.
LEMMA SaleMoves ==
    ASSUME IInv, IInv', NEW t \in Txns, NEW s \in Shipments,
           ShipmentStep(txn[t], shipment[s], shipment'[s]), txn[t].op # "accept_bid"
    PROVE  \/ SaleOf(shipment'[s]) = SaleOf(shipment[s])
           \/ /\ SaleOf(shipment[s]) = TheAuction!Unlisted
              /\ SaleOf(shipment'[s]) = TheAuction!Open
           \/ /\ SaleOf(shipment[s]) = TheAuction!Open
              /\ SaleOf(shipment'[s]) = TheAuction!Closed
<1> USE DEF TheAuction!Unlisted, TheAuction!Open, TheAuction!Closed
<1>1. shipment[s] \in ShipmentRow /\ shipment'[s] \in ShipmentRow
  BY DEF IInv, AwardInv, TypeOK
<1>2. /\ shipment[s].capitan # None =>
            shipment[s].status \notin {"absent", "pending", "expired"}
      /\ shipment[s].capitan = None => shipment[s].price = None
  BY DEF IInv, AwardInv, AwardConsistent, OfferInv, Priced
<1>3. CASE /\ shipment[s].status = "absent"
           /\ shipment'[s] = [NoShipment EXCEPT !.status = "pending"]
  <2>1. SaleOf(shipment[s]) = TheAuction!Unlisted
    BY <1>2, <1>3 DEF SaleOf
  <2>2. SaleOf(shipment'[s]) = TheAuction!Open
    BY <1>3 DEF SaleOf, NoShipment
  <2> QED
    BY <2>1, <2>2
<1>4. ASSUME NEW st \in {"expired", "cancelled"}, shipment[s].status \notin Terminal \cup {"absent"},
             shipment'[s] = [shipment[s] EXCEPT !.status = st]
      PROVE  \/ SaleOf(shipment'[s]) = SaleOf(shipment[s])
             \/ /\ SaleOf(shipment[s]) = TheAuction!Open
                /\ SaleOf(shipment'[s]) = TheAuction!Closed
  <2>1. /\ shipment'[s].status = st /\ shipment'[s].capitan = shipment[s].capitan
        /\ shipment'[s].price = shipment[s].price
    BY <1>1, <1>4 DEF ShipmentRow
  <2>2. CASE shipment[s].capitan # None
    BY <2>1, <2>2 DEF SaleOf
  <2>3. CASE shipment[s].capitan = None
    <3>1. shipment[s].status = "pending"
      BY <1>4, <2>3 DEF IInv, AwardInv, AwardConsistent, Terminal
    <3>2. SaleOf(shipment[s]) = TheAuction!Open
      BY <1>2, <2>3, <3>1 DEF SaleOf
    <3>3. SaleOf(shipment'[s]) = TheAuction!Closed
      BY <1>2, <2>1, <2>3 DEF SaleOf
    <3> QED
      BY <3>2, <3>3
  <2> QED
    BY <2>2, <2>3
<1>5. CASE shipment[s].capitan # None /\ shipment'[s] = Marked(shipment[s], txn[t].op)
  <2>1. /\ shipment'[s].capitan = shipment[s].capitan
        /\ shipment'[s].price = shipment[s].price
    BY <1>1, <1>5 DEF ShipmentRow, Marked
  <2> QED
    BY <1>5, <2>1 DEF SaleOf
<1>6. CASE /\ shipment[s].status = "pending"
           /\ shipment'[s] = [shipment[s] EXCEPT !.status = "expired"]
  BY <1>4, <1>6 DEF Terminal
<1>7. CASE /\ shipment[s].status \notin Terminal \cup {"absent"}
           /\ shipment'[s] = Cancelled(shipment[s])
  BY <1>4, <1>7 DEF Cancelled
<1> QED
  BY <1>3, <1>5, <1>6, <1>7 DEF ShipmentStep

\* What OffersOn holds, and that a captain has at most one offer in it.
LEMMA AnOffer ==
    ASSUME NEW s, NEW o
    PROVE  o \in OffersOn(s) <=>
              \E b \in BidIds : /\ PendingOn(bid[b], s)
                                /\ o = <<bid[b].capitan, bid[b].price>>
BY DEF OffersOn

\* A captain has one standing offer on a shipment.
LEMMA OneOffer ==
    ASSUME IInv, NEW a \in BidIds, NEW b \in BidIds, NEW s \in Shipments,
           PendingOn(bid[a], s), PendingOn(bid[b], s), bid[a].capitan = bid[b].capitan
    PROVE  a = b
<1>1. bid[a].capitan \in Captains
  BY DEF IInv, AwardInv, TypeOK, BidShape, BidRow, PendingOn, Live, BidStatus
<1>2. /\ Indexed(a, s, bid[a].capitan) /\ Indexed(b, s, bid[a].capitan)
  BY DEF Indexed, IsBidOf, PendingOn, Live, BidStatus
<1> QED
  BY <1>1, <1>2 DEF IInv, OfferInv, OneBidPerCaptain

\* A pending bid is an offer of the auction.
LEMMA OfferTyped ==
    ASSUME IInv, NEW b \in BidIds, PendingOn(bid[b], bid[b].shipment)
    PROVE  /\ bid[b].shipment \in Shipments
           /\ bid[b].capitan \in Captains /\ bid[b].price \in Prices
BY DEF IInv, AwardInv, TypeOK, BidShape, BidRow, PendingOn, Live, BidStatus, OfferInv,
       Priced

\* The commit of an inserted or re-priced bid is a Bid of the auction.
LEMMA PlacedIsBid ==
    ASSUME IInv, IInv', NEW b \in BidIds, NEW s \in Shipments,
           PendingOn(bid'[b], s), Exists(s), UNCHANGED shipment,
           \A a \in BidIds \ {b} : bid'[a] = bid[a],
           \/ ~ \E r \in Shipments : PendingOn(bid[b], r)
           \/ PendingOn(bid[b], s) /\ bid[b].capitan = bid'[b].capitan
    PROVE  TheAuction!Next
<1> DEFINE c == bid'[b].capitan
           p == bid'[b].price
<1>1. c \in Captains /\ p \in Prices
  <2>1. bid'[b].shipment = s /\ bid'[b].status = "pending"
    BY DEF PendingOn
  <2> QED
    BY <2>1 DEF IInv, AwardInv, TypeOK, BidShape, BidRow, Live, BidStatus, OfferInv, Priced
<1>2. OffersOn(s)' = {o \in OffersOn(s) : o[1] # c} \cup {<<c, p>>}
  <2>1. ASSUME NEW a \in BidIds \ {b}
        PROVE  PendingOn(bid[a], s) => bid[a].capitan # c
    <3>1. SUFFICES ASSUME PendingOn(bid[a], s), bid[a].capitan = c PROVE FALSE
      OBVIOUS
    <3>2. \A x, y \in BidIds, d \in Captains :
             IsBidOf(bid'[x], s, d) /\ IsBidOf(bid'[y], s, d) => x = y
      BY DEF IInv, OfferInv, OneBidPerCaptain, Indexed, IsBidOf, Live
    <3>3. IsBidOf(bid'[a], s, c) /\ IsBidOf(bid'[b], s, c)
      BY <3>1 DEF IsBidOf, PendingOn, Live, BidStatus
    <3> QED
      BY <1>1, <3>2, <3>3
  <2>2. ASSUME NEW o, o \in OffersOn(s)'
        PROVE  o \in {x \in OffersOn(s) : x[1] # c} \cup {<<c, p>>}
    <3>1. PICK a \in BidIds : PendingOn(bid'[a], s) /\ o = <<bid'[a].capitan, bid'[a].price>>
      BY <2>2 DEF OffersOn, PendingOn
    <3>2. CASE a = b
      BY <3>1, <3>2
    <3>3. CASE a # b
      <4>1. PendingOn(bid[a], s) /\ o = <<bid[a].capitan, bid[a].price>>
        BY <3>1, <3>3
      <4>2. o \in OffersOn(s)
        BY <4>1, AnOffer
      <4>3. o[1] # c
        BY <2>1, <3>3, <4>1
      <4> QED
        BY <4>2, <4>3
    <3> QED
      BY <3>2, <3>3
  <2>3. ASSUME NEW o \in OffersOn(s), o[1] # c
        PROVE  o \in OffersOn(s)'
    <3>1. PICK a \in BidIds : PendingOn(bid[a], s) /\ o = <<bid[a].capitan, bid[a].price>>
      BY AnOffer
    <3>2. a # b
      BY <2>3, <3>1 DEF PendingOn
    <3> QED
      BY <3>1, <3>2 DEF OffersOn, PendingOn
  <2>4. <<c, p>> \in OffersOn(s)'
    BY DEF OffersOn, PendingOn
  <2> QED
    BY <2>2, <2>3, <2>4
<1>3. ASSUME NEW r \in Shipments, r # s
      PROVE  OffersOn(r)' = OffersOn(r)
  BY <1>3 DEF OffersOn, PendingOn
<1>4. Sale' = Sale /\ Sale[s] # TheAuction!Unlisted
  BY DEF Sale, SaleOf, Exists, TheAuction!Unlisted
<1>5. Offers' = [Offers EXCEPT ![s] = {o \in @ : o[1] # c} \cup {<<c, p>>}]
  <2> HIDE DEF c, p
  <2>1. ASSUME NEW r \in Shipments
        PROVE  Offers'[r] = [Offers EXCEPT ![s] = {o \in @ : o[1] # c} \cup {<<c, p>>}][r]
    BY <1>2, <1>3 DEF Offers
  <2> QED
    BY <2>1 DEF Offers
<1>6. TheAuction!Bid(s, c, p)
  BY <1>4, <1>5 DEF TheAuction!Bid, Sale, Offers
<1> HIDE DEF c, p
<1> QED
  BY <1>1, <1>6 DEF TheAuction!Next

\* The commit of a withdrawal is a Retract.
LEMMA WithdrawnIsRetract ==
    ASSUME IInv, NEW b \in BidIds, bid[b].status = "pending", bid'[b] = Deleted,
           UNCHANGED shipment, \A a \in BidIds \ {b} : bid'[a] = bid[a]
    PROVE  TheAuction!Next
<1>0. PICK s \in Shipments : s = bid[b].shipment
  BY OfferTyped DEF PendingOn
<1> DEFINE o == <<bid[b].capitan, bid[b].price>>
<1>1. PendingOn(bid[b], s) /\ o \in TheAuction!Offer
  BY <1>0, OfferTyped DEF PendingOn, TheAuction!Offer
<1>2. \A r : ~PendingOn(bid'[b], r)
  BY DEF PendingOn, Deleted, NoBid
<1>3. o \in OffersOn(s)
  BY <1>1, AnOffer
<1>4. ASSUME NEW x, x \in OffersOn(s)'
      PROVE  x \in OffersOn(s) \ {o}
  <2>1. PICK a \in BidIds : PendingOn(bid'[a], s) /\ x = <<bid'[a].capitan, bid'[a].price>>
    BY <1>4 DEF OffersOn, PendingOn
  <2>2. a # b /\ PendingOn(bid[a], s) /\ x = <<bid[a].capitan, bid[a].price>>
    BY <1>2, <2>1
  <2>3. bid[a].capitan # bid[b].capitan
    BY <1>1, <2>2, OneOffer
  <2> QED
    BY <2>2, <2>3, AnOffer
<1>5. ASSUME NEW x \in OffersOn(s), x # o
      PROVE  x \in OffersOn(s)'
  <2>1. PICK a \in BidIds : PendingOn(bid[a], s) /\ x = <<bid[a].capitan, bid[a].price>>
    BY AnOffer
  <2> QED
    BY <1>5, <2>1 DEF OffersOn, PendingOn
<1>6. \A r \in Shipments \ {s} : OffersOn(r)' = OffersOn(r)
  BY <1>0, <1>2 DEF OffersOn, PendingOn
<1>7. Offers' = [Offers EXCEPT ![s] = @ \ {o}]
  <2>1. OffersOn(s)' = OffersOn(s) \ {o}
    BY <1>4, <1>5
  <2> HIDE DEF o
  <2>2. ASSUME NEW r \in Shipments
        PROVE  Offers'[r] = [Offers EXCEPT ![s] = @ \ {o}][r]
    BY <1>6, <2>1 DEF Offers
  <2> QED
    BY <2>2 DEF Offers
<1>8. Sale' = Sale
  BY DEF Sale, SaleOf
<1>9. TheAuction!Retract(s, o)
  BY <1>1, <1>3, <1>7, <1>8 DEF TheAuction!Retract, Sale, Offers
<1> HIDE DEF o
<1> QED
  BY <1>1, <1>9 DEF TheAuction!Next

\* The commit of accept_bid is an Award.
LEMMA AcceptedIsAward ==
    ASSUME IInv, NEW t \in Txns, Commit(t), txn[t].op = "accept_bid"
    PROVE  TheAuction!Next
<1>1. PICK s \in Shipments, b \in BidIds :
         /\ shipment[s].status = "pending"
         /\ shipment'[s].status = "accepted"
         /\ shipment'[s].capitan = bid[b].capitan
         /\ shipment'[s].price = bid[b].price
         /\ bid[b].capitan # None
         /\ PendingOn(bid[b], s)
         /\ bid'[b] = [bid[b] EXCEPT !.status = "accepted"]
         /\ \A a \in BidIds \ {b} :
               bid'[a] = bid[a] \/ (/\ PendingOn(bid[a], s)
                                    /\ bid'[a].status = "rejected")
         /\ \A r \in Shipments \ {s} : shipment'[r] = shipment[r]
  BY AwardCommits DEF IInv
<1> DEFINE o == <<bid[b].capitan, bid[b].price>>
           late == OffersOn(s)'
<1>2. o \in TheAuction!Offer
  BY <1>1, OfferTyped DEF TheAuction!Offer, PendingOn
<1>3. shipment[s].capitan = None /\ shipment[s].price = None
  BY <1>1 DEF IInv, AwardInv, AwardConsistent, OfferInv, Priced
<1>4. SaleOf(shipment[s]) = TheAuction!Open
  BY <1>1, <1>3 DEF SaleOf, TheAuction!Open
<1>5. SaleOf(shipment'[s]) = TheAuction!AwardedTo(bid[b].capitan, bid[b].price)
  BY <1>1 DEF SaleOf, TheAuction!AwardedTo
<1>6. bid'[b].status = "accepted"
  BY <1>1 DEF IInv, AwardInv, TypeOK, BidRow
<1>7. ASSUME NEW a \in BidIds, NEW r, PendingOn(bid'[a], r)
      PROVE  a # b /\ bid'[a] = bid[a]
  BY <1>1, <1>6, <1>7 DEF PendingOn
<1>8. late \in SUBSET (OffersOn(s) \ {o})
  <2> SUFFICES ASSUME NEW x, x \in OffersOn(s)'
               PROVE  x \in OffersOn(s) \ {o}
    OBVIOUS
  <2>1. PICK a \in BidIds : PendingOn(bid'[a], s) /\ x = <<bid'[a].capitan, bid'[a].price>>
    BY DEF OffersOn, PendingOn
  <2>2. a # b /\ PendingOn(bid[a], s) /\ x = <<bid[a].capitan, bid[a].price>>
    BY <1>7, <2>1
  <2>3. bid[a].capitan # bid[b].capitan
    BY <1>1, <2>2, OneOffer
  <2> QED
    BY <2>2, <2>3, AnOffer
<1>9. o \in OffersOn(s)
  BY <1>1, AnOffer
<1>10. ASSUME NEW r \in Shipments, r # s
       PROVE  OffersOn(r)' = OffersOn(r)
  <2>1. ASSUME NEW a \in BidIds
        PROVE  /\ PendingOn(bid'[a], r) <=> PendingOn(bid[a], r)
               /\ PendingOn(bid[a], r) => bid'[a] = bid[a]
    <3>1. CASE a = b
      BY <1>1, <1>6, <1>10, <3>1 DEF PendingOn
    <3>2. CASE a # b
      BY <1>1, <1>10, <3>2 DEF PendingOn
    <3> QED
      BY <3>1, <3>2
  <2> QED
    BY <2>1 DEF OffersOn, PendingOn
<1>11. Sale' = [Sale EXCEPT ![s] = TheAuction!AwardedTo(o[1], o[2])]
  <2>1. ASSUME NEW r \in Shipments
        PROVE  Sale'[r] = [Sale EXCEPT ![s] = TheAuction!AwardedTo(o[1], o[2])][r]
    BY <1>1, <1>5 DEF Sale
  <2> QED
    BY <2>1 DEF Sale
<1>12. Offers' = [Offers EXCEPT ![s] = late]
  <2>1. ASSUME NEW r \in Shipments
        PROVE  Offers'[r] = [Offers EXCEPT ![s] = late][r]
    BY <1>10 DEF Offers
  <2> QED
    BY <2>1 DEF Offers
<1>13. TheAuction!Award(s, o)
  BY <1>4, <1>8, <1>9, <1>11, <1>12 DEF TheAuction!Award, Sale, Offers
<1> HIDE DEF o
<1> QED
  BY <1>2, <1>13 DEF TheAuction!Next

\* The commit of any other operation on a shipment lists or closes it, or
\* does not show.
LEMMA MovedIsSale ==
    ASSUME IInv, IInv', NEW t \in Txns, NEW s \in Shipments,
           ShipmentStep(txn[t], shipment[s], shipment'[s]), txn[t].op # "accept_bid",
           \A r \in Shipments \ {s} : shipment'[r] = shipment[r], UNCHANGED bid
    PROVE  TheAuction!Next \/ UNCHANGED TheAuction!vars
<1>1. Offers' = Offers
  BY DEF Offers, OffersOn, PendingOn
<1>2. ASSUME NEW to, SaleOf(shipment'[s]) = to
      PROVE  Sale' = [Sale EXCEPT ![s] = to]
  <2>1. ASSUME NEW r \in Shipments
        PROVE  Sale'[r] = [Sale EXCEPT ![s] = to][r]
    BY <1>2 DEF Sale
  <2> QED
    BY <2>1 DEF Sale
<1>3. CASE SaleOf(shipment'[s]) = SaleOf(shipment[s])
  <2>1. Sale' = Sale
    BY <1>2, <1>3 DEF Sale
  <2> QED
    BY <1>1, <2>1 DEF TheAuction!vars, Sale, Offers
<1>4. CASE /\ SaleOf(shipment[s]) = TheAuction!Unlisted
           /\ SaleOf(shipment'[s]) = TheAuction!Open
  <2>1. TheAuction!List(s)
    BY <1>1, <1>2, <1>4 DEF TheAuction!List, Sale, Offers
  <2> QED
    BY <2>1 DEF TheAuction!Next
<1>5. CASE /\ SaleOf(shipment[s]) = TheAuction!Open
           /\ SaleOf(shipment'[s]) = TheAuction!Closed
  <2>1. TheAuction!Close(s)
    BY <1>1, <1>2, <1>5 DEF TheAuction!Close, Sale, Offers
  <2> QED
    BY <2>1 DEF TheAuction!Next
<1> QED
  BY <1>3, <1>4, <1>5, SaleMoves

\* The committed shipments and bids implement the auction: every step of the
\* service is one step of it, or does not show.
THEOREM ImplementsAuction == Spec => AuctionSpec
<1>1. Init => TheAuction!Init
  <2> SUFFICES ASSUME Init PROVE TheAuction!Init
    OBVIOUS
  <2>1. Sale = [s \in Shipments |-> TheAuction!Unlisted]
    BY DEF Init, Sale, SaleOf, NoShipment, TheAuction!Unlisted
  <2>2. Offers = [s \in Shipments |-> {}]
    BY DEF Init, Offers, OffersOn, PendingOn, NoBid
  <2> QED
    BY <2>1, <2>2 DEF TheAuction!Init, Sale, Offers
<1>2. IInv /\ IInv' /\ [Next]_vars => [TheAuction!Next]_(TheAuction!vars)
  <2> SUFFICES ASSUME IInv, IInv', [Next]_vars
               PROVE  TheAuction!Next \/ UNCHANGED TheAuction!vars
    OBVIOUS
  <2>1. CASE UNCHANGED <<shipment, bid>>
    <3>1. Sale' = Sale /\ Offers' = Offers
      BY <2>1 DEF Sale, SaleOf, Offers, OffersOn, PendingOn
    <3> QED
      BY <3>1 DEF Sale, Offers, TheAuction!vars
  <2>2. ASSUME NEW t \in Txns, Commit(t)
        PROVE  TheAuction!Next \/ UNCHANGED TheAuction!vars
    <3>1. CASE txn[t].op = "accept_bid"
      BY <2>2, <3>1, AcceptedIsAward
    <3>2. CASE txn[t].op # "accept_bid" /\ UNCHANGED bid
      <4>1. ASSUME NEW s \in Shipments,
                   ShipmentStep(txn[t], shipment[s], shipment'[s]), txn[t].s = s
            PROVE  TheAuction!Next \/ UNCHANGED TheAuction!vars
        <5>1. \A r \in Shipments \ {s} : shipment'[r] = shipment[r]
          BY <2>2, <4>1, Published DEF IInv
        <5> QED
          BY <3>2, <4>1, <5>1, MovedIsSale
      <4>2. CASE \A s \in Shipments : shipment'[s] = shipment[s]
        BY <2>1, <3>2, <4>2 DEF IInv, AwardInv, TypeOK
      <4> QED
        BY <2>2, <4>1, <4>2, Published DEF IInv
    <3>3. ASSUME NEW b \in BidIds, bidLock[b] = t, BidStep(txn[t], b, bid[b], bid'[b]),
                 txn[t].op # "accept_bid"
          PROVE  TheAuction!Next
      <4>1. txn[t].op \in {"place_bid", "withdraw_bid"}
        BY <3>3 DEF BidStep
      <4>2. \A a \in BidIds \ {b} : bid'[a] = bid[a]
        <5>1. t # None
          OBVIOUS
        <5>2. \A a \in BidIds \ {b} : bidLock[a] # t
          BY <3>3, <5>1 DEF IInv, OfferInv, OneWrite
        <5> QED
          BY <2>2, <5>2, Published DEF IInv
      <4>3. UNCHANGED shipment
        <5>1. \A s \in Shipments : ~ShipmentStep(txn[t], shipment[s], shipment'[s])
          BY <4>1 DEF ShipmentStep, Marks
        <5>2. \A s \in Shipments : shipment'[s] = shipment[s]
          BY <2>2, <5>1, Published DEF IInv
        <5> QED
          BY <5>2 DEF IInv, AwardInv, TypeOK
      <4>4. CASE bid[b].status = "pending" /\ bid'[b] = Deleted
        BY <4>2, <4>3, <4>4, WithdrawnIsRetract
      <4>5. CASE /\ txn[t].op = "place_bid"
                 /\ \/ /\ PendingOn(bid[b], txn[t].s) /\ bid[b].capitan = txn[t].capitan
                       /\ bid'[b] = [bid[b] EXCEPT !.price = txn[t].price]
                    \/ bid[b] = NoBid /\ bid'[b] = NewBid(txn[t])
        <5>1. txn[t].s \in Shipments /\ Exists(txn[t].s)
          BY <4>5 DEF IInv, AwardInv, TypeOK, SlotShape, Slot, OfferInv, PlaceBidsListed
        <5>2. PendingOn(bid'[b], txn[t].s)
          BY <4>5 DEF IInv, AwardInv, TypeOK, BidRow, PendingOn, NewBid
        <5>3. \/ ~ \E r \in Shipments : PendingOn(bid[b], r)
              \/ PendingOn(bid[b], txn[t].s) /\ bid[b].capitan = bid'[b].capitan
          BY <4>5 DEF IInv, AwardInv, TypeOK, BidRow, PendingOn, NoBid
        <5> QED
          BY <4>2, <4>3, <5>1, <5>2, <5>3, PlacedIsBid
      <4> QED
        BY <3>3, <4>4, <4>5 DEF BidStep
    <3>4. CASE txn[t].op # "accept_bid" /\ \A b \in BidIds : bid'[b] = bid[b]
      <4>1. UNCHANGED bid
        BY <3>4 DEF IInv, AwardInv, TypeOK
      <4> QED
        BY <3>2, <3>4, <4>1
    <3> QED
      BY <2>2, <3>1, <3>3, <3>4, Published DEF IInv
  <2> QED
    BY <2>1, <2>2, OnlyCommitPublishes DEF IInv
<1> QED
  BY <1>1, <1>2, Inductive, PTL DEF Spec, AuctionSpec, TheAuction!Spec
=============================================================================
