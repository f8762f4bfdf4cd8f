------------------------- MODULE ShipmentEventsProofs -------------------------
(***************************************************************************)
(* Proofs about ShipmentEvents, for every number of shipments, users and   *)
(* streams: the composition runs the service it composes, so what is       *)
(* proved of ShipmentService holds in it; the presence directory lists     *)
(* the streams there are; the API does not push to a user it can stream    *)
(* to; and the screens follow the table.                                   *)
(***************************************************************************)
EXTENDS ShipmentEvents, ShipmentServiceProofs, FiniteSetTheorems

USE ShipmentServiceAssumption, ShipmentEventsAssumption

-----------------------------------------------------------------------------
(* The service within the composition *)

\* A step of the composition is a step of the service, or none of its steps.
LEMMA ServiceStep == [NextEvents]_allVars => [Next]_vars
<1> SUFFICES ASSUME [NextEvents]_allVars PROVE [Next]_vars
  OBVIOUS
<1>1. CASE Serve
  BY <1>1 DEF Serve
<1>2. CASE Work
  BY <1>2 DEF Work, Next, Continue
<1>3. ASSUME NEW q \in Streams, NEW u \in Users, NEW browsing \in BOOLEAN,
             Connect(q, u, browsing)
      PROVE  UNCHANGED vars
  BY <1>3 DEF Connect
<1>4. ASSUME NEW q \in Streams, GetList(q) \/ Send(q)
      PROVE  UNCHANGED vars
  BY <1>4 DEF GetList, Send
<1>5. CASE UNCHANGED allVars
  BY <1>5 DEF allVars
<1> QED
  BY <1>1, <1>2, <1>3, <1>4, <1>5 DEF NextEvents

\* The composition implements the service: a transaction runs among streams as
\* it runs alone.
THEOREM RunsTheService == EventsSpec => Spec
<1>1. InitEvents => Init
  BY DEF InitEvents
<1> QED
  BY <1>1, ServiceStep, PTL DEF EventsSpec, Spec

-----------------------------------------------------------------------------
(* Sets put into mailboxes, and sequences *)

\* A finite set is put into a sequence of its elements, and of nothing else.
LEMMA SetToSeqElements ==
    ASSUME NEW S, IsFiniteSet(S)
    PROVE  /\ ES!SetToSeq(S) \in Seq(S)
           /\ \A e \in S : \E i \in DOMAIN ES!SetToSeq(S) : ES!SetToSeq(S)[i] = e
<1> DEFINE n == Cardinality(S)
           f == ES!SetToSeq(S)
<1>1. n \in Nat /\ ExistsBijection(1..n, S)
  BY FS_CardinalityType
<1>2. PICK g \in [1..n -> S] : IsInjective(g)
  BY <1>1 DEF ExistsBijection, Bijection, Injection
<1>3. f \in [1..n -> S] /\ ES!IsInjective(f)
  <2>1. ES!IsInjective(g)
    BY <1>2 DEF ES!IsInjective, IsInjective
  <2>2. \E h \in [1..n -> S] : ES!IsInjective(h)
    BY <2>1
  <2>3. ES!Cardinality(S) = n
    BY DEF ES!Cardinality, ES!IsFiniteSet, Cardinality, IsFiniteSet
  <2> QED
    BY <2>2, <2>3 DEF ES!SetToSeq
<1>4. f \in Injection(1..n, S)
  BY <1>3 DEF Injection, ES!IsInjective, IsInjective
<1>5. Cardinality(1..n) = n
  BY <1>1, FS_Interval
<1> HIDE DEF f
<1>6. f \in Surjection(1..n, S)
  BY <1>4, <1>5, FS_Injection
<1>7. f \in Seq(S)
  BY <1>1, <1>3
<1>8. \A e \in S : \E i \in DOMAIN f : f[i] = e
  BY <1>3, <1>6 DEF Surjection
<1> QED
  BY <1>7, <1>8 DEF f

\* The message e is in p.
Says(p, e) == \E i \in DOMAIN p : p[i] = e

\* What m shows of s does not change when p, which says nothing of s, follows;
\* if p does, its word is the last.
LEMMA Appended ==
    ASSUME NEW m \in Seq(Event), NEW p \in Seq(Event), NEW shown, NEW s
    PROVE  LET opens == Says(p, <<"new_request", s>>)
               closes == Says(p, <<"request_closed", s>>)
           IN  /\ ClosedAfter(m \o p, 0, s) <=> closes \/ ClosedAfter(m, 0, s)
               /\ ~opens /\ ~closes => (Shows(m \o p, shown, s) <=> Shows(m, shown, s))
               /\ opens /\ ~closes => Shows(m \o p, shown, s)
               /\ closes /\ ~opens => ~Shows(m \o p, shown, s)
<1> DEFINE c == m \o p
           opens == Says(p, <<"new_request", s>>)
           closes == Says(p, <<"request_closed", s>>)
<1>1. /\ DOMAIN m = 1..Len(m) /\ DOMAIN p = 1..Len(p)
      /\ Len(m) \in Nat /\ Len(p) \in Nat
  OBVIOUS
<1>2. /\ DOMAIN c = 1..(Len(m) + Len(p))
      /\ \A i \in 1..Len(m) : c[i] = m[i]
  BY <1>1
<1>3. \A i \in 1..Len(p) : c[Len(m) + i] = p[i]
  BY <1>1
<1>4. \A i \in DOMAIN c : i \in 1..Len(m) \/ \E j \in 1..Len(p) : i = Len(m) + j
  <2>1. ASSUME NEW i \in DOMAIN c, i \notin 1..Len(m)
        PROVE  i - Len(m) \in 1..Len(p) /\ i = Len(m) + (i - Len(m))
    BY <1>1, <1>2, <2>1
  <2> QED
    BY <2>1
<1> HIDE DEF c, opens, closes
<1>5. ASSUME NEW i \in 0..Len(m)
      PROVE  ClosedAfter(c, i, s) <=> closes \/ ClosedAfter(m, i, s)
  <2>1. closes => ClosedAfter(c, i, s)
    <3> SUFFICES ASSUME NEW j \in DOMAIN p, p[j] = <<"request_closed", s>>
                 PROVE  ClosedAfter(c, i, s)
      BY DEF closes, Says
    <3>1. Len(m) + j \in DOMAIN c /\ Len(m) + j > i
      BY <1>1, <1>2
    <3> QED
      BY <1>1, <1>3, <3>1 DEF ClosedAfter
  <2>2. ClosedAfter(m, i, s) => ClosedAfter(c, i, s)
    BY <1>1, <1>2 DEF ClosedAfter
  <2>3. ClosedAfter(c, i, s) => closes \/ ClosedAfter(m, i, s)
    <3> SUFFICES ASSUME NEW j \in DOMAIN c, j > i, c[j] = <<"request_closed", s>>
                 PROVE  closes \/ ClosedAfter(m, i, s)
      BY DEF ClosedAfter
    <3>1. CASE j \in 1..Len(m)
      BY <1>1, <1>2, <3>1 DEF ClosedAfter
    <3>2. CASE \E k \in 1..Len(p) : j = Len(m) + k
      BY <1>1, <1>3, <3>2 DEF closes, Says
    <3> QED
      BY <1>4, <3>1, <3>2
  <2> QED
    BY <2>1, <2>2, <2>3
<1>6. ClosedAfter(c, 0, s) <=> closes \/ ClosedAfter(m, 0, s)
  BY <1>1, <1>5
<1>7. ASSUME ~opens, ~closes
      PROVE  Shows(c, shown, s) <=> Shows(m, shown, s)
  <2>1. \A i \in DOMAIN m : /\ i \in DOMAIN c /\ c[i] = m[i]
                            /\ ClosedAfter(c, i, s) <=> ClosedAfter(m, i, s)
    BY <1>1, <1>2, <1>5, <1>7
  <2>2. \A i \in DOMAIN c : c[i] = <<"new_request", s>> => i \in DOMAIN m
    BY <1>1, <1>3, <1>4, <1>7 DEF opens, Says
  <2> QED
    BY <1>6, <1>7, <2>1, <2>2 DEF Shows
<1>8. ASSUME opens, ~closes
      PROVE  Shows(c, shown, s)
  <2>1. PICK i \in DOMAIN p : p[i] = <<"new_request", s>>
    BY <1>8 DEF opens, Says
  <2>2. Len(m) + i \in DOMAIN c /\ c[Len(m) + i] = <<"new_request", s>>
    BY <1>1, <1>2, <1>3, <2>1
  <2>3. ~ClosedAfter(c, Len(m) + i, s)
    <3> SUFFICES ASSUME NEW j \in DOMAIN c, j > Len(m) + i, c[j] = <<"request_closed", s>>
                 PROVE  FALSE
      BY DEF ClosedAfter
    <3>1. j \notin 1..Len(m)
      BY <1>1, <1>2
    <3>2. PICK k \in 1..Len(p) : j = Len(m) + k
      BY <1>4, <3>1
    <3>3. p[k] = <<"request_closed", s>>
      BY <1>3, <3>2
    <3> QED
      BY <1>1, <1>8, <3>3 DEF closes, Says
  <2> QED
    BY <2>2, <2>3 DEF Shows
<1>9. ASSUME closes, ~opens
      PROVE  ~Shows(c, shown, s)
  <2>1. \A i \in 0..Len(m) : ClosedAfter(c, i, s)
    BY <1>5, <1>9
  <2>2. \A i \in DOMAIN c : c[i] = <<"new_request", s>> => i \in 0..Len(m)
    <3>1. ASSUME NEW k \in 1..Len(p) PROVE c[Len(m) + k] # <<"new_request", s>>
      BY <1>1, <1>3, <1>9 DEF opens, Says
    <3> QED
      BY <1>1, <1>4, <3>1
  <2> QED
    BY <1>1, <2>1, <2>2 DEF Shows
<1> QED
  BY <1>6, <1>7, <1>8, <1>9 DEF c, opens, closes

\* Sending the first message of m moves what it says from the mailbox to the
\* screen.
LEMMA Sent ==
    ASSUME NEW m \in Seq(Event), m # <<>>, NEW shown, NEW s \in Shipments
    PROVE  /\ Shows(Tail(m), Applied(shown, Head(m)), s) <=> Shows(m, shown, s)
           /\ ClosedAfter(Tail(m), 0, s) => ClosedAfter(m, 0, s)
<1> DEFINE r == Tail(m)
           e == Head(m)
<1>1. /\ Len(m) \in Nat \ {0} /\ DOMAIN m = 1..Len(m) /\ DOMAIN r = 1..(Len(m) - 1)
      /\ e = m[1] /\ e \in Event
  OBVIOUS
<1>2. \A i \in DOMAIN r : r[i] = m[i + 1]
  OBVIOUS
<1> HIDE DEF r, e
<1>3. \A i \in DOMAIN m : i = 1 \/ (i - 1 \in DOMAIN r /\ r[i - 1] = m[i])
  BY <1>1, <1>2
<1>4. ASSUME NEW i \in 0..(Len(m) - 1)
      PROVE  ClosedAfter(r, i, s) <=> ClosedAfter(m, i + 1, s)
  <2>1. ASSUME NEW j \in DOMAIN r, j > i, r[j] = <<"request_closed", s>>
        PROVE  j + 1 \in DOMAIN m /\ j + 1 > i + 1 /\ m[j + 1] = <<"request_closed", s>>
    BY <1>1, <1>2, <2>1
  <2>2. ASSUME NEW j \in DOMAIN m, j > i + 1, m[j] = <<"request_closed", s>>
        PROVE  j - 1 \in DOMAIN r /\ j - 1 > i /\ r[j - 1] = <<"request_closed", s>>
    BY <1>1, <1>3, <2>2
  <2> QED
    BY <2>1, <2>2 DEF ClosedAfter
<1>5. ClosedAfter(m, 0, s) <=> e = <<"request_closed", s>> \/ ClosedAfter(m, 1, s)
  BY <1>1 DEF ClosedAfter
<1>6. e = <<e[1], e[2]>>
  BY <1>1 DEF Event
<1>7. s \in Applied(shown, e) <=>
         \/ e = <<"new_request", s>>
         \/ s \in shown /\ e # <<"request_closed", s>>
  BY <1>6 DEF Applied
<1>8. (\E i \in DOMAIN m : m[i] = <<"new_request", s>> /\ ~ClosedAfter(m, i, s)) <=>
         \/ e = <<"new_request", s>> /\ ~ClosedAfter(m, 1, s)
         \/ \E i \in DOMAIN r : r[i] = <<"new_request", s>> /\ ~ClosedAfter(r, i, s)
  <2>1. ASSUME NEW i \in DOMAIN m, i # 1, m[i] = <<"new_request", s>>, ~ClosedAfter(m, i, s)
        PROVE  \E k \in DOMAIN r : r[k] = <<"new_request", s>> /\ ~ClosedAfter(r, k, s)
    <3>1. i - 1 \in DOMAIN r /\ r[i - 1] = m[i] /\ i - 1 \in 0..(Len(m) - 1)
      BY <1>1, <1>3, <2>1
    <3>2. ClosedAfter(r, i - 1, s) <=> ClosedAfter(m, (i - 1) + 1, s)
      BY <1>4, <3>1
    <3>3. (i - 1) + 1 = i
      BY <1>1
    <3> QED
      BY <2>1, <3>1, <3>2, <3>3
  <2>2. ASSUME NEW i \in DOMAIN r, r[i] = <<"new_request", s>>, ~ClosedAfter(r, i, s)
        PROVE  /\ i + 1 \in DOMAIN m /\ m[i + 1] = <<"new_request", s>>
               /\ ~ClosedAfter(m, i + 1, s)
    BY <1>1, <1>2, <1>4, <2>2
  <2>3. 1 \in DOMAIN m
    BY <1>1
  <2> QED
    BY <1>1, <2>1, <2>2, <2>3
<1>9. ClosedAfter(r, 0, s) <=> ClosedAfter(m, 1, s)
  BY <1>1, <1>4
<1> QED
  BY <1>5, <1>7, <1>8, <1>9 DEF Shows, r, e
-----------------------------------------------------------------------------
(* What a step of the service sends *)

\* What a step sends is events, and finitely many.
Sendable == note' \subseteq Event /\ IsFiniteSet(note')

\* One event, or none.
LEMMA FewSendable ==
    ASSUME \/ note' = {}
           \/ \E e \in Event : note' = {e}
           \/ \E e, f \in Event : note' = {e, f}
    PROVE  Sendable
<1>1. CASE note' = {}
  BY <1>1, FS_EmptySet DEF Sendable
<1>2. CASE \E e \in Event : note' = {e}
  <2>1. PICK e \in Event : note' = {e}
    BY <1>2
  <2>2. IsFiniteSet({e})
    BY FS_Singleton
  <2> QED
    BY <2>1, <2>2 DEF Sendable
<1>3. CASE \E e, f \in Event : note' = {e, f}
  <2>1. PICK e, f \in Event : note' = {e, f}
    BY <1>3
  <2>2. IsFiniteSet({e} \cup {f})
    BY FS_Singleton, FS_AddElement
  <2>3. {e, f} = {e} \cup {f}
    OBVIOUS
  <2> QED
    BY <2>1, <2>2, <2>3 DEF Sendable
<1> QED
  BY <1>1, <1>2, <1>3

\* The three kinds of events that name a shipment or a bid.
LEMMA Events ==
    /\ \A b \in BidIds : /\ <<"new_bid", b>> \in Event /\ <<"bid_accepted", b>> \in Event
                         /\ <<"bid_rejected", b>> \in Event
    /\ \A s \in Shipments : /\ <<"new_request", s>> \in Event
                            /\ <<"request_closed", s>> \in Event
                            /\ <<"shipment_expired", s>> \in Event
                            /\ \A op \in Marks : <<Mark[op].to, s>> \in Event
  BY DEF Event, FeedEvents

\* Every answer sends events.
LEMMA EveryStepSends ==
    ASSUME AwardInv, Next
    PROVE  Sendable
<1>t. \A t \in Txns : /\ txn[t].s \in Shipments \cup {None}
                      /\ txn[t].b \in BidIds \cup {None}
                      /\ txn[t].pc # "idle" => txn[t].s \in Shipments
                      /\ txn[t].pc = "reject" => txn[t].b \in BidIds
                      /\ txn[t].pc = "mark" => txn[t].op \in Marks
  BY DEF AwardInv, TypeOK, SlotShape, Slot
<1>1. ASSUME NEW t \in Txns, NEW s \in Shipments,
             \/ Create(t, s) \/ Cancel(t, s) \/ Expire(t, s)
             \/ \E u \in Users : CancelBySender(t, s, u)
      PROVE  Sendable
  BY <1>1, Events, FewSendable
     DEF Create, Cancel, CancelBySender, CancelWhere, Refuse, Expire, Quiet, Answer
<1>2. ASSUME NEW t \in Txns, NEW s \in Shipments, NEW c \in Captains,
             \/ \E p \in Prices : PlaceBidRead(t, s, c, p)
             \/ \E b \in BidIds : WithdrawBid(t, s, b, c)
             \/ \E op \in Marks, code \in {"right", "wrong"} :
                   MarkRead(t, s, c, op, code)
      PROVE  Sendable
  BY <1>2, FewSendable DEF PlaceBidRead, WithdrawBid, MarkRead, Refuse, Quiet, Answer
<1>3. ASSUME NEW t \in Txns, NEW s \in Shipments, NEW b \in BidIds, NEW u \in Users,
             AcceptBid(t, s, b, u)
      PROVE  Sendable
  BY <1>3, FewSendable DEF AcceptBid, Refuse, Quiet
<1>4. ASSUME NEW t \in Txns,
             PlaceBidUpsert(t) \/ AcceptBidGate(t) \/ AcceptShipmentGate(t)
      PROVE  Sendable
  <2>1. CASE PlaceBidUpsert(t)
    <3>1. note' = {} \/ \E b \in BidIds : note' = {<<"new_bid", b>>}
      BY <2>1 DEF PlaceBidUpsert, Fail, Answer, KeyRows
    <3> QED
      BY <3>1, Events, FewSendable
  <2>2. CASE AcceptBidGate(t) \/ AcceptShipmentGate(t)
    BY <2>2, FewSendable DEF AcceptBidGate, AcceptShipmentGate, Fail, Quiet
  <2> QED
    BY <1>4, <2>1, <2>2
<1>5. ASSUME NEW t \in Txns,
             \/ RejectSiblings(t) \/ (\E b \in BidIds : RejectOne(t, b))
             \/ Abort(t) \/ DeadlockVictim(t) \/ Commit(t)
      PROVE  Sendable
  BY <1>5, FewSendable DEF RejectSiblings, RejectOne, Abort, DeadlockVictim, Commit, Fail, Quiet
<1>6. ASSUME NEW t \in Txns, MarkWrite(t) \/ ExpireNotify(t)
      PROVE  Sendable
  <2>1. CASE MarkWrite(t)
    <3>1. note' = {<<Mark[txn[t].op].to, txn[t].s>>} /\ txn[t].pc = "mark"
      BY <2>1 DEF MarkWrite, Answer
    <3> QED
      BY <1>t, <3>1, Events, FewSendable
  <2>2. CASE ExpireNotify(t)
    <3>1. /\ note' = {<<"shipment_expired", txn[t].s>>, <<"request_closed", txn[t].s>>}
          /\ txn[t].pc = "notify"
      BY <2>2 DEF ExpireNotify
    <3> QED
      BY <1>t, <3>1, Events, FewSendable
  <2> QED
    BY <1>6, <2>1, <2>2
<1>7. ASSUME NEW t \in Txns, AcceptAnswer(t)
      PROVE  Sendable
  <2> DEFINE award == {<<"bid_accepted", txn[t].b>>, <<"request_closed", txn[t].s>>}
             losses == {<<"bid_rejected", b>> : b \in Losers(t)}
  <2>1. note' = award \cup losses /\ txn[t].s \in Shipments /\ txn[t].b \in BidIds
    BY <1>t, <1>7 DEF AcceptAnswer, Answer
  <2>2. IsFiniteSet(Losers(t)) /\ Losers(t) \subseteq BidIds
    BY FS_Subset DEF Losers
  <2>3. IsFiniteSet(losses)
    <3> DEFINE f == [b \in Losers(t) |-> <<"bid_rejected", b>>]
    <3>1. f \in Surjection(Losers(t), losses)
      BY DEF Surjection
    <3> HIDE DEF f, losses
    <3> QED
      BY <2>2, <3>1, FS_Surjection
  <2>4. IsFiniteSet(award)
    <3>1. IsFiniteSet({<<"bid_accepted", txn[t].b>>} \cup {<<"request_closed", txn[t].s>>})
      <4>1. IsFiniteSet({<<"bid_accepted", txn[t].b>>})
        BY FS_Singleton
      <4> QED
        BY <4>1, FS_AddElement
    <3>2. award = {<<"bid_accepted", txn[t].b>>} \cup {<<"request_closed", txn[t].s>>}
      OBVIOUS
    <3> QED
      BY <3>1, <3>2
  <2>5. award \cup losses \subseteq Event
    BY <2>1, <2>2, Events
  <2> HIDE DEF award, losses
  <2> QED
    BY <2>1, <2>3, <2>4, <2>5, FS_Union DEF Sendable
<1>8. ASSUME NEW s \in Shipments, Deadline(s)
      PROVE  Sendable
  BY <1>8, FewSendable DEF Deadline, Quiet
<1> QED
  <2> HIDE DEF Sendable
  <2>1. ASSUME NEW t \in Txns, Arrive(t) PROVE Sendable
    BY <1>1, <1>2, <1>3, <2>1 DEF Arrive
  <2>2. ASSUME NEW t \in Txns, Continue(t) PROVE Sendable
    BY <1>4, <1>5, <1>6, <1>7, <2>2 DEF Continue
  <2>3. ASSUME NEW t \in Txns, Arrive(t) \/ Continue(t) \/ Abort(t) PROVE Sendable
    BY <1>5, <2>1, <2>2, <2>3
  <2> QED
    BY <1>1, <1>8, <2>3 DEF Next

\* What goes into a mailbox is what the step has sent to it, and all of it.
LEMMA PutElements ==
    ASSUME Sendable, NEW q \in Streams
    PROVE  /\ ES!Put(q, Direct, Broadcast) \in Seq(Event)
           /\ \A e : e[1] \in FeedEvents =>
                 (Says(ES!Put(q, Direct, Broadcast), e) <=>
                     e \in note' /\ q \in feed /\ conn[q].state # "left")
<1> DEFINE mine == {d[2] : d \in {d \in Direct : d[1] \in ES!Listening(q)}}
                      \cup (IF q \in feed THEN Broadcast ELSE {})
           p == ES!Put(q, Direct, Broadcast)
<1>1. \A d \in Direct : d[2] \in note' /\ d[2][1] \notin FeedEvents
  BY DEF Direct
<1>2. Broadcast = {e \in note' : e[1] \in FeedEvents}
  BY DEF Broadcast
<1>3. /\ mine \subseteq note'
      /\ \A e : e[1] \in FeedEvents => (e \in mine <=> e \in note' /\ q \in feed)
  BY <1>1, <1>2
<1>4. IsFiniteSet(mine) /\ mine \subseteq Event
  BY <1>3, FS_Subset DEF Sendable
<1>5. p = IF conn[q].state = "left" THEN <<>> ELSE ES!SetToSeq(mine)
  BY DEF ES!Put
<1> HIDE DEF mine, p
<1>6. CASE conn[q].state = "left"
  <2>1. p = <<>>
    BY <1>5, <1>6
  <2>2. p \in Seq(Event) /\ \A e : ~Says(p, e)
    BY <2>1 DEF Says
  <2> QED
    BY <1>6, <2>2 DEF p
<1>7. CASE conn[q].state # "left"
  <2>1. p = ES!SetToSeq(mine)
    BY <1>5, <1>7
  <2>2. p \in Seq(mine) /\ \A e \in mine : \E i \in DOMAIN p : p[i] = e
    BY <1>4, <2>1, SetToSeqElements
  <2>3. p \in Seq(Event)
    BY <1>4, <2>2
  <2>4. \A e : Says(p, e) <=> e \in mine
    BY <2>2 DEF Says
  <2> QED
    BY <1>3, <1>7, <2>3, <2>4 DEF p
<1> QED
  BY <1>6, <1>7
-----------------------------------------------------------------------------
(* The presence directory *)

\* The directory is as it should be before anyone has connected.
LEMMA DirectoryInit == InitEvents => DirectoryIsLive
BY DEF InitEvents, ES!InitStreams, DirectoryIsLive, EventsTypeOK, Connection,
       ES!NoConn, ES!ConnState

\* A step that moves no stream leaves it so.
LEMMA DirectoryKept ==
    ASSUME DirectoryIsLive, EventsTypeOK', UNCHANGED <<presence, feed, conn>>
    PROVE  DirectoryIsLive'
BY DEF DirectoryIsLive

\* The stream of q connects for u.
LEMMA DirectoryJoined ==
    ASSUME DirectoryIsLive, NEW q \in Streams, NEW u \in Users,
           NEW browsing \in BOOLEAN, Connect(q, u, browsing)
    PROVE  DirectoryIsLive'
<1>1. /\ conn[q] = ES!NoConn
      /\ presence' = [presence EXCEPT ![u] = @ \cup {q}]
      /\ feed' = IF browsing /\ u \in Captains THEN feed \cup {q} ELSE feed
      /\ conn' = [conn EXCEPT ![q] = [user |-> u, state |-> "accepted"]]
      /\ UNCHANGED <<mailbox, screen, listed, undone>>
      /\ raced' = [raced EXCEPT ![q] = @ \cup {s \in Shipments : Underway(s)}]
  BY DEF Connect, ES!Connect, ES!Join, NoteRaces
<1>2. EventsTypeOK
  BY DEF DirectoryIsLive
<1>3. [user |-> u, state |-> "accepted"] \in Connection
  BY DEF Connection, ES!ConnState
<1>4. EventsTypeOK'
  BY <1>1, <1>2, <1>3 DEF EventsTypeOK
<1>5. \A v \in Users : q \notin presence[v] /\ q \notin feed
  BY <1>1 DEF DirectoryIsLive, ES!NoConn
<1>6. /\ conn'[q] = [user |-> u, state |-> "accepted"]
      /\ \A p \in Streams \ {q} : conn'[p] = conn[p]
      /\ \A v \in Users : presence'[v] = IF v = u THEN presence[u] \cup {q} ELSE presence[v]
  BY <1>1, <1>2 DEF EventsTypeOK
<1>7. \A v \in Users, p \in Streams : p \in presence'[v] => conn'[p].user = v
  BY <1>5, <1>6 DEF DirectoryIsLive
<1>8. \A p \in feed' : p \in presence'[conn'[p].user] /\ conn'[p].user \in Captains
  <2> SUFFICES ASSUME NEW p \in feed'
               PROVE  p \in presence'[conn'[p].user] /\ conn'[p].user \in Captains
    OBVIOUS
  <2>1. CASE p = q
    BY <1>1, <1>5, <1>6, <2>1
  <2>2. CASE p # q
    <3>1. p \in feed /\ p \in Streams
      BY <1>1, <1>2, <2>2 DEF EventsTypeOK
    <3> QED
      BY <1>6, <2>2, <3>1 DEF DirectoryIsLive
  <2> QED
    BY <2>1, <2>2
<1>9. \A p \in Streams : conn'[p].state \in {"accepted", "open", "unheard", "broken"}
                            => p \in presence'[conn'[p].user]
  <2> SUFFICES ASSUME NEW p \in Streams,
                      conn'[p].state \in {"accepted", "open", "unheard", "broken"}
               PROVE  p \in presence'[conn'[p].user]
    OBVIOUS
  <2>1. CASE p = q
    BY <1>6, <2>1
  <2>2. CASE p # q
    <3>1. p \in presence[conn[p].user]
      BY <1>6, <2>2 DEF DirectoryIsLive
    <3>2. conn[p].user \in Users
      BY <1>2, <1>6, <2>2 DEF EventsTypeOK, Connection, ES!NoConn
    <3> QED
      BY <1>6, <2>2, <3>1, <3>2
  <2> QED
    BY <2>1, <2>2
<1>10. \A p \in Streams, v \in Users : conn'[p].state = "closed" => p \notin presence'[v]
  BY <1>6 DEF DirectoryIsLive
<1> QED
  BY <1>4, <1>7, <1>8, <1>9, <1>10 DEF DirectoryIsLive

\* The connection of q moves, and with it, if it is closed, its mailbox goes.
LEMMA DirectoryMoved ==
    ASSUME DirectoryIsLive, NEW q \in Streams,
           ES!Start(q) \/ ES!ClientGone(q) \/ ES!NoticeGone(q),
           UNCHANGED <<appVars, undone>>
    PROVE  DirectoryIsLive'
<1>1. EventsTypeOK
  BY DEF DirectoryIsLive
<1>2. PICK st \in ES!ConnState \ {"none"} :
         /\ conn' = [conn EXCEPT ![q].state = st]
         /\ \/ /\ UNCHANGED <<presence, feed>>
               /\ st \in {"open", "unheard", "broken"}
               /\ conn[q].state \in {"accepted", "open", "unheard"}
            \/ /\ UNCHANGED <<presence, feed>>
               /\ st = "left" /\ conn[q].state = "unheard"
            \/ /\ presence' = [presence EXCEPT ![conn[q].user] = @ \ {q}]
               /\ feed' = feed \ {q}
               /\ st = "closed" /\ conn[q].state = "broken"
         /\ mailbox' = mailbox \/ mailbox' = [mailbox EXCEPT ![q] = <<>>]
  BY DEF ES!Start, ES!ClientGone, ES!NoticeGone, ES!MoveTo, ES!Disconnect,
         ES!directory, ES!ConnState
<1>3. /\ conn[q].user \in Users /\ conn[q] # ES!NoConn
      /\ conn'[q] = [conn[q] EXCEPT !.state = st]
      /\ conn'[q].user = conn[q].user /\ conn'[q].state = st
      /\ \A p \in Streams \ {q} : conn'[p] = conn[p]
  BY <1>1, <1>2 DEF EventsTypeOK, Connection, ES!NoConn
<1>d. /\ presence' = presence \/ presence' = [presence EXCEPT ![conn[q].user] = @ \ {q}]
      /\ feed' = feed \/ feed' = feed \ {q}
      /\ mailbox' = mailbox \/ mailbox' = [mailbox EXCEPT ![q] = <<>>]
  BY <1>2
<1>p. presence \in [Users -> SUBSET Streams] /\ feed \subseteq Streams
  BY <1>1 DEF EventsTypeOK
<1>4. EventsTypeOK'
  <2>1. conn'[q] \in Connection
    BY <1>1, <1>3 DEF EventsTypeOK, Connection, ES!NoConn
  <2>2. conn' \in [Streams -> Connection]
    BY <1>1, <1>2, <1>3, <2>1 DEF EventsTypeOK
  <2>3. mailbox' \in [Streams -> Seq(Event)]
    <3>1. mailbox \in [Streams -> Seq(Event)]
      BY <1>1 DEF EventsTypeOK
    <3>2. [mailbox EXCEPT ![q] = <<>>] \in [Streams -> Seq(Event)]
      BY <3>1
    <3> QED
      BY <1>d, <3>1, <3>2
  <2>4. presence' \in [Users -> SUBSET Streams] /\ feed' \subseteq Streams
    BY <1>d, <1>p
  <2> QED
    BY <1>1, <2>2, <2>3, <2>4 DEF EventsTypeOK, appVars
<1>5. \A p \in Streams : conn'[p].user = conn[p].user
  BY <1>3
<1>6. /\ \A u \in Users : presence'[u] \subseteq presence[u]
      /\ \A u \in Users, p \in Streams \ {q} : p \in presence[u] <=> p \in presence'[u]
      /\ feed' \subseteq feed
  BY <1>3, <1>d, <1>p
<1>7. CASE st = "closed"
  <2>1. \A u \in Users : q \notin presence'[u]
    <3> SUFFICES ASSUME NEW u \in Users, q \in presence'[u] PROVE FALSE
      OBVIOUS
    <3>1. u = conn[q].user
      BY <1>6 DEF DirectoryIsLive
    <3> QED
      BY <1>1, <1>2, <1>7, <3>1 DEF EventsTypeOK
  <2>2. \A p \in feed' : p \in feed /\ p # q /\ p \in Streams
    BY <1>1, <1>2, <1>7 DEF EventsTypeOK
  <2>3. \A p \in feed' : p \in presence'[conn'[p].user] /\ conn'[p].user \in Captains
    <3> SUFFICES ASSUME NEW p \in feed'
                 PROVE  p \in presence'[conn'[p].user] /\ conn'[p].user \in Captains
      OBVIOUS
    <3>1. p \in presence[conn[p].user] /\ conn[p].user \in Captains
      BY <2>2 DEF DirectoryIsLive
    <3> QED
      BY <1>5, <1>6, <2>2, <3>1
  <2>4. ASSUME NEW p \in Streams, conn'[p].state \in {"accepted", "open", "unheard", "broken"}
        PROVE  p \in presence'[conn'[p].user]
    <3>1. p # q /\ conn'[p] = conn[p]
      BY <1>3, <1>7, <2>4
    <3>2. p \in presence[conn[p].user] /\ conn[p].user \in Users
      BY <1>1, <2>4, <3>1 DEF DirectoryIsLive, EventsTypeOK, Connection, ES!NoConn
    <3> QED
      BY <1>6, <3>1, <3>2
  <2>5. ASSUME NEW p \in Streams, NEW u \in Users, conn'[p].state = "closed"
        PROVE  p \notin presence'[u]
    <3>1. CASE p = q
      BY <2>1, <3>1
    <3>2. CASE p # q
      BY <1>3, <1>6, <2>5, <3>2 DEF DirectoryIsLive
    <3> QED
      BY <3>1, <3>2
  <2>6. \A u \in Users, p \in Streams : p \in presence'[u] => conn'[p].user = u
    BY <1>5, <1>6 DEF DirectoryIsLive
  <2> QED
    BY <1>4, <2>3, <2>4, <2>5, <2>6 DEF DirectoryIsLive
<1>8. CASE st # "closed"
  <2>1. /\ UNCHANGED <<presence, feed>>
        /\ conn[q].state \in {"accepted", "open", "unheard", "broken"}
    BY <1>2, <1>8
  <2>2. \A p \in Streams :
           /\ conn'[p].state \in {"accepted", "open", "unheard", "broken"}
                 => conn[p].state \in {"accepted", "open", "unheard", "broken"}
           /\ conn'[p].state = "closed" => conn[p].state = "closed"
    BY <1>3, <1>8, <2>1
  <2>3. feed \subseteq Streams
    BY <1>1 DEF EventsTypeOK
  <2> QED
    BY <1>4, <1>5, <2>1, <2>2, <2>3 DEF DirectoryIsLive
<1> QED
  BY <1>7, <1>8

\* Messages come and go.
LEMMA MailTyped ==
    ASSUME EventsTypeOK, AwardInv, NextEvents,
           UNCHANGED <<presence, feed, conn>>
    PROVE  EventsTypeOK'
<1>1. CASE Serve
  <2>1. Sendable
    BY <1>1, EveryStepSends DEF Serve
  <2>2. mailbox' = [q \in Streams |-> mailbox[q] \o ES!Put(q, Direct, Broadcast)]
    BY <1>1 DEF Serve, ES!Tell
  <2>3. \A q \in Streams : mailbox[q] \o ES!Put(q, Direct, Broadcast) \in Seq(Event)
    <3> SUFFICES ASSUME NEW q \in Streams
                 PROVE  mailbox[q] \o ES!Put(q, Direct, Broadcast) \in Seq(Event)
      OBVIOUS
    <3>1. mailbox[q] \in Seq(Event)
      BY DEF EventsTypeOK
    <3> QED
      BY <2>1, <3>1, PutElements
  <2>4. undone' \subseteq Shipments
    BY <1>1 DEF Serve, EventsTypeOK
  <2> QED
    BY <1>1, <2>2, <2>3, <2>4 DEF EventsTypeOK, Serve, appVars
<1>2. CASE Work
  BY <1>2 DEF Work, ES!TellFromWorker, appVars, EventsTypeOK
<1>3. ASSUME NEW q \in Streams, GetList(q)
      PROVE  EventsTypeOK'
  <2>1. OpenList \subseteq Shipments
    BY DEF OpenList
  <2> QED
    BY <1>3, <2>1 DEF GetList, NoteRaces, EventsTypeOK
<1>4. ASSUME NEW q \in Streams, Send(q)
      PROVE  EventsTypeOK'
  <2>1. /\ mailbox[q] \in Seq(Event) /\ mailbox[q] # <<>>
        /\ mailbox' = [mailbox EXCEPT ![q] = Tail(@)]
    BY <1>4 DEF EventsTypeOK, Send, ES!Send
  <2>2. Tail(mailbox[q]) \in Seq(Event) /\ Head(mailbox[q]) \in Event
    BY <2>1
  <2>3. Applied(screen[q], Head(mailbox[q])) \subseteq Shipments
    <3> DEFINE e == Head(mailbox[q])
    <3>1. screen[q] \subseteq Shipments
      BY DEF EventsTypeOK
    <3>2. e[1] = "new_request" => e[2] \in Shipments
      BY <2>2 DEF Event
    <3> QED
      BY <3>1, <3>2 DEF Applied
  <2>4. mailbox' \in [Streams -> Seq(Event)]
    BY <2>1, <2>2 DEF EventsTypeOK
  <2>5. screen' \in [Streams -> SUBSET Shipments]
    BY <1>4, <2>3 DEF Send, EventsTypeOK
  <2> QED
    BY <1>4, <2>4, <2>5 DEF Send, EventsTypeOK
<1>5. ASSUME NEW q \in Streams,
             \/ \E u \in Users, browsing \in BOOLEAN : Connect(q, u, browsing)
             \/ ES!Start(q) \/ ES!ClientGone(q) \/ ES!NoticeGone(q)
      PROVE  FALSE
  <2>1. conn[q] \in Connection /\ conn[q]' = conn[q]
    BY DEF EventsTypeOK
  <2>2. ASSUME NEW u \in Users, NEW browsing \in BOOLEAN, Connect(q, u, browsing)
        PROVE  FALSE
    BY <2>2 DEF EventsTypeOK, Connect, ES!Connect, ES!NoConn
  <2>3. ASSUME NEW st, ES!MoveTo(q, st), conn[q].state # st
        PROVE  FALSE
    <3>1. conn'[q] = [conn[q] EXCEPT !.state = st]
      BY <2>3 DEF ES!MoveTo, EventsTypeOK
    <3>2. conn'[q].state = st
      BY <2>1, <3>1 DEF Connection, ES!NoConn
    <3> QED
      BY <2>1, <2>3, <3>2
  <2> QED
    BY <1>5, <2>2, <2>3 DEF ES!Start, ES!ClientGone, ES!NoticeGone
<1> QED
  BY <1>1, <1>2, <1>3, <1>4, <1>5 DEF NextEvents

\* Every step keeps the directory: the connections move one at a time.
LEMMA DirectoryNext ==
    ASSUME AwardInv, DirectoryIsLive, [NextEvents]_allVars
    PROVE  DirectoryIsLive'
<1>1. EventsTypeOK
  BY DEF DirectoryIsLive
<1>2. ASSUME NextEvents, UNCHANGED <<presence, feed, conn>>
      PROVE  DirectoryIsLive'
  BY <1>1, <1>2, MailTyped, DirectoryKept
<1>3. CASE Serve \/ Work
  BY <1>2, <1>3 DEF NextEvents, Serve, Work, ES!Tell, ES!TellFromWorker, ES!directory
<1>4. ASSUME NEW q \in Streams, GetList(q) \/ Send(q)
      PROVE  DirectoryIsLive'
  BY <1>2, <1>4 DEF NextEvents, GetList, Send, ES!Send, ES!directory
<1>5. CASE UNCHANGED allVars
  BY <1>1, <1>5, DirectoryKept DEF allVars, ES!streamVars, appVars, EventsTypeOK
<1> QED
  BY <1>3, <1>4, <1>5, DirectoryJoined, DirectoryMoved DEF NextEvents

\* What the service keeps alone it keeps among streams.
LEMMA AwardInvInEvents == EventsSpec => []AwardInv
BY RunsTheService, AwardInductive, PTL

\* In every state the directory lists exactly the streams that are connected,
\* each under its user, and those left behind before their body was started.
THEOREM DirectoryStaysLive == EventsSpec => []DirectoryIsLive
BY DirectoryInit, DirectoryNext, AwardInvInEvents, PTL DEF EventsSpec

-----------------------------------------------------------------------------
(* Streams before pushes *)

\* No step of the API process defers a push to a user with a stream open,
\* and the worker defers pushes for its one event only.
THEOREM StreamsBeforePushes == EventsSpec => StreamBeforePush
<1>1. ASSUME DirectoryIsLive, NextEvents,
             NEW d \in pushes', NEW q \in Streams,
             conn[q].user = d[1], conn[q].state \in {"accepted", "open"}
      PROVE  d[2][1] = "shipment_expired"
  <2>1. q \in presence[d[1]]
    BY <1>1 DEF DirectoryIsLive
  <2>2. CASE Serve
    BY <1>1, <2>1, <2>2 DEF Serve, ES!Tell
  <2>3. CASE Work
    <3>1. PICK t \in Txns : ExpireNotify(t)
      BY <2>3 DEF Work
    <3>2. d \in Direct
      BY <1>1, <2>3 DEF Work, ES!TellFromWorker
    <3>3. d[2] \in note' /\ d[2][1] \notin FeedEvents
      BY <3>2 DEF Direct
    <3> QED
      BY <3>1, <3>3 DEF ExpireNotify, FeedEvents
  <2>4. CASE pushes' = {}
    BY <1>1, <2>4
  <2> QED
    BY <1>1, <2>2, <2>3, <2>4
       DEF NextEvents, Connect, ES!Connect, GetList, Send, ES!Send,
           ES!Start, ES!ClientGone, ES!NoticeGone
<1>2. DirectoryIsLive /\ [NextEvents]_allVars =>
         [\A d \in pushes', q \in Streams :
             conn[q].user = d[1] /\ conn[q].state \in {"accepted", "open"}
                => d[2][1] = "shipment_expired"]_allVars
  <2> SUFFICES ASSUME DirectoryIsLive, [NextEvents]_allVars, ~UNCHANGED allVars,
                      NEW d \in pushes', NEW q \in Streams,
                      conn[q].user = d[1], conn[q].state \in {"accepted", "open"}
               PROVE  d[2][1] = "shipment_expired"
    OBVIOUS
  <2> QED
    BY <1>1
<1> QED
  BY <1>2, DirectoryStaysLive, PTL DEF EventsSpec, StreamBeforePush
-----------------------------------------------------------------------------
(* How the service moves a shipment, as the feed is told of it *)

Silent(s) == <<"new_request", s>> \notin note' /\ <<"request_closed", s>> \notin note'

\* The step says nothing of s, and does nothing to s it would have to say.
Rests(s) ==
    /\ Silent(s)
    /\ Opening(s)' <=> Opening(s)
    /\ Closing(s)' <=> Closing(s)
    /\ shipment'[s] = shipment[s]

\* s is created, and the feed told, before the commit.
Opens(s) ==
    /\ <<"new_request", s>> \in note' /\ <<"request_closed", s>> \notin note'
    /\ Opening(s)' /\ ~Closing(s)'
    /\ shipment[s].status = "absent" /\ ~Opening(s) /\ ~Closing(s)
    /\ shipment'[s] = shipment[s]

\* s is awarded or cancelled, and the feed told, before the commit.
Closes(s) ==
    /\ <<"new_request", s>> \notin note' /\ <<"request_closed", s>> \in note'
    /\ ~Opening(s)' /\ Closing(s)'
    /\ ~Opening(s)
    /\ shipment'[s] = shipment[s]

\* The transaction that writes s commits.
Settles(s) ==
    /\ Silent(s)
    /\ ~Opening(s)' /\ ~Closing(s)'
    /\ \/ /\ Opening(s) /\ ~Closing(s)
          /\ shipment[s].status = "absent" /\ shipment'[s].status = "pending"
       \/ /\ Closing(s) /\ ~Opening(s)
          /\ shipment'[s].status \notin {"absent", "pending", "expired"}
       \/ /\ ~Opening(s) /\ ~Closing(s)
          /\ shipment[s].status = "pending" /\ shipment'[s].status = "expired"
       \/ /\ ~Opening(s) /\ ~Closing(s)
          /\ shipment[s].status \notin {"absent", "pending", "expired"}
          /\ shipment'[s].status \notin {"absent", "pending", "expired"}

\* It fails after it has told the feed.
Fails(s) == Underway(s) /\ shipmentLock'[s] = None /\ shipment'[s] # shipmentW[s]

Moves(s) == Rests(s) \/ Opens(s) \/ Closes(s) \/ Settles(s) \/ Fails(s)

\* The transaction in slot t has told the feed, and is to commit.
Tells(t) == txn[t].pc = "commit" /\ txn[t].op \in {"create", "accept_bid", "cancel", "cancel_by_sender"}

\* A step of t that says nothing of s, while t neither had told the feed of s
\* nor does it now, is none to the feed.
LEMMA NothingToTell ==
    ASSUME AwardInv, NEW t \in Txns, NEW s \in Shipments,
           \A u \in Txns \ {t} : txn'[u] = txn[u],
           shipment'[s] = shipment[s],
           \/ shipmentLock'[s] = shipmentLock[s]
           \/ shipmentLock[s] \in {None, t} /\ shipmentLock'[s] \in {None, t},
           shipmentLock[s] = t => ~Tells(t),
           shipmentLock'[s] = t => ~Tells(t)',
           Silent(s)
    PROVE  Rests(s)
<1>1. shipmentLock[s] \in Txns \cup {None}
  BY DEF AwardInv, TypeOK
<1>2. t # None
  OBVIOUS
<1>3. CASE shipmentLock'[s] = shipmentLock[s] /\ shipmentLock[s] # t
  BY <1>1, <1>3 DEF Rests, Opening, Closing, Underway
<1>4. CASE shipmentLock[s] \in {None, t} /\ shipmentLock'[s] \in {None, t}
  <2>1. ~Opening(s) /\ ~Closing(s)
    BY <1>4 DEF Opening, Closing, Underway, Tells
  <2>2. ~Opening(s)' /\ ~Closing(s)'
    BY <1>4 DEF Opening, Closing, Underway, Tells
  <2> QED
    BY <2>1, <2>2 DEF Rests
<1> QED
  BY <1>1, <1>3, <1>4

\* A step of t that takes no shipment, and is not an end of t.
LEMMA TakesNothing ==
    ASSUME AwardInv, NEW t \in Txns, NEW s \in Shipments,
           \A u \in Txns \ {t} : txn'[u] = txn[u],
           UNCHANGED <<shipment, shipmentLock>>,
           ~Tells(t), ~Tells(t)' \/ shipmentLock[s] # t,
           Silent(s)
    PROVE  Rests(s)
BY NothingToTell

\* A rollback leaves a shipment at rest, or fails what had been told of it.
LEMMA RollbackMoves ==
    ASSUME AwardInv, NEW t \in Txns, NEW s \in Shipments, Rollback(t), note' = {}
    PROVE  Rests(s) \/ Fails(s)
<1>1. /\ shipment'[s] = shipment[s]
      /\ shipmentLock'[s] = IF shipmentLock[s] = t THEN None ELSE shipmentLock[s]
      /\ \A u \in Txns \ {t} : txn'[u] = txn[u]
      /\ txn'[t] = Idle /\ t # None
  BY DEF Rollback, Discard, Release, AwardInv, TypeOK
<1>2. Silent(s) /\ ~Tells(t)'
  BY <1>1 DEF Silent, Tells, Idle
<1>3. CASE shipmentLock[s] = t /\ Tells(t)
  <2>1. ShipmentStep(txn[t], shipment[s], shipmentW[s]) /\ shipment[s] \in ShipmentRow
    BY <1>1, <1>3 DEF AwardInv, LockedShipments, TypeOK
  <2>2. shipmentW[s].status # shipment[s].status
    BY <1>3, <2>1 DEF ShipmentStep, Tells, Awarded, Cancelled, NoShipment, ShipmentRow,
                      Terminal, Marks
  <2> QED
    BY <1>1, <1>3, <2>2 DEF Fails, Underway, Tells
<1>4. CASE shipmentLock[s] # t \/ ~Tells(t)
  BY <1>1, <1>2, <1>4, NothingToTell
<1> QED
  BY <1>3, <1>4

\* So does a request that is answered with an error.
LEMMA FailMoves ==
    ASSUME AwardInv, NEW t \in Txns, NEW s \in Shipments, NEW code, Fail(t, code)
    PROVE  Rests(s) \/ Fails(s)
BY FailIsRollback, RollbackMoves DEF Fail

\* A commit settles the shipment its transaction holds.
LEMMA CommitMoves ==
    ASSUME AwardInv, NEW t \in Txns, NEW s \in Shipments, Commit(t)
    PROVE  Moves(s)
<1>1. /\ \A u \in Txns \ {t} : txn'[u] = txn[u]
      /\ note' = {} /\ t # None /\ txn[t].pc = "commit"
  BY DEF Commit, Proceed, Quiet, AwardInv, TypeOK
<1>2. Silent(s)
  BY <1>1 DEF Silent
<1>3. CASE shipmentLock[s] # t
  <2>1. shipment'[s] = shipment[s] /\ shipmentLock'[s] = shipmentLock[s]
    BY <1>3, Published
  <2> QED
    BY <1>1, <1>2, <1>3, <2>1, NothingToTell DEF Moves
<1>4. CASE shipmentLock[s] = t
  <2>1. /\ shipmentLock'[s] = None
        /\ ShipmentStep(txn[t], shipment[s], shipment'[s])
        /\ shipment[s] \in ShipmentRow
    BY <1>1, <1>4, Published DEF AwardInv, TypeOK
  <2>2. ~Opening(s)' /\ ~Closing(s)'
    BY <2>1 DEF Opening, Closing, Underway
  <2>3. /\ Opening(s) <=> txn[t].op = "create"
        /\ Closing(s) <=> txn[t].op \in {"accept_bid", "cancel", "cancel_by_sender"}
    BY <1>1, <1>4 DEF Opening, Closing, Underway
  <2>4. CASE txn[t].op = "create"
    <3>1. shipment[s].status = "absent" /\ shipment'[s].status = "pending"
      BY <2>1, <2>4 DEF ShipmentStep, NoShipment, Marks
    <3> QED
      BY <1>2, <2>2, <2>3, <2>4, <3>1 DEF Moves, Settles
  <2>5. CASE txn[t].op \in {"accept_bid", "cancel", "cancel_by_sender"}
    <3>1. shipment'[s].status \in {"accepted", "cancelled"}
      BY <2>1, <2>5 DEF ShipmentStep, Awarded, Cancelled, ShipmentRow, Marks
    <3> QED
      BY <1>2, <2>2, <2>3, <2>5, <3>1 DEF Moves, Settles
  <2>6. CASE txn[t].op = "expire"
    <3>1. shipment[s].status = "pending" /\ shipment'[s].status = "expired"
      BY <2>1, <2>6 DEF ShipmentStep, ShipmentRow, Marks
    <3> QED
      BY <1>2, <2>2, <2>3, <2>6, <3>1 DEF Moves, Settles
  <2>7. CASE txn[t].op \in Marks
    <3>1. shipment[s].capitan # None /\ shipment'[s] = Marked(shipment[s], txn[t].op)
      BY <2>1, <2>7 DEF ShipmentStep, Marks
    <3>2. shipment[s].status \notin {"absent", "pending", "expired"}
      BY <3>1 DEF AwardInv, AwardConsistent
    <3>3. shipment'[s].status \notin {"absent", "pending", "expired"}
      BY <2>1, <2>7, <3>1 DEF Marked, Mark, Marks, ShipmentRow
    <3>4. txn[t].op \notin {"create", "accept_bid", "cancel", "cancel_by_sender"}
      BY <2>7 DEF Marks
    <3> QED
      BY <1>2, <2>2, <2>3, <3>2, <3>3, <3>4 DEF Moves, Settles
  <2> QED
    BY <2>1, <2>4, <2>5, <2>6, <2>7 DEF ShipmentStep
<1> QED
  BY <1>3, <1>4

\* A transaction tells the feed of s as it takes s, and before it commits.
LEMMA OpensOrCloses ==
    ASSUME AwardInv, NEW t \in Txns, NEW x \in Shipments, NEW s \in Shipments,
           \/ Create(t, x)
           \/ CancelWhere(t, x, "cancel", Exists(x))
           \/ CancelWhere(t, x, "cancel_by_sender", Exists(x))
    PROVE  Moves(s)
<1>1. /\ txn \in [Txns -> Slot] /\ shipmentLock \in [Shipments -> Txns \cup {None}]
      /\ t # None /\ txn[t].pc = "idle"
  BY DEF AwardInv, TypeOK, Create, CancelWhere, Begin, Idle
<1>2. /\ shipmentLock[x] = None /\ shipmentLock' = [shipmentLock EXCEPT ![x] = t]
      /\ UNCHANGED shipment
  BY DEF Create, CancelWhere, WriteShipment
<1>3. CASE s # x
  <2>1. shipmentLock'[s] = shipmentLock[s] /\ shipmentLock[s] # t
    BY <1>1, <1>2, <1>3, HoldsNothing
  <2>2. Silent(s)
    BY <1>3 DEF Create, CancelWhere, Answer, Silent
  <2>3. \A u \in Txns \ {t} : txn'[u] = txn[u]
    BY <1>1 DEF Create, CancelWhere, Begin
  <2> QED
    BY <1>2, <2>1, <2>2, <2>3, NothingToTell DEF Moves
<1>4. CASE s = x
  <2>1. ~Opening(s) /\ ~Closing(s) /\ shipmentLock'[s] = t /\ shipment'[s] = shipment[s]
    BY <1>1, <1>2, <1>4 DEF Opening, Closing, Underway
  <2>2. CASE Create(t, x)
    <3>1. /\ txn'[t].pc = "commit" /\ txn'[t].op = "create"
          /\ note' = {<<"new_request", s>>} /\ shipment[s].status = "absent"
      BY <1>1, <1>4, <2>2 DEF Create, Begin, Answer, Exists, Idle
    <3>2. Opening(s)' /\ ~Closing(s)'
      BY <1>1, <2>1, <3>1 DEF Opening, Closing, Underway
    <3> QED
      BY <2>1, <3>1, <3>2 DEF Moves, Opens
  <2>3. CASE \/ CancelWhere(t, x, "cancel", Exists(x))
             \/ CancelWhere(t, x, "cancel_by_sender", Exists(x))
    <3>0. PICK op \in {"cancel", "cancel_by_sender"} : CancelWhere(t, x, op, Exists(x))
      BY <2>3
    <3>1. /\ txn'[t].pc = "commit" /\ txn'[t].op = op
          /\ note' = {<<"request_closed", s>>}
      BY <1>1, <1>4, <3>0 DEF CancelWhere, Begin, Answer, Idle
    <3>2. ~Opening(s)' /\ Closing(s)'
      BY <1>1, <2>1, <3>1 DEF Opening, Closing, Underway
    <3> QED
      BY <2>1, <3>1, <3>2 DEF Moves, Closes
  <2> QED
    BY <2>2, <2>3
<1> QED
  BY <1>3, <1>4

\* The answer of accept_bid closes its shipment.
LEMMA AnswerMoves ==
    ASSUME AwardInv, NEW t \in Txns, NEW s \in Shipments, AcceptAnswer(t)
    PROVE  Moves(s)
<1>1. /\ txn \in [Txns -> Slot] /\ txn[t].pc = "reject" /\ txn[t].op = "accept_bid"
      /\ t # None
  BY DEF AcceptAnswer, AwardInv, TypeOK, SlotShape
<1>2. /\ shipmentLock[txn[t].s] = t
      /\ \A x \in Shipments : shipmentLock[x] = t => txn[t].s = x
  BY <1>1 DEF AwardInv, AcceptHolds, HoldsShipment, LockedShipments
<1>3. /\ UNCHANGED <<shipment, shipmentLock>>
      /\ txn'[t] = [txn[t] EXCEPT !.pc = "commit"]
      /\ \A u \in Txns \ {t} : txn'[u] = txn[u]
  BY <1>1 DEF AcceptAnswer, Proceed, tables
<1>4. /\ <<"new_request", s>> \notin note'
      /\ <<"request_closed", s>> \in note' <=> s = txn[t].s
  BY DEF AcceptAnswer, Answer
<1>5. CASE s # txn[t].s
  <2>1. Silent(s) /\ shipmentLock[s] # t /\ ~Tells(t)
    BY <1>1, <1>2, <1>4, <1>5 DEF Silent, Tells
  <2> QED
    BY <1>3, <2>1, TakesNothing DEF Moves
<1>6. CASE s = txn[t].s
  <2>1. txn[t] \in Slot
    BY <1>1
  <2>2. txn'[t].pc = "commit" /\ txn'[t].op = "accept_bid"
    BY <1>1, <1>3, <2>1 DEF Slot
  <2>3. ~Opening(s) /\ ~Closing(s)
    BY <1>1, <1>2, <1>6 DEF Opening, Closing, Underway
  <2>4. ~Opening(s)' /\ Closing(s)'
    BY <1>1, <1>2, <1>3, <1>6, <2>2 DEF Opening, Closing, Underway
  <2> QED
    BY <1>3, <1>4, <1>6, <2>3, <2>4 DEF Moves, Closes
<1> QED
  BY <1>5, <1>6

\* Every step of the service in the API process moves every shipment so.
LEMMA EveryShipmentMoves ==
    ASSUME AwardInv, Next, NEW s \in Shipments,
           \A x \in Shipments : <<"shipment_expired", x>> \notin note'
    PROVE  Moves(s)
<1>1. txn \in [Txns -> Slot] /\ shipmentLock \in [Shipments -> Txns \cup {None}]
  BY DEF AwardInv, TypeOK
<1>i. \A t \in Txns : txn[t] = Idle => txn[t].pc = "idle"
  BY DEF Idle
<1>f. ASSUME NEW t \in Txns, NEW code, Fail(t, code)
      PROVE  Moves(s)
  BY <1>f, FailMoves DEF Moves
<1>r. ASSUME UNCHANGED <<tables, txn>>, note' = {}
      PROVE  Moves(s)
  BY <1>r DEF tables, Moves, Rests, Opening, Closing, Underway, Silent
\* What t does holding no shipment, or before it answers.
<1>q. ASSUME NEW t \in Txns, \A u \in Txns \ {t} : txn'[u] = txn[u],
             UNCHANGED <<shipment, shipmentLock>>, Silent(s),
             \/ txn[t].pc \in {"idle", "upsert", "bid_gate", "mark", "notify"}
             \/ txn[t].pc # "commit" /\ txn'[t].pc # "commit"
      PROVE  Moves(s)
  <2>1. ~Tells(t)
    BY <1>q DEF Tells
  <2>2. ~Tells(t)' \/ shipmentLock[s] # t
    BY <1>q, HoldsNothing DEF Tells
  <2> QED
    BY <1>q, <2>1, <2>2, TakesNothing DEF Moves
<1>2. ASSUME NEW t \in Txns, NEW x \in Shipments, Create(t, x)
      PROVE  Moves(s)
  BY <1>2, OpensOrCloses
<1>3. ASSUME NEW t \in Txns, NEW x \in Shipments, NEW u \in Users,
             Cancel(t, x) \/ CancelBySender(t, x, u)
      PROVE  Moves(s)
  <2>1. CASE Cancel(t, x)
    <3>1. \/ CancelWhere(t, x, "cancel", Exists(x))
          \/ \E code : Refuse("cancel", code)
      BY <2>1 DEF Cancel, CancelWhere
    <3> QED
      BY <1>r, <3>1, OpensOrCloses DEF Refuse
  <2>2. CASE CancelBySender(t, x, u)
    <3>1. \/ CancelWhere(t, x, "cancel_by_sender", Exists(x))
          \/ \E code : Refuse("cancel_by_sender", code)
      BY <2>2 DEF CancelBySender, CancelWhere, Exists
    <3> QED
      BY <1>r, <3>1, OpensOrCloses DEF Refuse
  <2> QED
    BY <1>3, <2>1, <2>2
<1>4. ASSUME NEW t \in Txns, NEW x \in Shipments, Expire(t, x)
      PROVE  Moves(s)
  <2>1. CASE UNCHANGED <<tables, txn>>
    BY <1>4, <1>r, <2>1 DEF Expire, Quiet
  <2>2. CASE /\ Begin(t, [Idle EXCEPT !.op = "expire", !.pc = "commit", !.s = x])
             /\ WriteShipment(t, x, [shipment[x] EXCEPT !.status = "expired"])
             /\ UNCHANGED shipment
    <3>1. /\ txn[t].pc = "idle" /\ txn'[t].op = "expire"
          /\ \A u \in Txns \ {t} : txn'[u] = txn[u]
      BY <1>1, <1>i, <2>2 DEF Begin, Idle
    <3>2. \/ shipmentLock'[s] = shipmentLock[s]
          \/ shipmentLock[s] = None /\ shipmentLock'[s] = t
      BY <1>1, <2>2 DEF WriteShipment
    <3>3. Silent(s) /\ ~Tells(t) /\ ~Tells(t)'
      BY <1>4, <3>1 DEF Expire, Quiet, Silent, Tells
    <3> QED
      BY <2>2, <3>1, <3>2, <3>3, NothingToTell DEF Moves
  <2> QED
    BY <1>4, <2>1, <2>2 DEF Expire
<1>5. ASSUME NEW t \in Txns, NEW x \in Shipments,
             \/ \E c \in Captains :
                   \/ \E p \in Prices : PlaceBidRead(t, x, c, p)
                   \/ \E b \in BidIds : WithdrawBid(t, x, b, c)
                   \/ \E op \in Marks, code \in {"right", "wrong"} :
                         MarkRead(t, x, c, op, code)
             \/ \E b \in BidIds, u \in Users : AcceptBid(t, x, b, u)
      PROVE  Moves(s)
  <2> DEFINE Begun == \/ UNCHANGED <<tables, txn>> /\ note' = {}
                      \/ /\ \E slot : Begin(t, slot)
                         /\ UNCHANGED <<shipment, shipmentLock>> /\ note' = {}
  <2>1. Begun
    <3>1. ASSUME NEW c \in Captains, NEW p \in Prices, PlaceBidRead(t, x, c, p)
          PROVE  Begun
      BY <3>1 DEF PlaceBidRead, Refuse, Quiet, tables
    <3>2. ASSUME NEW c \in Captains, NEW b \in BidIds, WithdrawBid(t, x, b, c)
          PROVE  Begun
      BY <3>2 DEF WithdrawBid, Refuse, Answer, tables
    <3>3. ASSUME NEW c \in Captains, NEW op \in Marks, NEW code \in {"right", "wrong"},
                 MarkRead(t, x, c, op, code)
          PROVE  Begun
      BY <3>3 DEF MarkRead, Refuse, Quiet, tables
    <3>4. ASSUME NEW b \in BidIds, NEW u \in Users, AcceptBid(t, x, b, u)
          PROVE  Begun
      BY <3>4 DEF AcceptBid, Refuse, Quiet, tables
    <3> QED
      BY <1>5, <3>1, <3>2, <3>3, <3>4
  <2>2. CASE /\ \E slot : Begin(t, slot)
             /\ UNCHANGED <<shipment, shipmentLock>> /\ note' = {}
    <3>1. txn[t].pc = "idle" /\ \A u \in Txns \ {t} : txn'[u] = txn[u]
      BY <1>1, <1>i, <2>2 DEF Begin
    <3>2. Silent(s)
      BY <2>2 DEF Silent
    <3> QED
      BY <1>q, <2>2, <3>1, <3>2
  <2> QED
    BY <1>r, <2>1, <2>2
<1>6. ASSUME NEW t \in Txns, PlaceBidUpsert(t) \/ AcceptBidGate(t)
      PROVE  Moves(s)
  <2>1. \/ \E code : Fail(t, code)
        \/ /\ \A u \in Txns \ {t} : txn'[u] = txn[u]
           /\ UNCHANGED <<shipment, shipmentLock>>
           /\ note' = {} \/ \E b : note' = {<<"new_bid", b>>}
    BY <1>1, <1>6 DEF PlaceBidUpsert, AcceptBidGate, Proceed, Answer, Quiet
  <2>2. txn[t].pc \in {"upsert", "bid_gate"}
    BY <1>6 DEF PlaceBidUpsert, AcceptBidGate
  <2>3. (note' = {} \/ \E b : note' = {<<"new_bid", b>>}) => Silent(s)
    BY DEF Silent
  <2> QED
    BY <1>f, <1>q, <2>1, <2>2, <2>3
<1>7. ASSUME NEW t \in Txns, AcceptShipmentGate(t)
      PROVE  Moves(s)
  <2>1. CASE \E code : Fail(t, code)
    BY <1>f, <2>1
  <2>2. CASE /\ \E row : WriteShipment(t, txn[t].s, row)
             /\ Proceed(t, "siblings") /\ Quiet /\ UNCHANGED shipment
    <3>1. /\ \A u \in Txns \ {t} : txn'[u] = txn[u]
          /\ txn'[t].pc = "siblings" /\ txn[t].pc = "shipment_gate"
      <4>1. txn[t] \in Slot
        BY <1>1
      <4> QED
        BY <1>1, <1>7, <2>2, <4>1 DEF Proceed, Slot, AcceptShipmentGate
    <3>2. \/ shipmentLock'[s] = shipmentLock[s]
          \/ shipmentLock[s] = None /\ shipmentLock'[s] = t
      BY <1>1, <2>2 DEF WriteShipment
    <3>3. Silent(s) /\ ~Tells(t) /\ ~Tells(t)'
      BY <2>2, <3>1 DEF Quiet, Silent, Tells
    <3> QED
      BY <2>2, <3>1, <3>2, <3>3, NothingToTell DEF Moves
  <2> QED
    BY <1>7, <2>1, <2>2 DEF AcceptShipmentGate
<1>8. ASSUME NEW t \in Txns, RejectSiblings(t) \/ \E b \in BidIds : RejectOne(t, b)
      PROVE  Moves(s)
  <2>1. txn[t] \in Slot
    BY <1>1
  <2>2. /\ \A u \in Txns \ {t} : txn'[u] = txn[u]
        /\ UNCHANGED <<shipment, shipmentLock>> /\ note' = {}
        /\ txn[t].pc # "commit"
    BY <1>1, <1>8 DEF RejectSiblings, RejectOne, Quiet, tables
  <2>3. txn'[t].pc = "reject"
    <3>1. CASE RejectSiblings(t)
      BY <1>1, <2>1, <3>1 DEF RejectSiblings, Slot
    <3>2. ASSUME NEW b \in BidIds, RejectOne(t, b)
          PROVE  txn'[t].pc = "reject"
      <4>1. txn'[t] = [txn[t] EXCEPT !.todo = @ \ {b}] /\ txn[t].pc = "reject"
        BY <1>1, <3>2 DEF RejectOne
      <4> QED
        BY <2>1, <4>1 DEF Slot
    <3> QED
      BY <1>8, <3>1, <3>2
  <2>4. Silent(s)
    BY <2>2 DEF Silent
  <2> QED
    BY <1>q, <2>2, <2>3, <2>4
<1>9. ASSUME NEW t \in Txns, MarkWrite(t)
      PROVE  Moves(s)
  <2>1. txn[t] \in Slot /\ txn[t].pc = "mark" /\ txn[t].op \in Marks
    BY <1>1, <1>9 DEF MarkWrite, AwardInv, SlotShape
  <2>2. /\ \A u \in Txns \ {t} : txn'[u] = txn[u]
        /\ txn'[t].op = txn[t].op /\ UNCHANGED shipment
    BY <1>1, <1>9, <2>1 DEF MarkWrite, Proceed, Slot
  <2>3. \/ shipmentLock'[s] = shipmentLock[s]
        \/ shipmentLock[s] = None /\ shipmentLock'[s] = t
    BY <1>1, <1>9 DEF MarkWrite, WriteShipment
  <2>4. Mark[txn[t].op].to \in {"picked", "out_for_delivery", "delivered"}
    BY <2>1 DEF Mark, Marks
  <2>5. Silent(s)
    BY <1>9, <2>4 DEF MarkWrite, Answer, Silent
  <2>6. ~Tells(t) /\ ~Tells(t)'
    BY <2>1, <2>2 DEF Tells, Marks
  <2> QED
    BY <2>2, <2>3, <2>5, <2>6, NothingToTell DEF Moves
<1>10. ASSUME NEW t \in Txns, ExpireNotify(t)
       PROVE  FALSE
  BY <1>10 DEF ExpireNotify, AwardInv, TypeOK, SlotShape, Slot
<1>11. ASSUME NEW t \in Txns, Abort(t)
       PROVE  Moves(s)
  BY <1>11, RollbackMoves DEF Abort, Rollback, Quiet, Moves
<1>12. ASSUME NEW x \in Shipments, Deadline(x)
       PROVE  Moves(s)
  BY <1>12, <1>r DEF Deadline, Quiet
<1>13. ASSUME NEW t \in Txns, Arrive(t)
       PROVE  Moves(s)
  BY <1>13, <1>2, <1>3, <1>5 DEF Arrive
<1>14. ASSUME NEW t \in Txns, Continue(t)
       PROVE  Moves(s)
  BY <1>14, <1>6, <1>7, <1>8, <1>9, <1>10, <1>f, AnswerMoves, CommitMoves
     DEF Continue, DeadlockVictim
<1> QED
  BY <1>4, <1>11, <1>12, <1>13, <1>14 DEF Next

\* Nothing goes into a mailbox that is listed nowhere.
LEMMA PutNothing ==
    ASSUME NEW q \in Streams, q \notin feed, \A u \in Users : q \notin presence[u]
    PROVE  ES!Put(q, Direct, Broadcast) = <<>>
<1>1. {d[2] : d \in {d \in Direct : d[1] \in ES!Listening(q)}}
         \cup (IF q \in feed THEN Broadcast ELSE {}) = {}
  BY DEF ES!Listening
<1>2. IsFiniteSet({})
  BY FS_EmptySet
<1>3. ES!SetToSeq({}) = <<>>
  BY <1>2, SetToSeqElements
<1> QED
  BY <1>1, <1>3 DEF ES!Put

-----------------------------------------------------------------------------
(* The screens follow the table *)

\* Only the clock moves the deadline, and it passes once.
LEMMA DueStays ==
    ASSUME AwardInv, Next, NEW s \in Shipments, due[s]
    PROVE  due'[s]
<1>1. ASSUME NEW x \in Shipments, Deadline(x)
      PROVE  due'[s]
  BY <1>1 DEF Deadline, AwardInv, TypeOK
<1>2. ASSUME NEW t \in Txns, NEW x \in Shipments, Expire(t, x)
      PROVE  due'[s]
  BY <1>2 DEF Expire
<1>3. ASSUME NEW t \in Txns, Arrive(t)
      PROVE  due' = due
  <2>1. ASSUME NEW x \in Shipments,
               \/ Create(t, x) \/ Cancel(t, x)
               \/ \E u \in Users : CancelBySender(t, x, u)
               \/ \E b \in BidIds, u \in Users : AcceptBid(t, x, b, u)
        PROVE  due' = due
    BY <2>1 DEF Create, Cancel, CancelBySender, CancelWhere, AcceptBid, Refuse
  <2>2. ASSUME NEW x \in Shipments, NEW c \in Captains,
               \/ \E p \in Prices : PlaceBidRead(t, x, c, p)
               \/ \E b \in BidIds : WithdrawBid(t, x, b, c)
               \/ \E op \in Marks, code \in {"right", "wrong"} :
                     MarkRead(t, x, c, op, code)
        PROVE  due' = due
    BY <2>2 DEF PlaceBidRead, WithdrawBid, MarkRead, Refuse
  <2> QED
    BY <1>3, <2>1, <2>2 DEF Arrive
<1>4. ASSUME NEW t \in Txns, Continue(t) \/ Abort(t)
      PROVE  due' = due
  BY <1>4 DEF Continue, Abort, PlaceBidUpsert, AcceptBidGate, AcceptShipmentGate,
              RejectSiblings, RejectOne, AcceptAnswer, MarkWrite, Commit, ExpireNotify,
              DeadlockVictim, Fail
<1> QED
  BY <1>1, <1>2, <1>3, <1>4 DEF Next

\* What an app is told of s keeps up with every step of the service.
LEMMA ServeFollows ==
    ASSUME AwardInv, EventsTypeOK, Serve, NEW q \in feed, NEW s \in Shipments,
           Reading(q), s \notin undone', UpToDate(q, s)
    PROVE  UpToDate(q, s)'
<1> DEFINE m == mailbox[q]
           p == ES!Put(q, Direct, Broadcast)
           shown == screen[q]
<1>1. q \in Streams /\ m \in Seq(Event) /\ conn[q].state # "left"
  BY DEF EventsTypeOK, Reading
<1>2. Sendable /\ Next
  BY EveryStepSends DEF Serve
<1>3. /\ p \in Seq(Event)
      /\ Says(p, <<"new_request", s>>) <=> <<"new_request", s>> \in note'
      /\ Says(p, <<"request_closed", s>>) <=> <<"request_closed", s>> \in note'
  BY <1>1, <1>2, PutElements DEF FeedEvents
<1>4. mailbox'[q] = m \o p /\ screen' = screen /\ listed' = listed
  BY <1>1 DEF Serve, ES!Tell, appVars
<1>5. Moves(s) /\ ~Fails(s)
  <2>1. ~Fails(s)
    BY DEF Serve, Fails
  <2> QED
    BY <1>2, <2>1, EveryShipmentMoves DEF Serve
<1>6. due[s] => due'[s]
  BY <1>2, DueStays
<1> DEFINE opens == <<"new_request", s>> \in note'
           closes == <<"request_closed", s>> \in note'
           closed == ClosedAfter(m, 0, s)
           closedN == ClosedAfter(m \o p, 0, s)
           shows == Shows(m, shown, s)
           showsN == Shows(m \o p, shown, s)
<1>7. /\ closedN <=> closes \/ closed
      /\ ~opens /\ ~closes => (showsN <=> shows)
      /\ opens /\ ~closes => showsN
      /\ closes /\ ~opens => ~showsN
  BY <1>1, <1>3, Appended
<1>8. /\ s \in Drained(q) <=> shows
      /\ s \in Drained(q)' <=> showsN
      /\ ClosedAfter(mailbox[q], 0, s)' <=> closedN
  BY <1>4 DEF Drained
<1>9. /\ s \in OpenList <=> shipment[s].status = "pending" /\ ~due[s]
      /\ s \in OpenList' <=> shipment'[s].status = "pending" /\ ~due'[s]
  BY DEF OpenList
<1>10. /\ closed => shipment[s].status \notin {"absent", "pending"} \/ Closing(s)
       /\ shows => /\ ~Closing(s)
                   /\ shipment[s].status \in {"pending", "expired"} \/ Opening(s)
       /\ Opening(s) => shows
       /\ q \in listed /\ s \in OpenList /\ ~Closing(s) => shows
  BY <1>8 DEF UpToDate
<1> HIDE DEF opens, closes, closed, closedN, shows, showsN
<1>11. /\ closedN => shipment'[s].status \notin {"absent", "pending"} \/ Closing(s)'
       /\ showsN => /\ ~Closing(s)'
                    /\ shipment'[s].status \in {"pending", "expired"} \/ Opening(s)'
       /\ Opening(s)' => showsN
       /\ q \in listed /\ s \in OpenList' /\ ~Closing(s)' => showsN
  <2>1. CASE Rests(s)
    BY <1>6, <1>7, <1>9, <1>10, <2>1 DEF Rests, Silent, opens, closes
  <2>2. CASE Opens(s)
    BY <1>7, <1>9, <1>10, <2>2 DEF Opens, opens, closes
  <2>3. CASE Closes(s)
    BY <1>7, <1>9, <1>10, <2>3 DEF Closes, opens, closes
  <2>4. CASE Settles(s)
    BY <1>7, <1>9, <1>10, <2>4 DEF Settles, Silent, opens, closes
  <2> QED
    BY <1>5, <2>1, <2>2, <2>3, <2>4 DEF Moves
<1> QED
  BY <1>4, <1>8, <1>11 DEF UpToDate

\* What an app is told stays true when neither the table nor what it is told
\* of s changes.
LEMMA StaysUpToDate ==
    ASSUME NEW q \in Streams, NEW s \in Shipments, UpToDate(q, s),
           UNCHANGED <<shipment, due>>,
           Opening(s)' <=> Opening(s), Closing(s)' <=> Closing(s),
           ClosedAfter(mailbox'[q], 0, s) => ClosedAfter(mailbox[q], 0, s),
           Shows(mailbox'[q], screen'[q], s) <=> Shows(mailbox[q], screen[q], s),
           q \in listed' => q \in listed
    PROVE  UpToDate(q, s)'
<1>1. /\ s \in Drained(q)' <=> s \in Drained(q)
      /\ s \in OpenList' <=> s \in OpenList
  BY DEF Drained, OpenList
<1>2. ClosedAfter(mailbox[q], 0, s)' => ClosedAfter(mailbox[q], 0, s)
  OBVIOUS
<1> QED
  BY <1>1, <1>2 DEF UpToDate

\* The steps of the streams are none of the service.
LEMMA SameTransactions ==
    ASSUME UNCHANGED vars, NEW s \in Shipments
    PROVE  /\ UNCHANGED <<shipment, due>>
           /\ Opening(s)' <=> Opening(s)
           /\ Closing(s)' <=> Closing(s)
BY DEF vars, Opening, Closing, Underway

\* A process that has just started tells nobody anything.
LEMMA FeedInit == InitEvents => FeedInv
BY DEF InitEvents, ES!InitStreams, FeedInv, Unused

\* A step of the API process: every mailbox on the feed gets the events of it.
LEMMA ServeKeeps ==
    ASSUME AwardInv, DirectoryIsLive, FeedInv, Serve
    PROVE  FeedInv'
<1>1. /\ UNCHANGED <<presence, feed, conn, screen, listed, raced>>
      /\ undone \subseteq undone'
      /\ mailbox' = [q \in Streams |-> mailbox[q] \o ES!Put(q, Direct, Broadcast)]
  BY DEF Serve, ES!Tell, ES!directory, appVars
<1>2. EventsTypeOK /\ feed \subseteq Streams
  BY DEF DirectoryIsLive, EventsTypeOK
<1>3. ASSUME NEW q \in Streams, conn[q] = ES!NoConn
      PROVE  mailbox'[q] = <<>>
  <2>1. q \notin feed /\ \A u \in Users : q \notin presence[u]
    BY <1>3 DEF DirectoryIsLive, ES!NoConn
  <2>2. ES!Put(q, Direct, Broadcast) = <<>> /\ mailbox[q] = <<>>
    BY <1>3, <2>1, PutNothing DEF FeedInv, Unused
  <2> QED
    BY <1>1, <2>2
<1>4. Unused'
  BY <1>1, <1>3 DEF FeedInv, Unused
<1>5. ASSUME NEW q \in feed, NEW s \in Shipments,
             Reading(q), s \notin raced[q] \cup undone'
      PROVE  UpToDate(q, s)'
  <2>1. UpToDate(q, s)
    BY <1>1, <1>5 DEF FeedInv
  <2> QED
    BY <1>2, <1>5, <2>1, ServeFollows
<1>6. \A q : Reading(q)' <=> Reading(q)
  BY <1>1 DEF Reading
<1>7. \A q \in listed' : Reading(q)' => q \in feed'
  BY <1>1, <1>6 DEF FeedInv
<1>8. \A q \in feed', s \in Shipments :
         Reading(q)' /\ s \notin raced'[q] \cup undone' => UpToDate(q, s)'
  BY <1>1, <1>5, <1>6
<1> QED
  BY <1>4, <1>7, <1>8 DEF FeedInv

\* The worker, which reaches no mailbox, ends the job of an expired shipment.
LEMMA WorkKeeps ==
    ASSUME AwardInv, DirectoryIsLive, FeedInv, Work
    PROVE  FeedInv'
<1>1. PICK t \in Txns : ExpireNotify(t)
  BY DEF Work
<1>2. UNCHANGED <<presence, feed, conn, mailbox, screen, listed, raced, undone>>
  BY DEF Work, ES!TellFromWorker, ES!directory, appVars
<1>3. /\ UNCHANGED <<shipment, due, shipmentLock>>
      /\ txn \in [Txns -> Slot] /\ txn[t].pc = "notify"
      /\ txn' = [txn EXCEPT ![t] = Idle]
  BY <1>1 DEF ExpireNotify, tables, AwardInv, TypeOK
<1>4. ASSUME NEW s \in Shipments
      PROVE  (Opening(s)' <=> Opening(s)) /\ (Closing(s)' <=> Closing(s))
  <2>1. shipmentLock[s] # t
    BY <1>3, HoldsNothing
  <2> QED
    BY <1>3, <2>1 DEF Opening, Closing, Underway, AwardInv, TypeOK
<1>5. feed \subseteq Streams
  BY DEF DirectoryIsLive, EventsTypeOK
<1>6. \A q : Reading(q)' <=> Reading(q)
  BY <1>2 DEF Reading
<1>7. ASSUME NEW q \in feed, NEW s \in Shipments,
             Reading(q), s \notin raced[q] \cup undone
      PROVE  UpToDate(q, s)'
  <2>1. UpToDate(q, s)
    BY <1>7 DEF FeedInv
  <2> QED
    BY <1>2, <1>3, <1>4, <1>5, <2>1, StaysUpToDate
<1>8. Unused' /\ \A q \in listed' : Reading(q)' => q \in feed'
  BY <1>2, <1>6 DEF FeedInv, Unused
<1> QED
  BY <1>2, <1>6, <1>7, <1>8 DEF FeedInv

\* What holds for q alone after a step that touches the stream of q only.
FollowsAt(q) ==
    /\ conn[q] = ES!NoConn => /\ mailbox[q] = <<>> /\ screen[q] = {}
                              /\ q \notin listed
    /\ q \in listed /\ Reading(q) => q \in feed
    /\ \A s \in Shipments :
          q \in feed /\ Reading(q) /\ s \notin raced[q] \cup undone => UpToDate(q, s)

\* A step of one connection disturbs what is kept of that one only.
LEMMA OneStream ==
    ASSUME DirectoryIsLive, EventsTypeOK', FeedInv, UNCHANGED vars, undone' = undone,
           NEW q \in Streams, FollowsAt(q)',
           \A p \in Streams \ {q} :
              /\ conn'[p] = conn[p] /\ mailbox'[p] = mailbox[p]
              /\ screen'[p] = screen[p] /\ raced'[p] = raced[p]
              /\ p \in feed' <=> p \in feed
              /\ p \in listed' <=> p \in listed
    PROVE  FeedInv'
<1>1. ASSUME NEW p \in Streams \ {q}
      PROVE  FollowsAt(p)'
  <2>1. /\ conn'[p] = conn[p] /\ mailbox'[p] = mailbox[p]
        /\ screen'[p] = screen[p] /\ raced'[p] = raced[p]
        /\ p \in feed' <=> p \in feed
        /\ p \in listed' <=> p \in listed
    OBVIOUS
  <2>2. FollowsAt(p)
    BY DEF FeedInv, Unused, FollowsAt
  <2>3. Reading(p)' <=> Reading(p)
    BY <2>1 DEF Reading
  <2>4. ASSUME NEW s \in Shipments, UpToDate(p, s)
        PROVE  UpToDate(p, s)'
    BY <2>1, <2>4, SameTransactions, StaysUpToDate
  <2> QED
    BY <2>1, <2>2, <2>3, <2>4 DEF FollowsAt
<1>2. \A p \in Streams : FollowsAt(p)'
  BY <1>1
<1>3. listed' \subseteq Streams /\ feed' \subseteq Streams
  BY DEF EventsTypeOK
<1>4. Unused'
  BY <1>2 DEF FollowsAt, Unused
<1>5. \A p \in listed' : Reading(p)' => p \in feed'
  BY <1>2, <1>3 DEF FollowsAt
<1>6. \A p \in feed', s \in Shipments :
         Reading(p)' /\ s \notin raced'[p] \cup undone' => UpToDate(p, s)'
  BY <1>2, <1>3 DEF FollowsAt
<1> QED
  BY <1>4, <1>5, <1>6 DEF FeedInv

\* A stream starts with an empty mailbox and an empty screen, and the
\* transactions under way are noted.
LEMMA ConnectKeeps ==
    ASSUME DirectoryIsLive, EventsTypeOK', FeedInv, NEW q \in Streams,
           NEW u \in Users, NEW browsing \in BOOLEAN, Connect(q, u, browsing)
    PROVE  FeedInv'
<1>1. /\ conn[q] = ES!NoConn /\ conn' = [conn EXCEPT ![q] = [user |-> u, state |-> "accepted"]]
      /\ feed' \subseteq feed \cup {q} /\ feed \subseteq feed'
      /\ UNCHANGED <<vars, mailbox, screen, listed, undone>>
      /\ raced' = [raced EXCEPT ![q] = @ \cup {s \in Shipments : Underway(s)}]
  BY DEF Connect, ES!Connect, ES!Join, NoteRaces
<1>2. EventsTypeOK
  BY DEF DirectoryIsLive
<1>3. mailbox'[q] = <<>> /\ screen'[q] = {} /\ q \notin listed'
  BY <1>1 DEF FeedInv, Unused
<1>4. conn'[q] # ES!NoConn
  BY <1>1, <1>2 DEF EventsTypeOK, ES!NoConn
<1>5. ASSUME NEW s \in Shipments, s \notin raced'[q]
      PROVE  UpToDate(q, s)'
  <2>1. ~Underway(s)
    BY <1>1, <1>2, <1>5 DEF EventsTypeOK
  <2>2. ~Opening(s)' /\ ~Closing(s)'
    BY <1>1, <2>1, SameTransactions DEF Opening, Closing
  <2>3. ~ClosedAfter(mailbox'[q], 0, s) /\ ~Shows(mailbox'[q], screen'[q], s)
    BY <1>3 DEF ClosedAfter, Shows
  <2>4. s \notin Drained(q)'
    BY <2>3 DEF Drained
  <2> QED
    BY <1>3, <2>2, <2>3, <2>4 DEF UpToDate
<1>6. FollowsAt(q)'
  BY <1>3, <1>4, <1>5 DEF FollowsAt
<1>7. \A p \in Streams \ {q} : conn'[p] = conn[p] /\ raced'[p] = raced[p]
  BY <1>1, <1>2 DEF EventsTypeOK
<1> QED
  BY <1>1, <1>6, <1>7, OneStream

\* The list adds the open requests to the screen; those that are being closed
\* are noted.
LEMMA ListKeeps ==
    ASSUME DirectoryIsLive, EventsTypeOK', FeedInv, NEW q \in Streams, GetList(q)
    PROVE  FeedInv'
<1>1. /\ conn[q].state = "open" /\ q \in feed
      /\ UNCHANGED <<vars, presence, feed, mailbox, conn, undone>>
      /\ screen' = [screen EXCEPT ![q] = @ \cup OpenList]
      /\ listed' = listed \cup {q}
      /\ raced' = [raced EXCEPT ![q] = @ \cup {s \in Shipments : Underway(s)}]
  BY DEF GetList, NoteRaces
<1>2. EventsTypeOK
  BY DEF DirectoryIsLive
<1>3. conn'[q] # ES!NoConn /\ Reading(q)
  BY <1>1 DEF ES!NoConn, Reading
<1>4. /\ screen'[q] = screen[q] \cup OpenList
      /\ raced'[q] = raced[q] \cup {s \in Shipments : Underway(s)}
  BY <1>1, <1>2 DEF EventsTypeOK
<1>5. ASSUME NEW s \in Shipments, s \notin raced'[q] \cup undone
      PROVE  UpToDate(q, s)'
  <2>1. ~Underway(s) /\ UpToDate(q, s)
    BY <1>1, <1>3, <1>4, <1>5 DEF FeedInv
  <2>2. ~Opening(s) /\ ~Closing(s) /\ ~Opening(s)' /\ ~Closing(s)'
    BY <1>1, <2>1, SameTransactions DEF Opening, Closing
  <2>3. /\ shipment' = shipment /\ (s \in OpenList' <=> s \in OpenList)
        /\ s \in OpenList => shipment[s].status = "pending"
    BY <1>1, SameTransactions DEF OpenList
  <2>4. s \in Drained(q)' <=> s \in Drained(q) \/ (s \in OpenList /\ ~ClosedAfter(mailbox[q], 0, s))
    BY <1>1, <1>4 DEF Drained, Shows
  <2>5. ClosedAfter(mailbox[q], 0, s)' <=> ClosedAfter(mailbox[q], 0, s)
    BY <1>1
  <2> QED
    BY <2>1, <2>2, <2>3, <2>4, <2>5 DEF UpToDate
<1>6. FollowsAt(q)'
  BY <1>1, <1>3, <1>5 DEF FollowsAt
<1>7. \A p \in Streams \ {q} : screen'[p] = screen[p] /\ raced'[p] = raced[p]
  BY <1>1, <1>2 DEF EventsTypeOK
<1> QED
  BY <1>1, <1>6, <1>7, OneStream

\* A message sent is one the app has, if it is still there.
LEMMA SendKeeps ==
    ASSUME DirectoryIsLive, EventsTypeOK', FeedInv, NEW q \in Streams, Send(q)
    PROVE  FeedInv'
<1>1. /\ conn[q].state \in {"open", "broken"} /\ mailbox[q] # <<>>
      /\ mailbox' = [mailbox EXCEPT ![q] = Tail(@)]
      /\ screen' = IF conn[q].state = "open"
                     THEN [screen EXCEPT ![q] = Applied(@, Head(mailbox[q]))] ELSE screen
      /\ UNCHANGED <<vars, presence, feed, conn, listed, raced, undone>>
  BY DEF Send, ES!Send, ES!directory
<1>2. EventsTypeOK /\ mailbox[q] \in Seq(Event)
  BY DEF DirectoryIsLive, EventsTypeOK
<1>3. conn'[q] # ES!NoConn /\ (Reading(q)' <=> Reading(q))
  BY <1>1 DEF ES!NoConn, Reading
<1>4. ASSUME NEW s \in Shipments, Reading(q), UpToDate(q, s)
      PROVE  UpToDate(q, s)'
  <2>1. /\ mailbox'[q] = Tail(mailbox[q])
        /\ screen'[q] = Applied(screen[q], Head(mailbox[q]))
    BY <1>1, <1>2, <1>4 DEF EventsTypeOK, Reading
  <2>2. /\ Shows(mailbox'[q], screen'[q], s) <=> Shows(mailbox[q], screen[q], s)
        /\ ClosedAfter(mailbox'[q], 0, s) => ClosedAfter(mailbox[q], 0, s)
    BY <1>1, <1>2, <2>1, Sent
  <2> QED
    BY <1>1, <1>4, <2>2, SameTransactions, StaysUpToDate
<1>5. FollowsAt(q)'
  BY <1>1, <1>3, <1>4 DEF FollowsAt, FeedInv
<1>6. \A p \in Streams \ {q} : screen'[p] = screen[p] /\ mailbox'[p] = mailbox[p]
  BY <1>1, <1>2 DEF EventsTypeOK
<1> QED
  BY <1>1, <1>5, <1>6, OneStream

\* A connection that moves starts to be read, or is read no more.
LEMMA ConnectionKeeps ==
    ASSUME DirectoryIsLive, EventsTypeOK', FeedInv, NEW q \in Streams,
           ES!Start(q) \/ ES!ClientGone(q) \/ ES!NoticeGone(q),
           UNCHANGED <<vars, appVars, undone>>
    PROVE  FeedInv'
<1>1. EventsTypeOK
  BY DEF DirectoryIsLive
<1>2. /\ UNCHANGED <<vars, undone>>
      /\ screen' = screen /\ listed' = listed /\ raced' = raced
  BY DEF appVars
<1>3. PICK st \in ES!ConnState \ {"none"} :
         /\ conn' = [conn EXCEPT ![q].state = st]
         /\ \/ /\ UNCHANGED <<feed, mailbox>>
               /\ st = "open" => conn[q].state = "accepted"
            \/ /\ mailbox' = [mailbox EXCEPT ![q] = <<>>]
               /\ feed' \in {feed, feed \ {q}} /\ st \in {"closed", "left"}
         /\ st # "accepted" /\ conn[q].state # "none"
  BY DEF ES!Start, ES!ClientGone, ES!NoticeGone, ES!MoveTo, ES!Disconnect,
         ES!directory, ES!ConnState
<1>4. conn'[q].state = st /\ conn'[q] # ES!NoConn
  BY <1>1, <1>3 DEF EventsTypeOK, Connection, ES!NoConn
<1>5. /\ \A p \in Streams \ {q} : /\ conn'[p] = conn[p] /\ mailbox'[p] = mailbox[p]
                                  /\ p \in feed' <=> p \in feed
  BY <1>1, <1>3 DEF EventsTypeOK
<1>6. FollowsAt(q)'
  <2>1. CASE st # "open"
    <3>1. ~Reading(q)'
      BY <1>3, <1>4, <2>1 DEF Reading
    <3> QED
      BY <1>4, <3>1 DEF FollowsAt
  <2>2. CASE st = "open"
    <3>1. Reading(q) /\ UNCHANGED <<feed, mailbox>>
      BY <1>3, <2>2 DEF Reading
    <3>2. q \in listed => q \in feed
      BY <3>1 DEF FeedInv
    <3>3. ASSUME NEW s \in Shipments, q \in feed, s \notin raced[q] \cup undone
          PROVE  UpToDate(q, s)'
      <4>1. UpToDate(q, s)
        BY <3>1, <3>3 DEF FeedInv
      <4> QED
        BY <1>2, <3>1, <4>1, SameTransactions, StaysUpToDate
    <3> QED
      BY <1>2, <1>4, <3>1, <3>2, <3>3 DEF FollowsAt
  <2> QED
    BY <2>1, <2>2
<1> QED
  BY <1>2, <1>5, <1>6, OneStream

\* Every step of the composition keeps what the apps have been told.
LEMMA FeedNext ==
    ASSUME AwardInv, DirectoryIsLive, DirectoryIsLive', FeedInv, [NextEvents]_allVars
    PROVE  FeedInv'
<1>1. EventsTypeOK'
  BY DEF DirectoryIsLive
<1>2. CASE UNCHANGED allVars
  <2>1. /\ UNCHANGED <<presence, feed, mailbox, conn, screen, listed, raced, undone>>
        /\ UNCHANGED vars
    BY <1>2 DEF allVars, ES!streamVars, appVars
  <2>2. ASSUME NEW q \in Streams, NEW s \in Shipments, UpToDate(q, s)
        PROVE  UpToDate(q, s)'
    BY <2>1, <2>2, SameTransactions, StaysUpToDate
  <2>3. feed \subseteq Streams
    BY DEF DirectoryIsLive, EventsTypeOK
  <2>4. \A q : Reading(q)' <=> Reading(q)
    BY <2>1 DEF Reading
  <2> QED
    BY <2>1, <2>2, <2>3, <2>4 DEF FeedInv, Unused
<1>3. ASSUME NEW q \in Streams, GetList(q) \/ Send(q)
      PROVE  FeedInv'
  BY <1>1, <1>3, ListKeeps, SendKeeps
<1>4. ASSUME NEW q \in Streams, NEW u \in Users, NEW browsing \in BOOLEAN,
             Connect(q, u, browsing)
      PROVE  FeedInv'
  BY <1>1, <1>4, ConnectKeeps
<1>5. ASSUME NEW q \in Streams, ES!Start(q) \/ ES!ClientGone(q) \/ ES!NoticeGone(q),
             UNCHANGED <<vars, appVars, undone>>
      PROVE  FeedInv'
  BY <1>1, <1>5, ConnectionKeeps
<1> QED
  BY <1>2, <1>3, <1>4, <1>5, ServeKeeps, WorkKeeps DEF NextEvents

\* What the composition keeps: the invariants of the service, the directory,
\* and what every app that is connected has been told.
THEOREM EventsInductive == EventsSpec => []EventsIInv
<1>1. EventsSpec => []IInv
  BY RunsTheService, Inductive, PTL
<1>2. EventsSpec => []FeedInv
  BY FeedInit, FeedNext, AwardInvInEvents, DirectoryStaysLive, PTL DEF EventsSpec
<1>3. EventsIInv <=> IInv /\ DirectoryIsLive /\ FeedInv
  BY DEF EventsIInv
<1> QED
  BY <1>1, <1>2, <1>3, DirectoryStaysLive, PTL

\* However events, lists, commits and connections interleave, a captain's app
\* that is connected shows, once its mailbox is sent, every open request, and
\* none that was awarded or cancelled, but for the transactions that raced
\* its list and those that failed after they had told the feed.
THEOREM ScreensFollow == EventsSpec => []ScreenFollows
<1>1. EventsIInv => ScreenFollows
  <2> SUFFICES ASSUME EventsIInv, NEW q \in Streams, NEW s \in Shipments,
                      Browsing(q), Quiescent(s), s \notin raced[q]
               PROVE  /\ s \in OpenList => s \in Drained(q)
                      /\ s \in Drained(q) => shipment[s].status \in {"pending", "expired"}
    BY DEF ScreenFollows
  <2>1. Reading(q) /\ q \in listed /\ s \notin undone
    BY DEF Browsing, Reading, Quiescent
  <2>2. ~Opening(s) /\ ~Closing(s)
    BY DEF Quiescent, Opening, Closing, Underway
  <2>3. UpToDate(q, s)
    BY <2>1 DEF EventsIInv, FeedInv
  <2> QED
    BY <2>1, <2>2, <2>3 DEF UpToDate
<1> QED
  BY <1>1, EventsInductive, PTL
===============================================================================
