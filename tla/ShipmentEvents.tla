--------------------------- MODULE ShipmentEvents ---------------------------
(***************************************************************************)
(* ShipmentService and EventStreams together.  What a step of the service  *)
(* sends (note') goes to the streams in the same step, before its          *)
(* transaction commits.  In the code the events of accept_bid may be some  *)
(* awaits apart, when one of them is pushed; request_closed is the last.   *)
(*                                                                         *)
(* The captains' app is modelled from docs/SHIPMENT.md, "Snapshot and      *)
(* deltas": it opens the stream with feed=requests, GETs the open list     *)
(* once it is connected, and puts the deltas of the stream on top.  The    *)
(* app here forgets nothing: it keeps the deltas that came before the list *)
(* and its GET is answered at once, so what its screen lacks, no app knows.*)
(*                                                                         *)
(* MaxUnread bounds the mailboxes: the service makes no step while one has *)
(* more.  The real queue has no bound.                                     *)
(***************************************************************************)
EXTENDS ShipmentService, Naturals, Sequences, SequencesExt

CONSTANTS
    Streams,
    MaxUnread

\* Bid ids are uuids.
ASSUME ShipmentEventsAssumption == IsFiniteSet(BidIds)

VARIABLES
    presence, feed, mailbox, conn, pushes,   \* EventStreams
    screen,   \* screen[q]: the requests the app behind q shows as open
    listed,   \* the streams whose app has got its list
    raced,    \* raced[q]: requests whose event was out and whose transaction
              \* was not committed when q connected or got its list
    undone    \* requests whose event was out and whose transaction failed

ES == INSTANCE EventStreams

appVars == <<screen, listed, raced>>
allVars == <<vars, ES!streamVars, appVars, undone>>

FeedEvents == {"new_request", "request_closed"}

\* The user a direct event is for; the bid row may be the sender's own write.
Recipient(e) ==
    CASE e[1] \in {"bid_accepted", "bid_rejected"} -> bidW'[e[2]].capitan
      [] e[1] = "new_bid" -> SenderOf[bidW'[e[2]].shipment]
      [] OTHER -> SenderOf[e[2]]

Direct    == {<<Recipient(e), e>> : e \in {e \in note' : e[1] \notin FeedEvents}}
Broadcast == {e \in note' : e[1] \in FeedEvents}

\* Told and not committed.
Underway(s) == shipmentLock[s] # None /\ txn[shipmentLock[s]].pc = "commit"

InitEvents ==
    /\ Init
    /\ ES!InitStreams
    /\ screen = [q \in Streams |-> {}]
    /\ listed = {}
    /\ raced = [q \in Streams |-> {}]
    /\ undone = {}
-----------------------------------------------------------------------------
Room == \A q \in Streams : Len(mailbox[q]) <= MaxUnread

\* A step of the service in the API process.
Serve ==
    /\ Room
    /\ Next
    /\ \A s \in Shipments : <<"shipment_expired", s>> \notin note'
    /\ ES!Tell(Direct, Broadcast)
    /\ undone' = undone \cup {s \in Shipments : /\ Underway(s)
                                                /\ shipmentLock'[s] = None
                                                /\ shipment'[s] # shipmentW[s]}
    /\ UNCHANGED appVars

\* The one step of the worker that sends events.
Work ==
    /\ Room
    /\ \E t \in Txns : ExpireNotify(t)
    /\ ES!TellFromWorker(Direct, Broadcast)
    /\ UNCHANGED <<appVars, undone>>

NoteRaces(q) ==
    raced' = [raced EXCEPT ![q] = @ \cup {s \in Shipments : Underway(s)}]

Connect(q, u, browsing) ==
    /\ ES!Connect(q, u, browsing)
    /\ NoteRaces(q)
    /\ UNCHANGED <<vars, screen, listed, undone>>

\* Mutant: the status is not asked for.
OpenListUnfiltered == {s \in Shipments : Exists(s) /\ ~due[s]}

\* get_open
OpenList == {s \in Shipments : shipment[s].status = "pending" /\ ~due[s]}

GetList(q) ==
    /\ conn[q].state = "open" /\ q \in feed
    /\ q \notin listed
    /\ screen' = [screen EXCEPT ![q] = @ \cup OpenList]
    /\ listed' = listed \cup {q}
    /\ NoteRaces(q)
    /\ pushes' = {}
    /\ UNCHANGED <<vars, presence, feed, mailbox, conn, undone>>

Applied(shown, e) ==
    CASE e[1] = "new_request"    -> shown \cup {e[2]}
      [] e[1] = "request_closed" -> shown \ {e[2]}
      [] OTHER -> shown

Send(q) ==
    /\ ES!Send(q)
    /\ screen' = IF conn[q].state = "open"
                   THEN [screen EXCEPT ![q] = Applied(@, Head(mailbox[q]))]
                   ELSE screen
    /\ UNCHANGED <<vars, listed, raced, undone>>

NextEvents ==
    \/ Serve
    \/ Work
    \/ \E q \in Streams :
          \/ \E u \in Users, browsing \in BOOLEAN : Connect(q, u, browsing)
          \/ GetList(q)
          \/ Send(q)
          \/ (ES!Start(q) \/ ES!ClientGone(q) \/ ES!NoticeGone(q))
                /\ UNCHANGED <<vars, appVars, undone>>

EventsSpec == InitEvents /\ [][NextEvents]_allVars
-----------------------------------------------------------------------------
(* Properties *)

Event == (FeedEvents \cup {"shipment_expired"} \cup {Mark[op].to : op \in Marks}) \X Shipments
            \cup {"new_bid", "bid_accepted", "bid_rejected"} \X BidIds

Connection == {ES!NoConn} \cup [user : Users, state : ES!ConnState \ {"none"}]

EventsTypeOK ==
    /\ presence \in [Users -> SUBSET Streams]
    /\ feed \subseteq Streams
    /\ mailbox \in [Streams -> Seq(Event)]
    /\ conn \in [Streams -> Connection]
    /\ screen \in [Streams -> SUBSET Shipments]
    /\ raced \in [Streams -> SUBSET Shipments]
    /\ listed \subseteq Streams
    /\ undone \subseteq Shipments

\* The directory lists a mailbox under its own user and nobody else, on the
\* feed only for a captain, and, whatever the order in which clients come and
\* go, no longer than its connection, but for one case: a client that left
\* before the body was started leaves its mailbox behind.
DirectoryIsLive ==
    /\ EventsTypeOK
    /\ \A u \in Users, q \in Streams :
          q \in presence[u] => conn[q].user = u
    /\ \A q \in feed : q \in presence[conn[q].user] /\ conn[q].user \in Captains
    /\ \A q \in Streams :
          conn[q].state \in {"accepted", "open", "unheard", "broken"}
             => q \in presence[conn[q].user]
    /\ \A q \in Streams, u \in Users : conn[q].state = "closed" => q \notin presence[u]

\* A message after place i of the mailbox m says that s is closed.
ClosedAfter(m, i, s) == \E j \in DOMAIN m : j > i /\ m[j] = <<"request_closed", s>>

\* An app that shows the requests in shown shows s once it has got all
\* of m: it shows s already or is told of s, and is not told to drop it later.
Shows(m, shown, s) ==
    \/ s \in shown /\ ~ClosedAfter(m, 0, s)
    \/ \E i \in DOMAIN m : m[i] = <<"new_request", s>> /\ ~ClosedAfter(m, i, s)

\* What the screen shows once everything in the mailbox has been sent.
Drained(q) == {s \in Shipments : Shows(mailbox[q], screen[q], s)}

Browsing(q) == conn[q].state = "open" /\ q \in listed

Quiescent(s) == shipmentLock[s] = None /\ s \notin undone

\* No app that is connected and has its list misses an open request, nor
\* keeps one that was closed by anything but the expiry job, unless the
\* transaction was between its event and its commit when the app connected
\* or got the list, or it failed after its event.
ScreenFollows ==
    \A q \in Streams, s \in Shipments :
       Browsing(q) /\ Quiescent(s) /\ s \notin raced[q] =>
          /\ s \in OpenList => s \in Drained(q)
          /\ s \in Drained(q) => shipment[s].status \in {"pending", "expired"}

\* A user with a stream open is not sent a push in its place, however many
\* streams of the user have ended before; only the worker, which knows no
\* streams, pushes to a user who is connected.
StreamBeforePush ==
    [][\A d \in pushes', q \in Streams :
          conn[q].user = d[1] /\ conn[q].state \in {"accepted", "open"}
             => d[2][1] = "shipment_expired"]_allVars
-----------------------------------------------------------------------------
(* The inductive invariant *)

\* The transaction that has told the feed and is to commit opens s, or closes
\* it; marks and the expiry job tell the feed nothing before they commit.
Opening(s) == Underway(s) /\ txn[shipmentLock[s]].op = "create"

Closing(s) == /\ Underway(s)
              /\ txn[shipmentLock[s]].op \in {"accept_bid", "cancel", "cancel_by_sender"}

\* What the app behind q has been told of s agrees with the row of s, or with
\* the row as the transaction under way leaves it.
UpToDate(q, s) ==
    /\ ClosedAfter(mailbox[q], 0, s) =>
          shipment[s].status \notin {"absent", "pending"} \/ Closing(s)
    /\ s \in Drained(q) => /\ ~Closing(s)
                           /\ shipment[s].status \in {"pending", "expired"} \/ Opening(s)
    /\ Opening(s) => s \in Drained(q)
    /\ q \in listed /\ s \in OpenList /\ ~Closing(s) => s \in Drained(q)

Reading(q) == conn[q].state \in {"accepted", "open"}

\* A mailbox nobody has connected yet is as new.
Unused == \A q \in Streams :
             conn[q] = ES!NoConn => /\ mailbox[q] = <<>> /\ screen[q] = {}
                                    /\ q \notin listed

FeedInv ==
    /\ Unused
    /\ \A q \in listed : Reading(q) => q \in feed
    /\ \A q \in feed, s \in Shipments :
          Reading(q) /\ s \notin raced[q] \cup undone => UpToDate(q, s)

EventsIInv == IInv /\ DirectoryIsLive /\ FeedInv
=============================================================================
