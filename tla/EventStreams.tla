---------------------------- MODULE EventStreams ----------------------------
(***************************************************************************)
(* GET /events, the presence directory and notify, as they stand in the    *)
(* memory of the API process.  A stream has a mailbox, the queue the       *)
(* handler makes for it.  The handler registers the mailbox and returns;   *)
(* the generator that empties it, and whose finally clause removes it from *)
(* the directory, first runs when the response body is sent.               *)
(*                                                                         *)
(* The module gives what one step of the system can do to the streams; the *)
(* system that does it is composed in ShipmentEvents.  A heartbeat moves   *)
(* nothing and is left out.                                                *)
(***************************************************************************)
EXTENDS Sequences, SequencesExt

CONSTANTS
    Streams,    \* connections, each made once
    Users,
    Captains,
    None

VARIABLES
    presence,   \* presence[u]: _user_streams of u
    feed,       \* _request_feed
    mailbox,    \* mailbox[q]: what is put and not yet sent
    conn,       \* conn[q]: the connection behind the mailbox
    pushes      \* the send_push jobs the last step deferred: user and event

directory == <<presence, feed>>
streamVars == <<presence, feed, mailbox, conn, pushes>>

\* accepted: the handler has returned, the body is not started.
\* unheard:  the client went away at that point.
\* broken:   the client went away later, the server has not noticed.
\* left:     over, and the mailbox is still in the directory.
ConnState == {"none", "accepted", "open", "unheard", "broken", "closed", "left"}

NoConn == [user |-> None, state |-> "none"]

InitStreams ==
    /\ presence = [u \in Users |-> {}]
    /\ feed = {}
    /\ mailbox = [q \in Streams |-> <<>>]
    /\ conn = [q \in Streams |-> NoConn]
    /\ pushes = {}
-----------------------------------------------------------------------------
(* presence *)

Join(q, u, browsing) ==
    /\ presence' = [presence EXCEPT ![u] = @ \cup {q}]
    /\ feed' = IF browsing /\ u \in Captains THEN feed \cup {q} ELSE feed

\* Mutant: the request feed keeps the mailbox.
DisconnectUser(q) ==
    /\ presence' = [presence EXCEPT ![conn[q].user] = @ \ {q}]
    /\ UNCHANGED feed

\* Mutant: the user's entry goes with the first of its mailboxes.
DisconnectAll(q) ==
    /\ presence' = [presence EXCEPT ![conn[q].user] = {}]
    /\ feed' = feed \ {q}

Disconnect(q) ==
    /\ presence' = [presence EXCEPT ![conn[q].user] = @ \ {q}]
    /\ feed' = feed \ {q}
-----------------------------------------------------------------------------
(* notify and notify_request_feed *)

\* The users q is listed under.
Listening(q) == {u \in Users : q \in presence[u]}

\* What events for users and for the feed put into the mailbox of q.  What
\* comes into a mailbox that is left behind is not kept: nobody reads it.
Put(q, direct, broadcast) ==
    IF conn[q].state = "left" THEN <<>>
      ELSE SetToSeq({d[2] : d \in {d \in direct : d[1] \in Listening(q)}}
                       \cup (IF q \in feed THEN broadcast ELSE {}))

\* The events of one step, sent in the API process.  A user with no mailbox
\* gets a push job, if the job can be deferred; a failure is only logged.
Tell(direct, broadcast) ==
    /\ mailbox' = [q \in Streams |-> mailbox[q] \o Put(q, direct, broadcast)]
    /\ pushes' \in SUBSET {d \in direct : presence[d[1]] = {}}
    /\ UNCHANGED <<directory, conn>>

\* The same in the worker process, whose own directory is always empty.
TellFromWorker(direct, broadcast) ==
    /\ pushes' \in SUBSET direct
    /\ UNCHANGED <<directory, mailbox, conn>>
-----------------------------------------------------------------------------
(* The events route *)

MoveTo(q, state) == conn' = [conn EXCEPT ![q].state = state]

\* The handler, in one go from making the queue to returning the response.
Connect(q, u, browsing) ==
    /\ conn[q] = NoConn
    /\ Join(q, u, browsing)
    /\ conn' = [conn EXCEPT ![q] = [user |-> u, state |-> "accepted"]]
    /\ pushes' = {}
    /\ UNCHANGED mailbox

\* The generator is entered and says ": connected".
Start(q) ==
    /\ \/ conn[q].state = "accepted" /\ MoveTo(q, "open")
       \/ conn[q].state = "unheard" /\ MoveTo(q, "broken")
    /\ pushes' = {}
    /\ UNCHANGED <<directory, mailbox>>

\* queue.get and the yield of the message; to a client that is gone it is
\* written all the same.
Send(q) ==
    /\ conn[q].state \in {"open", "broken"}
    /\ mailbox[q] # <<>>
    /\ mailbox' = [mailbox EXCEPT ![q] = Tail(@)]
    /\ pushes' = {}
    /\ UNCHANGED <<directory, conn>>

ClientGone(q) ==
    /\ \/ conn[q].state = "accepted" /\ MoveTo(q, "unheard")
       \/ conn[q].state = "open" /\ MoveTo(q, "broken")
    /\ pushes' = {}
    /\ UNCHANGED <<directory, mailbox>>

\* The server sees that the client is gone and cancels the generator: finally
\* runs if it was entered, and a generator never entered has nothing to run.
NoticeGone(q) ==
    /\ \/ conn[q].state = "broken" /\ Disconnect(q) /\ MoveTo(q, "closed")
       \/ conn[q].state = "unheard" /\ UNCHANGED directory /\ MoveTo(q, "left")
    /\ mailbox' = [mailbox EXCEPT ![q] = <<>>]
    /\ pushes' = {}
=============================================================================
