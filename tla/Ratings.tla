------------------------------- MODULE Ratings -------------------------------
(***************************************************************************)
(* RatingsService.create: a sender rates the captain of a delivered        *)
(* shipment, and the captain's stored average is computed again.  Each     *)
(* request is one PostgreSQL transaction at READ COMMITTED:                *)
(*   read the shipment; INSERT the rating, unique per shipment; SELECT the *)
(*   captain's profile FOR UPDATE; read the average; UPDATE the profile;   *)
(*   commit.                                                               *)
(* What a transaction has written and not committed lives in its slot: the *)
(* stars while it holds key[s], the average while it holds lock[c].        *)
(* Average(R) is the average of a set R of <<shipment, stars>>; nothing    *)
(* here depends on which function of the ratings it is.                    *)
(***************************************************************************)
CONSTANTS Shipments, CaptainOf, Stars, Txns, None, Average(_)

ASSUME RatingsAssumption == None \notin Stars \cup Txns

Captains == {CaptainOf[s] : s \in Shipments}

VARIABLES
    delivered,   \* the shipments whose status is delivered
    rating,      \* rating[s]: the stars of the committed rating, or None
    mean,        \* mean[c]: capitan_profiles.rating of captain c, committed
    key,         \* key[s]: who has an uncommitted rating of s in the index
    lock,        \* lock[c]: who has the profile row of c locked
    txn,         \* txn[t]: the request in slot t
    reply        \* the status the last step answered, or None

vars == <<delivered, rating, mean, key, lock, txn, reply>>

Averages == {Average(R) : R \in SUBSET (Shipments \X Stars)}

Idle == [pc |-> "idle"]

\* A request: its shipment and stars, and the average it has read.
Request == [pc : {"insert", "lock", "average", "store", "commit"},
            s : Shipments, stars : Stars, mean : Averages \cup {None}]

\* The ratings r holds for captain c, and their average.
RatingsFor(r, c) == {<<s, r[s]>> : s \in {x \in Shipments :
                                            r[x] # None /\ CaptainOf[x] = c}}

MeanFor(r, c) == Average(RatingsFor(r, c))

TypeOK ==
    /\ delivered \subseteq Shipments
    /\ rating \in [Shipments -> Stars \cup {None}]
    /\ mean \in [Captains -> Averages]
    /\ key \in [Shipments -> Txns \cup {None}]
    /\ lock \in [Captains -> Txns \cup {None}]
    /\ txn \in [Txns -> {Idle} \cup Request]
    /\ reply \in {"201", "409", None}

Init ==
    /\ delivered = {}
    /\ rating = [s \in Shipments |-> None]
    /\ mean = [c \in Captains |-> Average({})]
    /\ key = [s \in Shipments |-> None]
    /\ lock = [c \in Captains |-> None]
    /\ txn = [t \in Txns |-> Idle]
    /\ reply = None
-----------------------------------------------------------------------------
(* The shipment's status, which other requests move.  A mark that read the *)
(* row before it was delivered can still overwrite the status.             *)
Deliver(s) ==
    /\ s \notin delivered
    /\ delivered' = delivered \cup {s}
    /\ reply' = None
    /\ UNCHANGED <<rating, mean, key, lock, txn>>

LateMark(s) ==
    /\ s \in delivered
    /\ delivered' = delivered \ {s}
    /\ reply' = None
    /\ UNCHANGED <<rating, mean, key, lock, txn>>
-----------------------------------------------------------------------------
(* create *)

Rate(t, s, n) ==
    /\ txn[t] = Idle
    /\ \/ /\ s \in delivered
          /\ txn' = [txn EXCEPT ![t] = [pc |-> "insert", s |-> s,
                                       stars |-> n, mean |-> None]]
          /\ reply' = None
       \/ /\ s \notin delivered
          /\ reply' = "409"
          /\ UNCHANGED txn
    /\ UNCHANGED <<delivered, rating, mean, key, lock>>

\* Mutant: no unique key, so a second rating finds nothing in its way.
NoUniqueKey(s) == FALSE

\* The unique key finds a committed rating.
Rated(s) == rating[s] # None

\* What the transaction holds is free again.
GiveUp(t) ==
    /\ key' = [s \in Shipments |-> IF key[s] = t THEN None ELSE key[s]]
    /\ lock' = [c \in Captains |-> IF lock[c] = t THEN None ELSE lock[c]]

\* The INSERT waits for an uncommitted rating of the same shipment.
Insert(t) ==
    /\ txn[t].pc = "insert"
    /\ key[txn[t].s] = None
    /\ \/ /\ ~Rated(txn[t].s)
          /\ key' = [key EXCEPT ![txn[t].s] = t]
          /\ txn' = [txn EXCEPT ![t].pc = "lock"]
          /\ reply' = None
          /\ UNCHANGED lock
       \/ /\ Rated(txn[t].s)
          /\ GiveUp(t)
          /\ txn' = [txn EXCEPT ![t] = Idle]
          /\ reply' = "409"
    /\ UNCHANGED <<delivered, rating, mean>>

\* Mutant: a SELECT with no FOR UPDATE.
TakeNothing(t, c) == UNCHANGED lock

TakeProfile(t, c) == lock[c] = None /\ lock' = [lock EXCEPT ![c] = t]

LockProfile(t) ==
    /\ txn[t].pc = "lock"
    /\ TakeProfile(t, CaptainOf[txn[t].s])
    /\ txn' = [txn EXCEPT ![t].pc = "average"]
    /\ reply' = None
    /\ UNCHANGED <<delivered, rating, mean, key>>

\* A fresh statement: it sees what is committed by now, and the own rating.
ReadAverage(t) ==
    LET s == txn[t].s
        seen == [rating EXCEPT ![s] = txn[t].stars]
    IN  /\ txn[t].pc = "average"
        /\ txn' = [txn EXCEPT ![t].pc = "store",
                              ![t].mean = MeanFor(seen, CaptainOf[s])]
        /\ reply' = None
        /\ UNCHANGED <<delivered, rating, mean, key, lock>>

StoreAverage(t) ==
    LET c == CaptainOf[txn[t].s]
    IN  /\ txn[t].pc = "store"
        /\ lock[c] \in {None, t}
        /\ lock' = [lock EXCEPT ![c] = t]
        /\ txn' = [txn EXCEPT ![t].pc = "commit"]
        /\ reply' = "201"
        /\ UNCHANGED <<delivered, rating, mean, key>>

Commit(t) ==
    LET s == txn[t].s
    IN  /\ txn[t].pc = "commit"
        /\ rating' = [rating EXCEPT ![s] = txn[t].stars]
        /\ mean' = [mean EXCEPT ![CaptainOf[s]] = txn[t].mean]
        /\ GiveUp(t)
        /\ txn' = [txn EXCEPT ![t] = Idle]
        /\ reply' = None
        /\ UNCHANGED delivered

\* Mutant: get_session closes no transaction it did not commit.
LeaveOpen(t) ==
    /\ txn[t] # Idle
    /\ txn' = [txn EXCEPT ![t] = Idle]
    /\ reply' = None
    /\ UNCHANGED <<key, lock, delivered, rating, mean>>

\* The process dies or the connection breaks.
Abort(t) ==
    /\ txn[t] # Idle
    /\ GiveUp(t)
    /\ txn' = [txn EXCEPT ![t] = Idle]
    /\ reply' = None
    /\ UNCHANGED <<delivered, rating, mean>>
-----------------------------------------------------------------------------
Continue(t) == \/ Insert(t)
               \/ LockProfile(t)
               \/ ReadAverage(t)
               \/ StoreAverage(t)
               \/ Commit(t)

Next ==
    \/ \E s \in Shipments : Deliver(s) \/ LateMark(s)
    \/ \E t \in Txns, s \in Shipments, n \in Stars : Rate(t, s, n)
    \/ \E t \in Txns : Continue(t) \/ Abort(t)

Spec == Init /\ [][Next]_vars

\* PostgreSQL queues the waiters of a row and of a key.
FairSpec == Spec /\ \A t \in Txns : SF_vars(Continue(t))
-----------------------------------------------------------------------------
(* Properties *)

\* Every commit is one step of the rating book: it enters one rating, never
\* over another, and with it the average of every rating of that captain, none
\* of those committed meanwhile by other senders left out.
Book == INSTANCE RatingBook
BookSpec == Book!Spec

\* The stored average of every captain is the average of the committed
\* ratings, at every moment another transaction can read them.
MeanIsCurrent == \A c \in Captains : mean[c] = MeanFor(rating, c)

\* What the locks guard while a request is under way: its rating is the only
\* one of the shipment, its captain's profile is its own, and the average it
\* has read will be the current one when it commits.
Claim(t) ==
    LET s == txn[t].s
        c == CaptainOf[s]
    IN  /\ txn[t].pc \in {"lock", "average", "store", "commit"}
              => key[s] = t /\ rating[s] = None
        /\ txn[t].pc \in {"average", "store", "commit"} => lock[c] = t
        /\ txn[t].pc \in {"store", "commit"}
              => txn[t].mean = MeanFor([rating EXCEPT ![s] = txn[t].stars], c)

Claims == \A t \in Txns : Claim(t)

\* The inductive invariant behind MeanIsCurrent and BookSpec.
RatingsInv == TypeOK /\ Claims /\ MeanIsCurrent

\* No rating request is left waiting for ever for a key or a profile row.
EveryRatingEnds == \A t \in Txns : txn[t] # Idle ~> txn[t] = Idle
=============================================================================
