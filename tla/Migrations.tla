------------------------------ MODULE Migrations ------------------------------
(***************************************************************************)
(* The Alembic migrations, and what is left of the rows that live through  *)
(* them.  A command moves the database along a chain of eight revisions,   *)
(* in one transaction for all of its steps.  The container upgrades to the *)
(* last revision and serves only when that went well; downgrades are an    *)
(* operator's, with no container serving.  Requests and jobs, which write  *)
(* rows at the last revision only, are reduced to what they leave in the   *)
(* columns some migration drops, adds, fills or tightens.                  *)
(***************************************************************************)
EXTENDS Naturals

CONSTANTS Shipments, None

\* The revisions, by their place in the chain.
Base == 0
InitialSchema == 1       \* cb9ed9380261
Bidding == 2             \* 435e3987290d
JobQueue == 3            \* 5c45431e5f9e
SpecialHandling == 4     \* 520fc3030094
PriceNullable == 5       \* 9df6dcd252d9
PickupDeliveryOtp == 6   \* 5c276507af0f
RatingsConstraints == 7  \* b92f2a1505a1
DeliveryMode == 8        \* d4e8b7c31f5a
Head == DeliveryMode
Revisions == Base .. Head

VARIABLES
    db,        \* the committed database
    run,       \* the Alembic command under way and what it has done so far
    serving,   \* the container serves
    last,      \* how the last command ended
    low        \* for the properties: low[s] is the lowest revision the row of
               \* s has lived at

vars == <<db, run, serving, last, low>>

\* "absent" stands for a column that is not there.
Status  == {"absent", "pending", "accepted", "expired"}
Expiry  == {"absent", "set"}
Price   == {"null", "zero", "agreed"}
Window  == {"absent", "placeholder"}
Promise == {"absent", "null", "placeholder", "promised"}
Codes   == {"absent", "null", "issued"}
Photo   == {"absent", "null", "given"}

Row == [status : Status, expires_at : Expiry, price : Price,
        expected_time : Window, promised : Promise, otp : Codes, photo : Photo]

\* bids[s] is the promise of the one bid on s, or None; jobs and ratings hold
\* the shipments with an expiry job and a rating; leftovers says that an older
\* queue schema was torn down and not all of its objects.
Database == [rev : Revisions, rows : [Shipments -> Row \cup {None}],
             bids : [Shipments -> Promise \cup {None}],
             jobs : SUBSET Shipments, ratings : SUBSET Shipments,
             leftovers : BOOLEAN]

ASSUME MigrationsAssumption == None \notin Row \cup Promise

Idle == [command |-> "none"]

Run == [command : {"upgrade", "downgrade"}, target : Revisions, work : Database]

TypeOK ==
    /\ db \in Database
    /\ run \in {Idle} \cup Run
    /\ serving \in BOOLEAN
    /\ last \in {"none", "done", "upgrade failed", "downgrade failed"}
    /\ low \in [Shipments -> Revisions]

NoRows == [s \in Shipments |-> None]

Init ==
    /\ db = [rev |-> Base, rows |-> NoRows, bids |-> NoRows, jobs |-> {},
             ratings |-> {}, leftovers |-> FALSE]
    /\ run = Idle
    /\ serving = FALSE
    /\ last = "none"
    /\ low = [s \in Shipments |-> Head]

Present(d) == {s \in Shipments : d.rows[s] # None}
-----------------------------------------------------------------------------
(* One migration *)

\* Every row with column c set to v.
With(rows, c, v) ==
    [s \in Shipments |-> IF rows[s] = None THEN None ELSE [rows[s] EXCEPT ![c] = v]]

\* Mutant: an UPDATE with no WHERE.
FilledAll(rows) ==
    [s \in Shipments |-> IF rows[s] = None THEN None
                         ELSE [rows[s] EXCEPT !.price = "zero"]]

\* Prices that are NULL become 0.
Filled(rows) ==
    [s \in Shipments |-> IF rows[s] # None /\ rows[s].price = "null"
                         THEN [rows[s] EXCEPT !.price = "zero"] ELSE rows[s]]

BidsWith(bids, v) == [s \in Shipments |-> IF bids[s] = None THEN None ELSE v]

\* cb9ed9380261.  Tables that were just created hold no rows.
CreateTables(d) == d

DropTables(d) == [d EXCEPT !.rows = NoRows, !.ratings = {}]

\* 435e3987290d.  expires_at is NOT NULL with no default, which no table with
\* rows can take.
TakesExpiry(d) == Present(d) = {}

AddBidding(d) == d

RemoveBidding(d) ==
    [d EXCEPT !.rows = With(With(@, "status", "absent"), "expires_at", "absent"),
              !.bids = NoRows]

\* 5c45431e5f9e.
InstallQueue(d) == [d EXCEPT !.jobs = {}, !.leftovers = FALSE]

TearDownQueue(d) == [d EXCEPT !.jobs = {}, !.leftovers = TRUE]

\* 520fc3030094.
AddPhoto(d) == [d EXCEPT !.rows = With(@, "photo", "null")]

DropPhoto(d) == [d EXCEPT !.rows = With(@, "photo", "absent")]

\* 9df6dcd252d9.
AllowNoPrice(d) == d

RequirePrice(d) == [d EXCEPT !.rows = Filled(@)]

\* 5c276507af0f.
AddCodes(d) == [d EXCEPT !.rows = With(@, "otp", "null")]

DropCodes(d) == [d EXCEPT !.rows = With(@, "otp", "absent")]

\* b92f2a1505a1.  A foreign key takes the ratings of shipments there are.
RatingsRefer(d) == d.ratings \subseteq Present(d)

ConstrainRatings(d) == d

UnconstrainRatings(d) == d

\* Mutant: the promises of the bids there are come out NULL.
NullPromise == "null"

\* Bids there are get a promise of the time they were placed at.
Backfill == "placeholder"

\* d4e8b7c31f5a.
ReplaceWindow(d) ==
    [d EXCEPT !.rows = With(With(@, "expected_time", "absent"), "promised", "null"),
              !.bids = BidsWith(@, Backfill)]

RestoreWindow(d) ==
    [d EXCEPT !.rows = With(With(@, "promised", "absent"),
                            "expected_time", "placeholder"),
              !.bids = BidsWith(@, "absent")]

CanUpgrade(n, d) == /\ n = Bidding => TakesExpiry(d)
                    /\ n = RatingsConstraints => RatingsRefer(d)

Upgraded(n, d) ==
    CASE n = InitialSchema -> CreateTables(d)
      [] n = Bidding -> AddBidding(d)
      [] n = JobQueue -> InstallQueue(d)
      [] n = SpecialHandling -> AddPhoto(d)
      [] n = PriceNullable -> AllowNoPrice(d)
      [] n = PickupDeliveryOtp -> AddCodes(d)
      [] n = RatingsConstraints -> ConstrainRatings(d)
      [] n = DeliveryMode -> ReplaceWindow(d)

Downgraded(n, d) ==
    CASE n = InitialSchema -> DropTables(d)
      [] n = Bidding -> RemoveBidding(d)
      [] n = JobQueue -> TearDownQueue(d)
      [] n = SpecialHandling -> DropPhoto(d)
      [] n = PriceNullable -> RequirePrice(d)
      [] n = PickupDeliveryOtp -> DropCodes(d)
      [] n = RatingsConstraints -> UnconstrainRatings(d)
      [] n = DeliveryMode -> RestoreWindow(d)

UpgradeStep(n, d) == [Upgraded(n, d) EXCEPT !.rev = n]

DowngradeStep(n, d) == [Downgraded(n, d) EXCEPT !.rev = n - 1]

\* The NOT NULL columns of the revision hold no NULL.
Tight(d) ==
    /\ d.rev < PriceNullable => \A s \in Present(d) : d.rows[s].price # "null"
    /\ d.rev >= DeliveryMode => \A s \in Shipments : d.bids[s] # "null"
-----------------------------------------------------------------------------
(* Alembic commands *)

\* alembic upgrade head: the container starts.
StartContainer ==
    /\ run = Idle /\ ~serving
    /\ run' = [command |-> "upgrade", target |-> Head, work |-> db]
    /\ UNCHANGED <<db, serving, last, low>>

StopContainer ==
    /\ serving
    /\ serving' = FALSE
    /\ UNCHANGED <<db, run, last, low>>

Downgrade(target) ==
    /\ run = Idle /\ ~serving /\ target < db.rev
    /\ run' = [command |-> "downgrade", target |-> target, work |-> db]
    /\ UNCHANGED <<db, serving, last, low>>

\* Mutant: each migration is a transaction of its own.
CommitEach(work) == db' = work

CommitAtEnd(work) == UNCHANGED db

Advance(work) ==
    /\ run' = [run EXCEPT !.work = work]
    /\ CommitAtEnd(work)
    /\ UNCHANGED <<serving, last, low>>

\* The command fails, and with it the transaction and the container.
GiveUp(how) ==
    /\ run' = Idle
    /\ last' = how
    /\ UNCHANGED <<db, serving, low>>

UpgradeNext ==
    LET n == run.work.rev + 1
        work == UpgradeStep(n, run.work)
        may == CanUpgrade(n, run.work) /\ Tight(work)
    IN  /\ run.command = "upgrade" /\ n <= run.target
        /\ \/ may /\ Advance(work)
           \/ ~may /\ GiveUp("upgrade failed")

\* The script of the queue schema may meet objects the downgrade has left.
QueueSchemaClashes ==
    /\ run.command = "upgrade"
    /\ run.work.rev + 1 = JobQueue
    /\ run.work.leftovers
    /\ GiveUp("upgrade failed")

DowngradeNext ==
    LET work == DowngradeStep(run.work.rev, run.work)
    IN  /\ run.command = "downgrade" /\ run.work.rev > run.target
        /\ \/ Tight(work) /\ Advance(work)
           \/ ~Tight(work) /\ GiveUp("downgrade failed")

CommitCommand ==
    /\ run # Idle
    /\ run.work.rev = run.target
    /\ db' = run.work
    /\ low' = [s \in Shipments |->
                 IF run.work.rows[s] = None THEN Head
                 ELSE IF run.target < low[s] THEN run.target ELSE low[s]]
    /\ serving' = (run.command = "upgrade")
    /\ last' = "done"
    /\ run' = Idle

\* The process dies; PostgreSQL rolls back.
KillCommand ==
    /\ run # Idle
    /\ run' = Idle
    /\ last' = "none"
    /\ UNCHANGED <<db, serving, low>>
-----------------------------------------------------------------------------
(* Requests and jobs, as far as the migrations see them *)

Serve(s, d) == serving /\ db' = d /\ UNCHANGED <<run, serving, last, low>>

CreateShipment(s) ==
    /\ db.rows[s] = None
    /\ Serve(s, [db EXCEPT !.jobs = @ \cup {s},
                           !.rows[s] = [status |-> "pending", expires_at |-> "set",
                                        price |-> "null", expected_time |-> "absent",
                                        promised |-> "null", otp |-> "issued",
                                        photo |-> "given"]])

PlaceBid(s) ==
    /\ db.rows[s] # None /\ db.rows[s].status = "pending"
    /\ Serve(s, [db EXCEPT !.bids[s] = "promised"])

AcceptBid(s) ==
    /\ db.rows[s] # None /\ db.rows[s].status = "pending" /\ db.bids[s] # None
    /\ Serve(s, [db EXCEPT !.rows[s] = [@ EXCEPT !.status = "accepted",
                                                 !.price = "agreed",
                                                 !.promised = db.bids[s]]])

\* The expiry job leaves alone what is not pending any more.
RunExpiryJob(s) ==
    /\ s \in db.jobs
    /\ LET d == [db EXCEPT !.jobs = @ \ {s}]
       IN  IF db.rows[s].status = "pending"
           THEN Serve(s, [d EXCEPT !.rows[s].status = "expired"])
           ELSE Serve(s, d)

Rate(s) ==
    /\ db.rows[s] # None /\ db.rows[s].status = "accepted"
    /\ Serve(s, [db EXCEPT !.ratings = @ \cup {s}])
-----------------------------------------------------------------------------
Next ==
    \/ StartContainer
    \/ StopContainer
    \/ \E target \in Revisions : Downgrade(target)
    \/ UpgradeNext
    \/ QueueSchemaClashes
    \/ DowngradeNext
    \/ CommitCommand
    \/ KillCommand
    \/ \E s \in Shipments : \/ CreateShipment(s)
                            \/ PlaceBid(s)
                            \/ AcceptBid(s)
                            \/ RunExpiryJob(s)
                            \/ Rate(s)

Spec == Init /\ [][Next]_vars
-----------------------------------------------------------------------------
(* Properties *)

\* What the row of s is at the last revision, after any number of downgrades
\* and upgrades: an agreed price and a status are never lost; a shipment not
\* awarded has no price, or 0 once it lived before PriceNullable; its codes
\* and its photo are there unless it lived before the migration that added
\* them, its expiry job unless before JobQueue, and a promise that is none of
\* the captain's stands only where the row lived before DeliveryMode.
Survives(s) ==
    LET r == db.rows[s]
    IN  /\ low[s] >= Bidding
        /\ r.status \in {"pending", "accepted", "expired"}
        /\ r.price = IF r.status = "accepted" THEN "agreed"
                     ELSE IF low[s] < PriceNullable THEN "zero" ELSE "null"
        /\ r.otp = IF low[s] < PickupDeliveryOtp THEN "null" ELSE "issued"
        /\ r.photo = IF low[s] < SpecialHandling THEN "null" ELSE "given"
        /\ r.status = "pending" => s \in db.jobs \/ low[s] < JobQueue
        /\ db.bids[s] = "placeholder" => low[s] < DeliveryMode
        /\ r.status = "accepted" => r.promised = "promised" \/ low[s] < DeliveryMode

WhatSurvives ==
    TypeOK /\ (db.rev = Head => \A s \in Present(db) : Survives(s))

\* A deployment fails on its migrations only over shipments that have lived
\* before Bidding, or over a queue schema torn down before.
\* Every migration can be taken back, whatever the tables hold.
FailsOnlyOver ==
    /\ last = "upgrade failed" =>
          db.leftovers \/ \E s \in Present(db) : low[s] < Bidding
    /\ last # "downgrade failed"

\* A command that fails or is killed leaves the revision and the rows it found;
\* no request ever sees a database between two revisions of a command.
AllOrNothing == [][run # Idle /\ db' # db => db'.rev = run.target]_vars
-----------------------------------------------------------------------------
(* The inductive invariant *)

\* The lowest revision the row of s has lived at, as d holds it and lo says
\* of the databases before d.
Lived(d, lo, s) == IF d.rev < lo[s] THEN d.rev ELSE lo[s]

\* What Survives says of a row, at every revision and inside a command.
RowKept(d, lo, s) ==
    LET r == d.rows[s]
        l == Lived(d, lo, s)
    IN  /\ l < PriceNullable => r.price # "null"
        /\ d.rev >= Bidding =>
              /\ l >= Bidding
              /\ r.status # "absent"
              /\ r.price = IF r.status = "accepted" THEN "agreed"
                           ELSE IF l < PriceNullable THEN "zero" ELSE "null"
              /\ r.status = "pending" => s \in d.jobs \/ l < JobQueue
              /\ r.status = "accepted" => r.promised = "promised" \/ l < DeliveryMode
        /\ d.rev >= SpecialHandling =>
              r.photo = IF l < SpecialHandling THEN "null" ELSE "given"
        /\ d.rev >= PickupDeliveryOtp =>
              r.otp = IF l < PickupDeliveryOtp THEN "null" ELSE "issued"
        /\ d.rev >= DeliveryMode =>
              \/ d.bids[s] \in {None, "promised"}
              \/ d.bids[s] = "placeholder" /\ l < DeliveryMode

\* Bids, jobs and ratings are of rows there are, and of no revision before
\* the migration that brought them.
Kept(d, lo) ==
    /\ \A s \in Present(d) : RowKept(d, lo, s)
    /\ d.jobs \cup d.ratings \cup {s \in Shipments : d.bids[s] # None} \subseteq Present(d)
    /\ d.rev = Base => Present(d) = {}
    /\ d.rev < Bidding => \A s \in Shipments : d.bids[s] = None
    /\ d.rev < JobQueue => d.jobs = {}

\* Where a command is: an upgrade at or above the committed revision, a
\* downgrade at or above its target, with no row the database has not.
OnItsWay ==
    /\ Kept(run.work, low)
    /\ Present(run.work) \subseteq Present(db)
    /\ run.target <= run.work.rev \/ run.command = "upgrade"
    /\ run.command = "upgrade" => /\ db.rev <= run.work.rev /\ run.target = Head
                                  /\ run.work.leftovers => db.leftovers

\* The committed database and a command's copy are kept alike; the container
\* serves at the last revision only.
IInv ==
    /\ TypeOK /\ Kept(db, low)
    /\ run # Idle => OnItsWay
    /\ serving => run = Idle /\ db.rev = Head /\ last # "upgrade failed"
    /\ \A s \in Present(db) : low[s] <= db.rev
    /\ \A s \in Shipments \ Present(db) : low[s] = Head
    /\ FailsOnlyOver
=============================================================================
