--------------------------- MODULE MigrationsProofs ---------------------------
(***************************************************************************)
(* Proofs about Migrations, for every set of shipments and any sequence of *)
(* upgrades, downgrades, failures and requests.  Each migration, up or     *)
(* down, keeps what a row has to be at its revision (Kept); the rest is    *)
(* that a command works on a copy and commits it whole.                    *)
(***************************************************************************)
EXTENDS Migrations, TLAPS

USE MigrationsAssumption
USE DEF Base, InitialSchema, Bidding, JobQueue, SpecialHandling, PriceNullable,
        PickupDeliveryOtp, RatingsConstraints, DeliveryMode, Head
-----------------------------------------------------------------------------
(* One migration *)

\* The columns of a row that is typed.
Rows == [Shipments -> Row \cup {None}]

\* What the tables of a database hold, each with its name.
Holds(e, rev, rows, bids, jobs, ratings, leftovers) ==
    /\ e \in Database
    /\ e.rev = rev /\ e.rows = rows /\ e.bids = bids
    /\ e.jobs = jobs /\ e.ratings = ratings /\ e.leftovers = leftovers

\* Stamping a revision changes nothing else.
LEMMA Stamped ==
    ASSUME NEW d \in Database, NEW n \in Revisions
    PROVE  Holds([d EXCEPT !.rev = n], n, d.rows, d.bids, d.jobs, d.ratings, d.leftovers)
  BY DEF Holds, Database

\* A column set to a value it may have leaves rows.
LEMMA WithTyped ==
    ASSUME NEW rows \in Rows
    PROVE  /\ \A v \in Status : With(rows, "status", v) \in Rows
           /\ \A v \in Expiry : With(rows, "expires_at", v) \in Rows
           /\ \A v \in Window : With(rows, "expected_time", v) \in Rows
           /\ \A v \in Promise : With(rows, "promised", v) \in Rows
           /\ \A v \in Codes : With(rows, "otp", v) \in Rows
           /\ \A v \in Photo : With(rows, "photo", v) \in Rows
<1>1. \A v \in Status : With(rows, "status", v) \in Rows
  BY DEF With, Rows, Row
<1>2. \A v \in Expiry : With(rows, "expires_at", v) \in Rows
  BY DEF With, Rows, Row
<1>3. \A v \in Window : With(rows, "expected_time", v) \in Rows
  BY DEF With, Rows, Row
<1>4. \A v \in Promise : With(rows, "promised", v) \in Rows
  BY DEF With, Rows, Row
<1>5. \A v \in Codes : With(rows, "otp", v) \in Rows
  BY DEF With, Rows, Row
<1>6. \A v \in Photo : With(rows, "photo", v) \in Rows
  BY DEF With, Rows, Row
<1> QED
  BY <1>1, <1>2, <1>3, <1>4, <1>5, <1>6

\* What each migration leaves in the tables.
LEMMA UpgradeEffect ==
    ASSUME NEW d \in Database
    PROVE  /\ \A n \in {1, 2, 5, 7} :
                 Holds(UpgradeStep(n, d), n, d.rows, d.bids, d.jobs, d.ratings, d.leftovers)
           /\ Holds(UpgradeStep(3, d), 3, d.rows, d.bids, {}, d.ratings, FALSE)
           /\ Holds(UpgradeStep(4, d), 4, With(d.rows, "photo", "null"), d.bids, d.jobs, d.ratings,
                 d.leftovers)
           /\ Holds(UpgradeStep(6, d), 6, With(d.rows, "otp", "null"), d.bids, d.jobs, d.ratings,
                 d.leftovers)
           /\ Holds(UpgradeStep(8, d), 8, With(With(d.rows, "expected_time", "absent"), "promised", "null"),
                 BidsWith(d.bids, "placeholder"), d.jobs, d.ratings, d.leftovers)
<1>0. /\ d.rows \in Rows /\ d.jobs \in SUBSET Shipments /\ d.ratings \in SUBSET Shipments
      /\ d.bids \in [Shipments -> Promise \cup {None}] /\ d.leftovers \in BOOLEAN
      /\ \A n \in 1..8 : n \in Revisions
  BY DEF Database, Rows, Revisions
<1>1. ASSUME NEW n \in {1, 2, 5, 7}
      PROVE  Holds(UpgradeStep(n, d), n, d.rows, d.bids, d.jobs, d.ratings, d.leftovers)
  <2>1. Upgraded(n, d) = d
    BY DEF Upgraded, CreateTables, AddBidding, AllowNoPrice, ConstrainRatings
  <2> QED
    BY <1>0, <2>1, Stamped DEF UpgradeStep
<1>2. Holds(UpgradeStep(3, d), 3, d.rows, d.bids, {}, d.ratings, FALSE)
  <2>1. Upgraded(3, d) = InstallQueue(d)
    BY DEF Upgraded
  <2>2. Holds(InstallQueue(d), d.rev, d.rows, d.bids, {}, d.ratings, FALSE)
    BY DEF InstallQueue, Holds, Database
  <2> QED
    BY <1>0, <2>1, <2>2, Stamped DEF UpgradeStep, Holds
<1>3. Holds(UpgradeStep(4, d), 4, With(d.rows, "photo", "null"), d.bids, d.jobs, d.ratings,
            d.leftovers)
  <2>1. Upgraded(4, d) = AddPhoto(d)
    BY DEF Upgraded
  <2>2. With(d.rows, "photo", "null") \in Rows
    BY <1>0, WithTyped DEF Photo
  <2>3. Holds(AddPhoto(d), d.rev, With(d.rows, "photo", "null"), d.bids, d.jobs, d.ratings,
              d.leftovers)
    BY <2>2 DEF AddPhoto, Holds, Database, Rows
  <2> QED
    BY <1>0, <2>1, <2>3, Stamped DEF UpgradeStep, Holds
<1>4. Holds(UpgradeStep(6, d), 6, With(d.rows, "otp", "null"), d.bids, d.jobs, d.ratings,
            d.leftovers)
  <2>1. Upgraded(6, d) = AddCodes(d)
    BY DEF Upgraded
  <2>2. With(d.rows, "otp", "null") \in Rows
    BY <1>0, WithTyped DEF Codes
  <2>3. Holds(AddCodes(d), d.rev, With(d.rows, "otp", "null"), d.bids, d.jobs, d.ratings,
              d.leftovers)
    BY <2>2 DEF AddCodes, Holds, Database, Rows
  <2> QED
    BY <1>0, <2>1, <2>3, Stamped DEF UpgradeStep, Holds
<1>5. Holds(UpgradeStep(8, d), 8, With(With(d.rows, "expected_time", "absent"), "promised", "null"),
            BidsWith(d.bids, "placeholder"), d.jobs, d.ratings, d.leftovers)
  <2>1. Upgraded(8, d) = ReplaceWindow(d)
    BY DEF Upgraded
  <2> DEFINE rows == With(With(d.rows, "expected_time", "absent"), "promised", "null")
             bids == BidsWith(d.bids, "placeholder")
  <2>2. rows \in Rows /\ bids \in [Shipments -> Promise \cup {None}]
    <3>1. With(d.rows, "expected_time", "absent") \in Rows
      BY <1>0, WithTyped DEF Window
    <3> QED
      BY <1>0, <3>1, WithTyped DEF Promise, BidsWith
  <2>3. ReplaceWindow(d) = [d EXCEPT !.rows = rows, !.bids = bids]
    BY DEF ReplaceWindow, Backfill, Database
  <2> HIDE DEF rows, bids
  <2>4. Holds(ReplaceWindow(d), d.rev, rows, bids, d.jobs, d.ratings, d.leftovers)
    BY <2>2, <2>3 DEF Holds, Database, Rows
  <2>5. Holds(UpgradeStep(8, d), 8, rows, bids, d.jobs, d.ratings, d.leftovers)
    BY <1>0, <2>1, <2>4, Stamped DEF UpgradeStep, Holds
  <2> QED
    BY <2>5 DEF rows, bids
<1> QED
  BY <1>1, <1>2, <1>3, <1>4, <1>5

\* The same on the way down.
LEMMA DowngradeEffect ==
    ASSUME NEW d \in Database
    PROVE  /\ Holds(DowngradeStep(1, d), 0, NoRows, d.bids, d.jobs, {}, d.leftovers)
           /\ Holds(DowngradeStep(2, d), 1, With(With(d.rows, "status", "absent"), "expires_at", "absent"),
                 NoRows, d.jobs, d.ratings, d.leftovers)
           /\ Holds(DowngradeStep(3, d), 2, d.rows, d.bids, {}, d.ratings, TRUE)
           /\ Holds(DowngradeStep(4, d), 3, With(d.rows, "photo", "absent"), d.bids, d.jobs, d.ratings,
                 d.leftovers)
           /\ Holds(DowngradeStep(5, d), 4, Filled(d.rows), d.bids, d.jobs, d.ratings, d.leftovers)
           /\ Holds(DowngradeStep(6, d), 5, With(d.rows, "otp", "absent"), d.bids, d.jobs, d.ratings,
                 d.leftovers)
           /\ Holds(DowngradeStep(7, d), 6, d.rows, d.bids, d.jobs, d.ratings, d.leftovers)
           /\ Holds(DowngradeStep(8, d), 7,
                 With(With(d.rows, "promised", "absent"), "expected_time", "placeholder"),
                 BidsWith(d.bids, "absent"), d.jobs, d.ratings, d.leftovers)
<1>0. /\ d.rows \in Rows /\ d.jobs \in SUBSET Shipments /\ d.ratings \in SUBSET Shipments
      /\ d.bids \in [Shipments -> Promise \cup {None}] /\ d.leftovers \in BOOLEAN
      /\ \A n \in 0..8 : n \in Revisions
  BY DEF Database, Rows, Revisions
<1>1. Holds(DowngradeStep(1, d), 0, NoRows, d.bids, d.jobs, {}, d.leftovers)
  <2>1. Downgraded(1, d) = DropTables(d)
    BY DEF Downgraded
  <2>2. Holds(DropTables(d), d.rev, NoRows, d.bids, d.jobs, {}, d.leftovers)
    BY DEF DropTables, NoRows, Holds, Database
  <2> QED
    BY <1>0, <2>1, <2>2, Stamped DEF DowngradeStep, Holds
<1>2. Holds(DowngradeStep(2, d), 1, With(With(d.rows, "status", "absent"), "expires_at", "absent"),
            NoRows, d.jobs, d.ratings, d.leftovers)
  <2>1. Downgraded(2, d) = RemoveBidding(d)
    BY DEF Downgraded
  <2> DEFINE rows == With(With(d.rows, "status", "absent"), "expires_at", "absent")
             bids == NoRows
  <2>2. rows \in Rows /\ bids \in [Shipments -> Promise \cup {None}]
    <3>1. With(d.rows, "status", "absent") \in Rows
      BY <1>0, WithTyped DEF Status
    <3> QED
      BY <1>0, <3>1, WithTyped DEF Expiry, NoRows
  <2>3. RemoveBidding(d) = [d EXCEPT !.rows = rows, !.bids = bids]
    BY DEF RemoveBidding, Database
  <2> HIDE DEF rows, bids
  <2>4. Holds(RemoveBidding(d), d.rev, rows, bids, d.jobs, d.ratings, d.leftovers)
    BY <2>2, <2>3 DEF Holds, Database, Rows
  <2>5. Holds(DowngradeStep(2, d), 1, rows, bids, d.jobs, d.ratings, d.leftovers)
    BY <1>0, <2>1, <2>4, Stamped DEF DowngradeStep, Holds
  <2> QED
    BY <2>5 DEF rows, bids
<1>3. Holds(DowngradeStep(3, d), 2, d.rows, d.bids, {}, d.ratings, TRUE)
  <2>1. Downgraded(3, d) = TearDownQueue(d)
    BY DEF Downgraded
  <2>2. Holds(TearDownQueue(d), d.rev, d.rows, d.bids, {}, d.ratings, TRUE)
    BY DEF TearDownQueue, Holds, Database
  <2> QED
    BY <1>0, <2>1, <2>2, Stamped DEF DowngradeStep, Holds
<1>4. Holds(DowngradeStep(4, d), 3, With(d.rows, "photo", "absent"), d.bids, d.jobs,
            d.ratings, d.leftovers)
  <2>1. Downgraded(4, d) = DropPhoto(d)
    BY DEF Downgraded
  <2>2. With(d.rows, "photo", "absent") \in Rows
    BY <1>0, WithTyped DEF Photo
  <2>3. Holds(DropPhoto(d), d.rev, With(d.rows, "photo", "absent"), d.bids, d.jobs, d.ratings,
              d.leftovers)
    BY <2>2 DEF DropPhoto, Holds, Database, Rows
  <2> QED
    BY <1>0, <2>1, <2>3, Stamped DEF DowngradeStep, Holds
<1>5. Holds(DowngradeStep(5, d), 4, Filled(d.rows), d.bids, d.jobs, d.ratings, d.leftovers)
  <2>1. Downgraded(5, d) = RequirePrice(d)
    BY DEF Downgraded
  <2>2. Filled(d.rows) \in Rows
    BY <1>0 DEF Filled, Rows, Row, Price
  <2>3. Holds(RequirePrice(d), d.rev, Filled(d.rows), d.bids, d.jobs, d.ratings, d.leftovers)
    BY <2>2 DEF RequirePrice, Holds, Database, Rows
  <2> QED
    BY <1>0, <2>1, <2>3, Stamped DEF DowngradeStep, Holds
<1>6. Holds(DowngradeStep(6, d), 5, With(d.rows, "otp", "absent"), d.bids, d.jobs,
            d.ratings, d.leftovers)
  <2>1. Downgraded(6, d) = DropCodes(d)
    BY DEF Downgraded
  <2>2. With(d.rows, "otp", "absent") \in Rows
    BY <1>0, WithTyped DEF Codes
  <2>3. Holds(DropCodes(d), d.rev, With(d.rows, "otp", "absent"), d.bids, d.jobs, d.ratings,
              d.leftovers)
    BY <2>2 DEF DropCodes, Holds, Database, Rows
  <2> QED
    BY <1>0, <2>1, <2>3, Stamped DEF DowngradeStep, Holds
<1>7. Holds(DowngradeStep(7, d), 6, d.rows, d.bids, d.jobs, d.ratings, d.leftovers)
  <2>1. Downgraded(7, d) = d
    BY DEF Downgraded, UnconstrainRatings
  <2> QED
    BY <1>0, <2>1, Stamped DEF DowngradeStep
<1>8. Holds(DowngradeStep(8, d), 7, With(With(d.rows, "promised", "absent"), "expected_time", "placeholder"),
            BidsWith(d.bids, "absent"), d.jobs, d.ratings, d.leftovers)
  <2>1. Downgraded(8, d) = RestoreWindow(d)
    BY DEF Downgraded
  <2> DEFINE rows == With(With(d.rows, "promised", "absent"), "expected_time", "placeholder")
             bids == BidsWith(d.bids, "absent")
  <2>2. rows \in Rows /\ bids \in [Shipments -> Promise \cup {None}]
    <3>1. With(d.rows, "promised", "absent") \in Rows
      BY <1>0, WithTyped DEF Promise
    <3> QED
      BY <1>0, <3>1, WithTyped DEF Window, Promise, BidsWith
  <2>3. RestoreWindow(d) = [d EXCEPT !.rows = rows, !.bids = bids]
    BY DEF RestoreWindow, Database
  <2> HIDE DEF rows, bids
  <2>4. Holds(RestoreWindow(d), d.rev, rows, bids, d.jobs, d.ratings, d.leftovers)
    BY <2>2, <2>3 DEF Holds, Database, Rows
  <2>5. Holds(DowngradeStep(8, d), 7, rows, bids, d.jobs, d.ratings, d.leftovers)
    BY <1>0, <2>1, <2>4, Stamped DEF DowngradeStep, Holds
  <2> QED
    BY <2>5 DEF rows, bids
<1> QED
  BY <1>1, <1>2, <1>3, <1>4, <1>5, <1>6, <1>7, <1>8
-----------------------------------------------------------------------------
(* What a migration keeps *)

\* One row after a column is set to v: it is there if it was, and only that
\* column has changed.
Only(rows, s, c, v) ==
    /\ With(rows, c, v)[s] = None <=> rows[s] = None
    /\ rows[s] # None => With(rows, c, v)[s] = [rows[s] EXCEPT ![c] = v]

\* Every column that a migration sets.
LEMMA Columns ==
    ASSUME NEW rows \in Rows, NEW s \in Shipments
    PROVE  /\ \A v \in Status : Only(rows, s, "status", v)
           /\ \A v \in Expiry : Only(rows, s, "expires_at", v)
           /\ \A v \in Window : Only(rows, s, "expected_time", v)
           /\ \A v \in Promise : Only(rows, s, "promised", v)
           /\ \A v \in Codes : Only(rows, s, "otp", v)
           /\ \A v \in Photo : Only(rows, s, "photo", v)
<1>1. \A v \in Status : Only(rows, s, "status", v)
  BY DEF Only, With, Rows, Row
<1>2. \A v \in Expiry : Only(rows, s, "expires_at", v)
  BY DEF Only, With, Rows, Row
<1>3. \A v \in Window : Only(rows, s, "expected_time", v)
  BY DEF Only, With, Rows, Row
<1>4. \A v \in Promise : Only(rows, s, "promised", v)
  BY DEF Only, With, Rows, Row
<1>5. \A v \in Codes : Only(rows, s, "otp", v)
  BY DEF Only, With, Rows, Row
<1>6. \A v \in Photo : Only(rows, s, "photo", v)
  BY DEF Only, With, Rows, Row
<1> QED
  BY <1>1, <1>2, <1>3, <1>4, <1>5, <1>6

\* No migration but the first loses a row or adds one.
LEMMA SamePresent ==
    ASSUME NEW d \in Database, NEW e,
           \A s \in Shipments : e.rows[s] = None <=> d.rows[s] = None
    PROVE  Present(e) = Present(d)
  BY DEF Present

\* An upgrade by one revision keeps what the rows have to be.
LEMMA UpgradeKeeps ==
    ASSUME NEW d \in Database, NEW lo \in [Shipments -> Revisions], Kept(d, lo),
           d.rev < Head, CanUpgrade(d.rev + 1, d),
           \A s \in Present(d) : lo[s] <= d.rev,
           NEW e, e = UpgradeStep(d.rev + 1, d)
    PROVE  /\ e \in Database /\ Kept(e, lo) /\ Tight(e)
           /\ e.rev = d.rev + 1 /\ Present(e) = Present(d)
           /\ e.leftovers => d.leftovers
<1>0. /\ d.rev \in 0..7 /\ d.rows \in Rows
      /\ \A s \in Shipments : lo[s] \in 0..8
  BY DEF Database, Rows, Revisions
<1>1. \A s \in Present(d) : /\ s \in Shipments /\ RowKept(d, lo, s) /\ lo[s] <= d.rev
                            /\ d.rows[s] \in Row
  BY <1>0 DEF Kept, Present, Rows
<1>2. SUFFICES /\ e \in Database /\ e.rev = d.rev + 1
               /\ e.jobs = d.jobs \/ (e.jobs = {} /\ e.rev = JobQueue)
               /\ e.ratings = d.ratings /\ (e.leftovers => d.leftovers)
               /\ Present(e) = Present(d)
               /\ \A s \in Shipments : e.bids[s] = None <=> d.bids[s] = None
               /\ \A s \in Present(e) : RowKept(e, lo, s)
               /\ \A s \in Shipments : e.rev >= DeliveryMode => e.bids[s] # "null"
  <2> SUFFICES Tight(e) /\ Kept(e, lo)
    OBVIOUS
  <2>1. Tight(e)
    BY <1>0, <1>1, <1>2 DEF Tight, RowKept, Lived
  <2>2. /\ d.jobs \cup d.ratings \cup {s \in Shipments : d.bids[s] # None} \subseteq Present(d)
        /\ d.rev = Base => Present(d) = {}
        /\ d.rev < Bidding => \A s \in Shipments : d.bids[s] = None
        /\ d.rev < JobQueue => d.jobs = {}
    BY DEF Kept
  <2>3. /\ e.rev < Bidding => \A s \in Shipments : e.bids[s] = None
        /\ e.rev < JobQueue => e.jobs = {}
        /\ e.rev # Base
    BY <1>0, <1>2, <2>2
  <2>4. e.jobs \cup e.ratings \cup {s \in Shipments : e.bids[s] # None} \subseteq Present(e)
    BY <1>2, <2>2
  <2> QED
    BY <1>2, <2>1, <2>3, <2>4 DEF Kept
<1>3. CASE d.rev = 0
  <2>0. e = UpgradeStep(1, d)
    BY <1>3
  <2>1. Holds(e, 1, d.rows, d.bids, d.jobs, d.ratings, d.leftovers)
    BY <2>0, UpgradeEffect
  <2> QED
    BY <1>3, <2>1 DEF Holds, Kept, Present
<1>4. CASE d.rev = 1
  <2>0. e = UpgradeStep(2, d)
    BY <1>4
  <2>1. Holds(e, 2, d.rows, d.bids, d.jobs, d.ratings, d.leftovers)
    BY <2>0, UpgradeEffect
  <2> QED
    BY <1>4, <2>1 DEF Holds, CanUpgrade, TakesExpiry, Present
<1>5. CASE d.rev = 2
  <2>0. e = UpgradeStep(3, d)
    BY <1>5
  <2>1. Holds(e, 3, d.rows, d.bids, {}, d.ratings, FALSE)
    BY <2>0, UpgradeEffect
  <2>2. ASSUME NEW s \in Present(d) PROVE RowKept(e, lo, s)
    BY <1>0, <1>1, <1>5, <2>1, <2>2 DEF Holds, RowKept, Lived
  <2> QED
    BY <1>5, <2>1, <2>2 DEF Holds, Present
<1>6. CASE d.rev = 3
  <2>0. e = UpgradeStep(4, d)
    BY <1>6
  <2>1. Holds(e, 4, With(d.rows, "photo", "null"), d.bids, d.jobs, d.ratings, d.leftovers)
    BY <2>0, UpgradeEffect
  <2>2. \A s \in Shipments : Only(d.rows, s, "photo", "null")
    BY <1>0, Columns DEF Photo
  <2>3. Present(e) = Present(d)
    <3>1. ASSUME NEW s \in Shipments PROVE e.rows[s] = None <=> d.rows[s] = None
      BY <2>1, <2>2 DEF Holds, Only
    <3> QED
      BY <3>1, SamePresent
  <2>4. ASSUME NEW s \in Present(d) PROVE RowKept(e, lo, s)
    <3>1. e.rows[s] = [d.rows[s] EXCEPT !.photo = "null"]
      BY <1>1, <2>1, <2>2 DEF Holds, Only, Present
    <3> QED
      BY <1>0, <1>1, <1>6, <2>1, <3>1 DEF Holds, RowKept, Lived, Row
  <2> QED
    BY <1>6, <2>1, <2>3, <2>4 DEF Holds
<1>7. CASE d.rev \in {4, 6}
  <2>0. d.rev + 1 \in {1, 2, 5, 7}
    BY <1>7
  <2>1. Holds(e, d.rev + 1, d.rows, d.bids, d.jobs, d.ratings, d.leftovers)
    BY <2>0, UpgradeEffect
  <2>2. ASSUME NEW s \in Present(d) PROVE RowKept(e, lo, s)
    BY <1>0, <1>1, <1>7, <2>1, <2>2 DEF Holds, RowKept, Lived
  <2> QED
    BY <1>7, <2>1, <2>2 DEF Holds, Present
<1>8. CASE d.rev = 5
  <2>0. e = UpgradeStep(6, d)
    BY <1>8
  <2>1. Holds(e, 6, With(d.rows, "otp", "null"), d.bids, d.jobs, d.ratings, d.leftovers)
    BY <2>0, UpgradeEffect
  <2>2. \A s \in Shipments : Only(d.rows, s, "otp", "null")
    BY <1>0, Columns DEF Codes
  <2>3. Present(e) = Present(d)
    <3>1. ASSUME NEW s \in Shipments PROVE e.rows[s] = None <=> d.rows[s] = None
      BY <2>1, <2>2 DEF Holds, Only
    <3> QED
      BY <3>1, SamePresent
  <2>4. ASSUME NEW s \in Present(d) PROVE RowKept(e, lo, s)
    <3>1. e.rows[s] = [d.rows[s] EXCEPT !.otp = "null"]
      BY <1>1, <2>1, <2>2 DEF Holds, Only, Present
    <3> QED
      BY <1>0, <1>1, <1>8, <2>1, <3>1 DEF Holds, RowKept, Lived, Row
  <2> QED
    BY <1>8, <2>1, <2>3, <2>4 DEF Holds
<1>9. CASE d.rev = 7
  <2> DEFINE rows == With(d.rows, "expected_time", "absent")
  <2>0. e = UpgradeStep(8, d)
    BY <1>9
  <2>1. Holds(e, 8, With(rows, "promised", "null"), BidsWith(d.bids, "placeholder"), d.jobs,
              d.ratings, d.leftovers)
    BY <2>0, UpgradeEffect
  <2>2. /\ \A s \in Shipments : Only(d.rows, s, "expected_time", "absent")
        /\ rows \in Rows
    BY <1>0, Columns, WithTyped DEF Window
  <2>3. \A s \in Shipments : Only(rows, s, "promised", "null")
    BY <2>2, Columns DEF Promise
  <2>4. Present(e) = Present(d)
    <3>1. ASSUME NEW s \in Shipments PROVE e.rows[s] = None <=> d.rows[s] = None
      <4>1. rows[s] = None <=> d.rows[s] = None
        BY <2>2 DEF Only
      <4>2. e.rows[s] = None <=> rows[s] = None
        BY <2>1, <2>3 DEF Holds, Only
      <4> QED
        BY <4>1, <4>2
    <3> QED
      BY <3>1, SamePresent
  <2>5. \A s \in Shipments : e.bids[s] \in {None, "placeholder"}
                             /\ (e.bids[s] = None <=> d.bids[s] = None)
    BY <2>1 DEF Holds, BidsWith, Promise
  <2>6. ASSUME NEW s \in Present(d) PROVE RowKept(e, lo, s)
    <3>1. PICK r \in Row : r = [d.rows[s] EXCEPT !.expected_time = "absent"]
      BY <1>1 DEF Row, Window
    <3>2. rows[s] = r
      BY <1>1, <2>2, <3>1 DEF Only, Present
    <3>3. e.rows[s] = [r EXCEPT !.promised = "null"]
      BY <1>1, <2>1, <2>3, <3>2 DEF Holds, Only
    <3>4. /\ e.rows[s].status = d.rows[s].status /\ e.rows[s].price = d.rows[s].price
          /\ e.rows[s].otp = d.rows[s].otp /\ e.rows[s].photo = d.rows[s].photo
      BY <1>1, <3>1, <3>3 DEF Row
    <3> QED
      BY <1>0, <1>1, <1>9, <2>1, <2>5, <3>4 DEF Holds, RowKept, Lived
  <2>7. \A s \in Shipments : e.bids[s] # "null"
    BY <2>5 DEF Promise
  <2> QED
    BY <1>9, <2>1, <2>4, <2>5, <2>6, <2>7 DEF Holds
<1> QED
  BY <1>0, <1>3, <1>4, <1>5, <1>6, <1>7, <1>8, <1>9

\* A downgrade by one revision always can be, and keeps it too.
LEMMA DowngradeKeeps ==
    ASSUME NEW d \in Database, NEW lo \in [Shipments -> Revisions], Kept(d, lo),
           d.rev > 0,
           NEW e, e = DowngradeStep(d.rev, d)
    PROVE  /\ e \in Database /\ Kept(e, lo) /\ Tight(e)
           /\ e.rev = d.rev - 1 /\ Present(e) \subseteq Present(d)
<1>0. /\ d.rev \in 1..8 /\ d.rows \in Rows
      /\ \A s \in Shipments : lo[s] \in 0..8
  BY DEF Database, Rows, Revisions
<1>1. \A s \in Present(d) : /\ s \in Shipments /\ RowKept(d, lo, s) /\ d.rows[s] \in Row
  BY <1>0 DEF Kept, Present, Rows
<1>k. /\ d.jobs \cup d.ratings \cup {s \in Shipments : d.bids[s] # None} \subseteq Present(d)
      /\ d.rev < Bidding => \A s \in Shipments : d.bids[s] = None
      /\ d.rev < JobQueue => d.jobs = {}
  BY DEF Kept
<1>2. SUFFICES /\ e \in Database /\ e.rev = d.rev - 1
               /\ e.jobs = d.jobs \/ e.jobs = {}
               /\ d.rev = JobQueue => e.jobs = {}
               /\ e.ratings \subseteq d.ratings
               /\ IF d.rev = InitialSchema
                    THEN Present(e) = {} /\ e.ratings = {} /\ e.bids = d.bids
                    ELSE Present(e) = Present(d)
               /\ \A s \in Shipments : d.bids[s] = None => e.bids[s] = None
               /\ d.rev = Bidding => \A s \in Shipments : e.bids[s] = None
               /\ \A s \in Present(e) : RowKept(e, lo, s)
  <2>1. Tight(e)
    BY <1>0, <1>1, <1>2 DEF Tight, RowKept, Lived
  <2>2. /\ e.rev < Bidding => \A s \in Shipments : e.bids[s] = None
        /\ e.rev < JobQueue => e.jobs = {}
        /\ e.rev = Base => Present(e) = {}
    BY <1>0, <1>2, <1>k
  <2>3. e.jobs \cup e.ratings \cup {s \in Shipments : e.bids[s] # None} \subseteq Present(e)
    BY <1>0, <1>2, <1>k
  <2>4. Present(e) \subseteq Present(d)
    BY <1>2
  <2> QED
    BY <1>2, <2>1, <2>2, <2>3, <2>4 DEF Kept
<1>3. CASE d.rev = 1
  <2>0. e = DowngradeStep(1, d)
    BY <1>3
  <2>1. Holds(e, 0, NoRows, d.bids, d.jobs, {}, d.leftovers)
    BY <2>0, DowngradeEffect
  <2>2. Present(e) = {}
    BY <2>1 DEF Holds, Present, NoRows
  <2> QED
    BY <1>3, <2>1, <2>2 DEF Holds
<1>4. CASE d.rev = 2
  <2> DEFINE rows == With(d.rows, "status", "absent")
  <2>0. e = DowngradeStep(2, d)
    BY <1>4
  <2>1. Holds(e, 1, With(rows, "expires_at", "absent"), NoRows, d.jobs, d.ratings, d.leftovers)
    BY <2>0, DowngradeEffect
  <2>2. /\ \A s \in Shipments : Only(d.rows, s, "status", "absent")
        /\ rows \in Rows
    BY <1>0, Columns, WithTyped DEF Status
  <2>3. \A s \in Shipments : Only(rows, s, "expires_at", "absent")
    BY <2>2, Columns DEF Expiry
  <2>4. Present(e) = Present(d)
    <3>1. ASSUME NEW s \in Shipments PROVE e.rows[s] = None <=> d.rows[s] = None
      <4>1. rows[s] = None <=> d.rows[s] = None
        BY <2>2 DEF Only
      <4>2. e.rows[s] = None <=> rows[s] = None
        BY <2>1, <2>3 DEF Holds, Only
      <4> QED
        BY <4>1, <4>2
    <3> QED
      BY <3>1, SamePresent
  <2>5. \A s \in Shipments : e.bids[s] = None
    BY <2>1 DEF Holds, NoRows
  <2>6. ASSUME NEW s \in Present(d) PROVE RowKept(e, lo, s)
    <3>1. PICK r \in Row : r = [d.rows[s] EXCEPT !.status = "absent"]
      BY <1>1 DEF Row, Status
    <3>2. rows[s] = r
      BY <1>1, <2>2, <3>1 DEF Only, Present
    <3>3. e.rows[s] = [r EXCEPT !.expires_at = "absent"]
      BY <1>1, <2>1, <2>3, <3>2 DEF Holds, Only
    <3>4. /\ e.rows[s].price = d.rows[s].price
      BY <1>1, <3>1, <3>3 DEF Row
    <3> QED
      BY <1>0, <1>1, <1>4, <2>1, <3>4 DEF Holds, RowKept, Lived
  <2> QED
    BY <1>4, <2>1, <2>4, <2>5, <2>6 DEF Holds
<1>5. CASE d.rev = 3
  <2>0. e = DowngradeStep(3, d)
    BY <1>5
  <2>1. Holds(e, 2, d.rows, d.bids, {}, d.ratings, TRUE)
    BY <2>0, DowngradeEffect
  <2>2. Present(e) = Present(d)
    BY <2>1 DEF Holds, Present
  <2>3. ASSUME NEW s \in Present(d) PROVE RowKept(e, lo, s)
    BY <1>0, <1>1, <1>5, <2>1, <2>3 DEF Holds, RowKept, Lived
  <2> QED
    BY <1>5, <2>1, <2>2, <2>3 DEF Holds
<1>6. CASE d.rev = 4
  <2>0. e = DowngradeStep(4, d)
    BY <1>6
  <2>1. Holds(e, 3, With(d.rows, "photo", "absent"), d.bids, d.jobs, d.ratings, d.leftovers)
    BY <2>0, DowngradeEffect
  <2>2. \A s \in Shipments : Only(d.rows, s, "photo", "absent")
    BY <1>0, Columns DEF Photo
  <2>3. Present(e) = Present(d)
    <3>1. ASSUME NEW s \in Shipments PROVE e.rows[s] = None <=> d.rows[s] = None
      BY <2>1, <2>2 DEF Holds, Only
    <3> QED
      BY <3>1, SamePresent
  <2>4. ASSUME NEW s \in Present(d) PROVE RowKept(e, lo, s)
    <3>1. e.rows[s] = [d.rows[s] EXCEPT !.photo = "absent"]
      BY <1>1, <2>1, <2>2 DEF Holds, Only, Present
    <3> QED
      BY <1>0, <1>1, <1>6, <2>1, <3>1 DEF Holds, RowKept, Lived, Row
  <2> QED
    BY <1>6, <2>1, <2>3, <2>4 DEF Holds
<1>7. CASE d.rev = 5
  <2>0. e = DowngradeStep(5, d)
    BY <1>7
  <2>1. Holds(e, 4, Filled(d.rows), d.bids, d.jobs, d.ratings, d.leftovers)
    BY <2>0, DowngradeEffect
  <2>2. \A s \in Shipments :
           /\ d.rows[s] = None => Filled(d.rows)[s] = None
           /\ d.rows[s] # None =>
                 Filled(d.rows)[s] = IF d.rows[s].price = "null"
                                     THEN [d.rows[s] EXCEPT !.price = "zero"] ELSE d.rows[s]
    BY DEF Filled
  <2>3. ASSUME NEW s \in Shipments, d.rows[s] # None
        PROVE  Filled(d.rows)[s] # None
    <3>1. d.rows[s] \in Row
      BY <1>0, <2>3 DEF Rows
    <3>2. [d.rows[s] EXCEPT !.price = "zero"] \in Row
      BY <3>1 DEF Row, Price
    <3> QED
      BY <2>2, <2>3, <3>2
  <2>4. Present(e) = Present(d)
    <3>1. ASSUME NEW s \in Shipments PROVE e.rows[s] = None <=> d.rows[s] = None
      BY <2>1, <2>2, <2>3 DEF Holds
    <3> QED
      BY <3>1, SamePresent
  <2>5. ASSUME NEW s \in Present(d) PROVE RowKept(e, lo, s)
    <3>1. e.rows[s] = IF d.rows[s].price = "null" THEN [d.rows[s] EXCEPT !.price = "zero"]
                                                  ELSE d.rows[s]
      BY <1>1, <2>1, <2>2 DEF Holds, Present
    <3>2. /\ e.rows[s].price = IF d.rows[s].price = "null" THEN "zero" ELSE d.rows[s].price
          /\ e.rows[s].status = d.rows[s].status /\ e.rows[s].promised = d.rows[s].promised
          /\ e.rows[s].otp = d.rows[s].otp /\ e.rows[s].photo = d.rows[s].photo
      BY <1>1, <3>1 DEF Row
    <3> QED
      BY <1>0, <1>1, <1>7, <2>1, <3>2 DEF Holds, RowKept, Lived
  <2> QED
    BY <1>7, <2>1, <2>4, <2>5 DEF Holds
<1>8. CASE d.rev = 6
  <2>0. e = DowngradeStep(6, d)
    BY <1>8
  <2>1. Holds(e, 5, With(d.rows, "otp", "absent"), d.bids, d.jobs, d.ratings, d.leftovers)
    BY <2>0, DowngradeEffect
  <2>2. \A s \in Shipments : Only(d.rows, s, "otp", "absent")
    BY <1>0, Columns DEF Codes
  <2>3. Present(e) = Present(d)
    <3>1. ASSUME NEW s \in Shipments PROVE e.rows[s] = None <=> d.rows[s] = None
      BY <2>1, <2>2 DEF Holds, Only
    <3> QED
      BY <3>1, SamePresent
  <2>4. ASSUME NEW s \in Present(d) PROVE RowKept(e, lo, s)
    <3>1. e.rows[s] = [d.rows[s] EXCEPT !.otp = "absent"]
      BY <1>1, <2>1, <2>2 DEF Holds, Only, Present
    <3> QED
      BY <1>0, <1>1, <1>8, <2>1, <3>1 DEF Holds, RowKept, Lived, Row
  <2> QED
    BY <1>8, <2>1, <2>3, <2>4 DEF Holds
<1>9. CASE d.rev = 7
  <2>0. e = DowngradeStep(7, d)
    BY <1>9
  <2>1. Holds(e, 6, d.rows, d.bids, d.jobs, d.ratings, d.leftovers)
    BY <2>0, DowngradeEffect
  <2>2. Present(e) = Present(d)
    BY <2>1 DEF Holds, Present
  <2>3. ASSUME NEW s \in Present(d) PROVE RowKept(e, lo, s)
    BY <1>0, <1>1, <1>9, <2>1, <2>3 DEF Holds, RowKept, Lived
  <2> QED
    BY <1>9, <2>1, <2>2, <2>3 DEF Holds
<1>10. CASE d.rev = 8
  <2> DEFINE rows == With(d.rows, "promised", "absent")
  <2>0. e = DowngradeStep(8, d)
    BY <1>10
  <2>1. Holds(e, 7, With(rows, "expected_time", "placeholder"), BidsWith(d.bids, "absent"), d.jobs, d.ratings, d.leftovers)
    BY <2>0, DowngradeEffect
  <2>2. /\ \A s \in Shipments : Only(d.rows, s, "promised", "absent")
        /\ rows \in Rows
    BY <1>0, Columns, WithTyped DEF Promise
  <2>3. \A s \in Shipments : Only(rows, s, "expected_time", "placeholder")
    BY <2>2, Columns DEF Window
  <2>4. Present(e) = Present(d)
    <3>1. ASSUME NEW s \in Shipments PROVE e.rows[s] = None <=> d.rows[s] = None
      <4>1. rows[s] = None <=> d.rows[s] = None
        BY <2>2 DEF Only
      <4>2. e.rows[s] = None <=> rows[s] = None
        BY <2>1, <2>3 DEF Holds, Only
      <4> QED
        BY <4>1, <4>2
    <3> QED
      BY <3>1, SamePresent
  <2>5. \A s \in Shipments : d.bids[s] = None => e.bids[s] = None
    BY <2>1 DEF Holds, BidsWith
  <2>6. ASSUME NEW s \in Present(d) PROVE RowKept(e, lo, s)
    <3>1. PICK r \in Row : r = [d.rows[s] EXCEPT !.promised = "absent"]
      BY <1>1 DEF Row, Promise
    <3>2. rows[s] = r
      BY <1>1, <2>2, <3>1 DEF Only, Present
    <3>3. e.rows[s] = [r EXCEPT !.expected_time = "placeholder"]
      BY <1>1, <2>1, <2>3, <3>2 DEF Holds, Only
    <3>4. /\ e.rows[s].price = d.rows[s].price
          /\ e.rows[s].status = d.rows[s].status
          /\ e.rows[s].otp = d.rows[s].otp /\ e.rows[s].photo = d.rows[s].photo
      BY <1>1, <3>1, <3>3 DEF Row
    <3> QED
      BY <1>0, <1>1, <1>10, <2>1, <3>4 DEF Holds, RowKept, Lived
  <2> QED
    BY <1>10, <2>1, <2>4, <2>5, <2>6 DEF Holds
<1> QED
  BY <1>0, <1>3, <1>4, <1>5, <1>6, <1>7, <1>8, <1>9, <1>10
-----------------------------------------------------------------------------
(* The invariant *)

\* An empty database at Base holds nothing that was not kept.
LEMMA InvInit == Init => IInv
<1> SUFFICES ASSUME Init PROVE IInv
  OBVIOUS
<1> DEFINE d == [rev |-> Base, rows |-> NoRows, bids |-> NoRows, jobs |-> {},
                 ratings |-> {}, leftovers |-> FALSE]
<1>1. d \in Database
  BY DEF Database, NoRows, Revisions
<1>2. db = d /\ run = Idle /\ serving = FALSE /\ last = "none"
      /\ low = [s \in Shipments |-> Head]
  BY DEF Init
<1>3. Present(db) = {} /\ \A s \in Shipments : db.bids[s] = None
  BY <1>2 DEF Present, NoRows
<1>4. TypeOK
  <2>1. low \in [Shipments -> Revisions]
    <3>1. Head \in Revisions
      BY DEF Revisions
    <3> QED
      BY <1>2, <3>1
  <2>2. db \in Database
    BY <1>1, <1>2
  <2> HIDE DEF d
  <2> QED
    BY <1>2, <2>1, <2>2 DEF TypeOK
<1>5. Kept(db, low)
  <2>1. db.rev = Base /\ db.jobs = {} /\ db.ratings = {}
    BY <1>2
  <2> QED
    BY <1>3, <2>1 DEF Kept
<1>6. FailsOnlyOver
  BY <1>2 DEF FailsOnlyOver
<1> QED
  BY <1>2, <1>3, <1>4, <1>5, <1>6 DEF IInv

\* No command is under way when run is Idle.
LEMMA Commanding == run.command \in {"upgrade", "downgrade"} => run # Idle
<1>1. Idle.command = "none"
  BY DEF Idle
<1> QED
  BY <1>1

\* The types that the steps need.
LEMMA Facts ==
    ASSUME IInv
    PROVE  /\ db \in Database /\ db.rev \in 0..8 /\ low \in [Shipments -> Revisions]
           /\ \A s \in Shipments : low[s] \in 0..8
           /\ run # Idle => run \in Run /\ run.work \in Database /\ run.work.rev \in 0..8
  BY DEF IInv, TypeOK, Run, Database, Revisions

\* A command that starts works on what is committed.
LEMMA StartNext ==
    ASSUME IInv,
           StartContainer \/ \E target \in Revisions : Downgrade(target)
    PROVE  IInv'
<1>1. /\ UNCHANGED <<db, serving, last, low>> /\ ~serving
      /\ \/ run' = [command |-> "upgrade", target |-> Head, work |-> db]
         \/ \E target \in Revisions :
               /\ target < db.rev
               /\ run' = [command |-> "downgrade", target |-> target, work |-> db]
  BY DEF StartContainer, Downgrade
<1>2. run' \in Run /\ run'.work = db
  BY <1>1, Facts DEF Run, Revisions
<1>3. TypeOK'
  BY <1>1, <1>2 DEF IInv, TypeOK
<1>4. run'.command = "upgrade" => run'.target = Head
  BY <1>1
<1>5. run'.target <= run'.work.rev \/ run'.command = "upgrade"
  BY <1>1, Facts DEF Revisions
<1>6. OnItsWay'
  <2>1. Kept(run'.work, low')
    BY <1>1, <1>2 DEF IInv
  <2>2. Present(run'.work) = Present(db')
    BY <1>1, <1>2
  <2>3. db'.rev <= run'.work.rev /\ (run'.work.leftovers => db'.leftovers)
    BY <1>1, <1>2, Facts
  <2> QED
    BY <1>4, <1>5, <2>1, <2>2, <2>3 DEF OnItsWay
<1>7. Kept(db, low)' /\ Present(db)' = Present(db)
  BY <1>1 DEF IInv
<1>8. FailsOnlyOver'
  BY <1>1, <1>7 DEF IInv, FailsOnlyOver
<1> QED
  BY <1>1, <1>3, <1>6, <1>7, <1>8 DEF IInv

\* A container that stops leaves the database as it is.
LEMMA StopNext == IInv /\ StopContainer => IInv'
<1> SUFFICES ASSUME IInv, StopContainer PROVE IInv'
  OBVIOUS
<1>1. UNCHANGED <<db, run, last, low>> /\ serving' = FALSE
  BY DEF StopContainer
<1>2. TypeOK' /\ FailsOnlyOver' /\ Kept(db, low)'
  BY <1>1 DEF IInv, TypeOK, FailsOnlyOver
<1>3. run' # Idle => OnItsWay'
  BY <1>1 DEF IInv, OnItsWay
<1> QED
  BY <1>1, <1>2, <1>3 DEF IInv

\* A command that ends without committing: if an upgrade failed, something has
\* to be to blame.
LEMMA EndNext ==
    ASSUME IInv, run # Idle, run' = Idle, UNCHANGED <<db, serving, low>>,
           \/ last' = "none"
           \/ /\ last' = "upgrade failed"
              /\ db.leftovers \/ \E s \in Present(db) : low[s] < Bidding
    PROVE  IInv'
<1>1. TypeOK' /\ Kept(db, low)' /\ Present(db)' = Present(db)
  BY DEF IInv, TypeOK
<1>2. FailsOnlyOver'
  BY <1>1 DEF FailsOnlyOver
<1>3. ~serving'
  BY DEF IInv
<1> QED
  BY <1>1, <1>2, <1>3 DEF IInv

\* A migration keeps to the command's way.
LEMMA AdvanceNext ==
    ASSUME IInv, run # Idle, NEW e, Advance(e), e \in Database, Kept(e, low),
           Present(e) \subseteq Present(run.work),
           run.target <= e.rev \/ run.command = "upgrade",
           run.command = "upgrade" => db.rev <= e.rev /\ (e.leftovers => run.work.leftovers)
    PROVE  IInv'
<1>1. /\ run' = [run EXCEPT !.work = e] /\ UNCHANGED <<db, serving, last, low>>
      /\ OnItsWay /\ run \in Run
  BY Facts DEF Advance, CommitAtEnd, IInv
<1>2. /\ run' \in Run /\ run'.work = e
      /\ run'.command = run.command /\ run'.target = run.target
  BY <1>1 DEF Run
<1>3. OnItsWay'
  <2>1. Kept(run'.work, low') /\ Present(run'.work) \subseteq Present(db')
    BY <1>1, <1>2 DEF OnItsWay
  <2>2. run'.target <= run'.work.rev \/ run'.command = "upgrade"
    BY <1>2
  <2>3. run'.command = "upgrade" => /\ db'.rev <= run'.work.rev /\ run'.target = Head
                                    /\ run'.work.leftovers => db'.leftovers
    BY <1>1, <1>2 DEF OnItsWay
  <2> QED
    BY <2>1, <2>2, <2>3 DEF OnItsWay
<1>4. TypeOK' /\ Kept(db, low)' /\ FailsOnlyOver' /\ Present(db)' = Present(db)
  BY <1>1, <1>2 DEF IInv, TypeOK, FailsOnlyOver
<1>5. ~serving'
  BY <1>1 DEF IInv
<1> QED
  BY <1>1, <1>3, <1>4, <1>5 DEF IInv

\* An upgrade goes on, or stops at rows that have lived before Bidding.
LEMMA UpgradeNextKeeps == IInv /\ UpgradeNext => IInv'
<1> SUFFICES ASSUME IInv, UpgradeNext PROVE IInv'
  OBVIOUS
<1> DEFINE n == run.work.rev + 1
           e == UpgradeStep(n, run.work)
           may == CanUpgrade(n, run.work) /\ Tight(e)
<1>1. /\ run.command = "upgrade" /\ n <= run.target
      /\ (may /\ Advance(e)) \/ (~may /\ GiveUp("upgrade failed"))
  BY DEF UpgradeNext
<1>2. run # Idle
  BY <1>1, Commanding
<1>3. OnItsWay /\ run.work \in Database /\ run.work.rev \in 0..8 /\ run.target = Head
  BY <1>1, <1>2, Facts DEF IInv, OnItsWay
<1>4. /\ Kept(run.work, low) /\ low \in [Shipments -> Revisions]
      /\ run.work.rev < Head
      /\ Present(run.work) \subseteq Present(db) /\ db.rev <= run.work.rev
      /\ \A s \in Present(run.work) : low[s] <= run.work.rev
  <2>1. \A s \in Present(db) : s \in Shipments /\ low[s] <= db.rev /\ low[s] \in 0..8
    BY Facts DEF IInv, Present
  <2>0. run.work.rev + 1 <= run.target /\ run.work.rev \in 0..8 /\ run.target = Head
    BY <1>1, <1>3
  <2>2. run.work.rev < Head
    BY <2>0
  <2>3. /\ Kept(run.work, low) /\ Present(run.work) \subseteq Present(db)
        /\ db.rev <= run.work.rev
    BY <1>1, <1>3 DEF OnItsWay
  <2>4. \A s \in Present(run.work) : low[s] <= run.work.rev
    <3>1. db.rev \in 0..8
      BY Facts
    <3> QED
      BY <2>0, <2>1, <2>3, <3>1
  <2> HIDE DEF e
  <2> QED
    BY <2>2, <2>3, <2>4, Facts
<1>5. CanUpgrade(n, run.work) =>
         /\ e \in Database /\ Kept(e, low) /\ Tight(e)
         /\ e.rev = n /\ Present(e) = Present(run.work)
         /\ e.leftovers => run.work.leftovers
  <2> HIDE DEF e
  <2> SUFFICES ASSUME CanUpgrade(n, run.work)
               PROVE  /\ e \in Database /\ Kept(e, low) /\ Tight(e)
                      /\ e.rev = n /\ Present(e) = Present(run.work)
                      /\ e.leftovers => run.work.leftovers
    OBVIOUS
  <2>1. e = UpgradeStep(run.work.rev + 1, run.work)
    BY DEF e
  <2> QED
    BY <1>3, <1>4, <2>1, UpgradeKeeps
<1>6. CASE may /\ Advance(e)
  <2>1. db.rev <= e.rev
    BY <1>3, <1>4, <1>5, <1>6, Facts
  <2> HIDE DEF e
  <2> QED
    BY <1>1, <1>2, <1>5, <1>6, <2>1, AdvanceNext
<1>7. CASE ~may /\ GiveUp("upgrade failed")
  <2>1. ~CanUpgrade(n, run.work)
    BY <1>5, <1>7
  <2>2. RatingsRefer(run.work)
    BY <1>4 DEF Kept, RatingsRefer
  <2>3. n = Bidding /\ Present(run.work) # {}
    BY <2>1, <2>2 DEF CanUpgrade, TakesExpiry
  <2>4. PICK s \in Present(run.work) : TRUE
    BY <2>3
  <2>5. s \in Present(db) /\ low[s] < Bidding
    <3>1. s \in Shipments /\ low[s] \in 0..8 /\ low[s] <= run.work.rev
      BY <1>4, <2>4, Facts DEF Present
    <3> QED
      BY <1>3, <1>4, <2>3, <3>1
  <2> QED
    BY <1>2, <1>7, <2>5, EndNext DEF GiveUp
<1> QED
  BY <1>1, <1>6, <1>7

\* The queue schema clashes with what the committed database has left.
LEMMA ClashNext == IInv /\ QueueSchemaClashes => IInv'
<1> SUFFICES ASSUME IInv, QueueSchemaClashes PROVE IInv'
  OBVIOUS
<1>1. run.command = "upgrade" /\ run.work.leftovers /\ GiveUp("upgrade failed")
  BY DEF QueueSchemaClashes
<1>2. run # Idle
  BY <1>1, Commanding
<1>3. db.leftovers
  BY <1>1, <1>2 DEF IInv, OnItsWay
<1> QED
  BY <1>1, <1>2, <1>3, EndNext DEF GiveUp

\* A downgrade always goes on.
LEMMA DowngradeNextKeeps == IInv /\ DowngradeNext => IInv'
<1> SUFFICES ASSUME IInv, DowngradeNext PROVE IInv'
  OBVIOUS
<1> DEFINE e == DowngradeStep(run.work.rev, run.work)
<1>1. /\ run.command = "downgrade" /\ run.work.rev > run.target
      /\ (Tight(e) /\ Advance(e)) \/ (~Tight(e) /\ GiveUp("downgrade failed"))
  BY DEF DowngradeNext
<1>2. run # Idle
  BY <1>1, Commanding
<1>3. /\ run.work \in Database /\ run.work.rev \in 0..8 /\ run.target \in 0..8
      /\ Kept(run.work, low) /\ low \in [Shipments -> Revisions]
  BY <1>2, Facts DEF IInv, OnItsWay, Run, Revisions
<1> HIDE DEF e
<1>4. e = DowngradeStep(run.work.rev, run.work) /\ run.work.rev > 0
  <2>0. run.work.rev > run.target
    BY <1>1
  <2>1. run.work.rev > 0
    BY <1>3, <2>0
  <2> QED
    BY <2>1 DEF e
<1>5. /\ e \in Database /\ Kept(e, low) /\ Tight(e)
      /\ e.rev = run.work.rev - 1 /\ Present(e) \subseteq Present(run.work)
  BY <1>3, <1>4, DowngradeKeeps
<1>6. run.target <= e.rev /\ run.command # "upgrade"
  BY <1>1, <1>3, <1>5
<1> QED
  BY <1>1, <1>2, <1>5, <1>6, AdvanceNext

\* What is committed is what the command has kept.
LEMMA CommitNext == IInv /\ CommitCommand => IInv'
<1> SUFFICES ASSUME IInv, CommitCommand PROVE IInv'
  OBVIOUS
<1> DEFINE w == run.work
<1>1. /\ run # Idle /\ w.rev = run.target /\ db' = w
      /\ serving' = (run.command = "upgrade") /\ last' = "done" /\ run' = Idle
      /\ low' = [s \in Shipments |->
                   IF w.rows[s] = None THEN Head
                   ELSE IF run.target < low[s] THEN run.target ELSE low[s]]
  BY DEF CommitCommand
<1>2. /\ w \in Database /\ w.rev \in 0..8 /\ OnItsWay /\ run \in Run
      /\ \A s \in Shipments : low[s] \in 0..8
  BY <1>1, Facts DEF IInv
<1>3. run.command = "upgrade" => w.rev = Head
  BY <1>1, <1>2 DEF OnItsWay
<1> HIDE DEF w
<1>4. \A s \in Shipments : low'[s] \in 0..8
  BY <1>1, <1>2
<1>5. low' \in [Shipments -> Revisions]
  BY <1>1, <1>4 DEF Revisions
<1>6. TypeOK'
  BY <1>1, <1>2, <1>5 DEF TypeOK
<1>7. \A s \in Present(w) : /\ s \in Shipments
                           /\ low'[s] = IF w.rev < low[s] THEN w.rev ELSE low[s]
  BY <1>1 DEF Present
<1>8. Kept(w, low')
  <2>1. Kept(w, low)
    BY <1>2 DEF OnItsWay, w
  <2>2. ASSUME NEW s \in Present(w) PROVE RowKept(w, low', s)
    <3>1. RowKept(w, low, s)
      BY <2>1 DEF Kept
    <3>2. Lived(w, low', s) = Lived(w, low, s)
      BY <1>2, <1>7 DEF Lived
    <3> QED
      BY <3>1, <3>2 DEF RowKept
  <2> QED
    BY <2>1, <2>2 DEF Kept
<1>9. /\ \A s \in Present(w) : low'[s] <= w.rev
      /\ \A s \in Shipments \ Present(w) : low'[s] = Head
  BY <1>1, <1>2, <1>7 DEF Present
<1>10. FailsOnlyOver'
  BY <1>1 DEF FailsOnlyOver
<1>11. serving' => db'.rev = Head
  BY <1>1, <1>3
<1> QED
  BY <1>1, <1>6, <1>8, <1>9, <1>10, <1>11 DEF IInv

\* A command that is killed leaves what is committed.
LEMMA KillNext == IInv /\ KillCommand => IInv'
  BY EndNext DEF KillCommand

\* What the requests and the jobs find: a database at the last revision.
LEMMA ServedFacts ==
    ASSUME IInv, serving, NEW s \in Shipments
    PROVE  /\ db \in Database /\ db.rev = 8 /\ low[s] \in 0..8 /\ run = Idle
           /\ db.rows \in Rows /\ db.bids \in [Shipments -> Promise \cup {None}]
           /\ Lived(db, low, s) = low[s]
           /\ db.rows[s] # None => db.rows[s] \in Row /\ RowKept(db, low, s)
           /\ db.rows[s] = None => low[s] = 8
           /\ s \in db.jobs \/ db.bids[s] # None => db.rows[s] # None
<1>1. db \in Database /\ db.rev = 8 /\ low[s] \in 0..8 /\ run = Idle
  BY Facts DEF IInv
<1>2. db.rows \in Rows /\ db.bids \in [Shipments -> Promise \cup {None}]
  BY <1>1 DEF Database, Rows
<1>3. Lived(db, low, s) = low[s]
  BY <1>1 DEF Lived
<1>4. db.rows[s] # None => db.rows[s] \in Row /\ RowKept(db, low, s)
  BY <1>2 DEF Rows, IInv, Kept, Present
<1>5. db.rows[s] = None => low[s] = 8
  BY DEF IInv, Present
<1>6. s \in db.jobs \/ db.bids[s] # None => db.rows[s] # None
  BY DEF IInv, Kept, Present
<1> QED
  BY <1>1, <1>2, <1>3, <1>4, <1>5, <1>6

\* A request or a job that writes the row of s, its bid, its job or its rating,
\* and leaves the row as a row at the last revision has to be.
LEMMA ServeKeeps ==
    ASSUME IInv, NEW s \in Shipments, NEW e, Serve(s, e),
           e \in Database, e.rev = db.rev, e.rows[s] # None,
           \A x \in Shipments \ {s} : e.rows[x] = db.rows[x] /\ e.bids[x] = db.bids[x],
           db.jobs \ {s} \subseteq e.jobs, e.jobs \subseteq db.jobs \cup {s},
           e.ratings \subseteq db.ratings \cup {s},
           RowKept(e, low, s)
    PROVE  IInv'
<1>1. serving /\ db' = e /\ UNCHANGED <<run, serving, last, low>>
  BY DEF Serve
<1>2. run = Idle /\ db.rev = 8 /\ last # "upgrade failed"
  BY <1>1 DEF IInv
<1>3. Present(e) = Present(db) \cup {s}
  BY DEF Present
<1>4. Kept(db, low)
  BY DEF IInv
<1>5. Kept(e, low)
  <2>1. ASSUME NEW x \in Present(e) PROVE RowKept(e, low, x)
    <3>1. CASE x = s
      BY <3>1
    <3>2. CASE x # s
      <4>1. x \in Present(db) /\ x \in Shipments \ {s}
        BY <1>3, <3>2 DEF Present
      <4>2. RowKept(db, low, x)
        BY <1>4, <4>1 DEF Kept
      <4>3. /\ e.rows[x] = db.rows[x] /\ e.bids[x] = db.bids[x]
            /\ x \in db.jobs => x \in e.jobs
        BY <4>1
      <4> QED
        BY <4>2, <4>3 DEF RowKept, Lived
    <3> QED
      BY <3>1, <3>2
  <2>2. e.jobs \cup e.ratings \cup {x \in Shipments : e.bids[x] # None} \subseteq Present(e)
    <3>1. db.jobs \cup db.ratings \cup {x \in Shipments : db.bids[x] # None}
             \subseteq Present(db)
      BY <1>4 DEF Kept
    <3>2. \A x \in Shipments : e.bids[x] # None => x = s \/ db.bids[x] # None
      OBVIOUS
    <3>3. e.jobs \subseteq Present(e) /\ e.ratings \subseteq Present(e)
      BY <1>3, <3>1
    <3>4. {x \in Shipments : e.bids[x] # None} \subseteq Present(e)
      BY <1>3, <3>1, <3>2
    <3> QED
      BY <3>3, <3>4
  <2>3. e.rev = 8
    BY <1>2
  <2> QED
    BY <2>1, <2>2, <2>3 DEF Kept
<1>6. /\ \A x \in Present(e) : low[x] <= e.rev
      /\ \A x \in Shipments \ Present(e) : low[x] = Head
  <2>1. /\ \A x \in Present(db) : low[x] <= db.rev
        /\ \A x \in Shipments \ Present(db) : low[x] = Head
    BY DEF IInv
  <2>2. low[s] <= e.rev
    <3>1. low[s] \in 0..8
      BY <1>1, ServedFacts
    <3>2. e.rev = 8
      BY <1>2
    <3> QED
      BY <3>1, <3>2
  <2>3. Present(db) \subseteq Shipments
    BY DEF Present
  <2> QED
    BY <1>3, <2>1, <2>2, <2>3
<1>7. TypeOK' /\ FailsOnlyOver'
  BY <1>1, <1>2 DEF IInv, TypeOK, FailsOnlyOver
<1> QED
  BY <1>1, <1>2, <1>5, <1>6, <1>7 DEF IInv

\* A new shipment: no price yet, its codes, its photo and its expiry job.
LEMMA CreateNext == IInv /\ (\E s \in Shipments : CreateShipment(s)) => IInv'
<1> SUFFICES ASSUME IInv, NEW s \in Shipments, CreateShipment(s) PROVE IInv'
  OBVIOUS
<1> DEFINE r == [status |-> "pending", expires_at |-> "set", price |-> "null",
                 expected_time |-> "absent", promised |-> "null", otp |-> "issued",
                 photo |-> "given"]
           e == [db EXCEPT !.jobs = @ \cup {s}, !.rows[s] = r]
<1>1. serving /\ Serve(s, e) /\ db.rows[s] = None
  BY DEF CreateShipment, Serve
<1>2. r \in Row
  BY DEF Row, Status, Expiry, Price, Window, Promise, Codes, Photo
<1>3. /\ r.status = "pending" /\ r.price = "null" /\ r.otp = "issued" /\ r.photo = "given"
  OBVIOUS
<1> HIDE DEF r
<1>4. /\ e \in Database /\ e.rev = db.rev /\ e.rows = [db.rows EXCEPT ![s] = r]
      /\ e.bids = db.bids /\ e.jobs = db.jobs \cup {s} /\ e.ratings = db.ratings
  BY <1>1, <1>2, ServedFacts DEF Database, Rows
<1> HIDE DEF e
<1>5. /\ e.rows[s] = r /\ r # None
      /\ \A x \in Shipments \ {s} : e.rows[x] = db.rows[x]
  BY <1>1, <1>2, <1>4, ServedFacts DEF Rows
<1>6. RowKept(e, low, s)
  <2>1. db.bids[s] = None /\ low[s] = 8 /\ db.rev = 8
    BY <1>1, ServedFacts
  <2>2. Lived(e, low, s) = 8
    BY <1>4, <2>1 DEF Lived
  <2> QED
    BY <1>3, <1>4, <1>5, <2>1, <2>2 DEF RowKept
<1> QED
  BY <1>1, <1>4, <1>5, <1>6, ServeKeeps

\* A bid with a promise of its captain's.
LEMMA PlaceBidNext == IInv /\ (\E s \in Shipments : PlaceBid(s)) => IInv'
<1> SUFFICES ASSUME IInv, NEW s \in Shipments, PlaceBid(s) PROVE IInv'
  OBVIOUS
<1> DEFINE e == [db EXCEPT !.bids[s] = "promised"]
<1>1. serving /\ Serve(s, e) /\ db.rows[s] # None
  BY DEF PlaceBid, Serve
<1>2. /\ e \in Database /\ e.rev = db.rev /\ e.rows = db.rows
      /\ e.bids = [db.bids EXCEPT ![s] = "promised"] /\ e.jobs = db.jobs
      /\ e.ratings = db.ratings
  BY <1>1, ServedFacts DEF Database, Promise
<1> HIDE DEF e
<1>3. e.bids[s] = "promised" /\ \A x \in Shipments \ {s} : e.bids[x] = db.bids[x]
  BY <1>1, <1>2, ServedFacts
<1>4. RowKept(e, low, s)
  BY <1>1, <1>2, <1>3, ServedFacts DEF RowKept, Lived
<1> QED
  BY <1>1, <1>2, <1>3, <1>4, ServeKeeps

\* An award: the price is agreed, and the promise is the bid's.
LEMMA AcceptNext == IInv /\ (\E s \in Shipments : AcceptBid(s)) => IInv'
<1> SUFFICES ASSUME IInv, NEW s \in Shipments, AcceptBid(s) PROVE IInv'
  OBVIOUS
<1> DEFINE r == [db.rows[s] EXCEPT !.status = "accepted", !.price = "agreed",
                                   !.promised = db.bids[s]]
           e == [db EXCEPT !.rows[s] = r]
<1>0. serving /\ db.rows[s] # None /\ db.bids[s] # None
  BY DEF AcceptBid, Serve
<1>1. Serve(s, e)
  <2>1. e = [db EXCEPT !.rows[s] = [@ EXCEPT !.status = "accepted", !.price = "agreed",
                                             !.promised = db.bids[s]]]
    BY <1>0, ServedFacts DEF Database, Rows
  <2> QED
    BY <1>0, <2>1 DEF AcceptBid
<1>2. db.rows[s] \in Row /\ db.bids[s] \in Promise /\ RowKept(db, low, s)
  BY <1>0, ServedFacts
<1>3. /\ r \in Row /\ r.status = "accepted" /\ r.price = "agreed"
      /\ r.promised = db.bids[s] /\ r.otp = db.rows[s].otp /\ r.photo = db.rows[s].photo
  BY <1>2 DEF Row, Status, Price
<1> HIDE DEF r
<1>4. /\ e \in Database /\ e.rev = db.rev /\ e.rows = [db.rows EXCEPT ![s] = r]
      /\ e.bids = db.bids /\ e.jobs = db.jobs /\ e.ratings = db.ratings
  BY <1>0, <1>3, ServedFacts DEF Database, Rows
<1> HIDE DEF e
<1>5. /\ e.rows[s] = r /\ r # None
      /\ \A x \in Shipments \ {s} : e.rows[x] = db.rows[x]
  BY <1>0, <1>3, <1>4, ServedFacts DEF Rows
<1>6. RowKept(e, low, s)
  <2>1. /\ db.rev = 8 /\ low[s] \in 0..8 /\ e.rev = 8 /\ Lived(db, low, s) = low[s]
        /\ Lived(e, low, s) = low[s]
    BY <1>0, <1>4, ServedFacts DEF Lived
  <2>2. low[s] >= Bidding /\ (db.bids[s] = "promised" \/ low[s] < DeliveryMode)
    BY <1>0, <1>2, <2>1 DEF RowKept
  <2>3. /\ r.photo = IF low[s] < SpecialHandling THEN "null" ELSE "given"
        /\ r.otp = IF low[s] < PickupDeliveryOtp THEN "null" ELSE "issued"
        /\ \/ e.bids[s] \in {None, "promised"}
           \/ e.bids[s] = "placeholder" /\ low[s] < DeliveryMode
    BY <1>2, <1>3, <1>4, <2>1 DEF RowKept
  <2> QED
    BY <1>3, <1>5, <2>1, <2>2, <2>3 DEF RowKept
<1> QED
  BY <1>1, <1>4, <1>5, <1>6, ServeKeeps

\* The expiry job takes itself away with the row it expires, or leaves alone.
LEMMA ExpiryNext == IInv /\ (\E s \in Shipments : RunExpiryJob(s)) => IInv'
<1> SUFFICES ASSUME IInv, NEW s \in Shipments, RunExpiryJob(s) PROVE IInv'
  OBVIOUS
<1> DEFINE d == [db EXCEPT !.jobs = @ \ {s}]
<1>1. serving /\ s \in db.jobs
  BY DEF RunExpiryJob, Serve
<1>2. db.rows[s] # None /\ db.rows[s] \in Row /\ RowKept(db, low, s)
  BY <1>1, ServedFacts
<1>3. /\ d \in Database /\ d.rev = db.rev /\ d.rows = db.rows /\ d.bids = db.bids
      /\ d.jobs = db.jobs \ {s} /\ d.ratings = db.ratings
  BY <1>1, ServedFacts DEF Database
<1>4. \/ db.rows[s].status = "pending" /\ Serve(s, [d EXCEPT !.rows[s].status = "expired"])
      \/ db.rows[s].status # "pending" /\ Serve(s, d)
  BY DEF RunExpiryJob
<1> HIDE DEF d
<1>5. /\ db.rev = 8 /\ low[s] \in 0..8 /\ Lived(db, low, s) = low[s]
  BY <1>1, ServedFacts
<1>6. CASE db.rows[s].status # "pending" /\ Serve(s, d)
  <2>1. RowKept(d, low, s)
    BY <1>2, <1>3, <1>6 DEF RowKept, Lived
  <2> QED
    BY <1>2, <1>3, <1>6, <2>1, ServeKeeps
<1>7. CASE db.rows[s].status = "pending" /\ Serve(s, [d EXCEPT !.rows[s].status = "expired"])
  <2> DEFINE r == [db.rows[s] EXCEPT !.status = "expired"]
             e == [d EXCEPT !.rows[s] = r]
  <2>1. Serve(s, e)
    <3>1. e = [d EXCEPT !.rows[s].status = "expired"]
      BY <1>3 DEF Database
    <3> QED
      BY <1>7, <3>1
  <2>2. /\ r \in Row /\ r.status = "expired" /\ r.price = db.rows[s].price
        /\ r.otp = db.rows[s].otp /\ r.photo = db.rows[s].photo
    BY <1>2 DEF Row, Status
  <2> HIDE DEF r
  <2>3. /\ e \in Database /\ e.rev = 8 /\ e.rows = [db.rows EXCEPT ![s] = r]
        /\ e.bids = db.bids /\ e.jobs = db.jobs \ {s} /\ e.ratings = db.ratings
    BY <1>3, <1>5, <2>2 DEF Database, Rows
  <2> HIDE DEF e
  <2>4. /\ e.rows[s] = r /\ r # None
        /\ \A x \in Shipments \ {s} : e.rows[x] = db.rows[x]
    BY <1>1, <2>2, <2>3, ServedFacts DEF Rows
  <2>5. Lived(e, low, s) = low[s]
    BY <1>5, <2>3 DEF Lived
  <2>6. RowKept(e, low, s)
    BY <1>2, <1>5, <1>7, <2>2, <2>3, <2>4, <2>5 DEF RowKept
  <2> QED
    BY <1>5, <2>1, <2>3, <2>4, <2>6, ServeKeeps
<1> QED
  BY <1>4, <1>6, <1>7

\* A rating of a shipment there is.
LEMMA RateNext == IInv /\ (\E s \in Shipments : Rate(s)) => IInv'
<1> SUFFICES ASSUME IInv, NEW s \in Shipments, Rate(s) PROVE IInv'
  OBVIOUS
<1> DEFINE e == [db EXCEPT !.ratings = @ \cup {s}]
<1>1. serving /\ Serve(s, e) /\ db.rows[s] # None
  BY DEF Rate, Serve
<1>2. /\ e \in Database /\ e.rev = db.rev /\ e.rows = db.rows /\ e.bids = db.bids
      /\ e.jobs = db.jobs /\ e.ratings = db.ratings \cup {s}
  BY <1>1, ServedFacts DEF Database
<1> HIDE DEF e
<1>3. RowKept(e, low, s)
  BY <1>1, <1>2, ServedFacts DEF RowKept, Lived
<1> QED
  BY <1>1, <1>2, <1>3, ServeKeeps
-----------------------------------------------------------------------------
(* Theorems *)

\* Every step keeps the invariant.
LEMMA InvNext == IInv /\ [Next]_vars => IInv'
<1> SUFFICES ASSUME IInv, [Next]_vars PROVE IInv'
  OBVIOUS
<1>1. CASE UNCHANGED vars
  <2>1. UNCHANGED <<db, run, serving, last, low>>
    BY <1>1 DEF vars
  <2>2. TypeOK' /\ Kept(db, low)' /\ FailsOnlyOver' /\ Present(db)' = Present(db)
    BY <2>1 DEF IInv, TypeOK, FailsOnlyOver
  <2>3. run' # Idle => OnItsWay'
    BY <2>1 DEF IInv, OnItsWay
  <2> QED
    BY <2>1, <2>2, <2>3 DEF IInv
<1>2. CASE Next
  BY <1>2, StartNext, StopNext, UpgradeNextKeeps, ClashNext, DowngradeNextKeeps,
     CommitNext, KillNext, CreateNext, PlaceBidNext, AcceptNext, ExpiryNext, RateNext
     DEF Next
<1> QED
  BY <1>1, <1>2

\* What every row has to be at its revision, and where a command under way is,
\* hold of every database the commands, requests and jobs reach.
THEOREM Inductive == Spec => []IInv
  BY InvInit, InvNext, PTL DEF Spec

\* Whatever upgrades and downgrades a shipment has lived through: at the last
\* revision its status and its agreed price are there, and each other column
\* is what it was but for the migrations that could not keep it.
THEOREM RowsSurvive == Spec => []WhatSurvives
<1>1. IInv => WhatSurvives
  <2> SUFFICES ASSUME IInv, db.rev = Head, NEW s \in Present(db) PROVE Survives(s)
    BY DEF IInv, WhatSurvives
  <2>1. /\ s \in Shipments /\ db.rows[s] \in Row /\ RowKept(db, low, s)
        /\ low[s] \in 0..8 /\ db.rev = 8
    BY Facts DEF IInv, Kept, Present, Database
  <2>2. Lived(db, low, s) = low[s]
    BY <2>1 DEF Lived
  <2>3. db.rows[s].status \in Status
    BY <2>1 DEF Row
  <2> DEFINE r == db.rows[s]
             l == low[s]
  <2>4. /\ l >= Bidding /\ r.status # "absent"
        /\ r.price = IF r.status = "accepted" THEN "agreed"
                     ELSE IF l < PriceNullable THEN "zero" ELSE "null"
        /\ r.status = "pending" => s \in db.jobs \/ l < JobQueue
        /\ r.status = "accepted" => r.promised = "promised" \/ l < DeliveryMode
    BY <2>1, <2>2 DEF RowKept
  <2>5. /\ r.otp = IF l < PickupDeliveryOtp THEN "null" ELSE "issued"
        /\ r.photo = IF l < SpecialHandling THEN "null" ELSE "given"
    BY <2>1, <2>2 DEF RowKept
  <2>6. db.bids[s] = "placeholder" => l < DeliveryMode
    BY <2>1, <2>2, "placeholder" \in Promise DEF RowKept, Promise
  <2>7. r.status \in {"pending", "accepted", "expired"}
    BY <2>3, <2>4 DEF Status
  <2> QED
    BY <2>4, <2>5, <2>6, <2>7 DEF Survives
<1> QED
  BY <1>1, Inductive, PTL

\* No downgrade ever fails, and a deployment only over shipments from before
\* Bidding or what an older queue schema has left.
THEOREM DeploymentsFailOnlyOver == Spec => []FailsOnlyOver
<1>1. IInv => FailsOnlyOver
  BY DEF IInv
<1> QED
  BY <1>1, Inductive, PTL

\* The database changes under a command only when the command commits, and is
\* at the command's target then.
THEOREM CommandsAreAtomic == Spec => AllOrNothing
<1>1. IInv /\ [Next]_vars => [run # Idle /\ db' # db => db'.rev = run.target]_vars
  <2> SUFFICES ASSUME IInv, Next, run # Idle, db' # db PROVE db'.rev = run.target
    OBVIOUS
  <2>1. ~serving
    BY DEF IInv
  <2>2. CASE CommitCommand
    BY <2>2 DEF CommitCommand
  <2>3. CASE ~CommitCommand
    BY <2>1, <2>3 DEF Next, StartContainer, StopContainer, Downgrade, UpgradeNext,
       QueueSchemaClashes, DowngradeNext, KillCommand, Advance, CommitAtEnd, GiveUp,
       CreateShipment, PlaceBid, AcceptBid, RunExpiryJob, Rate, Serve
  <2> QED
    BY <2>2, <2>3
<1> QED
  BY <1>1, Inductive, PTL DEF Spec, AllOrNothing
===============================================================================
