# A TLA+ model of the Wasel backend

Wasel matches senders of inter-city shipments with captains who bid to carry
them. The backend is a FastAPI application over PostgreSQL and Redis with a
Procrastinate worker. This directory holds TLA+ modules that model it, TLC
configurations that check small instances, and proofs checked by TLAPS.

Paths below are relative to `src/app/` unless they start with `docs/`, `scripts/` or
`alembic/` or name the `Dockerfile`.

## The system

| Component | State it keeps | Operations | Hard because of | What makes it correct |
|---|---|---|---|---|
| Shipments and bidding: `services/shipments/`, `entrypoints/api/shipments.py` | rows of `shipments` and `bids` | create, place_bid, accept_bid, withdraw_bid, cancel, cancel_by_sender, three marks | concurrent transactions; reads used after they are stale; locks taken in different orders | one award, told the same way in both tables; it stands; milestones in order |
| Expiry job: `services/shipments/jobs.py` | the Procrastinate job of each shipment | enqueue with the shipment, run at `expires_at` | races an accept; the worker dies; no retry | an unawarded shipment leaves pending, an awarded one does not expire |
| Session and routes: `entrypoints/api/deps.py` | one transaction per request | begin, commit after the handler, roll back on error | the commit comes after notifications and answer | a failed request leaves nothing |
| OTP login: `services/auth/otp/` | Redis hashes and counters | request, verify | read-then-act on several keys, TTLs between any two commands, crash between INCR and EXPIRE | caps on attempts hold, a used code does not come back |
| Ratings: `services/ratings/` | rows of `ratings`, `capitan_profiles.rating` | create | concurrent read-modify-write of the average | one rating per shipment; the stored average is that of the ratings |
| Realtime: `realtime/`, `entrypoints/api/events.py` | per-process dictionaries of SSE queues | connect, join feed, notify, disconnect | streams come and go; each process has its own memory | events reach the streams of their user, else a push |
| Push and devices: `services/devices/`, `integrations/expo.py` | rows of `devices`, the send_push jobs | register, unregister, send_push | a job retried after an answer was lost, a worker that dies, tokens reassigned while a job runs, commits after the answer | the table says what the API answered; messages go to the devices of their user; only dead devices are deleted |
| Registration and sessions: `services/auth/auth_service.py`, `services/users/`, `core/security.py` | rows of `users`, signed tokens | verify, register, refresh | two registrations of one phone; tokens answered before the commit | one user per phone and per e-mail address; tokens name users |
| Saved locations: `services/saved_locations/` | rows of `saved_locations` | create, update, delete | an update racing a delete, two moves that swap places, columns written over a changed row | one location per user and coordinates; what was deleted stays deleted |
| Migrations: `alembic/`, `Dockerfile` | the schema, and the rows that live through its changes | upgrade at container start, downgrade by hand | nothing in the repository runs them over rows; what a round trip loses shows later, in code that reads the columns | a failed command changes nothing; what is lost is known |
| Plumbing: `config.py`, `db/base.py`, `cache/`, `jobs/app.py`, `entrypoints/api/main.py`, health | none | - | - | - |

They interact through the database, through `notify` (a call into the realtime
component, in the same process as the caller) and through jobs: `create`
enqueues `expire_shipment` on its own connection, `notify` enqueues
`send_push` for a user with no stream. Ratings need a delivered shipment.
Login hands a phone from the OTP component to registration.

## The modules

| Module | Models | Needs |
|---|---|---|
| `Auction` | what bidding promises: one atomic award to a standing offer | - |
| `ShipmentService` | shipments, bids, the session around a request, the expiry job | - |
| `ShipmentServiceProofs` | theorems about it | `ShipmentService` |
| `EventStreams` | presence, notify, the life of a stream in `events.py` | - |
| `ShipmentEvents` | the two together, with the captains' app | `ShipmentService`, `EventStreams` |
| `ShipmentEventsProofs` | theorems about them | `ShipmentEvents`, `ShipmentServiceProofs` |
| `RatingBook` | what rating promises: one step enters a rating and the new average | - |
| `Ratings`, `RatingsProofs` | `RatingsService.create`, and theorems about it | `RatingBook` |
| `Otp`, `OtpProofs` | request and verify of a login code over Redis, and theorems about it | - |
| `PushJobs`, `PushJobsProofs` | devices, `send_push`, Expo and the worker, and theorems about them | - |
| `Directory` | what registration promises: a phone and an address name one user for ever | - |
| `Registration`, `RegistrationProofs` | login after the code, registration, tokens, and theorems about them | `Directory` |
| `AddressBook` | what saved locations promise: one entry per place, none that comes back | - |
| `SavedLocations`, `SavedLocationsProofs` | create, update and delete of locations, and theorems about them | `AddressBook` |
| `Migrations`, `MigrationsProofs` | the eight revisions in both directions, deployments and downgrades, and theorems about them | - |
| `MC...` | values for the constants of the checked instances | |

### ShipmentService

The database is two versions of each row. `shipment[s]` and `bid[b]` are the
committed rows, the ones other transactions read; `shipmentLock` and `bidLock`
say who has a row locked, and `shipmentW` and `bidW` hold the version the
holder is writing. A transaction is a slot `txn[t]`: the operation, where it is
(`pc`), and the locals it keeps across its awaits (the bid's captain and price
that `accept_bid` copies, the `func.now()` it began at).

One action is one SQL statement with the Python up to the next one. So

- `create`, `withdraw_bid`, `cancel` and `cancel_by_sender` are one action each
  (`Create`, `WithdrawBid`, `Cancel`, `CancelBySender`) and a commit;
- `place_bid` is `PlaceBidRead` and `PlaceBidUpsert`;
- `accept_bid` is `AcceptBid` (the ownership check of the route), `AcceptBidGate`,
  `AcceptShipmentGate`, `RejectSiblings` (the rows the UPDATE finds), one
  `RejectOne` per row (it takes its locks one at a time) and `AcceptAnswer`;
- a mark is `MarkRead` (assignment, status, code) and `MarkWrite`;
- the expiry job is `Expire` and, after its commit, `ExpireNotify`.

`Commit`, `Abort` and `DeadlockVictim` end transactions. A conditional statement
judges its WHERE on the committed row and waits while a row that matches is
locked: the action is not enabled until then. `note` and `reply` hold what the
last step sent; notifications and the answer precede the commit, as in
`get_session` (the exit of a dependency runs after the response).

Choices that shape it:

- one clock: `due[s]` is `expires_at < now` for the application and for the
  database, whose clocks are not told apart;
- a request whose single statement waits is a request that has not begun: it
  holds no lock, so nobody can tell;
- where the code reads again after a miss, to choose between 404 and 409, the
  two reads are one;
- bid ids are not used again after a withdrawal, so `BidIds` bounds the
  inserted bids of a run; request slots are used again, so `Txns` bounds only
  how many requests run at once;
- bids stay `pending` on expired and cancelled shipments, as in the code.

### EventStreams and ShipmentEvents

`presence` and `feed` are the two dictionaries of the API process, `mailbox[q]`
the queue of a stream, `conn[q]` what has become of its connection. `Connect`
is the handler, `Start` the first entry of the generator, `Send` a `get` and its
`yield`, `NoticeGone` the cancellation with or without `finally`. `Tell` is
`notify` and `notify_request_feed` in the API process, `TellFromWorker` the same
in the worker, whose dictionaries are always empty.

`ShipmentEvents` joins each step of `ShipmentService` with the delivery of its
`note`. The captains' app is modelled from `docs/SHIPMENT.md` (lines 232-239):
it connects, gets the open list, and applies deltas. It is the best app there
can be (it keeps deltas from before the list, its GET takes no time), so what
its screen lacks is the server's doing. `raced` and `undone` are history
variables that name the windows in which it may lack something.

Left out: heartbeats, which move nothing; a restart of the API process, which
empties both dictionaries and ends every stream at once; the connection pool.

### Ratings and RatingBook

`key[s]` is an uncommitted entry of the unique key of `ratings`, `lock[c]` the
`FOR UPDATE` lock on a captain's profile; the rest follows the four statements of
`create` and `_refresh_capitan_rating`. `Average` is an arbitrary operator on a
set of ratings: the protocol does not depend on it, and the theorems hold for
any. The configuration uses the sum and the number of the stars, which is finer
than their quotient. `LateMark` takes `delivered` back, since a stale mark can
(see `TerminalIsFinal`). Ownership of the rated shipment is left out: it is read
before any state is.

### Otp

Redis runs one command at a time, so an action is one command (or MULTI) and
what the call computes from it; TTLs and crashes may come between any two. The
code is one bit, right or wrong, chosen where it is compared. `sent` and `lost`
are history variables. `Spare` keeps a challenge id for each request that may
still draw one; the daily counter stops at `DailyCap + 1`; its EXPIRE is left
out, as its key is not read after its day.

### PushJobs

`owner[k]` is the committed row of device token `k`; `lock[k]` says which request,
or the worker, has written that row and not committed. A request is over for
its client at `RegisterDevice`, `UnregisterDevice` or `UnregisterUnseen`, and
over for the database at `CommitDevice` or `AbortDevice`. The last of the three
is a logout that finds no row because the registration it should undo has not
committed; a DELETE at READ COMMITTED neither sees nor waits for such a row.

`job[j]` is a Procrastinate job and `run` what the one worker does with it:
`ReadTokens` (`tokens_for`, and the return with none), `ExpoTakes` or
`ExpoRefuses`, then `Answered` or `AnswerLost`, one `Prune` for each DELETE, and
`CommitPrune`; `Fail` is any exception that is not an `httpx.HTTPError`. `Finish`
is the worker writing down how the job ended, with `Retried` as `RetryStrategy`
decides. `WorkerDies` loses the run and leaves its job `doing`, which nothing in
this repository takes up again. An event with no entry in `EVENT_COPY` sends
nothing and still runs to the commit. `notify` enters as `Defer`, for a user it
finds with no stream (`EventStreams` says when that is).

`taken`, `unanswered`, `touched` and `told` are history variables: what Expo took,
which answers were lost, which devices requests wrote during the run or had
written and not committed at its read, and what the API answered last about each
device (`Lapsed` when that did not hold: the commit failed, or it was a logout
that found no row because its registration had not committed).

A device that has left a user can get a message of that user in three cases, and
`PushFollowsLogin` excepts these and no more: the answer came after the run had
read the devices; it came before, and its commit after; it lapsed, and then every
run posts to the device until it is registered again or a logout finds its row.
`TakenAgainOnlyUnanswered` counts messages Expo took. A post that never got there
or was answered 400 or more took nothing; the model repeats it, as the code does.

### Registration and Directory

`users` is the committed table, `emailKey` and `phoneKey` are uncommitted entries
of its two unique indexes, in the order the INSERT enters them (the order of
`cb9ed9380261`, lines 43-44). `Register` is the dependency's read of the phone,
`Check` the service's, `InsertEmail` and `InsertPhone` the flush; the session is
answered there, and `Commit` or `Abort` follow. `VerifyLogin` is `otp_verify` once
the code was right: `Otp` models what comes before. `proven` and `sessions` are
the tokens out, which are kept nowhere in the code; `TokensExpire` ends them.
`refresh` reads one user and answers with another token of the same user.

### SavedLocations and AddressBook

A location is its coordinates and one label for all other columns, which is
enough to tell which columns an UPDATE writes. `Load` is
`get_owned_saved_location`; `WriteRow` the UPDATE or DELETE, which waits for the
row; `EnterKey` and `Insert` what the unique index decides, which waits for the
transactions that hold the coordinates, one's neighbours' uncommitted deletions
and moves included. `Merged` is SQLAlchemy's unit of work: the UPDATE sets the
columns that differ from what the session loaded. `BreakDeadlock` is PostgreSQL's
deadlock detector. One user's locations are modelled: the ownership test and
the user in the key keep users apart.

### Migrations

`db` is the database as far as some migration drops, adds, fills or tightens a
column, or something later reads such a column; `run` is the Alembic command
under way with its own copy, which becomes `db` at `CommitCommand` (`env.py` runs
all steps in one transaction). Each migration is two operators on a database,
named for what they do (`ReplaceWindow` and `RestoreWindow` are `d4e8b7c31f5a` up
and down). Requests and jobs run only at the last revision, as the container
serves after `alembic upgrade head`, and are reduced to the columns in question.
`low[s]`, a history variable, is the lowest revision the row of `s` has lived at.

## The runs

| Run | Instance | What it shows |
|---|---|---|
| `bidding` | 1 shipment, 3 bids, 2 captains, 2 prices, 3 requests at once; no marks | The award is one fact told the same in both tables (`AwardConsistent`), a captain has one bid (`OneBidPerCaptain`), the answer of `accept_bid` names the winner and exactly the bids its transaction turned down (`ToldWhatIsWritten`), no shipment returns to pending (`NeverReopened`), an award is never changed (`AwardStands`), the rows implement `Auction` (`AuctionSpec`), and `IInv`, the invariant of the proofs, holds |
| `lifecycle` | 2 bids, 2 captains, 2 at once; all marks; fair | `MilestonesInOrder`, although marks overwrite; `EveryRequestEnds`, deadlocks included; `ExpiryHappens` |
| `lost_race` | | Refutes `LostRaceIs409` |
| `terminal` | | Refutes `TerminalIsFinal` |
| `feed` | 1 shipment, 1 bid, 2 streams of any user, 1 request at once | `DirectoryIsLive`, `ScreenFollows`, `StreamBeforePush` |
| `ratings` | 3 shipments of 2 captains, stars 1 and 5, 2 at once; fair | `MeanIsCurrent`, `RatingsInv`, refinement of `RatingBook`, `EveryRatingEnds` |
| `otp` | 1 phone, 2 challenges, 2 calls, 2 days, caps 2, 1 and 2; fair | `SendsCapped`, `CapsOvershoot`, `UsedStaysUsed`, `LockoutEnds` |
| `otp_window` | fair | Refutes `FailuresHaveWindow` |
| `push` | 2 users, 2 devices, 1 job, 1 request beside the worker, 2 attempts; fair | The devices table is what the API answered (`OwnerAsTold`); a run posts to devices that are its user's by the last answer of the API, in all but three cases (`PushFollowsLogin`); Expo takes a message again only after it took one whose answer was lost (`TakenAgainOnlyUnanswered`); it deletes dead devices, those only and all of them (`OnlyDeadPruned`, `DeadArePruned`); every job ends (`EveryPushEnds`); `PushInv` holds |
| `registration` | 2 phones, 1 address, 3 ids, 2 at once; fair | Refinement of `Directory`, `TokensNameUsers`, `OneAccountPerPhone`, `RegistrationInv`, `EveryRegistrationEnds` |
| `locations` | 3 locations, 2 places, 2 labels, 2 at once; fair | Refinement of `AddressBook`, `LocationsInv`, `UpdateReplaces`, `EveryRequestEnds` |
| `migrations` | 2 shipments; any sequence of commands | `WhatSurvives` says what any number of round trips leaves of a row, `FailsOnlyOver` when a command fails, `AllOrNothing` that it then changes nothing |

Every property of a passing run has a mutant, a plausible bug written beside the
definition it replaces and marked `Mutant:`, under which that run fails.

### What the refuted properties say

- `LostRaceIs409` (docs/SHIPMENT.md:320): two accepts of different bids each
  lock their own bid and then want what the other has. PostgreSQL fails one, no
  handler maps the error, and the loser gets 500.
- `TerminalIsFinal` (service.py:33): a mark writes by primary key alone, so one
  that read before a cancellation committed brings the shipment back.
- `FailuresHaveWindow` (rate_limit.py:6): a crash between INCR and EXPIRE leaves
  a counter with no TTL, and a phone at the cap is locked out for good.

Seen on the way and not given a run of their own:

- a bad payload is retried. services/devices/jobs.py:14-15 says "A bad payload
  (4xx) or any other error won't be retried", but `raise_for_status`
  (integrations/expo.py:83) raises an `httpx.HTTPError` for a 4xx as it does for a
  5xx, and `RETRY` names that class. `ExpoRefuses` is both, and ends in `retry`;
  that is one step of the code, which shows it without a search. No property
  that passes says otherwise.
- two verifies of one challenge with the right code that both read it before either
  deletes it are both answered 200; services/auth/otp/service.py:85 calls the code
  single-use. `UsedStaysUsed` speaks of verifies that read it after the deletion.
- the commit of an `accept_bid` may fail after its answer: `ToldWhatIsWritten` is
  about what the transaction has written, not about what becomes of it.
- the expiry task has no retry and nothing sweeps overdue rows: when its one run
  dies the shipment stays pending (docs/SHIPMENT.md:76). `ExpiryHappens` excepts
  exactly that case (`job[s] = "lost"`).
- `request_closed` of the expiry job is sent in the worker and reaches no feed
  (jobs.py:23), and `shipment_expired` is pushed even to a connected sender.
  `ScreenFollows` and `StreamBeforePush` except exactly these.
- a client that is gone before its stream starts leaves its mailbox in the
  directory. `DirectoryIsLive` excepts exactly that case.
- `accept_bid` tells the captain before the commit (docs/SHIPMENT.md:308 has it
  after).
- `create` mints the shipment's id itself (service.py:89) where docs/SHIPMENT.md:37
  and :273 have the client mint it, so a retried POST makes a second shipment
  with an id of its own; the model's `Create` takes a fresh id each time, as the
  code does.
- each open stream keeps the database connection its `CurrentUser` took, until
  the stream ends.
- `place_bid` reads the status, then upserts: a bid may commit after the award
  has rejected the siblings it saw, and stays pending on an accepted shipment
  (docs/SHIPMENT.md:304 has the siblings rejected).
- `new_request` goes out before its commit (service.py:105 says so): a captain
  who joins the feed after it and reads the list before the commit sees the
  request in neither (docs/SHIPMENT.md:235-239). `raced` names that window.
- HINCRBY on a challenge that has just gone makes a hash without a phone; the
  next verify of it is answered 500, where exceptions.py:23 has one generic
  answer for a missing challenge.
- the loser of two registrations of one phone fails on the unique key at the
  flush (users/dal.py:33), which nothing maps: 500, where a phone that is read
  as taken is 409 (error_handlers.py:68-71). A taken e-mail address is 500 too.
- a logout whose registration has not committed deletes nothing and answers 204.
  `OwnerAsTold` excepts it (`Lapsed`), with the commits that fail after the answer.
- a push job whose worker dies stays `doing`. `EveryPushEnds` excepts it (`Stalled`).
- the events with no `EVENT_COPY` (those of the three marks) are never
  pushed, though a job is made for each.
- two PUTs of one location at once may leave columns of both, and two that swap
  coordinates deadlock: one is answered 500. An UPDATE of a row that a
  concurrent DELETE has removed is 500 too.
- `435e3987290d` adds `expires_at` NOT NULL with no default and fails on a table
  with rows; downgrading below it and deploying again fails for that reason.
- the downgrade of `9df6dcd252d9` leaves the price 0, not NULL, on shipments
  nobody was awarded, and upgrading keeps it.
- a round trip below `5c276507af0f` leaves shipments with no codes, and the marks
  compare with them; below `5c45431e5f9e` it leaves pending shipments with no
  expiry job; across `d4e8b7c31f5a` it leaves bids that promise the moment they
  were placed at, and an acceptance copies that.
- the downgrade of `5c45431e5f9e` names its tables and two of the types, so what
  else the queue's schema made may be in the way of the next upgrade. Its script
  is not in this repository; `QueueSchemaClashes` may happen or not.

### Bounds

Two transactions are enough for each race in this code: every race is between
one reader or writer and one other commit, and three (`bidding`) let a third
party come between a deadlocked pair. Two captains give a winner and a loser;
three bids give each a bid and one a second bid after a withdrawal. Two prices
tell a re-priced bid from the old one. One shipment is enough where the theorems
below hold for any number. `withdraw_bid` is not in `lifecycle`: ids of withdrawn
bids are not used again, and an upsert that runs out of them would wait for ever
for a reason the code does not have. Ratings need two shipments of one captain,
so that two transactions meet on one profile, and a third shipment of another.
In `Otp`, two calls pass a cap together, two challenges carry failures of one
phone from one to the next, two days let a request straddle midnight.
`MaxUnread` lets one event wait in a mailbox while the next is put. In `PushJobs`
a job tried twice has a retry with a history and a last attempt; two devices
let one be dead and the other alive in one run, and one request at a time is
enough to reassign, log out or register again beside it, each of which may come
anywhere in the run. Three ids let a registration fail and two succeed. Three
locations are two at the two places and one that takes a place freed; two
requests make every pair, and the swap. Rows of two shipments in `Migrations`
differ in status, bid, rating and age.

Symmetry is used only in runs with no liveness property. Deadlock is checked in
every run.

### Fairness

- `Continue` of a request (ShipmentService, Ratings): strong. A statement that
  waits for a row is queued by PostgreSQL and gets it in turn, though the row
  may be locked and freed many times meanwhile.
- `Deadline`, `Expire`: time passes, and the worker polls; `Expire` needs a free
  slot again and again, so it is strong.
- Registration, SavedLocations: strong for `Continue` of a request, which may wait
  for a row or an index entry.
- PushJobs: weak for the commit or rollback of an answered request and for
  `Progress`, the worker's steps that wait for nobody (its POST has a timeout of
  10 s, so it comes to an answer or an error); strong for `Fetch` (the one worker
  runs one job at a time) and for `Prune` (it waits for rows).
- Otp: weak for commands (Redis answers) and for the TTL of the failure counter.
- Clients owe nothing, processes need not die and days need not pass.

## What is proved

Every safety invariant, every action property and every refinement that a
passing run checks is a theorem, for every value of the constants that satisfies
the assumption named. The assumptions say no more than that `None` is none of
the values, that captains are users and each shipment has a sender, that caps are
positive, and that what is counted or put into a queue at once is finite.

Each proof has the same course: an inductive invariant, which adds to the property
what ties a transaction under way to the committed rows; a lemma for each kind of
step that keeps it; the property from it.

### ShipmentService (`ShipmentServiceAssumption`)

- `TypeCorrect`: `Spec => []TypeOK`.
- `AwardInductive`: `Spec => []AwardInv`, and from it `AwardIsConsistent`,
  `AwardsStand` and `NeverReopens`.
- `Inductive`: `Spec => []IInv`, with
  `IInv == AwardInv /\ OfferInv /\ JobRuns /\ ExpiryOwed`, and from it `OneBidEach`
  and `ExpiryIsOwed`.
- `MilestonesAreInOrder` and `ToldTheTruth`, from `AwardInv`: the answer of
  `accept_bid` goes out while the transaction holds the rows it names, and `BidStep`
  says of each what it was and what it has become.
- `ImplementsAuction`: `Spec => AuctionSpec`, from `IInv`.

`AwardConsistent` alone is not inductive: it speaks of committed rows, and
whether a commit keeps it depends on what the transaction has written and on
what others may have committed since. `AwardInv` adds what ties the two together:
a row that nobody holds has one version (`Settled`); a row that is held belongs
to the operation of its holder, and its new version follows from the committed
one (`LockedShipments`, `LockedBids` with `ShipmentStep`, `BidStep`), which
cannot move while the lock is held; an `accept_bid` past its gates holds the
rows it won (`AcceptHolds`); a mark under way is on a shipment with a captain
(`MarksAwarded`); and the shapes of slots and bids. The steps that write a row
keep `AwardInv` by the lemmas on writing one row; a rollback undoes to the committed
version; the commit of an accept moves the award into both tables at once, and
that of any other operation moves no award.

`OfferInv` is about offers. The unique key judges both versions of a row, so what
`OneBidPerCaptain` says of entries, committed or not, is kept by an insert, which
finds no entry, by an end of a transaction, which only drops versions, and by a
re-pricing, which moves none (the lemma `EveryBidMoves` has these cases).
`OneWrite` says that a commit other than an accept's publishes one bid, so it is
one `Offer` or `Withdraw` of the auction; `Priced` and `PlaceBidsListed` that such
an offer has a price and a shipment. The commit of an accept is `Award`: its price
and captain are those of the bid it holds.

`ExpiryOwed` is the safety half of `ExpiryHappens`: a pending shipment has a job to
come, a job under way, or a job whose one run was lost. `JobRuns` says that a job
runs once, holds the row until its commit, and has left pending behind it then; so
a job that is done has found, or left, a shipment that was not pending.

`MilestonesInOrder` speaks of a mark under way as well as of rows: a mark may find
the row moved on between its read and its write, but the stamp of the status it
read is there, and stays there, as no operation takes a stamp away.

### ShipmentEvents (`ShipmentEventsAssumption`)

- `RunsTheService`: the composition implements `Spec`, so all of the above holds
  of transactions among streams.
- `DirectoryStaysLive`, `StreamsBeforePushes`: the two properties of presence.
- `EventsInductive` and `ScreensFollow`: `EventsIInv`, and `ScreenFollows` from it.

For one request and one connected app, `UpToDate` compares what the app will show
once its mailbox is sent with the row, or with what the transaction that has told
the feed and not committed will leave (`Opening`, `Closing`). Seen from one
shipment, every step of the service rests, opens, closes, settles or fails it
(`EveryShipmentMoves`); a failure puts it into `undone`, and an app that connects or gets
its list while it opens or closes has it in `raced`. What a mailbox shows is
stated by the places of its messages (`Shows`, `ClosedAfter`), so that what a
`put` and a `get` change is a fact about `\o` and `Tail`.

### Otp (`OtpAssumption`)

- `Inductive`: the two caps together, with the types and what a call has in hand
  (`CallShape`); `DailyCapHolds`, `OvershootBounded`.
- `UsedChallengesStayUsed`.

A cap is checked in one command and paid in another, so the counters alone are not
inductive. Counted with them are the calls between the two: those that will send a
code (`Sending`), that have found an attempt left (`Trying`), that have a failure
to count (`Failing`). A command moves a call from one count to the other or drops
it; that there are no more calls than slots bounds the overshoot.

### Migrations (`MigrationsAssumption`)

- `Inductive`: `Spec => []IInv` of `Migrations`, with `RowsSurvive` and
  `DeploymentsFailOnlyOver`; `CommandsAreAtomic`.

`WhatSurvives` speaks of the last revision; `RowKept` says it of every revision
between, for the columns that are there, with the lowest revision a row has lived
at counting the command's own way down (`Lived`). `OnItsWay` says it of the copy of
a command under way and that an upgrade is never below the database it started
from. Each of the sixteen steps keeps it.

### Ratings (`RatingsAssumption`)

- `Inductive`: `Spec => []RatingsInv`, for every `Average`.
- `MeanStaysCurrent`: a committed average is always that of the committed
  ratings. It needs `Claims`: who holds a key has no committed rating under it,
  and an average that was read under the profile lock counts one's own rating
  and all committed ones, and stays so until the commit because a second
  rating of that captain would need the lock.
- `ImplementsBook`: every step is one of `RatingBook` or leaves its variables.

### PushJobs (`PushAssumption`)

- `Inductive`: `Spec => []PushInv`, with `SentOnce`, `SentToItsUser`,
  `TableIsAsTold`, `PrunesDeadOnly` and `PrunesAllDead`. What
  makes `PushInv` inductive: who holds a row (`RowsHeld`), that the rows the worker
  holds are of its job's user and called dead, and that every row another
  transaction was writing at the read counts as touched (`RunHolds`), and that a
  job which may still run has nothing at Expo that a lost answer does not
  account for (`PostsCounted`).

### Registration (`RegistrationAssumption`)

- `Inductive`: `Spec => []RegistrationInv`, from what a
  registration holds at each statement (`Claims`): its id is new, and no
  committed row has the keys it has entered.
- `TokensAreNamed`, `NoSecondAccount`, and `ImplementsDirectory`: every step is one of
  `Directory` or leaves the table.

### SavedLocations (`LocationsAssumption`)

- `BookInductive` and `Inductive`: `BookInv`, and `LocationsInv == BookInv /\ AsSent`.
  At its commit a request has a place that is its own row's already or that nobody
  has and it has entered in the index (`Holds`); a row that gives up its place is
  locked by the request that moves it, so nobody enters that place before its
  commit. `AsSent` adds that an update nobody has crossed still has the row as it
  loaded it.
- `ImplementsBook`: every step is one of `AddressBook` or leaves its variables.
- `UpdatesReplace`: `UpdateReplaces`, from `AsSent`.

### Only model-checked

Liveness: `EveryRequestEnds`, `ExpiryHappens`, `EveryRatingEnds`, `LockoutEnds`,
`EveryPushEnds`, `EveryRegistrationEnds` and the `EveryRequestEnds` of saved
locations. They rest on fairness of actions whose ENABLED the prover cannot
expand. The three refuted properties are TLC's too.

## Not modelled

Prices as numbers, addresses, cities and codes as strings; listings, which
change nothing; signatures of tokens; formatting of answers. The connection
pool: its limit and the time a dependency of a streaming response ends are the
libraries', set and tested nowhere in `src/`. Procrastinate and Expo beyond what
the jobs rely on. Configuration, engine and Redis clients, health checks and the
application wiring have no state of their own to go wrong. The scripts
`scripts/_check_*.py` are manual tests.

## Plan

Done, in this order: `Auction`, `ShipmentService`; `RatingBook`, `Ratings`; `Otp`;
`EventStreams` and `ShipmentEvents`; `PushJobs`, `Directory` and `Registration`,
`AddressBook` and `SavedLocations`; `Migrations`; each with its proofs.

What could follow: for the other liveness properties, the safety half as an
invariant, as `ExpiryOwed` is of `ExpiryHappens`; shorter proofs where two modules
argue alike.
