---------------------------- MODULE SavedLocations ----------------------------
(***************************************************************************)
(* The saved locations of one user (services/saved_locations): created,    *)
(* replaced and deleted by requests that are PostgreSQL transactions at    *)
(* READ COMMITTED.  A location has coordinates, unique for the user, and   *)
(* other columns, which stand here as its label.  An update or a delete    *)
(* loads the row, which other requests may change before its statement.    *)
(* What a transaction writes is its draft until it commits; it holds the   *)
(* row in lock and coordinates new to the index in key.                    *)
(***************************************************************************)
CONSTANTS
    Locations,   \* the ids uuid4 gives
    Places,      \* coordinates
    Labels,      \* the other columns
    Txns,        \* slots for requests
    None

Row == [place : Places, label : Labels]

ASSUME LocationsAssumption == None \notin Places \cup Labels \cup Txns \cup Row

VARIABLES
    row,         \* row[l]: the committed row of location l, or None
    used,        \* for the properties: every location there ever was
    lock,        \* lock[l]: who has written the row of l and not committed
    key,         \* key[p]: who has entered p in the index and not committed
    txn,         \* txn[t]: the request in slot t
    crossed      \* for the properties: the requests whose row another request
                 \* has changed since they loaded it

vars == <<row, used, lock, key, txn, crossed>>

Idle == [pc |-> "idle"]

\* A request: what was sent, what the session has loaded, and what its
\* statements have written so far (None for a deletion).
Request == [pc : {"insert", "write", "key", "commit"},
            op : {"create", "update", "delete"}, l : Locations,
            sent : Row \cup {None}, loaded : Row \cup {None},
            draft : Row \cup {None}]

TypeOK ==
    /\ row \in [Locations -> Row \cup {None}]
    /\ used \subseteq Locations
    /\ lock \in [Locations -> Txns \cup {None}]
    /\ key \in [Places -> Txns \cup {None}]
    /\ txn \in [Txns -> {Idle} \cup Request]
    /\ crossed \subseteq Txns

Init ==
    /\ row = [l \in Locations |-> None]
    /\ used = {}
    /\ lock = [l \in Locations |-> None]
    /\ key = [p \in Places |-> None]
    /\ txn = [t \in Txns |-> Idle]
    /\ crossed = {}
-----------------------------------------------------------------------------
(* The unique key on a user's coordinates *)

At(p) == {l \in Locations : row[l] # None /\ row[l].place = p}

\* Those whose end decides whether p is free for t.
Deciders(t, p) == (({key[p]} \cup {lock[l] : l \in At(p)}) \ {t}) \ {None}

InDoubt(t, p) == Deciders(t, p) # {}

\* Mutant: no unique key.
NeverTaken(l, p) == FALSE

Taken(l, p) == At(p) \ {l} # {}

\* What t holds is free again.
LetGo(t) ==
    /\ lock' = [l \in Locations |-> IF lock[l] = t THEN None ELSE lock[l]]
    /\ key' = [p \in Places |-> IF key[p] = t THEN None ELSE key[p]]

\* Mutant: an error that is answered leaves the transaction open.
LeaveOpen(t) == /\ txn' = [txn EXCEPT ![t] = Idle]
                /\ UNCHANGED <<row, used, lock, key, crossed>>

\* The request ends without effect.
GiveUp(t) ==
    /\ LetGo(t)
    /\ txn' = [txn EXCEPT ![t] = Idle]
    /\ UNCHANGED <<row, used, crossed>>

\* The statement has entered t's coordinates, unless they are taken: 409.
Enter(t) ==
    LET r == txn[t]
        p == r.draft.place
    IN  /\ ~InDoubt(t, p)
        /\ \/ /\ ~Taken(r.l, p)
              /\ key' = [key EXCEPT ![p] = t]
              /\ txn' = [txn EXCEPT ![t].pc = "commit"]
              /\ UNCHANGED <<row, used, lock, crossed>>
           \/ /\ Taken(r.l, p)
              /\ GiveUp(t)
-----------------------------------------------------------------------------
(* The requests *)

\* A location nobody has seen.
New(l) == /\ l \notin used
          /\ \A t \in Txns : txn[t] # Idle => txn[t].l # l

\* Which one is of no consequence.
NewLocation == CHOOSE l \in Locations : New(l)

Create(t, r) ==
    /\ txn[t] = Idle
    /\ \E l \in Locations : New(l)
    /\ txn' = [txn EXCEPT ![t] =
                 [pc |-> "insert", op |-> "create", l |-> NewLocation,
                  sent |-> r, loaded |-> None, draft |-> r]]
    /\ UNCHANGED <<row, used, lock, key, crossed>>

Insert(t) == txn[t].pc = "insert" /\ Enter(t)

\* get_owned_saved_location: a row that is not there is answered 404.
Load(t, op, l, r) ==
    /\ txn[t] = Idle
    /\ \/ /\ row[l] # None
          /\ txn' = [txn EXCEPT ![t] =
                       [pc |-> "write", op |-> op, l |-> l, sent |-> r,
                        loaded |-> row[l], draft |-> None]]
          /\ crossed' = crossed \ {t}
          /\ UNCHANGED <<row, used, lock, key>>
       \/ row[l] = None /\ UNCHANGED vars

\* With nothing to change the flush runs no statement, and 200 is answered.
Update(t, l, r) == row[l] # r /\ Load(t, "update", l, r)

Delete(t, l) == Load(t, "delete", l, None)

\* Mutant: the coordinates are not copied to the row.
KeepsPlace(r, now) == [place |-> now.place, label |-> r.sent.label]

\* The flush writes the columns that differ from the loaded row, over the row
\* as it is now.
Merged(r, now) ==
    [place |-> IF r.sent.place = r.loaded.place THEN now.place ELSE r.sent.place,
     label |-> IF r.sent.label = r.loaded.label THEN now.label ELSE r.sent.label]

\* The UPDATE or DELETE waits for the row.  A row that is gone by then is no
\* error for a DELETE, and for an UPDATE an error no handler maps.
WriteRow(t) ==
    LET r == txn[t]
        now == row[r.l]
        next == IF r.op = "delete" THEN None ELSE Merged(r, now)
        moves == r.op = "update" /\ next.place # now.place
    IN  /\ r.pc = "write" /\ lock[r.l] = None
        /\ \/ /\ now # None
              /\ lock' = [lock EXCEPT ![r.l] = t]
              /\ txn' = [txn EXCEPT ![t].draft = next, ![t].loaded = None,
                                    ![t].pc = IF moves THEN "key" ELSE "commit"]
              /\ UNCHANGED <<row, used, key, crossed>>
           \/ now = None /\ GiveUp(t)

EnterKey(t) == txn[t].pc = "key" /\ Enter(t)

Commit(t) ==
    LET r == txn[t]
    IN  /\ r.pc = "commit"
        /\ row' = [row EXCEPT ![r.l] = r.draft]
        /\ used' = used \cup {r.l}
        /\ LetGo(t)
        /\ txn' = [txn EXCEPT ![t] = Idle]
        /\ crossed' = crossed \cup
                        {u \in Txns \ {t} : txn[u] # Idle /\ txn[u].l = r.l}

\* The process dies or the connection breaks, also after the answer.
Abort(t) == txn[t] # Idle /\ GiveUp(t)

WaitsFor(t, u) ==
    \/ txn[t].pc \in {"insert", "key"} /\ u \in Deciders(t, txn[t].draft.place)
    \/ txn[t].pc = "write" /\ u = lock[txn[t].l]

\* PostgreSQL ends one of the transactions that wait for each other: 500.
BreakDeadlock(t) ==
    /\ \E C \in SUBSET Txns :
         /\ t \in C
         /\ \A u \in C : /\ \E v \in C : WaitsFor(u, v)
                         /\ \E v \in C : WaitsFor(v, u)
    /\ GiveUp(t)
-----------------------------------------------------------------------------
Continue(t) ==
    Insert(t) \/ WriteRow(t) \/ EnterKey(t) \/ Commit(t) \/ BreakDeadlock(t)

Next ==
    \E t \in Txns :
        \/ \E r \in Row : Create(t, r)
        \/ \E l \in Locations, r \in Row : Update(t, l, r)
        \/ \E l \in Locations : Delete(t, l)
        \/ Continue(t)
        \/ Abort(t)

Spec == Init /\ [][Next]_vars

\* PostgreSQL queues those who wait for a row or a key, and finds deadlocks.
FairSpec == Spec /\ \A t \in Txns : SF_vars(Continue(t))
-----------------------------------------------------------------------------
(* Properties *)

\* Every commit adds, changes or removes one entry of the address book: no two
\* locations share their coordinates, and an update never brings back a
\* location that was deleted while it ran.
Book == INSTANCE AddressBook
BookSpec == Book!Spec

\* What a request holds at each statement: the row it writes, which is still
\* there, and the coordinates it brings, which no other row has.
Holds(t) ==
    LET r == txn[t]
    IN  /\ r.op = "create" => r.pc \in {"insert", "commit"} /\ r.l \notin used
        /\ r.op # "create" => r.pc # "insert"
        /\ r.op # "create" /\ r.pc \in {"key", "commit"} =>
               lock[r.l] = t /\ row[r.l] # None
        /\ r.op = "delete" => r.pc # "key"
        /\ r.op # "delete" /\ r.pc # "write" => r.draft # None
        /\ r.op = "delete" => r.draft = None
        /\ r.op = "update" => r.sent # None
        /\ r.pc = "commit" /\ r.draft # None =>
               \/ At(r.draft.place) = {r.l}
               \/ At(r.draft.place) = {} /\ key[r.draft.place] = t

ClaimsHeld == \A t \in Txns : txn[t] # Idle => Holds(t)

\* Nobody else knows a location that is being created.
NewApart == \A t, u \in Txns :
               t # u /\ txn[t] # Idle /\ txn[u] # Idle /\ txn[t].op = "create"
                  => txn[u].l # txn[t].l

OnePerPlace ==
    \A l \in Locations : row[l] # None => l \in used /\ At(row[l].place) = {l}

\* What BookSpec needs, and is inductive by itself.
BookInv == TypeOK /\ ClaimsHeld /\ NewApart /\ OnePerPlace

\* An update whose row nobody else has changed since it was loaded: the row is
\* still as loaded, and then is written as sent.
AsSent ==
    \A t \in Txns :
       txn[t] # Idle /\ txn[t].op = "update" /\ t \notin crossed =>
          /\ txn[t].pc = "write" => txn[t].loaded = row[txn[t].l]
          /\ txn[t].pc \in {"key", "commit"} => txn[t].draft = txn[t].sent

\* The inductive invariant behind BookSpec and UpdateReplaces.
LocationsInv == BookInv /\ AsSent

\* An update commits the location it was sent, whole.  The one exception: when
\* another request changed the row after this one had loaded it, the columns
\* both leave alone, or only the other wrote, are not what was sent.
UpdateReplaces ==
    [][\A t \in Txns :
         txn[t] # Idle /\ txn'[t] = Idle /\ row' # row /\ txn[t].op = "update" =>
             row'[txn[t].l] = txn[t].sent \/ t \in crossed]_vars

\* No request waits for ever: two updates that swap coordinates wait for each
\* other, and one of them is ended.
EveryRequestEnds == \A t \in Txns : txn[t] # Idle ~> txn[t] = Idle
=============================================================================
