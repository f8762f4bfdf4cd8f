----------------------------- MODULE Registration -----------------------------
(***************************************************************************)
(* Logging in and registering, after the login code was found right.  A    *)
(* phone that is a user's gets a session; another gets a registration      *)
(* token, which lets its holder register it.  A registration is one        *)
(* PostgreSQL transaction at READ COMMITTED:                               *)
(*   read the phone (the dependency); read it again (the service); INSERT  *)
(*   the user, unique by e-mail and by phone; answer 201 with the session; *)
(*   commit.                                                               *)
(* The commit comes after the answer.                                      *)
(***************************************************************************)
CONSTANTS
    Phones, Emails,
    Ids,             \* user ids; uuid4 gives one nobody has seen
    Txns,            \* slots for registrations under way
    None

ASSUME RegistrationAssumption == None \notin Phones \cup Emails \cup Ids \cup Txns

VARIABLES
    users,       \* the committed rows of the users table
    emailKey,    \* emailKey[e]: who has an uncommitted row with e, or None
    phoneKey,    \* phoneKey[p]: who has an uncommitted row with p, or None
    txn,         \* txn[t]: the registration in slot t
    proven,      \* the phones for which a live registration token is out
    sessions,    \* the user ids for which tokens are out
    undone       \* for the properties: of those, the ids whose commit failed

vars == <<users, emailKey, phoneKey, txn, proven, sessions, undone>>

Idle == [pc |-> "idle"]

User == [id : Ids, phone : Phones, email : Emails \cup {None}]

Request == [pc : {"check", "email", "phone", "commit"}, user : User]

TypeOK ==
    /\ users \subseteq User
    /\ emailKey \in [Emails -> Txns \cup {None}]
    /\ phoneKey \in [Phones -> Txns \cup {None}]
    /\ txn \in [Txns -> {Idle} \cup Request]
    /\ proven \subseteq Phones
    /\ sessions \subseteq Ids
    /\ undone \subseteq sessions

Init ==
    /\ users = {}
    /\ emailKey = [e \in Emails |-> None]
    /\ phoneKey = [p \in Phones |-> None]
    /\ txn = [t \in Txns |-> Idle]
    /\ proven = {}
    /\ sessions = {}
    /\ undone = {}

ByPhone(p) == {v \in users : v.phone = p}

ByEmail(e) == {v \in users : v.email = e /\ e # None}

ById(i) == {v \in users : v.id = i}

\* An id that is in no row, no token and no request.
Fresh(i) == /\ ById(i) = {}
            /\ i \notin sessions
            /\ \A t \in Txns : txn[t] # Idle => txn[t].user.id # i

\* Which one is of no consequence.
NewId == CHOOSE i \in Ids : Fresh(i)
-----------------------------------------------------------------------------
(* Tokens *)

\* The code of p was right.
VerifyLogin(p) ==
    /\ \/ \E v \in ByPhone(p) :
            /\ sessions' = sessions \cup {v.id}
            /\ UNCHANGED proven
       \/ /\ ByPhone(p) = {}
          /\ proven' = proven \cup {p}
          /\ UNCHANGED sessions
    /\ UNCHANGED <<users, emailKey, phoneKey, txn, undone>>

RegistrationTokenExpires(p) ==
    /\ p \in proven
    /\ proven' = proven \ {p}
    /\ UNCHANGED <<users, emailKey, phoneKey, txn, sessions, undone>>

TokensExpire(i) ==
    /\ i \in sessions
    /\ sessions' = sessions \ {i}
    /\ undone' = undone \ {i}
    /\ UNCHANGED <<users, emailKey, phoneKey, txn, proven>>
-----------------------------------------------------------------------------
(* register *)

Advance(t, pc) == txn' = [txn EXCEPT ![t].pc = pc]

Release(t) ==
    /\ emailKey' = [e \in Emails |-> IF emailKey[e] = t THEN None ELSE emailKey[e]]
    /\ phoneKey' = [p \in Phones |-> IF phoneKey[p] = t THEN None ELSE phoneKey[p]]

\* Mutant: get_session neither commits nor rolls back.
LeaveOpen(t) == UNCHANGED <<emailKey, phoneKey>> /\ txn' = [txn EXCEPT ![t] = Idle]

Rollback(t) == Release(t) /\ txn' = [txn EXCEPT ![t] = Idle]

\* get_registration_phone: the token's phone is not a user's yet, else 409.
Register(t, p, e) ==
    /\ txn[t] = Idle /\ p \in proven
    /\ \E i \in Ids : Fresh(i)
    /\ \/ /\ ByPhone(p) = {}
          /\ txn' = [txn EXCEPT ![t] =
                       [pc |-> "check", user |-> [id |-> NewId, phone |-> p, email |-> e]]]
       \/ ByPhone(p) # {} /\ UNCHANGED txn
    /\ UNCHANGED <<users, emailKey, phoneKey, proven, sessions, undone>>

\* A user made since then: 409.
Check(t) ==
    /\ txn[t].pc = "check"
    /\ \/ ByPhone(txn[t].user.phone) = {} /\ Advance(t, "email")
       \/ /\ ByPhone(txn[t].user.phone) # {}
          /\ txn' = [txn EXCEPT ![t] = Idle]
    /\ UNCHANGED <<users, emailKey, phoneKey, proven, sessions, undone>>

\* Mutant: no unique key on the e-mail column.
AnyEmail(e) == FALSE

EmailTaken(e) == ByEmail(e) # {}

\* The INSERT enters the e-mail first, and waits for an uncommitted one.  A
\* taken e-mail, and a taken phone, are errors no handler maps: 500.
InsertEmail(t) ==
    LET e == txn[t].user.email
    IN  /\ txn[t].pc = "email"
        /\ e # None => emailKey[e] = None
        /\ \/ /\ ~EmailTaken(e)
              /\ emailKey' = [f \in Emails |-> IF f = e THEN t ELSE emailKey[f]]
              /\ Advance(t, "phone")
              /\ UNCHANGED phoneKey
           \/ EmailTaken(e) /\ Rollback(t)
        /\ UNCHANGED <<users, proven, sessions, undone>>

\* Mutant: no unique key on the phone column; the two reads must do.
AnyPhone(p) == FALSE

PhoneTaken(p) == ByPhone(p) # {}

\* Then the phone.  What it inserted is flushed and not committed when the 201
\* and the session are answered.
InsertPhone(t) ==
    LET p == txn[t].user.phone
    IN  /\ txn[t].pc = "phone"
        /\ phoneKey[p] = None
        /\ \/ /\ ~PhoneTaken(p)
              /\ phoneKey' = [phoneKey EXCEPT ![p] = t]
              /\ sessions' = sessions \cup {txn[t].user.id}
              /\ Advance(t, "commit")
              /\ UNCHANGED emailKey
           \/ /\ PhoneTaken(p)
              /\ Rollback(t)
              /\ UNCHANGED sessions
        /\ UNCHANGED <<users, proven, undone>>

\* Mutant: the session is closed without a commit.
Unsaved(t) == users

Saved(t) == users \cup {txn[t].user}

Commit(t) ==
    /\ txn[t].pc = "commit"
    /\ users' = Saved(t)
    /\ Rollback(t)
    /\ UNCHANGED <<proven, sessions, undone>>

\* The process dies or the connection breaks, or the commit does.
Abort(t) ==
    /\ txn[t] # Idle
    /\ Rollback(t)
    /\ undone' = undone \cup ({txn[t].user.id} \cap sessions)
    /\ UNCHANGED <<users, proven, sessions>>
-----------------------------------------------------------------------------
Continue(t) == Check(t) \/ InsertEmail(t) \/ InsertPhone(t) \/ Commit(t)

Next ==
    \/ \E p \in Phones : VerifyLogin(p) \/ RegistrationTokenExpires(p)
    \/ \E i \in Ids : TokensExpire(i)
    \/ \E t \in Txns :
         \/ \E p \in Phones, e \in Emails \cup {None} : Register(t, p, e)
         \/ Continue(t)
         \/ Abort(t)

Spec == Init /\ [][Next]_vars

\* PostgreSQL queues those who wait for a key.
FairSpec == Spec /\ \A t \in Txns : SF_vars(Continue(t))
-----------------------------------------------------------------------------
(* Properties *)

\* Every commit enrols one user in the directory: whatever the interleaving,
\* neither a phone nor an e-mail address ever names a second user, and no user
\* changes.  The two reads before the INSERT cannot see to it.
Registry == INSTANCE Directory
DirectorySpec == Registry!Spec

\* Whoever holds tokens is a user, or will be when a commit still under way is
\* done; the only tokens for nobody are those answered with a 201 whose commit
\* failed.
TokensNameUsers ==
    \A i \in sessions : \/ ById(i) # {}
                        \/ i \in undone
                        \/ \E t \in Txns : txn[t] # Idle /\ txn[t].user.id = i
                                             /\ txn[t].pc = "commit"

\* The tokens out for one phone are one user's: a phone registered twice at
\* once, and logged in between, never splits into two accounts.
PhoneOf(i) == {v.phone : v \in ById(i)} \cup
              {txn[t].user.phone : t \in {x \in Txns : /\ txn[x].pc = "commit"
                                                       /\ txn[x].user.id = i}}

OneAccountPerPhone ==
    \A i, k \in sessions \ undone : i # k => PhoneOf(i) \cap PhoneOf(k) = {}

\* What a registration holds at each statement: a new id, the keys it entered,
\* and no committed row under them.
Claims(t) ==
    LET v == txn[t].user
    IN  /\ ById(v.id) = {}
        /\ txn[t].pc \in {"phone", "commit"} /\ v.email # None =>
               emailKey[v.email] = t /\ ByEmail(v.email) = {}
        /\ txn[t].pc = "commit" => phoneKey[v.phone] = t /\ ByPhone(v.phone) = {}
        /\ txn[t].pc # "commit" => v.id \notin sessions

\* Any two rows of the table may stand together.
KeysUnique == \A v, w \in users : v # w => Registry!Distinct(v, w)

ClaimsHeld == \A t \in Txns : txn[t] # Idle => Claims(t)

IdsApart == \A t, u \in Txns : t # u /\ txn[t] # Idle /\ txn[u] # Idle =>
                                   txn[t].user.id # txn[u].user.id

\* The inductive invariant behind the properties above.
RegistrationInv ==
    TypeOK /\ KeysUnique /\ ClaimsHeld /\ IdsApart /\ TokensNameUsers

\* No registration waits for ever for another's key.
EveryRegistrationEnds == \A t \in Txns : txn[t] # Idle ~> txn[t] = Idle
=============================================================================
