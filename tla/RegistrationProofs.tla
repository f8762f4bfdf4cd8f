-------------------------- MODULE RegistrationProofs --------------------------
(***************************************************************************)
(* Theorems about Registration, for all sets of phones, e-mail addresses,  *)
(* ids and slots.                                                          *)
(***************************************************************************)
EXTENDS Registration, TLAPS

USE RegistrationAssumption

\* A new id is chosen among those nobody has seen.
LEMMA NewIdIsFresh ==
    ASSUME \E i \in Ids : Fresh(i)
    PROVE  NewId \in Ids /\ Fresh(NewId)
BY Zenon DEF NewId

\* A slot that is somewhere in the handler is not idle.
LEMMA Busy ==
    ASSUME TypeOK, NEW t \in Txns, txn[t] # Idle
    PROVE  /\ txn[t] \in Request
           /\ txn[t].pc \in {"check", "email", "phone", "commit"}
           /\ txn[t].user \in User
           /\ txn[t].user.id \in Ids
           /\ txn[t].user.phone \in Phones
           /\ txn[t].user.email \in Emails \cup {None}
BY DEF TypeOK, Request, User

\* Every step keeps the types.
LEMMA TypeStep ==
    ASSUME TypeOK, [Next]_vars
    PROVE  TypeOK'
<1> USE DEF TypeOK
<1>1. ASSUME NEW p \in Phones, VerifyLogin(p) \/ RegistrationTokenExpires(p)
      PROVE  TypeOK'
  BY <1>1 DEF VerifyLogin, RegistrationTokenExpires, ByPhone, User
<1>2. ASSUME NEW i \in Ids, TokensExpire(i)
      PROVE  TypeOK'
  BY <1>2 DEF TokensExpire
<1>3. ASSUME NEW t \in Txns, NEW p \in Phones, NEW e \in Emails \cup {None},
             Register(t, p, e)
      PROVE  TypeOK'
  <2>1. NewId \in Ids
    BY <1>3, NewIdIsFresh DEF Register
  <2>2. [pc |-> "check", user |-> [id |-> NewId, phone |-> p, email |-> e]] \in Request
    BY <2>1 DEF Request, User
  <2> QED
    BY <1>3, <2>2 DEF Register
<1>4. ASSUME NEW t \in Txns, Check(t)
      PROVE  TypeOK'
  BY <1>4 DEF Check, Advance, Idle, Request
<1>5. ASSUME NEW t \in Txns, InsertEmail(t)
      PROVE  TypeOK'
  BY <1>5 DEF InsertEmail, Advance, Rollback, Release, Idle, Request
<1>6. ASSUME NEW t \in Txns, InsertPhone(t)
      PROVE  TypeOK'
  BY <1>6 DEF InsertPhone, Advance, Rollback, Release, Idle, Request, User
<1>7. ASSUME NEW t \in Txns, Commit(t)
      PROVE  TypeOK'
  BY <1>7 DEF Commit, Saved, Rollback, Release, Idle, Request
<1>8. ASSUME NEW t \in Txns, Abort(t)
      PROVE  TypeOK'
  BY <1>8 DEF Abort, Rollback, Release, Idle, Request
<1>9. CASE UNCHANGED vars
  BY <1>9 DEF vars
<1> QED
  BY <1>1, <1>2, <1>3, <1>4, <1>5, <1>6, <1>7, <1>8, <1>9 DEF Next, Continue

\* A step of others leaves u what it claims.
LEMMA Undisturbed ==
    ASSUME TypeOK, NEW u \in Txns, txn[u] # Idle, Claims(u),
           txn'[u] = txn[u], users' = users,
           txn[u].pc # "commit" => txn[u].user.id \notin sessions',
           \A e \in Emails : emailKey[e] = u => emailKey'[e] = u,
           \A p \in Phones : phoneKey[p] = u => phoneKey'[p] = u
    PROVE  Claims(u)'
<1>1. txn[u].user.email \in Emails \cup {None} /\ txn[u].user.phone \in Phones
  BY Busy
<1> QED
  BY <1>1 DEF Claims, ById, ByEmail, ByPhone

\* A rollback takes nothing from others.
LEMMA RollsBack ==
    ASSUME TypeOK, ClaimsHeld, IdsApart, NEW t \in Txns, Rollback(t),
           users' = users, sessions' = sessions
    PROVE  ClaimsHeld' /\ IdsApart'
<1>1. txn'[t] = Idle /\ \A u \in Txns \ {t} : txn'[u] = txn[u]
  BY DEF Rollback, TypeOK
<1>2. ASSUME NEW u \in Txns, txn'[u] # Idle
      PROVE  Claims(u)'
  <2>1. u # t /\ txn[u] # Idle /\ txn'[u] = txn[u]
    BY <1>1, <1>2
  <2>2. /\ \A e \in Emails : emailKey[e] = u => emailKey'[e] = u
        /\ \A p \in Phones : phoneKey[p] = u => phoneKey'[p] = u
    BY <2>1 DEF Rollback, Release, TypeOK
  <2>3. Claims(u) /\ (txn[u].pc # "commit" => txn[u].user.id \notin sessions')
    BY <2>1 DEF ClaimsHeld, Claims
  <2> QED
    BY <2>1, <2>2, <2>3, Undisturbed
<1>3. ClaimsHeld'
  BY <1>2 DEF ClaimsHeld
<1>4. IdsApart'
  BY <1>1 DEF IdsApart
<1> QED
  BY <1>3, <1>4

\* A token names a user as long as users, and commits under way, stay.
LEMMA StillNamed ==
    ASSUME TokensNameUsers, users' = users, undone \subseteq undone',
           NEW i \in sessions,
           \A t \in Txns : txn[t] # Idle /\ txn[t].pc = "commit" /\ txn[t].user.id = i
                             => txn'[t] = txn[t] \/ i \in undone'
    PROVE  \/ ById(i)' # {}
           \/ i \in undone'
           \/ \E t \in Txns : txn'[t] # Idle /\ txn'[t].user.id = i
                                /\ txn'[t].pc = "commit"
<1>1. CASE ById(i) # {} \/ i \in undone
  BY <1>1 DEF ById
<1>2. CASE \E t \in Txns : txn[t] # Idle /\ txn[t].user.id = i /\ txn[t].pc = "commit"
  BY <1>2
<1> QED
  BY <1>1, <1>2 DEF TokensNameUsers

\* A login hands out tokens of a committed user.
LEMMA VerifyStep ==
    ASSUME RegistrationInv, TypeOK', NEW p \in Phones,
           VerifyLogin(p) \/ RegistrationTokenExpires(p)
    PROVE  RegistrationInv'
<1> USE DEF RegistrationInv
<1>1. /\ users' = users /\ txn' = txn /\ emailKey' = emailKey /\ phoneKey' = phoneKey
      /\ undone' = undone
      /\ \A i \in sessions' : i \in sessions \/ ById(i) # {}
  BY DEF VerifyLogin, RegistrationTokenExpires, ByPhone, ById
<1>2. KeysUnique' /\ IdsApart'
  BY <1>1 DEF KeysUnique, IdsApart, Registry!Distinct
<1>3. ClaimsHeld'
  <2> SUFFICES ASSUME NEW u \in Txns, txn[u] # Idle PROVE Claims(u)'
    BY <1>1 DEF ClaimsHeld
  <2>1. Claims(u)
    BY DEF ClaimsHeld
  <2>2. txn[u].pc # "commit" => txn[u].user.id \notin sessions'
    BY <1>1, <2>1 DEF Claims
  <2> QED
    BY <1>1, <2>1, <2>2, Undisturbed
<1>4. TokensNameUsers'
  BY <1>1 DEF TokensNameUsers, ById
<1> QED
  BY <1>2, <1>3, <1>4

\* Tokens that expire leave less to be true.
LEMMA ExpireStep ==
    ASSUME RegistrationInv, TypeOK', NEW i \in Ids, TokensExpire(i)
    PROVE  RegistrationInv'
<1> USE DEF RegistrationInv, TokensExpire
<1>1. KeysUnique' /\ IdsApart'
  BY DEF KeysUnique, IdsApart, Registry!Distinct
<1>2. ClaimsHeld'
  BY DEF ClaimsHeld, Claims, ById, ByEmail, ByPhone
<1>3. TokensNameUsers'
  BY DEF TokensNameUsers, ById
<1> QED
  BY <1>1, <1>2, <1>3

\* A registration begins with a new id and no key.
LEMMA RegisterStep ==
    ASSUME RegistrationInv, TypeOK', NEW t \in Txns, NEW p \in Phones,
           NEW e \in Emails \cup {None}, Register(t, p, e)
    PROVE  RegistrationInv'
<1> USE DEF RegistrationInv
<1>1. NewId \in Ids /\ Fresh(NewId)
  BY NewIdIsFresh DEF Register
<1>2. /\ users' = users /\ emailKey' = emailKey /\ phoneKey' = phoneKey
      /\ sessions' = sessions /\ undone' = undone
      /\ txn[t] = Idle
      /\ \A u \in Txns \ {t} : txn'[u] = txn[u]
  BY DEF Register, TypeOK
<1>3. \/ txn' = txn
      \/ /\ txn'[t] = [pc |-> "check", user |-> [id |-> NewId, phone |-> p, email |-> e]]
  BY DEF Register, TypeOK
<1>4. txn'[t] # Idle => txn'[t].pc = "check" /\ txn'[t].user.id = NewId
  BY <1>2, <1>3
<1>5. KeysUnique'
  BY <1>2 DEF KeysUnique, Registry!Distinct
<1>6. IdsApart'
  BY <1>1, <1>2, <1>4 DEF IdsApart, Fresh
<1>7. ClaimsHeld'
  <2> SUFFICES ASSUME NEW u \in Txns, txn'[u] # Idle PROVE Claims(u)'
    BY DEF ClaimsHeld
  <2>1. CASE u = t
    BY <1>1, <1>2, <1>4, <2>1 DEF Claims, Fresh, ById
  <2>2. CASE u # t
    <3>1. txn[u] # Idle /\ txn'[u] = txn[u] /\ Claims(u)
      BY <1>2, <2>2 DEF ClaimsHeld
    <3>2. txn[u].pc # "commit" => txn[u].user.id \notin sessions'
      BY <1>2, <3>1 DEF Claims
    <3> QED
      BY <1>2, <3>1, <3>2, Undisturbed
  <2> QED
    BY <2>1, <2>2
<1>8. TokensNameUsers'
  <2> SUFFICES ASSUME NEW i \in sessions
               PROVE  \/ ById(i)' # {}
                      \/ i \in undone'
                      \/ \E u \in Txns : txn'[u] # Idle /\ txn'[u].user.id = i
                                           /\ txn'[u].pc = "commit"
    BY <1>2 DEF TokensNameUsers
  <2>1. \A u \in Txns : txn[u] # Idle => txn'[u] = txn[u]
    BY <1>2
  <2> QED
    BY <1>2, <2>1, StillNamed
<1> QED
  BY <1>5, <1>6, <1>7, <1>8

\* A slot that moves on keeps its user, and no other slot moves.
LEMMA Advances ==
    ASSUME TypeOK, NEW t \in Txns, NEW pc, txn[t] # Idle, Advance(t, pc)
    PROVE  /\ txn'[t].pc = pc
           /\ txn'[t].user = txn[t].user
           /\ \A u \in Txns \ {t} : txn'[u] = txn[u]
<1>1. txn[t] \in Request
  BY Busy
<1> QED
  BY <1>1 DEF Advance, TypeOK, Request

\* What follows for the others, and for the ids.
LEMMA AdvanceKeeps ==
    ASSUME RegistrationInv, NEW t \in Txns, NEW pc, txn[t] # Idle, Advance(t, pc),
           users' = users, undone' = undone,
           sessions' \subseteq sessions \cup {txn[t].user.id},
           \A u \in Txns \ {t} :
              /\ \A e \in Emails : emailKey[e] = u => emailKey'[e] = u
              /\ \A p \in Phones : phoneKey[p] = u => phoneKey'[p] = u
    PROVE  /\ KeysUnique'
           /\ IdsApart'
           /\ \A u \in Txns \ {t} : txn'[u] # Idle => Claims(u)'
<1> USE DEF RegistrationInv
<1>1. /\ txn'[t].user = txn[t].user
      /\ \A u \in Txns \ {t} : txn'[u] = txn[u]
  BY Advances
<1>2. KeysUnique'
  BY DEF KeysUnique, Registry!Distinct
<1>3. IdsApart'
  <2> SUFFICES ASSUME NEW u \in Txns, NEW v \in Txns, u # v, txn'[u] # Idle, txn'[v] # Idle
               PROVE  txn'[u].user.id # txn'[v].user.id
    BY DEF IdsApart
  <2>1. /\ txn[u] # Idle /\ txn'[u].user = txn[u].user
        /\ txn[v] # Idle /\ txn'[v].user = txn[v].user
    BY <1>1
  <2> QED
    BY <2>1 DEF IdsApart
<1>4. ASSUME NEW u \in Txns \ {t}, txn'[u] # Idle
      PROVE  Claims(u)'
  <2>1. txn[u] # Idle /\ txn'[u] = txn[u] /\ Claims(u)
    BY <1>1, <1>4 DEF ClaimsHeld
  <2>2. txn[u].user.id # txn[t].user.id
    BY <2>1 DEF IdsApart
  <2>3. txn[u].pc # "commit" => txn[u].user.id \notin sessions'
    BY <2>1, <2>2 DEF Claims
  <2> QED
    BY <2>1, <2>3, Undisturbed
<1> QED
  BY <1>2, <1>3, <1>4

\* The second read goes on or gives up, and holds nothing yet.
LEMMA CheckStep ==
    ASSUME RegistrationInv, TypeOK', NEW t \in Txns, Check(t)
    PROVE  RegistrationInv'
<1> USE DEF RegistrationInv, Check
<1>1. /\ users' = users /\ emailKey' = emailKey /\ phoneKey' = phoneKey
      /\ sessions' = sessions /\ undone' = undone
      /\ txn[t] # Idle /\ txn[t].pc = "check"
  BY DEF Idle
<1>2. CASE Advance(t, "email")
  <2>1. txn'[t].pc = "email" /\ txn'[t].user = txn[t].user
    BY <1>1, <1>2, Advances
  <2>2. KeysUnique' /\ IdsApart' /\ \A u \in Txns \ {t} : txn'[u] # Idle => Claims(u)'
    BY <1>1, <1>2, AdvanceKeeps
  <2>3. Claims(t)'
    BY <1>1, <2>1 DEF ClaimsHeld, Claims, ById, ByEmail, ByPhone
  <2>4. TokensNameUsers'
    <3>1. \A u \in Txns \ {t} : txn'[u] = txn[u]
      BY <1>1, <1>2, Advances
    <3> QED
      BY <1>1, <3>1, StillNamed DEF TokensNameUsers
  <2> QED
    BY <2>2, <2>3, <2>4 DEF ClaimsHeld
<1>3. CASE txn' = [txn EXCEPT ![t] = Idle]
  <2>1. txn'[t] = Idle /\ \A u \in Txns \ {t} : txn'[u] = txn[u]
    BY <1>3 DEF TypeOK
  <2>2. KeysUnique' /\ IdsApart'
    BY <1>1, <2>1 DEF KeysUnique, IdsApart, Registry!Distinct
  <2>3. ClaimsHeld'
    <3> SUFFICES ASSUME NEW u \in Txns, txn'[u] # Idle PROVE Claims(u)'
      BY DEF ClaimsHeld
    <3>1. txn[u] # Idle /\ txn'[u] = txn[u] /\ Claims(u)
      BY <2>1 DEF ClaimsHeld
    <3>2. txn[u].pc # "commit" => txn[u].user.id \notin sessions'
      BY <1>1, <3>1 DEF Claims
    <3> QED
      BY <1>1, <3>1, <3>2, Undisturbed
  <2>4. TokensNameUsers'
    BY <1>1, <2>1, StillNamed DEF TokensNameUsers
  <2> QED
    BY <2>2, <2>3, <2>4
<1> QED
  BY <1>2, <1>3

\* A rollback of a registration whose session is not out, or is noted as undone.
LEMMA RollbackStep ==
    ASSUME RegistrationInv, TypeOK', NEW t \in Txns, txn[t] # Idle, Rollback(t),
           users' = users, sessions' = sessions,
           undone' = undone \cup ({txn[t].user.id} \cap sessions)
    PROVE  RegistrationInv'
<1> USE DEF RegistrationInv
<1>1. ClaimsHeld' /\ IdsApart'
  BY RollsBack
<1>2. KeysUnique'
  BY DEF KeysUnique, Registry!Distinct
<1>3. TokensNameUsers'
  <2>1. \A u \in Txns \ {t} : txn'[u] = txn[u]
    BY DEF Rollback, TypeOK
  <2> QED
    BY <2>1, StillNamed DEF TokensNameUsers
<1> QED
  BY <1>1, <1>2, <1>3

\* The e-mail is entered only over no committed row with it.
LEMMA InsertEmailStep ==
    ASSUME RegistrationInv, TypeOK', NEW t \in Txns, InsertEmail(t)
    PROVE  RegistrationInv'
<1> DEFINE e == txn[t].user.email
<1> USE DEF RegistrationInv
<1>1. /\ users' = users /\ sessions' = sessions /\ undone' = undone
      /\ txn[t] # Idle /\ txn[t].pc = "email"
      /\ e # None => emailKey[e] = None
  BY DEF InsertEmail, Idle
<1>2. e \in Emails \cup {None}
  BY <1>1, Busy
<1>3. CASE Rollback(t)
  <2>1. {txn[t].user.id} \cap sessions = {}
    BY <1>1 DEF ClaimsHeld, Claims
  <2> QED
    BY <1>1, <1>3, <2>1, RollbackStep
<1>4. CASE /\ ByEmail(e) = {}
           /\ emailKey' = [f \in Emails |-> IF f = e THEN t ELSE emailKey[f]]
           /\ Advance(t, "phone")
           /\ UNCHANGED phoneKey
  <2>1. txn'[t].pc = "phone" /\ txn'[t].user = txn[t].user
    BY <1>1, <1>4, Advances
  <2>2. \A u \in Txns \ {t} :
           /\ \A f \in Emails : emailKey[f] = u => emailKey'[f] = u
           /\ \A p \in Phones : phoneKey[p] = u => phoneKey'[p] = u
    BY <1>1, <1>4
  <2>3. KeysUnique' /\ IdsApart' /\ \A u \in Txns \ {t} : txn'[u] # Idle => Claims(u)'
    BY <1>1, <1>4, <2>2, AdvanceKeeps
  <2>4. Claims(t)'
    <3>1. Claims(t)
      BY <1>1 DEF ClaimsHeld
    <3> QED
      BY <1>1, <1>2, <1>4, <2>1, <3>1 DEF Claims, ById, ByEmail
  <2>5. TokensNameUsers'
    <3>1. \A u \in Txns \ {t} : txn'[u] = txn[u]
      BY <1>1, <1>4, Advances
    <3> QED
      BY <1>1, <3>1, StillNamed DEF TokensNameUsers
  <2> QED
    BY <2>3, <2>4, <2>5 DEF ClaimsHeld
<1> QED
  BY <1>3, <1>4 DEF InsertEmail, EmailTaken

\* So is the phone, and the session is of the row to be committed.
LEMMA InsertPhoneStep ==
    ASSUME RegistrationInv, TypeOK', NEW t \in Txns, InsertPhone(t)
    PROVE  RegistrationInv'
<1> DEFINE p == txn[t].user.phone
<1> USE DEF RegistrationInv
<1>1. /\ users' = users /\ undone' = undone
      /\ txn[t] # Idle /\ txn[t].pc = "phone"
      /\ phoneKey[p] = None
  BY DEF InsertPhone, Idle
<1>2. /\ p \in Phones
      /\ Claims(t)
  BY <1>1, Busy DEF ClaimsHeld
<1>3. CASE Rollback(t) /\ UNCHANGED sessions
  <2>1. {txn[t].user.id} \cap sessions = {}
    BY <1>1, <1>2 DEF Claims
  <2> QED
    BY <1>1, <1>3, <2>1, RollbackStep
<1>4. CASE /\ ByPhone(p) = {}
           /\ phoneKey' = [phoneKey EXCEPT ![p] = t]
           /\ sessions' = sessions \cup {txn[t].user.id}
           /\ Advance(t, "commit")
           /\ UNCHANGED emailKey
  <2>1. /\ txn'[t].pc = "commit" /\ txn'[t].user = txn[t].user
        /\ \A u \in Txns \ {t} : txn'[u] = txn[u]
    BY <1>1, <1>4, Advances
  <2>2. \A u \in Txns \ {t} :
           /\ \A f \in Emails : emailKey[f] = u => emailKey'[f] = u
           /\ \A q \in Phones : phoneKey[q] = u => phoneKey'[q] = u
    BY <1>1, <1>4 DEF TypeOK
  <2>3. KeysUnique' /\ IdsApart' /\ \A u \in Txns \ {t} : txn'[u] # Idle => Claims(u)'
    BY <1>1, <1>4, <2>2, AdvanceKeeps
  <2>4. Claims(t)'
    <3>1. phoneKey'[p] = t
      BY <1>2, <1>4 DEF TypeOK
    <3> QED
      BY <1>1, <1>2, <1>4, <2>1, <3>1 DEF Claims, ById, ByEmail, ByPhone
  <2>5. TokensNameUsers'
    <3>1. txn'[t] # Idle
      BY <2>1 DEF Idle
    <3>2. \A i \in sessions :
             \/ ById(i)' # {}
             \/ i \in undone'
             \/ \E u \in Txns : txn'[u] # Idle /\ txn'[u].user.id = i
                                  /\ txn'[u].pc = "commit"
      BY <1>1, <2>1, StillNamed
    <3> QED
      BY <1>4, <2>1, <3>1, <3>2 DEF TokensNameUsers
  <2> QED
    BY <2>3, <2>4, <2>5 DEF ClaimsHeld
<1> QED
  BY <1>3, <1>4 DEF InsertPhone, PhoneTaken

\* A commit enrols a user no row is in the way of.
LEMMA CommitEnrols ==
    ASSUME RegistrationInv, NEW t \in Txns, Commit(t)
    PROVE  /\ txn[t].user \in User
           /\ \A w \in users : Registry!Distinct(txn[t].user, w)
           /\ users' = users \cup {txn[t].user}
<1> DEFINE v == txn[t].user
<1>1. txn[t] # Idle /\ txn[t].pc = "commit"
  BY DEF Commit, Idle
<1>2. Claims(t) /\ v \in User
  BY <1>1, Busy DEF RegistrationInv, ClaimsHeld
<1>3. ById(v.id) = {} /\ ByPhone(v.phone) = {} /\ (v.email # None => ByEmail(v.email) = {})
  BY <1>1, <1>2 DEF Claims
<1>4. \A w \in users : Registry!Distinct(v, w)
  BY <1>3 DEF Registry!Distinct, ById, ByPhone, ByEmail
<1> QED
  BY <1>2, <1>4 DEF Commit, Saved

\* The row that is committed stands apart from all others.
LEMMA CommitStep ==
    ASSUME RegistrationInv, TypeOK', NEW t \in Txns, Commit(t)
    PROVE  RegistrationInv'
<1> DEFINE v == txn[t].user
<1> USE DEF RegistrationInv
<1>1. /\ txn[t] # Idle /\ txn[t].pc = "commit"
      /\ txn'[t] = Idle /\ \A u \in Txns \ {t} : txn'[u] = txn[u]
      /\ sessions' = sessions /\ undone' = undone
      /\ Claims(t) /\ v \in User
  BY Busy DEF Commit, Idle, Rollback, TypeOK, ClaimsHeld
<1>2. /\ \A w \in users : Registry!Distinct(v, w)
      /\ users' = users \cup {v}
  BY CommitEnrols
<1>3. KeysUnique'
  <2> SUFFICES ASSUME NEW x \in users', NEW y \in users', x # y
               PROVE  Registry!Distinct(x, y)
    BY DEF KeysUnique, Registry!Distinct
  <2>1. CASE x \in users /\ y \in users
    BY <2>1 DEF KeysUnique
  <2>2. CASE x = v /\ y \in users
    BY <1>2, <2>2
  <2>3. CASE x \in users /\ y = v
    BY <1>2, <2>3 DEF Registry!Distinct
  <2> QED
    BY <1>2, <2>1, <2>2, <2>3
<1>4. IdsApart'
  BY <1>1 DEF IdsApart
<1>5. ClaimsHeld'
  <2> SUFFICES ASSUME NEW u \in Txns, txn'[u] # Idle PROVE Claims(u)'
    BY DEF ClaimsHeld
  <2> DEFINE w == txn[u].user
  <2>1. u # t /\ txn[u] # Idle /\ txn'[u] = txn[u] /\ Claims(u)
    BY <1>1 DEF ClaimsHeld
  <2>2. w.email \in Emails \cup {None} /\ w.phone \in Phones
    BY <2>1, Busy
  <2>3. ById(w.id)' = {}
    BY <1>1, <1>2, <2>1 DEF IdsApart, Claims, ById
  <2>4. ASSUME txn[u].pc \in {"phone", "commit"}, w.email # None
        PROVE  emailKey'[w.email] = u /\ ByEmail(w.email)' = {}
    <3>1. emailKey[w.email] = u /\ ByEmail(w.email) = {}
      BY <2>1, <2>4 DEF Claims
    <3>2. v.email # w.email
      BY <1>1, <2>1, <2>4, <3>1 DEF Claims
    <3>3. emailKey'[w.email] = u
      BY <2>1, <2>2, <2>4, <3>1 DEF Commit, Rollback, Release
    <3>4. ByEmail(w.email)' = {}
      BY <1>2, <2>1, <3>1, <3>2 DEF ByEmail
    <3> QED
      BY <3>3, <3>4
  <2>5. ASSUME txn[u].pc = "commit"
        PROVE  phoneKey'[w.phone] = u /\ ByPhone(w.phone)' = {}
    <3>1. phoneKey[w.phone] = u /\ ByPhone(w.phone) = {}
      BY <2>1, <2>5 DEF Claims
    <3>2. v.phone # w.phone
      BY <1>1, <2>1, <3>1 DEF Claims
    <3>3. phoneKey'[w.phone] = u
      BY <2>1, <2>2, <3>1 DEF Commit, Rollback, Release
    <3>4. ByPhone(w.phone)' = {}
      BY <1>2, <2>1, <3>1, <3>2 DEF ByPhone
    <3> QED
      BY <3>3, <3>4
  <2> QED
    BY <1>1, <2>1, <2>3, <2>4, <2>5 DEF Claims
<1>6. TokensNameUsers'
  <2> SUFFICES ASSUME NEW i \in sessions
               PROVE  \/ ById(i)' # {}
                      \/ i \in undone'
                      \/ \E u \in Txns : txn'[u] # Idle /\ txn'[u].user.id = i
                                           /\ txn'[u].pc = "commit"
    BY <1>1 DEF TokensNameUsers
  <2>1. CASE ById(i) # {} \/ i \in undone
    BY <1>1, <1>2, <2>1 DEF ById
  <2>2. ASSUME NEW u \in Txns, txn[u] # Idle, txn[u].user.id = i, txn[u].pc = "commit"
        PROVE  ById(i)' # {} \/ (u # t /\ txn'[u] = txn[u])
    BY <1>1, <1>2, <2>2 DEF ById
  <2> QED
    BY <2>1, <2>2 DEF TokensNameUsers
<1> QED
  BY <1>3, <1>4, <1>5, <1>6

\* RegistrationInv is inductive: whatever the interleaving, a registration that
\* has entered its keys is alone with them until it ends.
THEOREM Inductive == Spec => []RegistrationInv
<1>1. Init => RegistrationInv
  BY DEF Init, RegistrationInv, TypeOK, KeysUnique, ClaimsHeld, IdsApart, TokensNameUsers
<1>2. RegistrationInv /\ [Next]_vars => RegistrationInv'
  <2> SUFFICES ASSUME RegistrationInv, [Next]_vars PROVE RegistrationInv'
    OBVIOUS
  <2>1. TypeOK'
    BY TypeStep DEF RegistrationInv
  <2>2. ASSUME NEW p \in Phones, VerifyLogin(p) \/ RegistrationTokenExpires(p)
        PROVE  RegistrationInv'
    BY <2>1, <2>2, VerifyStep
  <2>3. ASSUME NEW i \in Ids, TokensExpire(i)
        PROVE  RegistrationInv'
    BY <2>1, <2>3, ExpireStep
  <2>4. ASSUME NEW t \in Txns, NEW p \in Phones, NEW e \in Emails \cup {None},
               Register(t, p, e)
        PROVE  RegistrationInv'
    BY <2>1, <2>4, RegisterStep
  <2>5. ASSUME NEW t \in Txns, Check(t) PROVE RegistrationInv'
    BY <2>1, <2>5, CheckStep
  <2>6. ASSUME NEW t \in Txns, InsertEmail(t) PROVE RegistrationInv'
    BY <2>1, <2>6, InsertEmailStep
  <2>7. ASSUME NEW t \in Txns, InsertPhone(t) PROVE RegistrationInv'
    BY <2>1, <2>7, InsertPhoneStep
  <2>8. ASSUME NEW t \in Txns, Commit(t) PROVE RegistrationInv'
    BY <2>1, <2>8, CommitStep
  <2>9. ASSUME NEW t \in Txns, Abort(t) PROVE RegistrationInv'
    BY <2>1, <2>9, RollbackStep DEF Abort
  <2>10. CASE UNCHANGED vars
    BY <2>10 DEF vars, RegistrationInv, TypeOK, KeysUnique, Registry!Distinct, ClaimsHeld,
                 Claims, ById, ByEmail, ByPhone, IdsApart, TokensNameUsers
  <2> QED
    BY <2>2, <2>3, <2>4, <2>5, <2>6, <2>7, <2>8, <2>9, <2>10 DEF Next, Continue
<1> QED
  BY <1>1, <1>2, PTL DEF Spec

\* Tokens are out only for users, for registrations about to commit, and for
\* those whose commit failed after the answer.
THEOREM TokensAreNamed == Spec => []TokensNameUsers
<1>1. RegistrationInv => TokensNameUsers
  BY DEF RegistrationInv
<1> QED
  BY <1>1, Inductive, PTL

\* Tokens out for one phone are one user's.
THEOREM NoSecondAccount == Spec => []OneAccountPerPhone
<1>1. RegistrationInv => OneAccountPerPhone
  <2> SUFFICES ASSUME RegistrationInv,
                      NEW i \in sessions \ undone, NEW k \in sessions \ undone, i # k,
                      NEW p \in PhoneOf(i), p \in PhoneOf(k)
               PROVE  FALSE
    BY DEF OneAccountPerPhone
  <2> USE DEF RegistrationInv
  <2>1. \A j : p \in PhoneOf(j) =>
                  \/ \E v \in users : v.id = j /\ v.phone = p
                  \/ \E t \in Txns : /\ txn[t].pc = "commit"
                                     /\ txn[t].user.id = j /\ txn[t].user.phone = p
    BY DEF PhoneOf, ById
  <2>2. \A v, w \in users : v.phone = p /\ w.phone = p => v = w
    BY DEF KeysUnique, Registry!Distinct
  <2>3. \A t \in Txns : txn[t].pc = "commit" => Claims(t)
    BY DEF ClaimsHeld, Idle
  <2>4. \A t \in Txns : txn[t].pc = "commit" /\ txn[t].user.phone = p =>
                           phoneKey[p] = t /\ ByPhone(p) = {}
    BY <2>3 DEF Claims
  <2> QED
    BY <2>1, <2>2, <2>4 DEF ByPhone
<1> QED
  BY <1>1, Inductive, PTL

\* The registrations implement the directory.
THEOREM ImplementsDirectory == Spec => DirectorySpec
<1>1. Init => Registry!Init
  BY DEF Init, Registry!Init
<1>2. RegistrationInv /\ [Next]_vars => [Registry!Next]_users
  <2> SUFFICES ASSUME RegistrationInv, [Next]_vars, users' # users
               PROVE  Registry!Next
    OBVIOUS
  <2>1. PICK t \in Txns : Commit(t)
    BY DEF Next, Continue, vars, VerifyLogin, RegistrationTokenExpires, TokensExpire,
           Register, Check, InsertEmail, InsertPhone, Abort
  <2>2. /\ txn[t].user \in User
        /\ \A w \in users : Registry!Distinct(txn[t].user, w)
        /\ users' = users \cup {txn[t].user}
    BY <2>1, CommitEnrols
  <2>3. Registry!Enrol(txn[t].user) /\ txn[t].user \in Registry!User
    BY <2>2 DEF Registry!Enrol, Registry!User, User
  <2> QED
    BY <2>3 DEF Registry!Next
<1> QED
  BY <1>1, <1>2, Inductive, PTL DEF Spec, DirectorySpec, Registry!Spec
=============================================================================
