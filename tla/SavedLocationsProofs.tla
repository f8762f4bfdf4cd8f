------------------------- MODULE SavedLocationsProofs -------------------------
(***************************************************************************)
(* Theorems about SavedLocations, for all sets of locations, coordinates,  *)
(* labels and slots.                                                       *)
(***************************************************************************)
EXTENDS SavedLocations, TLAPS

USE LocationsAssumption

\* CHOOSE finds a new location where there is one.
LEMMA NewLocationIsNew ==
    ASSUME \E l \in Locations : New(l)
    PROVE  NewLocation \in Locations /\ New(NewLocation)
BY Zenon DEF NewLocation

\* A slot that is somewhere in the handler is not idle.
LEMMA Busy ==
    ASSUME TypeOK, NEW t \in Txns, txn[t] # Idle
    PROVE  /\ txn[t] \in Request
           /\ txn[t].l \in Locations
           /\ txn[t].op \in {"create", "update", "delete"}
           /\ txn[t].pc \in {"insert", "write", "key", "commit"}
           /\ txn[t].draft \in Row \cup {None}
           /\ txn[t].sent \in Row \cup {None}
BY DEF TypeOK, Request

\* None is no row.
LEMMA RowIsNotNone == ASSUME NEW r \in Row \cup {None}, r # None
                      PROVE  /\ r \in Row /\ r.place \in Places /\ r.label \in Labels
BY DEF Row

\* Ending a request with no effect, or after its commit, frees what it holds.
LEMMA LetGoTypes ==
    ASSUME TypeOK, NEW t \in Txns, LetGo(t)
    PROVE  /\ lock' \in [Locations -> Txns \cup {None}]
           /\ key' \in [Places -> Txns \cup {None}]
           /\ \A u \in Txns \ {t} :
                 /\ \A l \in Locations : lock[l] = u => lock'[l] = u
                 /\ \A p \in Places : key[p] = u => key'[p] = u
BY DEF TypeOK, LetGo

\* A step of others that leaves the table leaves u what it holds.
LEMMA Undisturbed ==
    ASSUME TypeOK, NEW u \in Txns, txn[u] # Idle, Holds(u),
           txn'[u] = txn[u], row' = row, used' = used,
           \A l \in Locations : lock[l] = u => lock'[l] = u,
           \A p \in Places : key[p] = u => key'[p] = u
    PROVE  Holds(u)'
<1>1. /\ txn[u].l \in Locations
      /\ txn[u].draft # None => txn[u].draft.place \in Places
  BY Busy, RowIsNotNone
<1> QED
  BY <1>1 DEF Holds, At

\* A request that ends without effect leaves the others what they hold.
LEMMA GiveUpStep ==
    ASSUME BookInv, NEW t \in Txns, GiveUp(t)
    PROVE  BookInv'
<1> USE DEF BookInv
<1>1. /\ row' = row /\ used' = used /\ crossed' = crossed
      /\ txn'[t] = Idle /\ \A u \in Txns \ {t} : txn'[u] = txn[u]
      /\ txn' \in [Txns -> {Idle} \cup Request]
      /\ LetGo(t)
  BY DEF GiveUp, TypeOK
<1>2. TypeOK'
  BY <1>1, LetGoTypes DEF TypeOK
<1>3. ClaimsHeld'
  <2> SUFFICES ASSUME NEW u \in Txns, txn'[u] # Idle PROVE Holds(u)'
    BY DEF ClaimsHeld
  <2>1. u \in Txns \ {t} /\ txn[u] # Idle /\ txn'[u] = txn[u] /\ Holds(u)
    BY <1>1 DEF ClaimsHeld
  <2> QED
    BY <1>1, <2>1, LetGoTypes, Undisturbed
<1>4. NewApart'
  BY <1>1 DEF NewApart
<1>5. OnePerPlace'
  BY <1>1 DEF OnePerPlace, At
<1> QED
  BY <1>2, <1>3, <1>4, <1>5

\* A request that begins, or moves on without a commit: what is left to show is
\* what it holds itself.
LEMMA MoveStep ==
    ASSUME BookInv, TypeOK', NEW t \in Txns, row' = row, used' = used,
           \A u \in Txns \ {t} :
              /\ txn'[u] = txn[u]
              /\ \A l \in Locations : lock[l] = u => lock'[l] = u
              /\ \A p \in Places : key[p] = u => key'[p] = u,
           txn'[t] # Idle, Holds(t)',
           \A u \in Txns \ {t} :
              txn[u] # Idle /\ (txn[u].op = "create" \/ txn'[t].op = "create")
                 => txn[u].l # txn'[t].l
    PROVE  BookInv'
<1> USE DEF BookInv
<1>1. ClaimsHeld'
  <2> SUFFICES ASSUME NEW u \in Txns \ {t}, txn'[u] # Idle PROVE Holds(u)'
    BY DEF ClaimsHeld
  <2>1. txn[u] # Idle /\ Holds(u)
    BY DEF ClaimsHeld
  <2> QED
    BY <2>1, Undisturbed
<1>2. NewApart'
  <2> SUFFICES ASSUME NEW u \in Txns, NEW v \in Txns, u # v,
                      txn'[u] # Idle, txn'[v] # Idle, txn'[u].op = "create"
               PROVE  txn'[v].l # txn'[u].l
    BY DEF NewApart
  <2>1. CASE u # t /\ v # t
    BY <2>1 DEF NewApart
  <2>2. CASE u = t \/ v = t
    BY <2>2
  <2> QED
    BY <2>1, <2>2
<1>3. OnePerPlace'
  BY DEF OnePerPlace, At
<1> QED
  BY <1>1, <1>2, <1>3

\* Entering coordinates that nobody has, or may have, takes them from nobody.
LEMMA EnterStep ==
    ASSUME BookInv, NEW t \in Txns, txn[t] # Idle,
           txn[t].pc \in {"insert", "key"}, Enter(t)
    PROVE  BookInv'
<1> DEFINE r == txn[t]
           p == txn[t].draft.place
<1> USE DEF BookInv
<1>1. /\ Holds(t) /\ r \in Request /\ r.l \in Locations
      /\ r.op \in {"create", "update"} /\ r.draft # None
  BY Busy DEF ClaimsHeld, Holds
<1>2. p \in Places
  BY <1>1, Busy, RowIsNotNone
<1>3. CASE GiveUp(t)
  BY <1>3, GiveUpStep
<1>4. CASE /\ ~Taken(r.l, p)
           /\ key' = [key EXCEPT ![p] = t]
           /\ txn' = [txn EXCEPT ![t].pc = "commit"]
           /\ UNCHANGED <<row, used, lock, crossed>>
  <2>1. txn' = [txn EXCEPT ![t] = [r EXCEPT !.pc = "commit"]]
    BY <1>4
  <2>2. [r EXCEPT !.pc = "commit"] \in Request
    BY <1>1 DEF Request
  <2>3. TypeOK'
    BY <1>2, <1>4, <2>1, <2>2 DEF TypeOK
  <2>4. /\ txn'[t] = [r EXCEPT !.pc = "commit"]
        /\ \A u \in Txns \ {t} : txn'[u] = txn[u]
    BY <2>1 DEF TypeOK
  <2>5. /\ txn'[t].pc = "commit" /\ txn'[t].op = r.op /\ txn'[t].l = r.l
        /\ txn'[t].draft = r.draft /\ txn'[t].sent = r.sent
        /\ txn'[t] # Idle
    BY <1>1, <2>4 DEF Request, Idle
  <2>6. \A u \in Txns \ {t} : \A q \in Places : key[q] = u => key'[q] = u
    <3> SUFFICES ASSUME NEW u \in Txns \ {t}, key[p] = u PROVE FALSE
      BY <1>4 DEF TypeOK
    <3>1. u \in Deciders(t, p)
      BY DEF Deciders
    <3> QED
      BY <3>1 DEF Enter, InDoubt
  <2>7. Holds(t)'
    <3>1. At(p) \subseteq {r.l} /\ key'[p] = t
      BY <1>2, <1>4 DEF Taken, TypeOK
    <3>2. At(p)' = At(p)
      BY <1>4 DEF At
    <3> QED
      BY <1>1, <1>4, <2>5, <3>1, <3>2 DEF Holds, At
  <2>8. \A u \in Txns \ {t} :
           txn[u] # Idle /\ (txn[u].op = "create" \/ txn'[t].op = "create")
              => txn[u].l # txn'[t].l
    BY <2>5 DEF NewApart
  <2> QED
    BY <1>4, <2>3, <2>4, <2>5, <2>6, <2>7, <2>8, MoveStep
<1> QED
  BY <1>3, <1>4 DEF Enter

\* A creation begins with a location nobody knows.
LEMMA CreateStep ==
    ASSUME BookInv, NEW t \in Txns, NEW r \in Row, Create(t, r)
    PROVE  BookInv'
<1> DEFINE n == NewLocation
           x == [pc |-> "insert", op |-> "create", l |-> n,
                 sent |-> r, loaded |-> None, draft |-> r]
<1> USE DEF BookInv
<1>1. n \in Locations /\ New(n)
  BY NewLocationIsNew DEF Create
<1>2. x \in Request
  BY <1>1 DEF Request
<1>3. txn' = [txn EXCEPT ![t] = x] /\ UNCHANGED <<row, used, lock, key, crossed>>
  BY DEF Create
<1>4. /\ txn'[t] = x /\ \A u \in Txns \ {t} : txn'[u] = txn[u]
      /\ TypeOK'
  BY <1>2, <1>3 DEF TypeOK
<1>5. txn'[t] # Idle
  BY <1>4 DEF Idle
<1>6. Holds(t)'
  BY <1>1, <1>3, <1>4, RowIsNotNone DEF Holds, New, Row
<1>7. \A u \in Txns \ {t} :
         txn[u] # Idle /\ (txn[u].op = "create" \/ txn'[t].op = "create")
            => txn[u].l # txn'[t].l
  BY <1>1, <1>4 DEF New
<1> HIDE DEF n, x
<1> QED
  BY <1>3, <1>4, <1>5, <1>6, <1>7, MoveStep

\* An update or a delete begins with a row that is there, and holds nothing.
LEMMA LoadStep ==
    ASSUME BookInv, NEW t \in Txns, NEW op \in {"update", "delete"},
           NEW l \in Locations, NEW r \in Row \cup {None}, op = "update" => r # None,
           Load(t, op, l, r)
    PROVE  BookInv'
<1> DEFINE x == [pc |-> "write", op |-> op, l |-> l, sent |-> r,
                 loaded |-> row[l], draft |-> None]
<1> USE DEF BookInv
<1>1. CASE UNCHANGED vars
  BY <1>1 DEF vars, TypeOK, ClaimsHeld, Holds, At, NewApart, OnePerPlace
<1>2. CASE /\ row[l] # None
           /\ txn' = [txn EXCEPT ![t] = x]
           /\ crossed' = crossed \ {t}
           /\ UNCHANGED <<row, used, lock, key>>
  <2>1. x \in Request
    BY DEF Request, TypeOK
  <2>2. /\ txn'[t] = x /\ \A u \in Txns \ {t} : txn'[u] = txn[u]
        /\ TypeOK'
    BY <1>2, <2>1 DEF TypeOK
  <2>3. txn'[t] # Idle
    BY <2>2 DEF Idle
  <2>4. Holds(t)'
    BY <2>2 DEF Holds
  <2>5. l \in used
    BY <1>2 DEF OnePerPlace
  <2>6. \A u \in Txns \ {t} :
           txn[u] # Idle /\ (txn[u].op = "create" \/ txn'[t].op = "create")
              => txn[u].l # txn'[t].l
    BY <2>2, <2>5 DEF ClaimsHeld, Holds
  <2> HIDE DEF x
  <2> QED
    BY <1>2, <2>2, <2>3, <2>4, <2>6, MoveStep
<1> QED
  BY <1>1, <1>2 DEF Load

\* Writing the row under its lock.
LEMMA WriteRowStep ==
    ASSUME BookInv, NEW t \in Txns, WriteRow(t)
    PROVE  BookInv'
<1> DEFINE r == txn[t]
           now == row[r.l]
           next == IF r.op = "delete" THEN None ELSE Merged(r, now)
           moves == r.op = "update" /\ next.place # now.place
           pc == IF moves THEN "key" ELSE "commit"
<1> USE DEF BookInv
<1>1. txn[t] # Idle /\ r.pc = "write" /\ lock[r.l] = None
  BY DEF WriteRow, Idle
<1>2. /\ Holds(t) /\ r \in Request /\ r.l \in Locations
      /\ r.op \in {"update", "delete"}
      /\ r.op = "update" => r.sent # None
  BY <1>1, Busy DEF ClaimsHeld, Holds
<1>3. CASE GiveUp(t)
  BY <1>3, GiveUpStep
<1>4. CASE /\ now # None
           /\ lock' = [lock EXCEPT ![r.l] = t]
           /\ txn' = [txn EXCEPT ![t].draft = next, ![t].loaded = None, ![t].pc = pc]
           /\ UNCHANGED <<row, used, key, crossed>>
  <2>1. now \in Row
    BY <1>2, <1>4 DEF TypeOK
  <2>2. r.op = "update" => next \in Row
    <3>1. r.op = "update" => r.sent \in Row
      BY <1>1, <1>2, Busy
    <3> QED
      BY <2>1, <3>1 DEF Merged, Row
  <2>3. next \in Row \cup {None}
    BY <1>2, <2>2
  <2>4. pc \in {"key", "commit"} /\ (r.op = "delete" => pc = "commit")
    OBVIOUS
  <2> DEFINE x == [r EXCEPT !.draft = next, !.loaded = None, !.pc = pc]
  <2>5. txn' = [txn EXCEPT ![t] = x]
    BY <1>4 DEF TypeOK
  <2>6. /\ x \in Request
        /\ x.pc = pc /\ x.op = r.op /\ x.l = r.l /\ x.draft = next /\ x.sent = r.sent
    <3> HIDE DEF next, pc
    <3> QED
      BY <1>2, <2>3, <2>4 DEF Request
  <2>7. pc = "commit" /\ r.op = "update" => next.place = now.place
    BY <1>2
  <2>8. r.op = "delete" => next = None
    OBVIOUS
  <2>9. r.op = "update" => next # None
    BY <2>2 DEF Row
  <2> HIDE DEF next, pc, x
  <2>10. /\ txn'[t] = x /\ \A u \in Txns \ {t} : txn'[u] = txn[u]
         /\ TypeOK'
    <3>1. txn' \in [Txns -> {Idle} \cup Request]
      BY <2>5, <2>6 DEF TypeOK
    <3>2. lock' \in [Locations -> Txns \cup {None}]
      BY <1>4 DEF TypeOK
    <3>3. TypeOK'
      BY <1>4, <3>1, <3>2 DEF TypeOK
    <3> QED
      BY <2>5, <3>3 DEF TypeOK
  <2>11. txn'[t] # Idle
    BY <2>4, <2>6, <2>10 DEF Idle, Request
  <2>12. Holds(t)'
    <3>1. lock'[r.l] = t /\ row'[r.l] # None
      BY <1>2, <1>4 DEF TypeOK
    <3>2. {l \in Locations : row'[l] # None /\ row'[l].place = now.place} = {r.l}
      BY <1>2, <1>4 DEF OnePerPlace, At
    <3>. PICK m : m = txn'[t]
      OBVIOUS
    <3>3. /\ m.op = r.op /\ m.pc = pc /\ m.l = r.l /\ m.draft = next /\ m.sent = r.sent
      BY <2>6, <2>10
    <3>4. pc = "commit" /\ next # None => next.place = now.place
      BY <1>2, <2>7, <2>8
    <3>5. ASSUME m.pc = "commit", m.draft # None
          PROVE  {l \in Locations : row'[l] # None /\ row'[l].place = m.draft.place} = {m.l}
      BY <3>2, <3>3, <3>4, <3>5
    <3> QED
      BY <1>2, <2>4, <2>8, <2>9, <3>1, <3>3, <3>5 DEF Holds, At
  <2>13. \A u \in Txns \ {t} : \A l \in Locations : lock[l] = u => lock'[l] = u
    BY <1>1, <1>4 DEF TypeOK
  <2>14. \A u \in Txns \ {t} :
            txn[u] # Idle /\ (txn[u].op = "create" \/ txn'[t].op = "create")
               => txn[u].l # txn'[t].l
    BY <1>1, <1>2, <2>6, <2>10 DEF NewApart
  <2> QED
    BY <1>4, <2>10, <2>11, <2>12, <2>13, <2>14, MoveStep
<1> QED
  BY <1>3, <1>4 DEF WriteRow

\* What a commit writes: a new location, or one that is there, at coordinates
\* no other location has.
LEMMA CommitWrites ==
    ASSUME BookInv, NEW t \in Txns, Commit(t)
    PROVE  /\ txn[t] # Idle /\ Holds(t)
           /\ txn[t].l \in Locations /\ txn[t].draft \in Row \cup {None}
           /\ row' = [row EXCEPT ![txn[t].l] = txn[t].draft]
           /\ used' = used \cup {txn[t].l}
           /\ txn[t].op = "create" => txn[t].l \notin used /\ row[txn[t].l] = None
           /\ txn[t].op # "create" => /\ lock[txn[t].l] = t
                                      /\ row[txn[t].l] # None
                                      /\ txn[t].l \in used
           /\ txn[t].draft # None =>
                 /\ txn[t].draft.place \in Places
                 /\ At(txn[t].draft.place) \subseteq {txn[t].l}
                 /\ At(txn[t].draft.place) = {} => key[txn[t].draft.place] = t
<1>1. txn[t] # Idle /\ txn[t].pc = "commit"
  BY DEF Commit, Idle
<1>2. /\ Holds(t) /\ txn[t].l \in Locations /\ txn[t].draft \in Row \cup {None}
  BY <1>1, Busy DEF BookInv, ClaimsHeld
<1>3. txn[t].draft # None => txn[t].draft.place \in Places
  BY <1>2, RowIsNotNone
<1>4. txn[t].op = "create" => txn[t].l \notin used /\ row[txn[t].l] = None
  BY <1>1, <1>2 DEF Holds, BookInv, OnePerPlace
<1>5. txn[t].op # "create" => /\ lock[txn[t].l] = t
                              /\ row[txn[t].l] # None
                              /\ txn[t].l \in used
  BY <1>1, <1>2 DEF Holds, BookInv, OnePerPlace
<1>6. txn[t].draft # None =>
         /\ At(txn[t].draft.place) \subseteq {txn[t].l}
         /\ At(txn[t].draft.place) = {} => key[txn[t].draft.place] = t
  BY <1>1, <1>2 DEF Holds
<1> QED
  BY <1>1, <1>2, <1>3, <1>4, <1>5, <1>6 DEF Commit

\* The row that is committed is alone at its place.
LEMMA CommitStep ==
    ASSUME BookInv, NEW t \in Txns, Commit(t)
    PROVE  BookInv'
<1>. PICK r : r = txn[t]
  OBVIOUS
<1> USE DEF BookInv
<1>1. /\ r # Idle /\ r.l \in Locations /\ r.draft \in Row \cup {None}
      /\ row' = [row EXCEPT ![r.l] = r.draft]
      /\ used' = used \cup {r.l}
      /\ r.op = "create" => r.l \notin used /\ row[r.l] = None
      /\ r.op # "create" => lock[r.l] = t /\ row[r.l] # None /\ r.l \in used
      /\ r.draft # None =>
            /\ r.draft.place \in Places
            /\ At(r.draft.place) \subseteq {r.l}
            /\ At(r.draft.place) = {} => key[r.draft.place] = t
  BY CommitWrites
<1>2. /\ txn' \in [Txns -> {Idle} \cup Request]
      /\ txn'[t] = Idle /\ \A u \in Txns \ {t} : txn'[u] = txn[u]
      /\ LetGo(t)
      /\ crossed' \subseteq Txns
  BY DEF Commit, TypeOK
<1>3. TypeOK'
  BY <1>1, <1>2, LetGoTypes DEF TypeOK
<1>4. \A p : At(p)' = IF r.draft # None /\ r.draft.place = p THEN {r.l}
                      ELSE At(p) \ {r.l}
  <2> SUFFICES ASSUME NEW p
               PROVE  At(p)' = IF r.draft # None /\ r.draft.place = p THEN {r.l}
                               ELSE At(p) \ {r.l}
    OBVIOUS
  <2>1. /\ row'[r.l] = r.draft
        /\ \A l \in Locations \ {r.l} : row'[l] = row[l]
    BY <1>1 DEF TypeOK
  <2>2. CASE r.draft # None /\ r.draft.place = p
    BY <1>1, <2>1, <2>2 DEF At
  <2>3. CASE ~(r.draft # None /\ r.draft.place = p)
    BY <1>1, <2>1, <2>3 DEF At
  <2> QED
    BY <2>2, <2>3
<1>5. ClaimsHeld'
  <2> SUFFICES ASSUME NEW u \in Txns, txn'[u] # Idle PROVE Holds(u)'
    BY DEF ClaimsHeld
  <2>. PICK w : w = txn[u]
    OBVIOUS
  <2>1. u # t /\ txn[u] # Idle /\ txn'[u] = w /\ Holds(u) /\ w.l \in Locations
    BY <1>2, Busy DEF ClaimsHeld
  <2>2. /\ r.op = "create" \/ w.op = "create" => w.l # r.l
    BY <1>1, <2>1 DEF NewApart
  <2>3. w.op = "create" => w.l \notin used'
    BY <1>1, <2>1, <2>2 DEF Holds
  <2>4. w.op # "create" /\ w.pc \in {"key", "commit"} =>
           lock[w.l] = u /\ row[w.l] # None /\ w.l # r.l
    BY <1>1, <2>1, <2>2 DEF Holds
  <2>5. w.op # "create" /\ w.pc \in {"key", "commit"} =>
           lock'[w.l] = u /\ row'[w.l] # None
    BY <1>1, <1>2, <2>1, <2>4, LetGoTypes DEF TypeOK
  <2>6. ASSUME w.pc = "commit", w.draft # None
        PROVE  \/ At(w.draft.place)' = {w.l}
               \/ At(w.draft.place)' = {} /\ key'[w.draft.place] = u
    <3>1. w.draft.place \in Places
      BY <2>1, <2>6, Busy, RowIsNotNone
    <3>2. \/ At(w.draft.place) = {w.l}
          \/ At(w.draft.place) = {} /\ key[w.draft.place] = u
      BY <2>1, <2>6 DEF Holds
    <3>3. w.l # r.l
      BY <2>1, <2>2, <2>4, <2>6
    <3>4. ~(r.draft # None /\ r.draft.place = w.draft.place)
      BY <1>1, <2>1, <3>2, <3>3
    <3>5. At(w.draft.place)' = At(w.draft.place) \ {r.l}
      BY <1>4, <3>4
    <3>6. key[w.draft.place] = u => key'[w.draft.place] = u
      BY <1>2, <2>1, <3>1, LetGoTypes
    <3> QED
      BY <3>2, <3>3, <3>5, <3>6
  <2> QED
    BY <2>1, <2>3, <2>5, <2>6 DEF Holds
<1>6. NewApart'
  BY <1>2 DEF NewApart
<1>7. OnePerPlace'
  <2> SUFFICES ASSUME NEW l \in Locations, NEW n, n = row'[l], n # None
               PROVE  l \in used' /\ At(n.place)' = {l}
    BY DEF OnePerPlace, At
  <2>1. CASE l = r.l
    <3>1. n = r.draft
      BY <1>1, <2>1 DEF TypeOK
    <3> QED
      BY <1>1, <1>4, <2>1, <3>1
  <2>2. CASE l # r.l
    <3>1. n = row[l] /\ l \in used /\ At(n.place) = {l}
      BY <1>1, <2>2 DEF TypeOK, OnePerPlace
    <3>2. ~(r.draft # None /\ r.draft.place = n.place)
      BY <1>1, <2>2, <3>1
    <3> QED
      BY <1>1, <1>4, <2>2, <3>1, <3>2
  <2> QED
    BY <2>1, <2>2
<1> QED
  BY <1>3, <1>5, <1>6, <1>7

\* BookInv is inductive: an update or delete that has written its row keeps
\* it, and who has entered coordinates is alone with them until it ends.
LEMMA BookInductive == Spec => []BookInv
<1>1. Init => BookInv
  BY DEF Init, BookInv, TypeOK, ClaimsHeld, NewApart, OnePerPlace
<1>2. BookInv /\ [Next]_vars => BookInv'
  <2> SUFFICES ASSUME BookInv, [Next]_vars PROVE BookInv'
    OBVIOUS
  <2>1. ASSUME NEW t \in Txns, NEW r \in Row, Create(t, r) PROVE BookInv'
    BY <2>1, CreateStep
  <2>2. ASSUME NEW t \in Txns, NEW l \in Locations, NEW r \in Row, Update(t, l, r)
        PROVE  BookInv'
    BY <2>2, LoadStep DEF Update
  <2>3. ASSUME NEW t \in Txns, NEW l \in Locations, Delete(t, l) PROVE BookInv'
    BY <2>3, LoadStep DEF Delete
  <2>4. ASSUME NEW t \in Txns, Insert(t) \/ EnterKey(t) PROVE BookInv'
    <3>1. txn[t] # Idle /\ txn[t].pc \in {"insert", "key"} /\ Enter(t)
      BY <2>4 DEF Insert, EnterKey, Idle
    <3> QED
      BY <3>1, EnterStep
  <2>5. ASSUME NEW t \in Txns, WriteRow(t) PROVE BookInv'
    BY <2>5, WriteRowStep
  <2>6. ASSUME NEW t \in Txns, Commit(t) PROVE BookInv'
    BY <2>6, CommitStep
  <2>7. ASSUME NEW t \in Txns, BreakDeadlock(t) \/ Abort(t) PROVE BookInv'
    BY <2>7, GiveUpStep DEF BreakDeadlock, Abort
  <2>8. CASE UNCHANGED vars
    BY <2>8 DEF vars, BookInv, TypeOK, ClaimsHeld, Holds, At, NewApart, OnePerPlace
  <2> QED
    BY <2>1, <2>2, <2>3, <2>4, <2>5, <2>6, <2>7, <2>8 DEF Next, Continue
<1> QED
  BY <1>1, <1>2, PTL DEF Spec

\* Only a commit changes the table.
LEMMA OnlyCommits ==
    ASSUME [Next]_vars, <<row, used>>' # <<row, used>>
    PROVE  \E t \in Txns : Commit(t)
BY DEF Next, Continue, vars, Create, Update, Delete, Load, Insert, EnterKey, Enter, GiveUp,
       WriteRow, BreakDeadlock, Abort

\* The requests implement the address book.
THEOREM ImplementsBook == Spec => BookSpec
<1>1. Init => Book!Init
  BY DEF Init, Book!Init
<1>2. BookInv /\ [Next]_vars => [Book!Next]_<<row, used>>
  <2> SUFFICES ASSUME BookInv, [Next]_vars, <<row, used>>' # <<row, used>>
               PROVE  Book!Next
    OBVIOUS
  <2>1. PICK t \in Txns : Commit(t)
    BY OnlyCommits
  <2>. PICK r : r = txn[t]
    OBVIOUS
  <2>2. /\ r # Idle /\ r.l \in Locations /\ r.draft \in Row \cup {None}
        /\ row' = [row EXCEPT ![r.l] = r.draft]
        /\ used' = used \cup {r.l}
        /\ r.op = "create" => r.l \notin used /\ row[r.l] = None
        /\ r.op # "create" => lock[r.l] = t /\ row[r.l] # None /\ r.l \in used
        /\ r.draft # None => At(r.draft.place) \subseteq {r.l}
        /\ r.op = "create" => r.draft # None
    <3>1. txn[t].pc = "commit"
      BY <2>1 DEF Commit
    <3>2. r.op = "create" => r.draft # None
      BY <2>1, <3>1, CommitWrites DEF Holds
    <3> QED
      BY <2>1, <3>2, CommitWrites
  <2>3. r.draft # None => r.draft \in Book!Row /\ Book!Free(r.l, r.draft.place)
    BY <2>2 DEF Book!Row, Book!Free, Row, At
  <2>4. CASE r.op = "create"
    BY <2>2, <2>3, <2>4 DEF Book!Next, Book!Add, Book!Put
  <2>5. CASE r.op # "create" /\ r.draft # None
    BY <2>2, <2>3, <2>5 DEF Book!Next, Book!Change, Book!Put
  <2>6. CASE r.op # "create" /\ r.draft = None
    BY <2>2, <2>6 DEF Book!Next, Book!Remove, Book!Put
  <2> QED
    BY <2>4, <2>5, <2>6
<1> QED
  BY <1>1, <1>2, BookInductive, PTL DEF Spec, BookSpec, Book!Spec

-----------------------------------------------------------------------------
(* Updates *)

\* What AsSent says of t.
SentAt(t) ==
    txn[t] # Idle /\ txn[t].op = "update" /\ t \notin crossed =>
       /\ txn[t].pc = "write" => txn[t].loaded = row[txn[t].l]
       /\ txn[t].pc \in {"key", "commit"} => txn[t].draft = txn[t].sent

\* A step that neither moves t nor commits leaves it so.
LEMMA SentStays ==
    ASSUME NEW t \in Txns, SentAt(t), txn'[t] = txn[t], row' = row,
           t \in crossed => t \in crossed'
    PROVE  SentAt(t)'
BY DEF SentAt

\* Over a row that is still as loaded, the flush writes what was sent.
LEMMA MergedIsSent ==
    ASSUME NEW r, r.sent \in Row, r.loaded \in Row
    PROVE  Merged(r, r.loaded) = r.sent
BY DEF Merged, Row

\* A commit crosses the requests whose row it changes, and leaves what the
\* others have loaded and are to write.
LEMMA CommitLeavesSent ==
    ASSUME BookInv, AsSent, NEW t \in Txns, Commit(t), NEW u \in Txns
    PROVE  SentAt(u)'
<1> DEFINE r == txn[t]
<1>1. /\ row' = [row EXCEPT ![r.l] = r.draft]
      /\ txn' = [txn EXCEPT ![t] = Idle]
      /\ crossed' = crossed \cup {v \in Txns \ {t} : txn[v] # Idle /\ txn[v].l = r.l}
      /\ row \in [Locations -> Row \cup {None}] /\ txn \in [Txns -> {Idle} \cup Request]
  BY DEF Commit, BookInv, TypeOK
<1>2. CASE u = t
  BY <1>1, <1>2 DEF SentAt
<1>3. CASE u # t
  <2>1. txn'[u] = txn[u]
    BY <1>1, <1>3
  <2>2. SUFFICES ASSUME txn[u] # Idle, txn[u].op = "update", u \notin crossed'
                 PROVE  SentAt(u)'
    BY <2>1 DEF SentAt
  <2>3. u \notin crossed /\ txn[u].l # r.l /\ txn[u].l \in Locations
    BY <1>1, <1>3, <2>2, Busy DEF BookInv
  <2>4. row'[txn[u].l] = row[txn[u].l]
    BY <1>1, <2>3
  <2> QED
    BY <2>1, <2>2, <2>3, <2>4 DEF AsSent, SentAt
<1> QED
  BY <1>2, <1>3

\* Every step keeps what an update that nobody has crossed is to write.
LEMMA AsSentNext == BookInv /\ AsSent /\ [Next]_vars => AsSent'
<1> SUFFICES ASSUME BookInv, AsSent, [Next]_vars, NEW u \in Txns PROVE SentAt(u)'
  BY DEF AsSent, SentAt
<1>1. SentAt(u) /\ txn \in [Txns -> {Idle} \cup Request]
  BY DEF AsSent, SentAt, BookInv, TypeOK
<1>2. ASSUME NEW t \in Txns, row' = row, crossed' = crossed, txn' = [txn EXCEPT ![t] = Idle]
      PROVE  SentAt(u)'
  BY <1>1, <1>2 DEF SentAt
<1>3. ASSUME NEW t \in Txns, NEW r \in Row, Create(t, r)
      PROVE  SentAt(u)'
  BY <1>1, <1>3 DEF Create, SentAt
<1>4. ASSUME NEW t \in Txns, NEW op \in {"update", "delete"}, NEW l \in Locations, NEW r,
             Load(t, op, l, r)
      PROVE  SentAt(u)'
  <2>1. CASE UNCHANGED vars
    BY <1>1, <2>1 DEF vars, SentAt
  <2>2. CASE /\ txn' = [txn EXCEPT ![t] = [pc |-> "write", op |-> op, l |-> l, sent |-> r,
                                           loaded |-> row[l], draft |-> None]]
             /\ crossed' = crossed \ {t} /\ row' = row
    <3>1. CASE u = t
      BY <1>1, <2>2, <3>1 DEF SentAt
    <3>2. CASE u # t
      <4>1. txn'[u] = txn[u] /\ (u \in crossed => u \in crossed')
        BY <1>1, <2>2, <3>2
      <4> QED
        BY <1>1, <2>2, <4>1, SentStays
    <3> QED
      BY <3>1, <3>2
  <2> QED
    BY <1>4, <2>1, <2>2 DEF Load
<1>5. ASSUME NEW t \in Txns, Insert(t) \/ EnterKey(t)
      PROVE  SentAt(u)'
  <2>1. txn[t] # Idle /\ txn[t] \in Request /\ txn[t].pc \in {"insert", "key"} /\ Holds(t)
    BY <1>5, Busy DEF Insert, EnterKey, Idle, BookInv, ClaimsHeld
  <2>2. \/ GiveUp(t)
        \/ txn' = [txn EXCEPT ![t].pc = "commit"] /\ row' = row /\ crossed' = crossed
    BY <1>5 DEF Insert, EnterKey, Enter
  <2>3. CASE txn' = [txn EXCEPT ![t].pc = "commit"] /\ row' = row /\ crossed' = crossed
    <3>1. CASE u = t
      <4>1. /\ txn'[t] = [txn[t] EXCEPT !.pc = "commit"]
            /\ txn'[t].op = txn[t].op /\ txn'[t].sent = txn[t].sent
            /\ txn'[t].draft = txn[t].draft /\ txn'[t].pc = "commit"
        BY <1>1, <2>1, <2>3 DEF Request
      <4>2. txn[t].op = "update" => txn[t].pc = "key"
        BY <2>1 DEF Holds
      <4> QED
        BY <1>1, <2>1, <2>3, <3>1, <4>1, <4>2 DEF SentAt
    <3>2. CASE u # t
      BY <1>1, <2>3, <3>2, SentStays
    <3> QED
      BY <3>1, <3>2
  <2> QED
    BY <1>2, <2>2, <2>3 DEF GiveUp
<1>6. ASSUME NEW t \in Txns, WriteRow(t)
      PROVE  SentAt(u)'
  <2> DEFINE r == txn[t]
             now == row[r.l]
             next == IF r.op = "delete" THEN None ELSE Merged(r, now)
  <2>1. r # Idle /\ r \in Request /\ r.pc = "write" /\ Holds(t)
    BY <1>6, Busy DEF WriteRow, Idle, BookInv, ClaimsHeld
  <2>2. CASE GiveUp(t)
    BY <1>2, <2>2 DEF GiveUp
  <2>3. CASE /\ now # None /\ row' = row /\ crossed' = crossed
             /\ \E pc \in {"key", "commit"} :
                   txn' = [txn EXCEPT ![t].draft = next, ![t].loaded = None, ![t].pc = pc]
    <3>1. PICK pc \in {"key", "commit"} :
             txn' = [txn EXCEPT ![t].draft = next, ![t].loaded = None, ![t].pc = pc]
      BY <2>3
    <3>2. CASE u = t
      <4>1. /\ txn'[t].op = r.op /\ txn'[t].sent = r.sent
            /\ txn'[t].draft = next /\ txn'[t].pc = pc
        BY <1>1, <2>1, <3>1 DEF Request
      <4>2. ASSUME r.op = "update", t \notin crossed
            PROVE  next = r.sent
        <5>1. r.loaded = now /\ r.sent \in Row
          BY <2>1, <4>2 DEF AsSent, Holds, Request
        <5>2. now \in Row
          BY <2>1, <2>3 DEF BookInv, TypeOK, Request
        <5> QED
          BY <4>2, <5>1, <5>2, MergedIsSent
      <4> QED
        BY <2>3, <3>2, <4>1, <4>2 DEF SentAt
    <3>3. CASE u # t
      BY <1>1, <2>3, <3>1, <3>3, SentStays
    <3> QED
      BY <3>2, <3>3
  <2> QED
    BY <1>6, <2>2, <2>3 DEF WriteRow
<1>7. ASSUME NEW t \in Txns, Commit(t)
      PROVE  SentAt(u)'
  BY <1>7, CommitLeavesSent
<1>8. ASSUME NEW t \in Txns, BreakDeadlock(t) \/ Abort(t)
      PROVE  SentAt(u)'
  BY <1>2, <1>8 DEF BreakDeadlock, Abort, GiveUp
<1>9. CASE UNCHANGED vars
  BY <1>1, <1>9 DEF vars, SentAt
<1> QED
  BY <1>3, <1>4, <1>5, <1>6, <1>7, <1>8, <1>9 DEF Next, Continue, Update, Delete

\* LocationsInv is inductive: besides, an update that nobody has crossed writes
\* what it was sent.
THEOREM Inductive == Spec => []LocationsInv
<1>1. Init => AsSent
  BY DEF Init, AsSent
<1>2. LocationsInv <=> BookInv /\ AsSent
  BY DEF LocationsInv
<1> QED
  BY <1>1, <1>2, AsSentNext, BookInductive, PTL DEF Spec

\* An update that commits leaves the location it was sent, although it writes
\* only the columns that differ from a row it has loaded before, unless another
\* request has changed that row meanwhile.
THEOREM UpdatesReplace == Spec => UpdateReplaces
<1>1. ASSUME LocationsInv, [Next]_vars, NEW t \in Txns,
             txn[t] # Idle, txn'[t] = Idle, row' # row, txn[t].op = "update"
      PROVE  row'[txn[t].l] = txn[t].sent \/ t \in crossed
  <2>1. PICK u \in Txns : Commit(u)
    BY <1>1, OnlyCommits
  <2>2. txn \in [Txns -> {Idle} \cup Request] /\ row \in [Locations -> Row \cup {None}]
    BY <1>1 DEF LocationsInv, BookInv, TypeOK
  <2>3. u = t
    BY <1>1, <2>1, <2>2 DEF Commit
  <2>4. row'[txn[t].l] = txn[t].draft /\ txn[t].pc = "commit"
    BY <1>1, <2>1, <2>2, <2>3, Busy DEF Commit, LocationsInv, BookInv
  <2> QED
    BY <1>1, <2>4 DEF LocationsInv, AsSent
<1>2. LocationsInv /\ [Next]_vars =>
         [\A t \in Txns :
            txn[t] # Idle /\ txn'[t] = Idle /\ row' # row /\ txn[t].op = "update" =>
               row'[txn[t].l] = txn[t].sent \/ t \in crossed]_vars
  BY <1>1
<1> QED
  BY <1>2, Inductive, PTL DEF Spec, UpdateReplaces
=============================================================================
