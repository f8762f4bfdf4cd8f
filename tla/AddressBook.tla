----------------------------- MODULE AddressBook -----------------------------
(***************************************************************************)
(* What a user's saved locations promise: a book in which no two entries   *)
(* are at the same place, and an entry removed never comes back.           *)
(***************************************************************************)
CONSTANTS Locations, Places, Labels, None

VARIABLES
    row,    \* row[l]: the entry l, or None
    used    \* the ids of every entry there ever was

Row == [place : Places, label : Labels]

Free(l, p) == \A m \in Locations \ {l} : row[m] # None => row[m].place # p

Put(l, r) == row' = [row EXCEPT ![l] = r]

Add(l, r) == /\ l \notin used /\ Free(l, r.place)
             /\ Put(l, r)
             /\ used' = used \cup {l}

Change(l, r) == /\ row[l] # None /\ Free(l, r.place)
                /\ Put(l, r)
                /\ UNCHANGED used

Remove(l) == /\ row[l] # None
             /\ Put(l, None)
             /\ UNCHANGED used

Init == row = [l \in Locations |-> None] /\ used = {}

Next == \E l \in Locations : \/ \E r \in Row : Add(l, r) \/ Change(l, r)
                             \/ Remove(l)

Spec == Init /\ [][Next]_<<row, used>>
=============================================================================
