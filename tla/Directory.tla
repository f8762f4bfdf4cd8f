------------------------------ MODULE Directory ------------------------------
(***************************************************************************)
(* What registration promises: a directory of users that only grows, in    *)
(* which a phone, and an e-mail address where there is one, names one user *)
(* for ever.                                                               *)
(***************************************************************************)
CONSTANTS Phones, Emails, Ids, None

VARIABLE users

User == [id : Ids, phone : Phones, email : Emails \cup {None}]

\* Two rows that the table may hold together.
Distinct(v, w) == /\ v.id # w.id
                  /\ v.phone # w.phone
                  /\ v.email # w.email \/ v.email = None

Enrol(v) == /\ \A w \in users : Distinct(v, w)
            /\ users' = users \cup {v}

Init == users = {}

Next == \E v \in User : Enrol(v)

Spec == Init /\ [][Next]_users
=============================================================================
