------------------------------ MODULE RatingBook ------------------------------
(* What rating a captain promises, with no transactions: one step enters a  *)
(* rating for a shipment, once and for ever, and with it the new average of *)
(* the captain who carried it.                                              *)
CONSTANTS Shipments, CaptainOf, Stars, None, Average(_)

VARIABLES
    rating,   \* rating[s]: the stars shipment s was given, or None
    mean      \* mean[c]: the average shown for captain c

vars == <<rating, mean>>

\* The ratings r holds for captain c.
RatingsFor(r, c) == {<<s, r[s]>> : s \in {x \in Shipments :
                                            r[x] # None /\ CaptainOf[x] = c}}

MeanFor(r, c) == Average(RatingsFor(r, c))

Init == /\ rating = [s \in Shipments |-> None]
        /\ mean = [c \in {CaptainOf[s] : s \in Shipments} |-> Average({})]

Enter(s, n) ==
    /\ rating[s] = None
    /\ rating' = [rating EXCEPT ![s] = n]
    /\ mean' = [mean EXCEPT ![CaptainOf[s]] = MeanFor(rating', CaptainOf[s])]

Next == \E s \in Shipments, n \in Stars : Enter(s, n)

Spec == Init /\ [][Next]_vars
==============================================================================
