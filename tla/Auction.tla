------------------------------- MODULE Auction -------------------------------
(***************************************************************************)
(* What the bidding on a shipment promises, with no transactions, locks or *)
(* requests: a shipment is listed, captains stand with one offer each, and *)
(* one atomic step either awards the shipment to an offer that stands at   *)
(* that moment, at its price, or closes it with no winner.  An award and a *)
(* close are both for ever.                                                *)
(*                                                                         *)
(* The abstract offers do not stop when the sale does: the code lets an    *)
(* offer that raced the award come in late (place_bid reads, then writes), *)
(* so only the award itself is promised here.                              *)
(***************************************************************************)
CONSTANTS Shipments, Captains, Prices, None

VARIABLES
    sale,    \* sale[s]: how the sale of shipment s stands
    offers   \* offers[s]: the offers standing on shipment s

vars == <<sale, offers>>

Offer == Captains \X Prices

Unlisted == [state |-> "unlisted", capitan |-> None, price |-> None]
Open     == [state |-> "open", capitan |-> None, price |-> None]
Closed   == [state |-> "closed", capitan |-> None, price |-> None]
AwardedTo(c, p) == [state |-> "awarded", capitan |-> c, price |-> p]

Init == /\ sale = [s \in Shipments |-> Unlisted]
        /\ offers = [s \in Shipments |-> {}]

List(s) == /\ sale[s] = Unlisted
           /\ sale' = [sale EXCEPT ![s] = Open]
           /\ UNCHANGED offers

\* A captain has one standing offer: a second replaces the first.
Bid(s, c, p) == /\ sale[s] # Unlisted
                /\ offers' = [offers EXCEPT ![s] =
                                {o \in @ : o[1] # c} \cup {<<c, p>>}]
                /\ UNCHANGED sale

Retract(s, o) == /\ o \in offers[s]
                 /\ offers' = [offers EXCEPT ![s] = @ \ {o}]
                 /\ UNCHANGED sale

\* The winner leaves the offers, and so do the losers the award knows of.
Award(s, o) == /\ sale[s] = Open
               /\ o \in offers[s]
               /\ sale' = [sale EXCEPT ![s] = AwardedTo(o[1], o[2])]
               /\ \E late \in SUBSET (offers[s] \ {o}) :
                     offers' = [offers EXCEPT ![s] = late]

Close(s) == /\ sale[s] = Open
            /\ sale' = [sale EXCEPT ![s] = Closed]
            /\ UNCHANGED offers

Next == \E s \in Shipments :
           \/ List(s)
           \/ Close(s)
           \/ \E c \in Captains, p \in Prices : Bid(s, c, p)
           \/ \E o \in Offer : Retract(s, o) \/ Award(s, o)

Spec == Init /\ [][Next]_vars
==============================================================================
