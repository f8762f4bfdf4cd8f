-------------------------- MODULE MCShipmentService --------------------------
(* Small instances of ShipmentService.  One user, sender, creates every     *)
(* shipment and is no captain.                                              *)
EXTENDS ShipmentService, TLC

CONSTANTS sender

MCUsers == Captains \cup {sender}
MCSenderOf == [s \in Shipments |-> sender]

\* Sound for the safety runs only.
Interchangeable == Permutations(Txns) \cup Permutations(BidIds)
                      \cup Permutations(Captains) \cup Permutations(Prices)
==============================================================================
