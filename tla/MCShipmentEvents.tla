-------------------------- MODULE MCShipmentEvents --------------------------
(* Small instances of ShipmentEvents.  One user, sender, creates every      *)
(* shipment and is no captain.                                              *)
EXTENDS ShipmentEvents, TLC

CONSTANTS sender

MCUsers == Captains \cup {sender}
MCSenderOf == [s \in Shipments |-> sender]

Interchangeable == Permutations(Txns) \cup Permutations(BidIds)
                      \cup Permutations(Streams)
==============================================================================
