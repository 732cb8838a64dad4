----------------------------- MODULE MCGateAccess -----------------------------
(* GateAccess on a small instance: one car, a gate for both directions, and    *)
(* two readings of the car's tag.                                              *)
EXTENDS GateAccess, TLC

CONSTANTS s1, b1, v1, g1, tag, m1, m2, p1, p2

MCVehicleOf == [b \in Bookings |-> v1]
MCAssigned == [v \in Vehicles |-> Slots]
MCGateOf == [m \in Messages |-> g1]
MCDirection == [g \in Gates |-> "BIDIRECTIONAL"]
MCLot == [x \in Gates \cup Slots \cup {None} |-> "lot"]
MCKind == [m \in Messages |-> "UHF_RFID"]
MCIdentifier == [m \in Messages |-> tag]
MCVehicleBy == [i \in {tag} |-> v1]
MCSymmetry == Permutations(Processes) \cup Permutations(Messages)
=============================================================================
