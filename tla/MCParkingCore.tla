---------------------------- MODULE MCParkingCore ----------------------------
(* ParkingCore, with its overlaps recorded, on small instances. *)
EXTENDS ParkingOverlaps, TLC

CONSTANTS v1, v2

\* Every booking is for v1, which also has every slot assigned.
OneVehicle == [b \in Bookings |-> v1]
AllAssigned == [v \in Vehicles |-> IF v = v1 THEN Slots ELSE {}]
SecondAssigned == [v \in Vehicles |-> IF v = v2 THEN Slots ELSE {}]
NoneAssigned == [v \in Vehicles |-> {}]

\* Bookings for two vehicles, the second of which its owner may delete.
CONSTANTS b1, b2, b3
TwoVehicles == [b \in Bookings |-> IF b = b3 THEN v2 ELSE v1]

SessionSymmetry == Permutations(Sessions)
=============================================================================
