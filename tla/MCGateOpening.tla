---------------------------- MODULE MCGateOpening ----------------------------
(* GateOpening on a small instance: the commands are all for one gate. *)
EXTENDS GateOpening

MCGateOf == [c \in Commands |-> "gate"]
=============================================================================
