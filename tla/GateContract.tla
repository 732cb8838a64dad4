----------------------------- MODULE GateContract -----------------------------
(***************************************************************************)
(* What the gate promises to those who ask it to open: the barrier opens   *)
(* for a command that was requested, once between two starts of the        *)
(* gateway, and only a command it opened for is shown as executed.         *)
(***************************************************************************)
EXTENDS Naturals

CONSTANT Commands

VARIABLES
  requested,  \* commands asked for
  openings,   \* how often the barrier opened for each since the gateway started
  served,     \* commands the barrier was ever opened for
  shown       \* commands shown as executed

contract == <<requested, openings, served, shown>>

Init ==
  /\ requested = {}
  /\ openings = [c \in Commands |-> 0]
  /\ served = {}
  /\ shown = {}

Request(c) ==
  /\ requested' = requested \cup {c}
  /\ UNCHANGED <<openings, served, shown>>

Open(c) ==
  /\ c \in requested
  /\ openings[c] = 0
  /\ openings' = [openings EXCEPT ![c] = 1]
  /\ served' = served \cup {c}
  /\ UNCHANGED <<requested, shown>>

Show(c) ==
  /\ c \in served
  /\ shown' = shown \cup {c}
  /\ UNCHANGED <<requested, openings, served>>

\* A late answer may take the display back (GateCommands!writeAck).
Hide(c) ==
  /\ shown' = shown \ {c}
  /\ UNCHANGED <<requested, openings, served>>

GatewayStarts ==
  /\ openings' = [c \in Commands |-> 0]
  /\ UNCHANGED <<requested, served, shown>>

Next ==
  \/ GatewayStarts
  \/ \E c \in Commands : Request(c) \/ Open(c) \/ Show(c) \/ Hide(c)

Spec == Init /\ [][Next]_contract
=============================================================================
