------------------------------- MODULE MCGates -------------------------------
(***************************************************************************)
(* How a gate opens: in one scene the way of its command from the outbox to *)
(* the barrier, in the other the registry of gates and credentials.  They   *)
(* share no state.                                                          *)
(***************************************************************************)
EXTENDS MCGateOpening, GateRegistry

VARIABLE scene

MCInit == scene \in {"opening", "registry"} /\ Init /\ RegistryInit

MCNext ==
  /\ \/ scene = "opening" /\ Next /\ UNCHANGED registryVars
     \/ scene = "registry" /\ RegistryNext /\ UNCHANGED vars
  /\ UNCHANGED scene

MCSpec == MCInit /\ [][MCNext]_<<scene, vars, registryVars>>
==============================================================================
