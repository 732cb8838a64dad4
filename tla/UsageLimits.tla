------------------------------ MODULE UsageLimits ------------------------------
(***************************************************************************)
(* Plan limits of an organization: a request counts what the organization   *)
(* has and creates one more in a later statement.  Parking lots are the     *)
(* resource modelled, the only one that is also removed and updated; users  *)
(* and bookings go through the same check.                                  *)
(***************************************************************************)
EXTENDS Naturals, FiniteSets

CONSTANTS
  ParkingLots,    \* ids the database may hand out
  LotRequests,    \* requests in flight
  PlanLimit       \* PLAN_LIMITS of the organization's plan

ASSUME UsageAssumption ==
  /\ PlanLimit \in Nat
  /\ IsFiniteSet(ParkingLots) /\ IsFiniteSet(LotRequests)
  /\ LotRequests # {}

VARIABLES
  parkingLot,     \* "none" until created, then whether isActive
  lotRequest      \* what each request has read

usageVars == <<parkingLot, lotRequest>>

IdleLotRequest == [at |-> "idle"]

UsageTypeOK ==
  /\ parkingLot \in [ParkingLots -> {"none", "active", "inactive"}]
  /\ lotRequest \in [LotRequests -> {IdleLotRequest}
                       \cup [at : {"create"}, isActive : BOOLEAN]
                       \cup [at : {"update"}, lot : ParkingLots, isActive : BOOLEAN]]

UsageInit ==
  /\ parkingLot = [l \in ParkingLots |-> "none"]
  /\ lotRequest = [r \in LotRequests |-> IdleLotRequest]

\* getCurrentUsage.
ActiveLots == {l \in ParkingLots : parkingLot[l] = "active"}

\* Fault: the limit itself is taken for room.
checkLimitInclusive == Cardinality(ActiveLots) <= PlanLimit

checkLimit == Cardinality(ActiveLots) < PlanLimit

RowOf(isActive) == IF isActive THEN "active" ELSE "inactive"

\* create, up to the insert: the limit is checked whatever dto.isActive says.
createLot(r, isActive) ==
  /\ lotRequest[r].at = "idle"
  /\ checkLimit
  /\ lotRequest' = [lotRequest EXCEPT ![r] = [at |-> "create", isActive |-> isActive]]
  /\ UNCHANGED parkingLot

insertLot(r, l) ==
  /\ lotRequest[r].at = "create"
  /\ parkingLot[l] = "none"
  /\ parkingLot' = [parkingLot EXCEPT ![l] = RowOf(lotRequest[r].isActive)]
  /\ lotRequest' = [lotRequest EXCEPT ![r] = IdleLotRequest]

\* update and remove, up to the write: the lot has to be active when it is read.
\* An update that names isActive writes it; the others do not matter here.
findLot(r, l, isActive) ==
  /\ lotRequest[r].at = "idle"
  /\ parkingLot[l] = "active"
  /\ lotRequest' = [lotRequest EXCEPT ![r] = [at |-> "update", lot |-> l, isActive |-> isActive]]
  /\ UNCHANGED parkingLot

writeLot(r) ==
  /\ lotRequest[r].at = "update"
  /\ parkingLot' = [parkingLot EXCEPT ![lotRequest[r].lot] = RowOf(lotRequest[r].isActive)]
  /\ lotRequest' = [lotRequest EXCEPT ![r] = IdleLotRequest]

UsageNext ==
  \E r \in LotRequests :
    \/ \E isActive \in BOOLEAN : createLot(r, isActive)
    \/ \E l \in ParkingLots : insertLot(r, l)
    \/ \E l \in ParkingLots, isActive \in BOOLEAN : findLot(r, l, isActive)
    \/ writeLot(r)

UsageSpec == UsageInit /\ [][UsageNext]_usageVars

-----------------------------------------------------------------------------
(* Properties                                                              *)

\* The limit is not exact: requests that count at the same time all see room, and
\* an update may bring back a lot that was removed since it read it.  But the
\* excess is bounded by the number of requests in flight, however long they go
\* on; one request at a time keeps to the limit.
ExcessBounded == Cardinality(ActiveLots) <= PlanLimit + (Cardinality(LotRequests) - 1)

\* What the bound rests on: the lots that are active or may be made active again by
\* a request in flight, and the requests that are past the check.
Revivable ==
  {l \in ParkingLots : parkingLot[l] = "inactive" /\
     \E r \in LotRequests : lotRequest[r].at = "update" /\ lotRequest[r].lot = l /\ lotRequest[r].isActive}
Creating == {r \in LotRequests : lotRequest[r].at = "create"}

ExcessInv ==
  Cardinality(ActiveLots \cup Revivable) + Cardinality(Creating)
    <= PlanLimit + (Cardinality(LotRequests) - 1)
===============================================================================
