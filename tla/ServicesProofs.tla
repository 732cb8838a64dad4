---------------------------- MODULE ServicesProofs ----------------------------
(***************************************************************************)
(* What holds of the services that read a row, check it and write in a     *)
(* later statement, for any number of requests in flight: limits of a plan, *)
(* conversations, devices, accounts and payments; and of runs of agent      *)
(* tasks, the plans they follow and their working trees.                   *)
(***************************************************************************)
EXTENDS AgentRuns, RunPlanner, Worktrees, PaymentRecords, UsageLimits, Conversations, Devices, Accounts,
        FiniteSetTheorems, FunctionTheorems, TLAPS

-----------------------------------------------------------------------------
(* Usage limits                                                            *)

\* A request updates a lot that exists: lots are made inactive and not deleted.
UpdatesExist ==
  \A r \in LotRequests : lotRequest[r].at = "update" => parkingLot[lotRequest[r].lot] # "none"

UsageInv == UsageTypeOK /\ UpdatesExist /\ ExcessInv

Reach == ActiveLots \cup Revivable

\* Every step leaves lots and requests of their types.
LEMMA UsageTypeStep ==
  ASSUME UsageTypeOK, [UsageNext]_usageVars
  PROVE  UsageTypeOK'
<1>1. CASE UNCHANGED usageVars
  BY <1>1 DEF UsageTypeOK, usageVars
<1>2. ASSUME NEW r \in LotRequests, NEW isActive \in BOOLEAN, createLot(r, isActive)
      PROVE  UsageTypeOK'
  BY <1>2 DEF UsageTypeOK, createLot, IdleLotRequest
<1>3. ASSUME NEW r \in LotRequests, NEW l \in ParkingLots, insertLot(r, l)
      PROVE  UsageTypeOK'
  BY <1>3 DEF UsageTypeOK, insertLot, IdleLotRequest, RowOf
<1>4. ASSUME NEW r \in LotRequests, NEW l \in ParkingLots, NEW isActive \in BOOLEAN, findLot(r, l, isActive)
      PROVE  UsageTypeOK'
  BY <1>4 DEF UsageTypeOK, findLot, IdleLotRequest
<1>5. ASSUME NEW r \in LotRequests, writeLot(r)
      PROVE  UsageTypeOK'
  BY <1>5 DEF UsageTypeOK, writeLot, IdleLotRequest, RowOf
<1> QED BY <1>1, <1>2, <1>3, <1>4, <1>5 DEF UsageNext

\* The sets that are counted are finite.
LEMMA UsageFinite ==
  ASSUME UsageTypeOK
  PROVE  /\ IsFiniteSet(ActiveLots) /\ IsFiniteSet(Revivable) /\ IsFiniteSet(Reach) /\ IsFiniteSet(Creating)
         /\ Cardinality(ActiveLots) \in Nat /\ Cardinality(Revivable) \in Nat
         /\ Cardinality(Reach) \in Nat /\ Cardinality(Creating) \in Nat
         /\ Cardinality(LotRequests) \in Nat
<1>1. ActiveLots \subseteq ParkingLots /\ Revivable \subseteq ParkingLots /\ Creating \subseteq LotRequests
  BY DEF ActiveLots, Revivable, Creating
<1>2. Reach \subseteq ParkingLots
  BY <1>1 DEF Reach
<1>3. IsFiniteSet(ActiveLots) /\ IsFiniteSet(Revivable) /\ IsFiniteSet(Reach) /\ IsFiniteSet(Creating)
  BY <1>1, <1>2, FS_Subset, UsageAssumption
<1> QED BY <1>3, FS_CardinalityType, UsageAssumption

\* No more lots can be made active again than there are requests that update one:
\* each request names one lot.
LEMMA RevivableCovered ==
  ASSUME UsageTypeOK,
         NEW Updating, Updating = {r \in LotRequests : lotRequest[r].at = "update"}
  PROVE  IsFiniteSet(Updating) /\ Cardinality(Updating) \in Nat
           /\ Cardinality(Revivable) <= Cardinality(Updating)
<1> DEFINE Reviving == {r \in Updating : lotRequest[r].lot \in Revivable}
           lotOf == [r \in Reviving |-> lotRequest[r].lot]
<1>1. IsFiniteSet(Updating)
  BY FS_Subset, UsageAssumption
<1>2. IsFiniteSet(Reviving) /\ Cardinality(Reviving) <= Cardinality(Updating)
  BY <1>1, FS_Subset
<1>3. lotOf \in Surjection(Reviving, Revivable)
  <2>1. lotOf \in [Reviving -> Revivable]
    OBVIOUS
  <2>2. ASSUME NEW l \in Revivable PROVE \E r \in Reviving : lotOf[r] = l
    BY DEF Revivable
  <2> QED BY <2>1, <2>2 DEF Surjection
<1> HIDE DEF Reviving, lotOf
<1>4. Cardinality(Revivable) <= Cardinality(Reviving)
  BY <1>2, <1>3, FS_Surjection
<1>5. Cardinality(Updating) \in Nat /\ Cardinality(Reviving) \in Nat /\ Cardinality(Revivable) \in Nat
  BY <1>1, <1>2, FS_CardinalityType, UsageFinite
<1> QED BY <1>1, <1>2, <1>4, <1>5

\* With room under the limit and a request that is idle, one more creation is
\* within the bound: the idle request is none of those the excess is made of.
LEMMA RoomForOne ==
  ASSUME UsageTypeOK, NEW r \in LotRequests, lotRequest[r].at = "idle", checkLimit
  PROVE  Cardinality(Reach) + Cardinality(Creating) + 1 <= PlanLimit + (Cardinality(LotRequests) - 1)
<1> DEFINE Updating == {q \in LotRequests : lotRequest[q].at = "update"}
           Others == LotRequests \ {r}
<1>1. /\ IsFiniteSet(Updating) /\ Cardinality(Updating) \in Nat
      /\ Cardinality(Revivable) <= Cardinality(Updating)
  BY RevivableCovered
<1>2. Updating \cup Creating \subseteq Others /\ Updating \cap Creating = {}
  BY DEF Creating
<1> HIDE DEF Updating
<1>3. IsFiniteSet(Others) /\ Cardinality(Others) = Cardinality(LotRequests) - 1
  BY FS_RemoveElement, UsageAssumption
<1> HIDE DEF Others
<1>4. Cardinality(Updating \cup Creating) <= Cardinality(Others)
  BY <1>2, <1>3, FS_Subset
<1>5. Cardinality(Updating \cup Creating) = Cardinality(Updating) + Cardinality(Creating)
  <2>1. Cardinality(Updating \cup Creating)
          = Cardinality(Updating) + Cardinality(Creating) - Cardinality(Updating \cap Creating)
    BY <1>1, UsageFinite, FS_Union
  <2> QED BY <2>1, <1>1, <1>2, UsageFinite, FS_EmptySet
<1>6. Cardinality(Reach) <= Cardinality(ActiveLots) + Cardinality(Revivable)
  <2>1. Cardinality(Reach)
          = Cardinality(ActiveLots) + Cardinality(Revivable) - Cardinality(ActiveLots \cap Revivable)
    BY UsageFinite, FS_Union DEF Reach
  <2>2. ActiveLots \cap Revivable = {}
    BY DEF ActiveLots, Revivable
  <2>3. Cardinality(ActiveLots \cap Revivable) = 0
    BY <2>2, FS_EmptySet
  <2> QED BY <2>1, <2>3, UsageFinite
<1>7. Cardinality(ActiveLots) < PlanLimit /\ PlanLimit \in Nat
  BY UsageAssumption DEF checkLimit
<1> QED BY <1>1, <1>3, <1>4, <1>5, <1>6, <1>7, UsageFinite

\* One element adds at most one to what is counted.
LEMMA OneMore ==
  ASSUME NEW S, IsFiniteSet(S), NEW x
  PROVE  /\ IsFiniteSet(S \cup {x}) /\ Cardinality(S \cup {x}) \in Nat
         /\ Cardinality(S \cup {x}) <= Cardinality(S) + 1
<1>1. IsFiniteSet(S \cup {x}) /\ Cardinality(S) \in Nat
  BY FS_AddElement, FS_CardinalityType
<1>2. Cardinality(S \cup {x}) = Cardinality(S) \/ Cardinality(S \cup {x}) = Cardinality(S) + 1
  <2>1. Cardinality(S \cup {x}) = IF x \in S THEN Cardinality(S) ELSE Cardinality(S) + 1
    BY FS_AddElement
  <2> QED BY <2>1
<1> QED BY <1>1, <1>2

\* Every step keeps the bound on what is active, may be active again, or is about
\* to be created.
LEMMA ExcessStep ==
  ASSUME UsageInv, [UsageNext]_usageVars
  PROVE  UpdatesExist' /\ ExcessInv'
<1> USE DEF UsageInv
<1>0. UsageTypeOK'
  BY UsageTypeStep
<1>f. /\ IsFiniteSet(Reach) /\ IsFiniteSet(Creating)
      /\ Cardinality(Reach) \in Nat /\ Cardinality(Creating) \in Nat /\ Cardinality(LotRequests) \in Nat
  BY UsageFinite
<1>e. Cardinality(Reach) + Cardinality(Creating) <= PlanLimit + (Cardinality(LotRequests) - 1)
  BY DEF ExcessInv, Reach
<1>q. ASSUME Cardinality(Reach') + Cardinality(Creating') <= PlanLimit + (Cardinality(LotRequests) - 1)
      PROVE  ExcessInv'
  BY <1>q DEF ExcessInv, Reach
\* What leaves fewer of both keeps the bound.
<1>s. ASSUME Reach' \subseteq Reach, Creating' \subseteq Creating PROVE ExcessInv'
  <2>1. /\ IsFiniteSet(Reach') /\ Cardinality(Reach') <= Cardinality(Reach)
        /\ IsFiniteSet(Creating') /\ Cardinality(Creating') <= Cardinality(Creating)
    BY <1>s, <1>f, FS_Subset
  <2>2. Cardinality(Reach') \in Nat /\ Cardinality(Creating') \in Nat
    BY <2>1, FS_CardinalityType
  <2> QED BY <2>1, <2>2, <1>e, <1>f, <1>q, UsageAssumption
<1>1. CASE UNCHANGED usageVars
  <2>1. Reach' \subseteq Reach /\ Creating' \subseteq Creating /\ UpdatesExist'
    BY <1>1 DEF usageVars, Reach, ActiveLots, Revivable, Creating, UpdatesExist
  <2> QED BY <2>1, <1>s
<1>2. ASSUME NEW r \in LotRequests, NEW isActive \in BOOLEAN, createLot(r, isActive)
      PROVE  UpdatesExist' /\ ExcessInv'
  <2>1. UpdatesExist'
    BY <1>2 DEF createLot, UpdatesExist, UsageTypeOK
  <2>2. Reach' = Reach
    BY <1>2 DEF createLot, UsageTypeOK, Reach, ActiveLots, Revivable
  <2>3. Creating' = Creating \cup {r}
    BY <1>2 DEF createLot, UsageTypeOK, Creating
  <2>4. Cardinality(Creating') <= Cardinality(Creating) + 1 /\ Cardinality(Creating') \in Nat
    BY <2>3, <1>f, OneMore
  <2>5. Cardinality(Reach) + Cardinality(Creating) + 1 <= PlanLimit + (Cardinality(LotRequests) - 1)
    BY <1>2, RoomForOne DEF createLot
  <2> QED BY <2>1, <2>2, <2>4, <2>5, <1>f, <1>q, UsageAssumption
<1>3. ASSUME NEW r \in LotRequests, NEW l \in ParkingLots, insertLot(r, l)
      PROVE  UpdatesExist' /\ ExcessInv'
  <2>1. UpdatesExist'
    BY <1>3 DEF insertLot, UpdatesExist, UsageTypeOK, IdleLotRequest, RowOf
  <2>2. Reach' \subseteq Reach \cup {l}
    BY <1>3 DEF insertLot, UsageTypeOK, IdleLotRequest, Reach, ActiveLots, Revivable
  <2>3. r \in Creating /\ Creating' = Creating \ {r}
    BY <1>3 DEF insertLot, UsageTypeOK, IdleLotRequest, Creating
  <2>4. Cardinality(Creating') = Cardinality(Creating) - 1 /\ Cardinality(Creating') \in Nat
    BY <2>3, <1>f, FS_RemoveElement, FS_CardinalityType
  <2>5. Cardinality(Reach') <= Cardinality(Reach) + 1 /\ Cardinality(Reach') \in Nat
    <3>1. /\ IsFiniteSet(Reach \cup {l}) /\ Cardinality(Reach \cup {l}) <= Cardinality(Reach) + 1
          /\ Cardinality(Reach \cup {l}) \in Nat
      BY <1>f, OneMore
    <3>2. IsFiniteSet(Reach') /\ Cardinality(Reach') <= Cardinality(Reach \cup {l})
      BY <2>2, <3>1, FS_Subset
    <3> QED BY <3>1, <3>2, <1>f, FS_CardinalityType
  <2> QED BY <2>1, <2>4, <2>5, <1>e, <1>f, <1>q, UsageAssumption
<1>4. ASSUME NEW r \in LotRequests, NEW l \in ParkingLots, NEW isActive \in BOOLEAN, findLot(r, l, isActive)
      PROVE  UpdatesExist' /\ ExcessInv'
  <2>1. UpdatesExist'
    BY <1>4 DEF findLot, UpdatesExist, UsageTypeOK
  <2>2. Reach' \subseteq Reach
    BY <1>4 DEF findLot, UsageTypeOK, Reach, ActiveLots, Revivable
  <2>3. Creating' \subseteq Creating
    BY <1>4 DEF findLot, UsageTypeOK, Creating
  <2> QED BY <2>1, <2>2, <2>3, <1>s
<1>5. ASSUME NEW r \in LotRequests, writeLot(r)
      PROVE  UpdatesExist' /\ ExcessInv'
  <2>1. UpdatesExist'
    BY <1>5 DEF writeLot, UpdatesExist, UsageTypeOK, IdleLotRequest, RowOf
  <2>2. Creating' \subseteq Creating
    BY <1>5 DEF writeLot, UsageTypeOK, IdleLotRequest, Creating
  \* The lot that is written was active, or could be made active by this request.
  <2>3. ASSUME NEW l \in ActiveLots' PROVE l \in Reach
    <3>1. CASE l = lotRequest[r].lot
      BY <1>5, <2>3, <3>1 DEF writeLot, UsageTypeOK, IdleLotRequest, RowOf, UpdatesExist, Reach, ActiveLots, Revivable
    <3>2. CASE l # lotRequest[r].lot
      BY <1>5, <2>3, <3>2 DEF writeLot, UsageTypeOK, Reach, ActiveLots
    <3> QED BY <3>1, <3>2
  <2>4. ASSUME NEW l \in Revivable' PROVE l \in Reach
    <3>1. PICK q \in LotRequests : q # r /\ lotRequest[q].at = "update" /\ lotRequest[q].lot = l /\ lotRequest[q].isActive
      BY <1>5, <2>4 DEF writeLot, UsageTypeOK, IdleLotRequest, Revivable
    <3>2. l \in ParkingLots /\ parkingLot[l] \in {"active", "inactive"}
      BY <3>1, <2>4 DEF UsageTypeOK, UpdatesExist, Revivable
    <3> QED BY <3>1, <3>2 DEF Reach, ActiveLots, Revivable
  <2>5. Reach' \subseteq Reach
    BY <2>3, <2>4 DEF Reach
  <2> QED BY <2>1, <2>2, <2>5, <1>s
<1> QED BY <1>1, <1>2, <1>3, <1>4, <1>5 DEF UsageNext

\* Nothing is counted and nobody is past the check when the service starts.
LEMMA UsageInitInv == UsageInit => UsageInv
<1> SUFFICES ASSUME UsageInit PROVE UsageInv
  OBVIOUS
<1>1. UsageTypeOK
  BY DEF UsageInit, UsageTypeOK
<1>2. UpdatesExist
  BY DEF UsageInit, UpdatesExist, IdleLotRequest
<1>3. ActiveLots \cup Revivable = {} /\ Creating = {}
  BY DEF UsageInit, ActiveLots, Revivable, Creating, IdleLotRequest
<1>4. Cardinality(LotRequests) \in Nat /\ Cardinality(LotRequests) # 0
  BY UsageAssumption, FS_EmptySet, FS_CardinalityType
<1>5. ExcessInv
  BY <1>3, <1>4, FS_EmptySet, UsageAssumption DEF ExcessInv
<1> QED BY <1>1, <1>2, <1>5 DEF UsageInv

\* An organization has at most its limit of active parking lots and one more for
\* every request in flight but one (create, update, remove).
THEOREM LimitsHold == UsageSpec => []ExcessBounded
<1>1. UsageInv /\ [UsageNext]_usageVars => UsageInv'
  BY UsageTypeStep, ExcessStep DEF UsageInv
<1>2. UsageInv => ExcessBounded
  <2> SUFFICES ASSUME UsageInv PROVE ExcessBounded
    OBVIOUS
  <2>1. Cardinality(ActiveLots) <= Cardinality(Reach)
    <3>1. ActiveLots \subseteq Reach
      BY DEF Reach
    <3> QED BY <3>1, UsageFinite, FS_Subset DEF UsageInv
  <2> QED BY <2>1, UsageFinite, UsageAssumption DEF UsageInv, ExcessInv, ExcessBounded, Reach
<1> QED BY <1>1, <1>2, UsageInitInv, PTL DEF UsageSpec

-----------------------------------------------------------------------------
(* Devices                                                                 *)

\* What switching rests on: a device that was disabled is not enabled, so no new
\* heartbeat is taken; unless one was on its way there is none.
Quiet ==
  /\ switchedOff => ~ device.isEnabled
  /\ switchedOff /\ ~ beating =>
       device.status # "ONLINE" /\ \A r \in DeviceRequests : deviceRequest[r].at # "heartbeat"

\* What rotating rests on: a credential that is still to be written is new to the
\* row, to those it replaced and to those handed out, no two requests have the
\* same, and the one in the row was handed out or is about to be.
Rotating == {r \in DeviceRequests : deviceRequest[r].at \in {"rotate", "return"}}

Fresh ==
  /\ \A r \in Rotating : deviceRequest[r].credential \in drawn \ handedOut
  /\ \A r \in Rotating : deviceRequest[r].at = "rotate" =>
       deviceRequest[r].credential \notin retired \cup {device.credential}
  /\ \A r, q \in Rotating : r # q => deviceRequest[r].credential # deviceRequest[q].credential
  /\ device.credential \in drawn \cup {NoCredential}
  /\ device.credential \notin retired
  /\ \/ device.credential \in handedOut \cup {NoCredential}
     \/ \E r \in Rotating : deviceRequest[r].at = "return" /\ deviceRequest[r].credential = device.credential

DeviceInv == DeviceTypeOK /\ Quiet /\ Fresh

\* Nothing is drawn, replaced or on its way when the device is created.
LEMMA DeviceInitInv == DeviceInit => DeviceInv
<1> SUFFICES ASSUME DeviceInit PROVE DeviceInv
  OBVIOUS
<1>1. DeviceTypeOK
  <2>1. device \in Device
    BY DEF DeviceInit, Device
  <2>2. deviceRequest = [r \in DeviceRequests |-> IdleDeviceRequest]
    BY DEF DeviceInit
  <2> QED BY <2>1, <2>2 DEF DeviceInit, DeviceTypeOK
<1>2. Quiet
  BY DEF DeviceInit, Quiet, NoCredential
<1>3. Rotating = {} /\ device.credential = NoCredential
  BY DEF DeviceInit, Rotating, IdleDeviceRequest
<1>4. Fresh
  BY <1>3 DEF DeviceInit, Fresh
<1> QED BY <1>1, <1>2, <1>4 DEF DeviceInv

\* Reads start a request; none of them but a rotation draws a credential.
LEMMA DeviceReads ==
  ASSUME DeviceInv, NEW r \in DeviceRequests,
         NEW step \in {[at |-> "heartbeat"], [at |-> "disable"]}
                        \cup [at : {"update"}, isEnabled : BOOLEAN, read : Device],
         Begin(r, step), UNCHANGED drawn,
         step.at = "heartbeat" => device.isEnabled
  PROVE  DeviceInv'
<1> USE DEF DeviceInv
<1>1. DeviceTypeOK'
  BY DEF Begin, DeviceTypeOK, IdleDeviceRequest
<1>2. Quiet'
  BY DEF Begin, DeviceTypeOK, Quiet
<1>3. Rotating' = Rotating /\ \A q \in Rotating : deviceRequest'[q] = deviceRequest[q]
  BY DEF Begin, DeviceTypeOK, Rotating
<1>4. Fresh'
  BY <1>3 DEF Begin, Fresh
<1> QED BY <1>1, <1>2, <1>4

\* Heartbeats, switches and updates are written without the credential.
LEMMA DeviceWrites ==
  ASSUME DeviceInv, NEW r \in DeviceRequests, writeHeartbeat(r) \/ writeDisable(r) \/ writeUpdate(r)
  PROVE  DeviceInv'
<1> USE DEF DeviceInv
<1>1. PICK at0 \in {"heartbeat", "disable", "update"} : End(r, at0)
  BY DEF writeHeartbeat, writeDisable, writeUpdate
<1>2. /\ device' \in Device /\ device'.credential = device.credential
      /\ switchedOff' \in BOOLEAN /\ beating' \in BOOLEAN
      /\ UNCHANGED <<drawn, handedOut, retired>>
  <2>1. CASE writeHeartbeat(r)
    BY <2>1 DEF writeHeartbeat, DeviceTypeOK, Device
  <2>2. CASE writeDisable(r)
    BY <2>2 DEF writeDisable, DeviceTypeOK, Device
  <2>3. CASE writeUpdate(r)
    <3>1. deviceRequest[r] \in [at : {"update"}, isEnabled : BOOLEAN, read : Device]
      BY <2>3 DEF writeUpdate, End, DeviceTypeOK, IdleDeviceRequest
    <3>2. deviceRequest[r].isEnabled \in BOOLEAN
      BY <3>1
    <3>3. device \in Device /\ beating \in BOOLEAN
      BY DEF DeviceTypeOK
    <3> QED BY <2>3, <3>2, <3>3 DEF writeUpdate, Updated, Device
  <2> QED BY <2>1, <2>2, <2>3
<1>3. DeviceTypeOK'
  BY <1>1, <1>2 DEF End, DeviceTypeOK
<1>4. Quiet'
  <2>1. CASE writeHeartbeat(r)
    BY <2>1 DEF writeHeartbeat, End, DeviceTypeOK, Device, Quiet
  <2>2. CASE writeDisable(r)
    BY <2>2 DEF writeDisable, End, DeviceTypeOK, Device, Quiet, IdleDeviceRequest
  <2>3. CASE writeUpdate(r)
    BY <2>3 DEF writeUpdate, Quiet
  <2> QED BY <2>1, <2>2, <2>3
<1>5. Rotating' = Rotating /\ \A q \in Rotating : deviceRequest'[q] = deviceRequest[q]
  BY <1>1 DEF End, DeviceTypeOK, Rotating, IdleDeviceRequest
<1>6. Fresh'
  BY <1>2, <1>5 DEF Fresh
<1> QED BY <1>3, <1>4, <1>6

\* A rotation draws a credential nobody has seen.
LEMMA DeviceDraws ==
  ASSUME DeviceInv, NEW r \in DeviceRequests, NEW credential \in Credentials, rotateCredential(r, credential)
  PROVE  DeviceInv'
<1> USE DEF DeviceInv
<1>1. DeviceTypeOK'
  BY DEF rotateCredential, Begin, DeviceTypeOK
<1>2. Quiet'
  BY DEF rotateCredential, Begin, DeviceTypeOK, Quiet
<1>3. /\ Rotating' = Rotating \cup {r} /\ r \notin Rotating
      /\ deviceRequest'[r].credential = credential /\ deviceRequest'[r].at = "rotate"
      /\ \A q \in Rotating : deviceRequest'[q] = deviceRequest[q]
  BY DEF rotateCredential, Begin, DeviceTypeOK, Rotating
<1>4. /\ credential \notin drawn /\ drawn' = drawn \cup {credential}
      /\ UNCHANGED <<device, handedOut, retired>>
      /\ handedOut \subseteq drawn /\ retired \subseteq drawn
  BY DEF rotateCredential, Begin, DeviceTypeOK
<1>5. credential # NoCredential
  BY CredentialsAssumption DEF NoCredential
<1>6. Fresh'
  BY <1>3, <1>4, <1>5 DEF Fresh
<1> QED BY <1>1, <1>2, <1>6

\* Writing the new credential retires the one in the row.
LEMMA DeviceRotates ==
  ASSUME DeviceInv, NEW r \in DeviceRequests, writeCredential(r)
  PROVE  DeviceInv'
<1> USE DEF DeviceInv
<1> DEFINE c == deviceRequest[r].credential
<1>1. /\ r \in Rotating /\ c \in Credentials
      /\ deviceRequest'[r] = [at |-> "return", credential |-> c]
      /\ \A q \in DeviceRequests \ {r} : deviceRequest'[q] = deviceRequest[q]
      /\ Rotating' = Rotating
  BY DEF writeCredential, DeviceTypeOK, Rotating, IdleDeviceRequest
<1>2. /\ device' \in Device /\ device' = [device EXCEPT !.credential = c] /\ device'.credential = c
      /\ retired' = retired \cup ({device.credential} \ {NoCredential})
      /\ UNCHANGED <<drawn, handedOut, switchedOff, beating>>
  BY <1>1 DEF writeCredential, DeviceTypeOK, Device
<1>3. retired' \subseteq drawn
  BY <1>2 DEF Fresh, DeviceTypeOK
<1>4. DeviceTypeOK'
  BY <1>1, <1>2, <1>3 DEF writeCredential, DeviceTypeOK
<1>5. Quiet'
  BY <1>1, <1>2 DEF Quiet, DeviceTypeOK, Device
<1>6. Fresh'
  <2>1. deviceRequest'[r].credential = c /\ deviceRequest'[r].at = "return" /\ c \in drawn \ handedOut
    BY <1>1 DEF Fresh
  <2>2. c \notin retired' /\ device'.credential \notin retired'
    BY <1>1, <1>2 DEF writeCredential, Fresh
  <2>3. ASSUME NEW q \in Rotating, q # r
        PROVE  /\ deviceRequest'[q] = deviceRequest[q] /\ deviceRequest[q].credential # c
               /\ deviceRequest[q].credential \in drawn \ handedOut
               /\ deviceRequest[q].at = "rotate" => deviceRequest[q].credential \notin retired'
    BY <1>1, <1>2, <2>3 DEF Fresh, Rotating
  <2>4. \A p, q \in Rotating : p # q => deviceRequest[p].credential # deviceRequest[q].credential
    BY DEF Fresh
  <2>5. \A p, q \in Rotating : p # q => deviceRequest'[p].credential # deviceRequest'[q].credential
    BY <2>1, <2>3, <2>4
  <2> QED BY <1>1, <1>2, <2>1, <2>2, <2>3, <2>5 DEF Fresh
<1> QED BY <1>4, <1>5, <1>6

\* The administrator who rotated gets the credential he rotated to.
LEMMA DeviceReturns ==
  ASSUME DeviceInv, NEW r \in DeviceRequests, returnCredential(r)
  PROVE  DeviceInv'
<1> USE DEF DeviceInv
<1> DEFINE c == deviceRequest[r].credential
<1>1. /\ r \in Rotating /\ c \in Credentials
      /\ deviceRequest'[r] = IdleDeviceRequest
      /\ \A q \in DeviceRequests \ {r} : deviceRequest'[q] = deviceRequest[q]
      /\ Rotating' = Rotating \ {r}
  BY DEF returnCredential, End, DeviceTypeOK, Rotating, IdleDeviceRequest
<1>2. /\ handedOut' = handedOut \cup {c} /\ c \in drawn
      /\ UNCHANGED <<device, drawn, retired, switchedOff, beating>>
  BY <1>1 DEF returnCredential, Fresh
<1>3. DeviceTypeOK'
  BY <1>1, <1>2 DEF returnCredential, End, DeviceTypeOK
<1>4. Quiet'
  BY <1>1, <1>2 DEF Quiet, IdleDeviceRequest
<1>5. Fresh'
  <2>1. ASSUME NEW q \in Rotating'
        PROVE  /\ q \in Rotating /\ deviceRequest'[q] = deviceRequest[q]
               /\ deviceRequest[q].credential \in drawn \ handedOut'
               /\ deviceRequest[q].at = "rotate" =>
                    deviceRequest[q].credential \notin retired \cup {device.credential}
    BY <1>1, <1>2, <2>1 DEF Fresh, Rotating
  <2>2. \A p, q \in Rotating' : p # q => deviceRequest'[p].credential # deviceRequest'[q].credential
    <3>1. \A p, q \in Rotating : p # q => deviceRequest[p].credential # deviceRequest[q].credential
      BY DEF Fresh
    <3> QED BY <2>1, <3>1
  <2>3. \/ device.credential \in handedOut' \cup {NoCredential}
        \/ \E q \in Rotating' : deviceRequest'[q].at = "return" /\ deviceRequest'[q].credential = device.credential
    <3>1. CASE device.credential \in handedOut \cup {NoCredential}
      BY <3>1, <1>2
    <3>2. ASSUME NEW q \in Rotating, deviceRequest[q].at = "return", deviceRequest[q].credential = device.credential
          PROVE  device.credential \in handedOut' \/ (q \in Rotating' /\ deviceRequest'[q] = deviceRequest[q])
      BY <3>2, <1>1, <1>2 DEF Rotating
    <3> QED BY <3>1, <3>2 DEF Fresh
  <2> QED BY <1>2, <2>1, <2>2, <2>3 DEF Fresh
<1> QED BY <1>3, <1>4, <1>5

\* Heartbeats, switches, updates and rotations may overlap in any number: a device
\* that was disabled is not shown online, and a credential that was replaced stays
\* invalid (iot-devices.service.ts).
THEOREM DevicesStaySound == DeviceSpec => []DevicesSound
<1>1. DeviceInv /\ [DeviceNext]_deviceVars => DeviceInv'
  <2> SUFFICES ASSUME DeviceInv, [DeviceNext]_deviceVars PROVE DeviceInv'
    OBVIOUS
  <2>1. CASE UNCHANGED deviceVars
    BY <2>1 DEF deviceVars, DeviceInv, DeviceTypeOK, Quiet, Fresh, Rotating
  <2>2. ASSUME NEW r \in DeviceRequests, recordHeartbeat(r) PROVE DeviceInv'
    BY <2>2, DeviceReads DEF recordHeartbeat, heardFrom
  <2>3. ASSUME NEW r \in DeviceRequests, disable(r) PROVE DeviceInv'
    BY <2>3, DeviceReads DEF disable
  <2>4. ASSUME NEW r \in DeviceRequests, NEW isEnabled \in BOOLEAN, update(r, isEnabled) PROVE DeviceInv'
    BY <2>4, DeviceReads DEF update, DeviceInv, DeviceTypeOK
  <2> QED BY <2>1, <2>2, <2>3, <2>4, DeviceWrites, DeviceDraws, DeviceRotates, DeviceReturns DEF DeviceNext
<1>2. DeviceInv => DevicesSound
  <2> SUFFICES ASSUME DeviceInv PROVE DevicesSound
    OBVIOUS
  <2>1. DisabledNotOnline
    BY DEF DeviceInv, Quiet, DisabledNotOnline
  <2>2. RotatedOut
    BY DEF DeviceInv, Fresh, Rotating, RotatedOut
  <2> QED BY <2>1, <2>2 DEF DevicesSound
<1> QED BY <1>1, <1>2, DeviceInitInv, PTL DEF DeviceSpec

-----------------------------------------------------------------------------
(* Conversations                                                           *)

\* Who has a request on its way was let through, and conversations are not deleted.
Allowed(m) ==
  /\ m.at = "send" => canViewConversation(m.by, m.to)
  /\ m.at = "resolve" => Exists(m.to)

RequestsMay == \A r \in MessageRequests : Allowed(messageRequest[r])

\* Messages are late only once their conversation is resolved.
NotLateBefore == \A c \in ConversationIds : conversation[c].status # "RESOLVED" => lateMessages[c] = 0

ConversationInv == ConversationTypeOK /\ RequestsMay /\ CreatorWrote /\ NotLateBefore /\ LateMessagesBounded

\* The messages on their way to a conversation that is resolved, which the bound counts.
OnTheWay(c) ==
  {r \in MessageRequests : messageRequest[r].at = "send" /\ messageRequest[r].to = c
                             /\ conversation[c].status = "RESOLVED"}

\* A conversation without a row or with one: what its fields are.
LEMMA ConversationRow ==
  ASSUME ConversationTypeOK, NEW c \in ConversationIds
  PROVE  \/ conversation[c] \in Conversation /\ Exists(c)
         \/ conversation[c] = NoConversation /\ ~ Exists(c)
  BY DEF ConversationTypeOK, Exists, NoConversation, Conversation

\* A request on its way is about a conversation there is.
LEMMA RequestRow ==
  ASSUME ConversationTypeOK, NEW r \in MessageRequests, messageRequest[r].at # "idle"
  PROVE  /\ messageRequest[r].by \in People /\ messageRequest[r].to \in ConversationIds
         /\ messageRequest[r].at \in {"send", "resolve"}
  BY DEF ConversationTypeOK, IdleMessageRequest

\* The counted sets are finite and at most all requests.
LEMMA OnTheWayFinite ==
  /\ Cardinality(MessageRequests) \in Nat /\ Cardinality(MessageRequests) >= 1
  /\ \A c : IsFiniteSet(OnTheWay(c)) /\ Cardinality(OnTheWay(c)) \in Nat
<1>1. Cardinality(MessageRequests) \in Nat /\ Cardinality(MessageRequests) # 0
  BY ConversationAssumption, FS_CardinalityType, FS_EmptySet
<1>2. ASSUME NEW c PROVE IsFiniteSet(OnTheWay(c)) /\ Cardinality(OnTheWay(c)) \in Nat
  <2>1. OnTheWay(c) \subseteq MessageRequests
    BY DEF OnTheWay
  <2> QED BY <2>1, ConversationAssumption, FS_Subset, FS_CardinalityType
<1> QED BY <1>1, <1>2

\* A conversation that keeps its creator and type is read by the same people.
LEMMA SameReaders ==
  ASSUME NEW p, NEW c,
         Exists(c), Exists(c)',
         conversation'[c].createdBy = conversation[c].createdBy, conversation'[c].type = conversation[c].type
  PROVE  canViewConversation(p, c)' <=> canViewConversation(p, c)
  BY DEF canViewConversation, OrganizationOfConversation, Exists

\* What the bound needs of a conversation in a step that writes no message to it:
\* it was resolved before and nobody set out since, or it is not resolved.
LEMMA LateKept ==
  ASSUME ConversationInv, NEW c \in ConversationIds, lateMessages'[c] = lateMessages[c],
         \/ conversation'[c].status # "RESOLVED" /\ conversation[c].status # "RESOLVED"
         \/ OnTheWay(c)' \subseteq OnTheWay(c)
  PROVE  lateMessages'[c] + Cardinality(OnTheWay(c)') <= Cardinality(MessageRequests) - 1
<1>1. CASE conversation'[c].status # "RESOLVED" /\ conversation[c].status # "RESOLVED"
  <2>1. OnTheWay(c)' = {} /\ lateMessages[c] = 0
    BY <1>1 DEF OnTheWay, ConversationInv, NotLateBefore
  <2>2. Cardinality(OnTheWay(c)') = 0
    BY <2>1, FS_EmptySet
  <2> QED BY <2>1, <2>2, OnTheWayFinite
<1>2. CASE OnTheWay(c)' \subseteq OnTheWay(c)
  <2>1. Cardinality(OnTheWay(c)') <= Cardinality(OnTheWay(c)) /\ Cardinality(OnTheWay(c)') \in Nat
    BY <1>2, OnTheWayFinite, FS_Subset, FS_CardinalityType
  <2>2. lateMessages[c] + Cardinality(OnTheWay(c)) <= Cardinality(MessageRequests) - 1
    BY DEF ConversationInv, LateMessagesBounded, OnTheWay
  <2>3. lateMessages[c] \in Nat
    BY DEF ConversationInv, ConversationTypeOK
  <2> QED BY <2>1, <2>2, <2>3, OnTheWayFinite
<1> QED BY <1>1, <1>2

\* A new conversation has no requests on their way and one message, its creator's.
LEMMA ConversationCreated ==
  ASSUME ConversationInv, NEW p \in People, NEW c \in ConversationIds, NEW type \in ConversationTypes,
         createConversationWithMessage(p, c, type)
  PROVE  ConversationInv'
<1> USE DEF ConversationInv
<1>1. /\ conversation'[c] = [status |-> "OPEN", type |-> type, createdBy |-> p]
      /\ \A k \in ConversationIds \ {c} : conversation'[k] = conversation[k] /\ authors'[k] = authors[k]
      /\ authors'[c] = {p} /\ isUser(p) /\ ~ Exists(c)
      /\ UNCHANGED <<lateMessages, messageRequest>>
  BY DEF createConversationWithMessage, ConversationTypeOK
<1>2. ConversationTypeOK'
  BY <1>1 DEF createConversationWithMessage, ConversationTypeOK, Conversation
<1>3. \A q, k : k \in ConversationIds \ {c} => (canViewConversation(q, k)' <=> canViewConversation(q, k))
  BY <1>1 DEF canViewConversation, OrganizationOfConversation, Exists
<1>4. canViewConversation(p, c)' /\ Exists(c)'
  BY <1>1 DEF canViewConversation, OrganizationOfConversation, Exists, isUser, isSecurity, isTenantAdminRole
<1>5. ASSUME NEW r \in MessageRequests, messageRequest[r].at # "idle" PROVE messageRequest[r].to # c
  BY <1>1, <1>5, RequestRow DEF RequestsMay, Allowed, canViewConversation
<1>6. RequestsMay'
  <2> SUFFICES ASSUME NEW r \in MessageRequests, messageRequest[r].at # "idle"
               PROVE  /\ messageRequest[r].at = "send" =>
                           canViewConversation(messageRequest[r].by, messageRequest[r].to)'
                      /\ messageRequest[r].at = "resolve" => Exists(messageRequest[r].to)'
    BY <1>1 DEF RequestsMay, Allowed, canViewConversation, OrganizationOfConversation, Exists, IdleMessageRequest
  <2> QED BY <1>1, <1>3, <1>5, RequestRow DEF RequestsMay, Allowed, Exists
<1>7. CreatorWrote'
  <2> SUFFICES ASSUME NEW k \in ConversationIds, Exists(k)'
               PROVE  /\ conversation'[k].createdBy \in authors'[k]
                      /\ \A q \in authors'[k] : canViewConversation(q, k)'
    BY DEF CreatorWrote
  <2>1. CASE k = c
    BY <2>1, <1>1, <1>4
  <2>2. CASE k # c
    BY <2>2, <1>1, <1>3 DEF CreatorWrote, Exists
  <2> QED BY <2>1, <2>2
<1>8. NotLateBefore'
  BY <1>1 DEF NotLateBefore, Exists
<1>9. LateMessagesBounded'
  <2> SUFFICES ASSUME NEW k \in ConversationIds
               PROVE  lateMessages'[k] + Cardinality(OnTheWay(k)') <= Cardinality(MessageRequests) - 1
    BY DEF LateMessagesBounded, OnTheWay
  <2>1. lateMessages'[k] = lateMessages[k]
    BY <1>1
  <2>2. CASE k = c
    BY <2>1, <2>2, <1>1, LateKept, ConversationRow DEF NoConversation
  <2>3. CASE k # c
    <3>1. OnTheWay(k)' = OnTheWay(k)
      BY <2>3, <1>1 DEF OnTheWay
    <3> QED BY <2>1, <3>1, LateKept
  <2> QED BY <2>2, <2>3
<1> QED BY <1>2, <1>6, <1>7, <1>8, <1>9

\* Sending and resolving, up to the write: the request is let through and remembers
\* what it is about.  A message sets out only to a conversation that is not resolved.
LEMMA ConversationReads ==
  ASSUME ConversationInv,
         NEW r \in MessageRequests, NEW p \in People, NEW c \in ConversationIds,
         sendMessage(r, p, c) \/ resolveConversation(r, p, c)
  PROVE  ConversationInv'
<1> USE DEF ConversationInv
<1>1. PICK at0 \in {"send", "resolve"} :
        /\ messageRequest' = [messageRequest EXCEPT ![r] =
             [at |-> at0, by |-> p, to |-> c, read |-> conversation[c]]]
        /\ at0 = "send" => conversation[c].status # "RESOLVED"
        /\ canViewConversation(p, c)
        /\ UNCHANGED <<conversation, authors, lateMessages>>
  BY DEF sendMessage, resolveConversation, assertConversationOpen
<1>2. /\ messageRequest'[r] = [at |-> at0, by |-> p, to |-> c, read |-> conversation[c]]
      /\ \A q \in MessageRequests \ {r} : messageRequest'[q] = messageRequest[q]
      /\ conversation[c] \in Conversation
  BY <1>1, ConversationRow DEF ConversationTypeOK, canViewConversation
<1>3. ConversationTypeOK'
  <2>1. messageRequest'[r] \in
          [at : {"send", "resolve"}, by : People, to : ConversationIds, read : Conversation]
    BY <1>2
  <2> QED BY <1>1, <2>1 DEF ConversationTypeOK
<1>4. \A q, k : (canViewConversation(q, k)' <=> canViewConversation(q, k)) /\ (Exists(k)' <=> Exists(k))
  BY <1>1 DEF canViewConversation, OrganizationOfConversation, Exists
<1>5. RequestsMay'
  <2>1. Exists(c)
    BY <1>1 DEF canViewConversation
  <2> SUFFICES ASSUME NEW q \in MessageRequests, NEW m, m = messageRequest'[q]
               PROVE  Allowed(m)'
    BY DEF RequestsMay, Allowed, canViewConversation, OrganizationOfConversation, Exists
  <2>2. CASE q = r
    BY <2>1, <2>2, <1>1, <1>2, <1>4 DEF Allowed
  <2>3. CASE q # r
    BY <2>3, <1>2, <1>4 DEF RequestsMay, Allowed
  <2> QED BY <2>2, <2>3
<1>6. CreatorWrote'
  BY <1>1, <1>4 DEF CreatorWrote
<1>7. NotLateBefore'
  BY <1>1 DEF NotLateBefore
<1>8. LateMessagesBounded'
  <2> SUFFICES ASSUME NEW k \in ConversationIds
               PROVE  lateMessages'[k] + Cardinality(OnTheWay(k)') <= Cardinality(MessageRequests) - 1
    BY DEF LateMessagesBounded, OnTheWay
  <2>1. OnTheWay(k)' \subseteq OnTheWay(k)
    BY <1>1, <1>2 DEF OnTheWay
  <2> QED BY <1>1, <2>1, LateKept
<1> QED BY <1>3, <1>5, <1>6, <1>7, <1>8

\* A message is stored, late or not: one that was on its way is not any more.
LEMMA MessageStored ==
  ASSUME ConversationInv, NEW r \in MessageRequests, storeMessage(r)
  PROVE  ConversationInv'
<1> USE DEF ConversationInv
<1>1. PICK c \in ConversationIds, p \in People : c = messageRequest[r].to /\ p = messageRequest[r].by
  BY RequestRow DEF storeMessage
<1>2. /\ messageRequest[r].at = "send" /\ canViewConversation(p, c) /\ Exists(c)
      /\ messageRequest'[r] = IdleMessageRequest
      /\ \A q \in MessageRequests \ {r} : messageRequest'[q] = messageRequest[q]
      /\ authors'[c] = authors[c] \cup {p}
      /\ \A k \in ConversationIds \ {c} : authors'[k] = authors[k] /\ lateMessages'[k] = lateMessages[k]
      /\ conversation' = conversation
  BY <1>1 DEF storeMessage, ConversationTypeOK, RequestsMay, Allowed, canViewConversation
<1>3. \/ /\ conversation[c].status # "RESOLVED" /\ lateMessages'[c] = lateMessages[c]
      \/ /\ conversation[c].status = "RESOLVED"
         /\ lateMessages[c] < MaxLate /\ lateMessages'[c] = lateMessages[c] + 1
  BY <1>1 DEF storeMessage, ConversationTypeOK
<1>4. ConversationTypeOK'
  <2>1. lateMessages[c] \in 0 .. MaxLate /\ MaxLate \in Nat
    BY ConversationAssumption DEF ConversationTypeOK
  <2>2. lateMessages'[c] \in 0 .. MaxLate
    BY <2>1, <1>3
  <2>3. lateMessages' \in [ConversationIds -> 0 .. MaxLate]
    <3>1. lateMessages' = lateMessages \/ lateMessages' = [lateMessages EXCEPT ![c] = @ + 1]
      BY <1>1 DEF storeMessage
    <3> QED BY <3>1, <2>2 DEF ConversationTypeOK
  <2>4. authors' \in [ConversationIds -> SUBSET People]
    BY <1>1 DEF storeMessage, ConversationTypeOK
  <2>5. messageRequest' = [messageRequest EXCEPT ![r] = IdleMessageRequest]
    BY DEF storeMessage
  <2> QED BY <1>2, <2>3, <2>4, <2>5 DEF ConversationTypeOK
<1>5. \A q, k : (canViewConversation(q, k)' <=> canViewConversation(q, k)) /\ (Exists(k)' <=> Exists(k))
  BY <1>2 DEF canViewConversation, OrganizationOfConversation, Exists
<1>6. RequestsMay'
  <2> SUFFICES ASSUME NEW q \in MessageRequests, NEW m, m = messageRequest'[q]
               PROVE  Allowed(m)'
    BY DEF RequestsMay, Allowed, canViewConversation, OrganizationOfConversation, Exists
  <2>1. CASE q = r
    BY <2>1, <1>2 DEF IdleMessageRequest, Allowed
  <2>2. CASE q # r
    BY <2>2, <1>2, <1>5 DEF RequestsMay, Allowed
  <2> QED BY <2>1, <2>2
<1>7. CreatorWrote'
  <2> SUFFICES ASSUME NEW k \in ConversationIds, Exists(k)'
               PROVE  /\ conversation'[k].createdBy \in authors'[k]
                      /\ \A q \in authors'[k] : canViewConversation(q, k)'
    BY DEF CreatorWrote
  <2> QED BY <1>2, <1>5 DEF CreatorWrote
<1>8. NotLateBefore'
  BY <1>2, <1>3 DEF NotLateBefore
<1>9. LateMessagesBounded'
  <2> SUFFICES ASSUME NEW k \in ConversationIds
               PROVE  lateMessages'[k] + Cardinality(OnTheWay(k)') <= Cardinality(MessageRequests) - 1
    BY DEF LateMessagesBounded, OnTheWay
  <2>1. OnTheWay(k)' = OnTheWay(k) \ {r}
    BY <1>2 DEF OnTheWay, IdleMessageRequest
  <2>2. CASE lateMessages'[k] = lateMessages[k]
    BY <2>1, <2>2, LateKept
  <2>3. CASE lateMessages'[k] # lateMessages[k]
    <3>1. k = c /\ lateMessages'[k] = lateMessages[k] + 1 /\ r \in OnTheWay(k)
      BY <2>3, <1>1, <1>2, <1>3 DEF OnTheWay
    <3>2. Cardinality(OnTheWay(k)') = Cardinality(OnTheWay(k)) - 1
      BY <2>1, <3>1, OnTheWayFinite, FS_RemoveElement
    <3>3. lateMessages[k] + Cardinality(OnTheWay(k)) <= Cardinality(MessageRequests) - 1
      BY DEF LateMessagesBounded, OnTheWay
    <3>4. lateMessages[k] \in Nat
      BY DEF ConversationTypeOK
    <3> QED BY <3>1, <3>2, <3>3, <3>4, OnTheWayFinite
  <2> QED BY <2>2, <2>3
<1> QED BY <1>4, <1>6, <1>7, <1>8, <1>9

\* A resolution is stored: it is none of the requests that may still bring a message.
LEMMA ResolutionStored ==
  ASSUME ConversationInv, NEW r \in MessageRequests, storeResolution(r)
  PROVE  ConversationInv'
<1> USE DEF ConversationInv
<1>1. PICK c \in ConversationIds : c = messageRequest[r].to
  BY RequestRow DEF storeResolution
<1>2. /\ messageRequest[r].at = "resolve" /\ Exists(c) /\ conversation[c] \in Conversation
      /\ messageRequest' = [messageRequest EXCEPT ![r] = IdleMessageRequest]
      /\ messageRequest'[r] = IdleMessageRequest
      /\ \A q \in MessageRequests \ {r} : messageRequest'[q] = messageRequest[q]
      /\ UNCHANGED <<authors, lateMessages>>
  BY <1>1, ConversationRow DEF storeResolution, ConversationTypeOK, RequestsMay, Allowed
<1>3. /\ conversation' = [conversation EXCEPT ![c].status = "RESOLVED"]
      /\ conversation'[c] = [conversation[c] EXCEPT !.status = "RESOLVED"]
      /\ conversation'[c] \in Conversation /\ conversation'[c].status = "RESOLVED"
      /\ conversation'[c].createdBy = conversation[c].createdBy
      /\ conversation'[c].type = conversation[c].type
      /\ \A k \in ConversationIds \ {c} : conversation'[k] = conversation[k]
  BY <1>1, <1>2 DEF storeResolution, ConversationTypeOK, Conversation
<1>4. ConversationTypeOK'
  BY <1>2, <1>3 DEF ConversationTypeOK
<1>5. \A k \in ConversationIds : Exists(k)' <=> Exists(k)
  BY <1>2, <1>3 DEF Exists
<1>6. \A q : \A k \in ConversationIds : canViewConversation(q, k)' <=> canViewConversation(q, k)
  BY <1>2, <1>3, <1>5 DEF canViewConversation, OrganizationOfConversation, Exists
<1>7. RequestsMay'
  <2> SUFFICES ASSUME NEW q \in MessageRequests, NEW m, m = messageRequest'[q]
               PROVE  Allowed(m)'
    BY DEF RequestsMay, Allowed, canViewConversation, OrganizationOfConversation, Exists
  <2>1. CASE q = r
    BY <2>1, <1>2 DEF IdleMessageRequest, Allowed
  <2>2. CASE q # r
    BY <2>2, <1>2, <1>5, <1>6, RequestRow DEF RequestsMay, Allowed
  <2> QED BY <2>1, <2>2
<1>8. CreatorWrote'
  <2> SUFFICES ASSUME NEW k \in ConversationIds, Exists(k)'
               PROVE  /\ conversation'[k].createdBy \in authors'[k]
                      /\ \A q \in authors'[k] : canViewConversation(q, k)'
    BY DEF CreatorWrote
  <2>1. conversation'[k].createdBy = conversation[k].createdBy
    BY <1>3
  <2> QED BY <2>1, <1>2, <1>5, <1>6 DEF CreatorWrote
<1>9. NotLateBefore'
  BY <1>2, <1>3 DEF NotLateBefore
<1>10. LateMessagesBounded'
  <2> SUFFICES ASSUME NEW k \in ConversationIds
               PROVE  lateMessages'[k] + Cardinality(OnTheWay(k)') <= Cardinality(MessageRequests) - 1
    BY DEF LateMessagesBounded, OnTheWay
  <2>1. lateMessages'[k] = lateMessages[k]
    BY <1>2
  <2>2. CASE k # c \/ conversation[c].status = "RESOLVED"
    <3>1. OnTheWay(k)' \subseteq OnTheWay(k)
      BY <2>2, <1>2, <1>3 DEF OnTheWay, IdleMessageRequest
    <3> QED BY <2>1, <3>1, LateKept
  <2>3. CASE k = c /\ conversation[c].status # "RESOLVED"
    <3>1. OnTheWay(k)' \subseteq MessageRequests \ {r}
      BY <1>2 DEF OnTheWay, IdleMessageRequest
    <3>2. /\ IsFiniteSet(MessageRequests \ {r})
          /\ Cardinality(MessageRequests \ {r}) = Cardinality(MessageRequests) - 1
      BY FS_RemoveElement, ConversationAssumption
    <3>3. Cardinality(OnTheWay(k)') <= Cardinality(MessageRequests \ {r}) /\ Cardinality(OnTheWay(k)') \in Nat
      BY <3>1, <3>2, FS_Subset, FS_CardinalityType
    <3>4. lateMessages'[k] = 0
      BY <2>1, <2>3 DEF NotLateBefore
    <3> QED BY <3>2, <3>3, <3>4, OnTheWayFinite
  <2> QED BY <2>2, <2>3
<1> QED BY <1>4, <1>7, <1>8, <1>9, <1>10

\* There are no conversations to begin with.
LEMMA ConversationInitInv == ConversationInit => ConversationInv
<1> SUFFICES ASSUME ConversationInit PROVE ConversationInv
  OBVIOUS
<1>1. \A c \in ConversationIds : ~ Exists(c) /\ conversation[c].status = "none" /\ lateMessages[c] = 0
  BY DEF ConversationInit, Exists, NoConversation
<1>2. \A r \in MessageRequests : messageRequest[r].at = "idle"
  BY DEF ConversationInit, IdleMessageRequest
<1>3. ConversationTypeOK
  BY ConversationAssumption DEF ConversationInit, ConversationTypeOK
<1>4. RequestsMay /\ CreatorWrote /\ NotLateBefore
  BY <1>1, <1>2 DEF RequestsMay, Allowed, CreatorWrote, NotLateBefore
<1>5. \A c \in ConversationIds : OnTheWay(c) = {}
  BY <1>2 DEF OnTheWay
<1>6. \A c \in ConversationIds : Cardinality(OnTheWay(c)) = 0
  BY <1>5, FS_EmptySet
<1>7. \A c \in ConversationIds : lateMessages[c] + Cardinality(OnTheWay(c)) <= Cardinality(MessageRequests) - 1
  BY <1>1, <1>6, OnTheWayFinite
<1>8. LateMessagesBounded
  BY <1>7 DEF LateMessagesBounded, OnTheWay
<1> QED BY <1>3, <1>4, <1>8 DEF ConversationInv

\* Whatever requests overlap, the rows keep together.
LEMMA ConversationAlways == ConversationSpec => []ConversationInv
<1>1. ConversationInv /\ [ConversationNext]_conversationVars => ConversationInv'
  <2> SUFFICES ASSUME ConversationInv, [ConversationNext]_conversationVars PROVE ConversationInv'
    OBVIOUS
  <2>1. CASE UNCHANGED conversationVars
    BY <2>1 DEF conversationVars, ConversationInv, ConversationTypeOK, RequestsMay, Allowed, CreatorWrote,
       NotLateBefore, LateMessagesBounded, canViewConversation, OrganizationOfConversation, Exists
  <2>2. CASE ConversationNext
    BY <2>2, ConversationCreated, ConversationReads, MessageStored, ResolutionStored DEF ConversationNext
  <2> QED BY <2>1, <2>2
<1> QED BY <1>1, ConversationInitInv, PTL DEF ConversationSpec

\* Late messages stay within the requests on their way, a person finds in the list
\* what he can open, and nobody is shut out of what he wrote in.
THEOREM ConversationsStaySound == ConversationSpec => []ConversationsSound
<1>1. ConversationInv => ConversationsSound
  <2> SUFFICES ASSUME ConversationInv PROVE ConversationsSound
    OBVIOUS
  <2>1. ASSUME NEW p \in People, NEW c \in ConversationIds
        PROVE  c \in buildListWhere(p) <=> canViewConversation(p, c)
    BY DEF buildListWhere, canViewConversation, isUser, isSecurity, isTenantAdminRole
  <2>2. ListShowsWhatOpens
    BY <2>1 DEF ListShowsWhatOpens, buildListWhere
  <2> QED BY <2>2 DEF ConversationInv, ConversationsSound
<1> QED BY <1>1, ConversationAlways, PTL

\* No message that was on its way brings a resolved conversation back (sendMessage).
THEOREM ResolvedStaysResolved == ConversationSpec => ResolvedForGood
<1>1. ASSUME ConversationInv, [ConversationNext]_conversationVars
      PROVE  [\A c \in ConversationIds :
                conversation[c].status = "RESOLVED" => conversation'[c].status = "RESOLVED"]_conversationVars
  <2> SUFFICES ASSUME ConversationNext, NEW c \in ConversationIds, conversation[c].status = "RESOLVED"
               PROVE  conversation'[c].status = "RESOLVED"
    BY <1>1
  <2>1. conversation[c] \in Conversation
    BY <1>1 DEF ConversationInv, ConversationTypeOK, NoConversation
  <2>2. ASSUME NEW p \in People, NEW k \in ConversationIds, NEW type \in ConversationTypes,
               createConversationWithMessage(p, k, type)
        PROVE  conversation'[c].status = "RESOLVED"
    BY <2>2, <1>1 DEF createConversationWithMessage, Exists, ConversationInv, ConversationTypeOK
  <2>3. ASSUME NEW r \in MessageRequests, storeResolution(r)
        PROVE  conversation'[c].status = "RESOLVED"
    BY <2>1, <2>3, <1>1 DEF storeResolution, ConversationInv, ConversationTypeOK, Conversation
  <2> QED BY <2>2, <2>3 DEF ConversationNext, sendMessage, resolveConversation, storeMessage
<1> QED BY <1>1, ConversationAlways, PTL DEF ConversationSpec, ResolvedForGood

-----------------------------------------------------------------------------
(* Accounts                                                                *)

\* An organization has the administrator it came with; without it there are no accounts.
AdministratorOf(o) == {e \in Emails : role[<<o, e>>] = "TENANT_ADMIN"}

OneAdministrator ==
  \A o \in Organizations :
    /\ o \in organization => \E e \in Emails : AdministratorOf(o) = {e}
    /\ o \notin organization => \A e \in Emails : role[<<o, e>>] = "none"

\* Who signs up with an email looked for it before anyone had an account with it.
SigningUp(e) ==
  {r \in AccountRequests : accountRequest[r].at \in {"slug", "signUp"} /\ accountRequest[r].email = e}

SignedUp ==
  \A e \in Emails :
    /\ signUps[e] > 0 => \E o \in Organizations : role[<<o, e>>] # "none"
    /\ signUps[e] + Cardinality(SigningUp(e)) <= Cardinality(AccountRequests)

\* A token is stored for one account, once.
TokensApart ==
  /\ \A a \in Rows : resetToken[a] \in {NoToken, lastToken[a]} /\ lastToken[a] \in issued \cup {NoToken}
  /\ \A a, b \in Rows : lastToken[a] = lastToken[b] /\ lastToken[a] # NoToken => a = b

\* A token that is still to be stored is seen nowhere else.
Unseen(k) ==
  /\ k \in issued /\ uses[k] = 0
  /\ \A a \in Rows : lastToken[a] # k
  /\ \A r \in AccountRequests : accountRequest[r].at = "reset" => accountRequest[r].token # k

ForgottenUnseen ==
  /\ \A r \in AccountRequests : accountRequest[r].at = "forgot" => Unseen(accountRequest[r].token)
  /\ \A r, q \in AccountRequests :
       accountRequest[r].at = "forgot" /\ accountRequest[q].at = "forgot" /\ r # q =>
         accountRequest[r].token # accountRequest[q].token

\* A reset on its way holds the token last stored for its account, unless another
\* was stored since, and no other account's.
ResetsHold ==
  \A r \in AccountRequests : accountRequest[r].at = "reset" =>
    /\ accountRequest[r].row \notin overlapped => accountRequest[r].token = lastToken[accountRequest[r].row]
    /\ \A a \in Rows : lastToken[a] = accountRequest[r].token => a = accountRequest[r].row
    /\ accountRequest[r].token \in issued

\* A token that was used is gone from the rows, and those who may still use it held
\* it before that.
Resetting(k) == {r \in AccountRequests : accountRequest[r].at = "reset" /\ accountRequest[r].token = k}

UsedUp ==
  \A k \in Tokens :
    /\ uses[k] > 0 => k \in issued /\ \A a \in Rows : resetToken[a] # k
    /\ uses[k] + Cardinality(Resetting(k)) <= Cardinality(AccountRequests)

LinkInv == TokensApart /\ ForgottenUnseen /\ ResetsHold /\ UsedUp /\ LastLinkStands

AccountInv == AccountTypeOK /\ OneAdministrator /\ SignedUp /\ LinkInv

\* A request at a place has the fields of that place.
LEMMA AccountRequestShape ==
  ASSUME AccountTypeOK, NEW r \in AccountRequests
  PROVE  /\ accountRequest[r].at \in {"idle", "slug", "signUp", "forgot", "reset"}
         /\ accountRequest[r].at \in {"slug", "signUp"} => accountRequest[r].email \in Emails
         /\ accountRequest[r].at = "signUp" => accountRequest[r].slug \in Organizations
         /\ accountRequest[r].at \in {"forgot", "reset"} =>
              accountRequest[r].row \in Rows /\ accountRequest[r].token \in Tokens
  BY DEF AccountTypeOK, IdleAccountRequest

\* The requests that are counted are some of all requests.
LEMMA AccountsFinite ==
  /\ Cardinality(AccountRequests) \in Nat
  /\ \A S \in SUBSET AccountRequests :
       IsFiniteSet(S) /\ Cardinality(S) \in Nat /\ Cardinality(S) <= Cardinality(AccountRequests)
  BY RequestsAssumption, FS_Subset, FS_CardinalityType

\* Fewer requests that are counted are no more in number.
LEMMA FewerRequests ==
  ASSUME NEW S \in SUBSET AccountRequests, NEW T \in SUBSET S
  PROVE  Cardinality(T) <= Cardinality(S) /\ Cardinality(T) \in Nat /\ Cardinality(S) \in Nat
<1>1. IsFiniteSet(S)
  BY AccountsFinite
<1> QED BY <1>1, FS_Subset, FS_CardinalityType

\* Signing up and administration leave the links alone: requests for a link stay as
\* they are, or end.
LEMMA LinksKept ==
  ASSUME AccountInv, UNCHANGED resetVars,
         \A r \in AccountRequests :
           accountRequest'[r].at \in {"forgot", "reset"} => accountRequest'[r] = accountRequest[r]
  PROVE  LinkInv'
<1> USE DEF AccountInv, LinkInv
<1>1. UNCHANGED <<resetToken, expired, issued, lastToken, uses, overlapped>>
  BY DEF resetVars
<1>2. TokensApart' /\ LastLinkStands'
  BY <1>1 DEF TokensApart, LastLinkStands
<1>3. ForgottenUnseen'
  BY <1>1 DEF ForgottenUnseen, Unseen
<1>4. ResetsHold'
  BY <1>1 DEF ResetsHold
<1>5. UsedUp'
  <2> SUFFICES ASSUME NEW k \in Tokens
               PROVE  /\ uses[k] > 0 => k \in issued /\ \A a \in Rows : resetToken[a] # k
                      /\ uses[k] + Cardinality(Resetting(k)') <= Cardinality(AccountRequests)
    BY <1>1 DEF UsedUp, Resetting
  <2>1. Resetting(k)' \subseteq Resetting(k) /\ Resetting(k) \subseteq AccountRequests
    BY DEF Resetting
  <2>2. /\ uses[k] > 0 => k \in issued /\ \A a \in Rows : resetToken[a] # k
        /\ uses[k] + Cardinality(Resetting(k)) <= Cardinality(AccountRequests)
    BY DEF UsedUp
  <2>3. uses[k] \in Nat
    BY DEF AccountTypeOK
  <2>4. /\ Cardinality(Resetting(k)') <= Cardinality(Resetting(k))
        /\ Cardinality(Resetting(k)') \in Nat /\ Cardinality(Resetting(k)) \in Nat
    BY <2>1, FewerRequests
  <2> QED BY <2>2, <2>3, <2>4, AccountsFinite
<1> QED BY <1>2, <1>3, <1>4, <1>5

\* Links leave signing up alone in the same way.
LEMMA SignUpsKept ==
  ASSUME AccountInv, UNCHANGED <<organization, role, signUps>>,
         \A r \in AccountRequests :
           accountRequest'[r].at \in {"slug", "signUp"} => accountRequest'[r] = accountRequest[r]
  PROVE  OneAdministrator' /\ SignedUp'
<1> USE DEF AccountInv
<1>1. OneAdministrator'
  BY DEF OneAdministrator, AdministratorOf
<1>2. SignedUp'
  <2> SUFFICES ASSUME NEW e \in Emails
               PROVE  /\ signUps[e] > 0 => \E o \in Organizations : role[<<o, e>>] # "none"
                      /\ signUps[e] + Cardinality(SigningUp(e)') <= Cardinality(AccountRequests)
    BY DEF SignedUp, SigningUp
  <2>1. SigningUp(e)' \subseteq SigningUp(e) /\ SigningUp(e) \subseteq AccountRequests
    BY DEF SigningUp
  <2>2. /\ signUps[e] > 0 => \E o \in Organizations : role[<<o, e>>] # "none"
        /\ signUps[e] + Cardinality(SigningUp(e)) <= Cardinality(AccountRequests)
    BY DEF SignedUp
  <2>3. signUps[e] \in Nat
    BY DEF AccountTypeOK
  <2>4. /\ Cardinality(SigningUp(e)') <= Cardinality(SigningUp(e))
        /\ Cardinality(SigningUp(e)') \in Nat /\ Cardinality(SigningUp(e)) \in Nat
    BY <2>1, FewerRequests
  <2> QED BY <2>2, <2>3, <2>4, AccountsFinite
<1> QED BY <1>1, <1>2

\* A new organization comes with one administrator; no other account changes.
LEMMA OrganizationCreated ==
  ASSUME AccountInv, NEW o \in Organizations \ organization, NEW email \in Emails,
         CreateOrganization(o, email)
  PROVE  /\ organization' \subseteq Organizations
         /\ role' \in [Rows -> {"none", "TENANT_ADMIN", "ADMIN", "USER"}]
         /\ OneAdministrator'
         /\ role'[<<o, email>>] # "none"
         /\ \A a \in Rows : role[a] # "none" => role'[a] # "none"
<1> USE DEF AccountInv
<1>1. /\ role \in [Rows -> {"none", "TENANT_ADMIN", "ADMIN", "USER"}] /\ organization \subseteq Organizations
      /\ \A p \in Organizations, e \in Emails : <<p, e>> \in Rows
  BY DEF AccountTypeOK, Rows
<1>2. /\ role'[<<o, email>>] = "TENANT_ADMIN"
      /\ \A a \in Rows : a # <<o, email>> => role'[a] = role[a]
      /\ role' \in [Rows -> {"none", "TENANT_ADMIN", "ADMIN", "USER"}]
      /\ organization' = organization \cup {o}
  BY <1>1 DEF CreateOrganization
<1>3. ASSUME NEW p \in Organizations, p # o
      PROVE  \A e \in Emails : role'[<<p, e>>] = role[<<p, e>>]
  BY <1>1, <1>2, <1>3
<1>4. \A e \in Emails : e # email => role'[<<o, e>>] = "none"
  BY <1>1, <1>2 DEF OneAdministrator
<1>5. AdministratorOf(o)' = {email}
  BY <1>2, <1>4 DEF AdministratorOf
<1>6. ASSUME NEW p \in Organizations, p # o
      PROVE  AdministratorOf(p)' = AdministratorOf(p)
  BY <1>3, <1>6 DEF AdministratorOf
<1>7. OneAdministrator'
  <2> SUFFICES ASSUME NEW p \in Organizations
               PROVE  /\ p \in organization' => \E e \in Emails : AdministratorOf(p)' = {e}
                      /\ p \notin organization' => \A e \in Emails : role'[<<p, e>>] = "none"
    BY DEF OneAdministrator, AdministratorOf
  <2>1. CASE p = o
    BY <2>1, <1>2, <1>5
  <2>2. CASE p # o
    BY <2>2, <1>2, <1>3, <1>6 DEF OneAdministrator
  <2> QED BY <2>1, <2>2
<1>8. \A a \in Rows : role[a] # "none" => role'[a] # "none"
  BY <1>2
<1> QED BY <1>1, <1>2, <1>7, <1>8

\* Onboarding puts the administrator in a new organization, whoever has that email.
LEMMA AccountOnboarded ==
  ASSUME AccountInv, NEW o \in Organizations, NEW email \in SignUpEmails, onboard(o, email)
  PROVE  AccountInv'
<1> USE DEF AccountInv
<1>1. CreateOrganization(o, email) /\ o \notin organization /\ email \in Emails
      /\ UNCHANGED <<accountRequest, signUps, resetVars>>
  BY EmailsAssumption DEF onboard
<1>2. /\ organization' \subseteq Organizations
      /\ role' \in [Rows -> {"none", "TENANT_ADMIN", "ADMIN", "USER"}]
      /\ OneAdministrator'
      /\ \A a \in Rows : role[a] # "none" => role'[a] # "none"
  BY <1>1, OrganizationCreated
<1>3. AccountTypeOK'
  BY <1>1, <1>2 DEF AccountTypeOK, resetVars
<1>4. SignedUp'
  BY <1>1, <1>2 DEF SignedUp, SigningUp, Rows
<1>5. LinkInv'
  BY <1>1, LinksKept
<1> QED BY <1>2, <1>3, <1>4, <1>5

\* Nobody makes an administrator of an organization, or changes the one there is.
LEMMA UserAdded ==
  ASSUME AccountInv, NEW actor \in Staffed \X Emails, NEW email \in Emails,
         NEW targetRole \in {"TENANT_ADMIN", "ADMIN", "USER"},
         createManagedUser(actor, email, targetRole)
  PROVE  AccountInv'
<1> USE DEF AccountInv
<1>1. PICK o \in Organizations, by \in Emails : actor = <<o, by>> /\ actor[1] = o
  BY EmailsAssumption
<1>2. /\ role \in [Rows -> {"none", "TENANT_ADMIN", "ADMIN", "USER"}]
      /\ <<o, email>> \in Rows /\ <<o, by>> \in Rows
  BY DEF AccountTypeOK, Rows
<1>3. /\ targetRole \in {"ADMIN", "USER"} /\ role[<<o, by>>] # "none" /\ role[<<o, email>>] = "none"
      /\ role' = [role EXCEPT ![<<o, email>>] = targetRole]
      /\ UNCHANGED <<organization, accountRequest, signUps, resetVars>>
  BY <1>1 DEF createManagedUser, assertCanCreateRole
<1>4. /\ role' \in [Rows -> {"none", "TENANT_ADMIN", "ADMIN", "USER"}]
      /\ role'[<<o, email>>] = targetRole
      /\ \A a \in Rows : a # <<o, email>> => role'[a] = role[a]
  BY <1>2, <1>3
<1>5. o \in organization
  BY <1>3 DEF OneAdministrator
<1>6. \A p \in Organizations, e \in Emails :
        role'[<<p, e>>] = "TENANT_ADMIN" <=> role[<<p, e>>] = "TENANT_ADMIN"
  BY <1>3, <1>4 DEF Rows
<1>7. \A p \in Organizations : AdministratorOf(p)' = AdministratorOf(p)
  BY <1>6 DEF AdministratorOf
<1>8. \A p \in Organizations \ {o}, e \in Emails : role'[<<p, e>>] = role[<<p, e>>]
  BY <1>4 DEF Rows
<1>9. OneAdministrator'
  <2> SUFFICES ASSUME NEW p \in Organizations
               PROVE  /\ p \in organization => \E e \in Emails : AdministratorOf(p)' = {e}
                      /\ p \notin organization => \A e \in Emails : role'[<<p, e>>] = "none"
    BY <1>3 DEF OneAdministrator, AdministratorOf
  <2> QED BY <1>5, <1>7, <1>8 DEF OneAdministrator
<1>10. SignedUp'
  <2>1. \A p \in Organizations, e \in Emails : role[<<p, e>>] # "none" => role'[<<p, e>>] # "none"
    BY <1>3, <1>4 DEF Rows
  <2> QED BY <2>1, <1>3 DEF SignedUp, SigningUp
<1>11. AccountTypeOK'
  BY <1>3, <1>4 DEF AccountTypeOK, resetVars
<1>12. LinkInv'
  BY <1>3, LinksKept
<1> QED BY <1>9, <1>10, <1>11, <1>12

\* A request to sign up is one more that found the email free, when nobody had
\* signed up with it.
LEMMA SignUpStarts ==
  ASSUME AccountInv, NEW r \in AccountRequests, NEW email \in SignUpEmails, register(r, email)
  PROVE  AccountInv'
<1> USE DEF AccountInv
<1>1. /\ accountRequest[r].at = "idle" /\ email \in Emails
      /\ accountRequest' = [accountRequest EXCEPT ![r] = [at |-> "slug", email |-> email]]
      /\ accountRequest'[r] = [at |-> "slug", email |-> email]
      /\ \A q \in AccountRequests \ {r} : accountRequest'[q] = accountRequest[q]
      /\ \A o \in Organizations : role[<<o, email>>] = "none"
      /\ UNCHANGED <<organization, role, signUps, resetVars>>
  BY EmailsAssumption DEF register, Waiting, Move, assertSignupEmailAvailable, AccountTypeOK
<1>2. AccountTypeOK'
  BY <1>1 DEF AccountTypeOK, resetVars
<1>3. LinkInv'
  BY <1>1, LinksKept
<1>4. OneAdministrator'
  BY <1>1 DEF OneAdministrator, AdministratorOf
<1>5. SignedUp'
  <2> SUFFICES ASSUME NEW e \in Emails
               PROVE  /\ signUps[e] > 0 => \E o \in Organizations : role[<<o, e>>] # "none"
                      /\ signUps[e] + Cardinality(SigningUp(e)') <= Cardinality(AccountRequests)
    BY <1>1 DEF SignedUp, SigningUp
  <2>1. signUps[e] \in Nat /\ (signUps[e] > 0 => \E o \in Organizations : role[<<o, e>>] # "none")
    BY DEF AccountTypeOK, SignedUp
  <2>2. CASE e = email
    <3>0. \A o \in Organizations : role[<<o, e>>] = "none"
      BY <1>1, <2>2
    <3>1. signUps[e] = 0
      <4>1. ~ signUps[e] > 0
        BY <2>1, <3>0
      <4>2. signUps[e] \in Nat
        BY <2>1
      <4> QED BY <4>1, <4>2
    <3>2. SigningUp(e)' \subseteq AccountRequests
      BY DEF SigningUp
    <3> QED BY <2>1, <3>1, <3>2, AccountsFinite
  <2>3. CASE e # email
    <3>1. SigningUp(e)' = SigningUp(e)
      BY <2>3, <1>1 DEF SigningUp
    <3> QED BY <2>1, <3>1 DEF SignedUp
  <2> QED BY <2>2, <2>3
<1> QED BY <1>2, <1>3, <1>4, <1>5

\* Looking for a slug goes on with the same email.
LEMMA SlugFound ==
  ASSUME AccountInv, NEW r \in AccountRequests, resolveUniqueOrganizationSlug(r)
  PROVE  AccountInv'
<1> USE DEF AccountInv
<1>1. PICK s0 \in Organizations :
        /\ accountRequest[r].at = "slug"
        /\ accountRequest' = [accountRequest EXCEPT ![r] =
             [at |-> "signUp", email |-> accountRequest[r].email, slug |-> s0]]
        /\ UNCHANGED <<organization, role, signUps, resetVars>>
  BY DEF resolveUniqueOrganizationSlug, Move
<1>2. /\ accountRequest'[r] = [at |-> "signUp", email |-> accountRequest[r].email, slug |-> s0]
      /\ \A q \in AccountRequests \ {r} : accountRequest'[q] = accountRequest[q]
      /\ accountRequest[r].email \in Emails
  BY <1>1, AccountRequestShape DEF AccountTypeOK
<1>3. AccountTypeOK'
  BY <1>1, <1>2 DEF AccountTypeOK, resetVars
<1>4. LinkInv'
  BY <1>1, <1>2, LinksKept
<1>5. \A e \in Emails : SigningUp(e)' = SigningUp(e)
  BY <1>1, <1>2 DEF SigningUp
<1>6. OneAdministrator'
  BY <1>1 DEF OneAdministrator, AdministratorOf
<1>7. SignedUp'
  BY <1>1, <1>5 DEF SignedUp
<1> QED BY <1>3, <1>4, <1>6, <1>7

\* The sign-up commits, or is refused because its slug was taken since.
LEMMA SignUpEnds ==
  ASSUME AccountInv, NEW r \in AccountRequests, signUp(r)
  PROVE  AccountInv'
<1> USE DEF AccountInv
<1>1. PICK email \in Emails, slug \in Organizations :
        email = accountRequest[r].email /\ slug = accountRequest[r].slug
  BY AccountRequestShape DEF signUp
<1>2. /\ accountRequest[r].at = "signUp"
      /\ accountRequest' = [accountRequest EXCEPT ![r] = IdleAccountRequest]
      /\ accountRequest'[r] = IdleAccountRequest
      /\ \A q \in AccountRequests \ {r} : accountRequest'[q] = accountRequest[q]
      /\ UNCHANGED resetVars
  BY DEF signUp, Move, AccountTypeOK
<1>3. LinkInv'
  BY <1>2, LinksKept DEF IdleAccountRequest
<1>4. CASE slug \in organization
  <2>1. UNCHANGED <<organization, role, signUps>>
    BY <1>1, <1>4 DEF signUp
  <2>2. AccountTypeOK'
    BY <1>2, <2>1 DEF AccountTypeOK, resetVars
  <2>3. OneAdministrator' /\ SignedUp'
    BY <1>2, <2>1, SignUpsKept DEF IdleAccountRequest
  <2> QED BY <1>3, <2>2, <2>3
<1>5. CASE slug \notin organization
  <2>1. CreateOrganization(slug, email) /\ signUps' = [signUps EXCEPT ![email] = @ + 1]
    BY <1>1, <1>5 DEF signUp
  <2>2. /\ organization' \subseteq Organizations
        /\ role' \in [Rows -> {"none", "TENANT_ADMIN", "ADMIN", "USER"}]
        /\ OneAdministrator' /\ role'[<<slug, email>>] # "none"
        /\ \A a \in Rows : role[a] # "none" => role'[a] # "none"
    BY <1>5, <2>1, OrganizationCreated
  <2>3. /\ signUps' \in [Emails -> Nat] /\ signUps'[email] = signUps[email] + 1
        /\ \A e \in Emails : e # email => signUps'[e] = signUps[e]
    BY <2>1 DEF AccountTypeOK
  <2>4. AccountTypeOK'
    BY <1>2, <2>2, <2>3 DEF AccountTypeOK, resetVars
  <2>5. SignedUp'
    <3> SUFFICES ASSUME NEW e \in Emails
                 PROVE  /\ signUps'[e] > 0 => \E o \in Organizations : role'[<<o, e>>] # "none"
                        /\ signUps'[e] + Cardinality(SigningUp(e)') <= Cardinality(AccountRequests)
      BY DEF SignedUp, SigningUp
    <3>1. /\ signUps[e] \in Nat /\ (signUps[e] > 0 => \E o \in Organizations : role[<<o, e>>] # "none")
          /\ signUps[e] + Cardinality(SigningUp(e)) <= Cardinality(AccountRequests)
      BY DEF AccountTypeOK, SignedUp
    <3>2. signUps'[e] > 0 => \E o \in Organizations : role'[<<o, e>>] # "none"
      BY <3>1, <2>2, <2>3 DEF Rows
    <3>3. SigningUp(e) \subseteq AccountRequests /\ SigningUp(e)' = SigningUp(e) \ {r}
      BY <1>2 DEF SigningUp, IdleAccountRequest
    <3>4. CASE e = email
      <4>1. r \in SigningUp(e)
        BY <3>4, <1>1, <1>2 DEF SigningUp
      <4>2. Cardinality(SigningUp(e)') = Cardinality(SigningUp(e)) - 1
        BY <4>1, <3>3, AccountsFinite, FS_RemoveElement
      <4>3. signUps'[e] = signUps[e] + 1 /\ Cardinality(SigningUp(e)) \in Nat
        BY <3>4, <2>3, <3>3, AccountsFinite
      <4> QED BY <3>1, <3>2, <4>2, <4>3, AccountsFinite
    <3>5. CASE e # email
      <4>1. /\ Cardinality(SigningUp(e)') <= Cardinality(SigningUp(e))
            /\ Cardinality(SigningUp(e)') \in Nat /\ Cardinality(SigningUp(e)) \in Nat
        BY <3>3, FewerRequests
      <4>2. signUps'[e] = signUps[e]
        BY <3>5, <2>3
      <4> QED BY <3>1, <3>2, <4>1, <4>2, AccountsFinite
    <3> QED BY <3>4, <3>5
  <2> QED BY <1>3, <2>2, <2>4, <2>5
<1> QED BY <1>4, <1>5

\* A token that is generated is unseen by everybody.
LEMMA ResetAsked ==
  ASSUME AccountInv, NEW r \in AccountRequests, NEW account \in Rows, NEW token \in Tokens,
         forgotPassword(r, account, token)
  PROVE  AccountInv'
<1> USE DEF AccountInv, LinkInv
<1>1. /\ accountRequest[r].at = "idle" /\ token \notin issued /\ issued' = issued \cup {token}
      /\ accountRequest' = [accountRequest EXCEPT ![r] = [at |-> "forgot", row |-> account, token |-> token]]
      /\ accountRequest'[r] = [at |-> "forgot", row |-> account, token |-> token]
      /\ \A q \in AccountRequests \ {r} : accountRequest'[q] = accountRequest[q]
      /\ UNCHANGED <<organization, role, signUps, resetToken, expired, lastToken, uses, overlapped>>
  BY DEF forgotPassword, Waiting, Move, AccountTypeOK
<1>2. AccountTypeOK'
  BY <1>1 DEF AccountTypeOK
<1>3. OneAdministrator' /\ SignedUp'
  BY <1>1, SignUpsKept
<1>4. TokensApart' /\ LastLinkStands'
  BY <1>1 DEF TokensApart, LastLinkStands
<1>5. ResetsHold'
  BY <1>1 DEF ResetsHold
<1>n. token # NoToken /\ uses[token] = 0
  <2>1. token # NoToken
    BY TokensAssumption DEF NoToken
  <2>2. uses[token] \in Nat /\ ~ uses[token] > 0
    BY <1>1 DEF UsedUp, AccountTypeOK
  <2> QED BY <2>1, <2>2
<1>6. ForgottenUnseen'
  <2>1. \A k : k # token /\ Unseen(k) => Unseen(k)'
    BY <1>1 DEF Unseen
  <2>2. Unseen(token)'
    BY <1>1, <1>n DEF Unseen, TokensApart, ResetsHold
  <2>3. \A q \in AccountRequests : accountRequest[q].at = "forgot" =>
          Unseen(accountRequest[q].token) /\ accountRequest[q].token # token
    BY <1>1 DEF ForgottenUnseen, Unseen
  <2>4. \A q \in AccountRequests : accountRequest'[q].at = "forgot" =>
          \/ q = r /\ accountRequest'[q].token = token
          \/ /\ q # r /\ accountRequest[q].at = "forgot"
             /\ accountRequest'[q].token = accountRequest[q].token
    BY <1>1
  <2>5. ASSUME NEW q \in AccountRequests, NEW k, k = accountRequest'[q].token, accountRequest'[q].at = "forgot"
        PROVE  Unseen(k)'
    BY <2>1, <2>2, <2>3, <2>4, <2>5
  <2>6. ASSUME NEW p \in AccountRequests, NEW q \in AccountRequests, p # q,
               accountRequest'[p].at = "forgot", accountRequest'[q].at = "forgot"
        PROVE  accountRequest'[p].token # accountRequest'[q].token
    BY <2>3, <2>4, <2>6 DEF ForgottenUnseen
  <2> QED BY <2>5, <2>6 DEF ForgottenUnseen, Unseen
<1>7. UsedUp'
  <2>1. \A k : Resetting(k)' = Resetting(k)
    BY <1>1 DEF Resetting
  <2> QED BY <1>1, <2>1 DEF UsedUp
<1> QED BY <1>2, <1>3, <1>4, <1>5, <1>6, <1>7

\* Storing a token replaces the link of one account; resets on their way for that
\* account hold an older one.
LEMMA TokenStored ==
  ASSUME AccountInv, NEW r \in AccountRequests, storeToken(r)
  PROVE  AccountInv'
<1> USE DEF AccountInv, LinkInv
<1>1. PICK account \in Rows, token \in Tokens : account = accountRequest[r].row /\ token = accountRequest[r].token
  BY AccountRequestShape DEF storeToken
<1>2. /\ accountRequest[r].at = "forgot"
      /\ accountRequest' = [accountRequest EXCEPT ![r] = IdleAccountRequest]
      /\ accountRequest'[r] = IdleAccountRequest
      /\ \A q \in AccountRequests \ {r} : accountRequest'[q] = accountRequest[q]
      /\ resetToken' = [resetToken EXCEPT ![account] = token]
      /\ lastToken' = [lastToken EXCEPT ![account] = token]
      /\ UNCHANGED <<organization, role, signUps, expired, issued, uses>>
  BY <1>1 DEF storeToken, Move, AccountTypeOK
<1>3. /\ resetToken'[account] = token /\ lastToken'[account] = token
      /\ \A a \in Rows \ {account} : resetToken'[a] = resetToken[a] /\ lastToken'[a] = lastToken[a]
      /\ token # NoToken
  BY <1>2, TokensAssumption DEF AccountTypeOK, NoToken
<1>4. /\ overlapped' \subseteq Rows
      /\ \A a \in Rows \ {account} : a \in overlapped' <=> a \in overlapped
      /\ account \notin overlapped' =>
           \A q \in AccountRequests : accountRequest[q].at = "reset" => accountRequest[q].row # account
  BY <1>1 DEF storeToken, AccountTypeOK
<1>5. Unseen(token)
  BY <1>1, <1>2 DEF ForgottenUnseen
<1>6. AccountTypeOK'
  BY <1>2, <1>4 DEF AccountTypeOK
<1>7. OneAdministrator' /\ SignedUp'
  BY <1>2, SignUpsKept DEF IdleAccountRequest
<1>8. TokensApart'
  BY <1>2, <1>3, <1>5 DEF TokensApart, Unseen
<1>9. ForgottenUnseen'
  <2>1. ASSUME NEW q \in AccountRequests, accountRequest'[q].at = "forgot"
        PROVE  /\ q # r /\ accountRequest'[q] = accountRequest[q] /\ accountRequest[q].token # token
               /\ Unseen(accountRequest[q].token)
    BY <1>1, <1>2, <2>1 DEF ForgottenUnseen, IdleAccountRequest
  <2>2. \A k : k # token /\ Unseen(k) => Unseen(k)'
    BY <1>2, <1>3 DEF Unseen, IdleAccountRequest
  <2>3. ASSUME NEW q \in AccountRequests, NEW k, k = accountRequest'[q].token, accountRequest'[q].at = "forgot"
        PROVE  Unseen(k)'
    BY <2>1, <2>2, <2>3
  <2>4. ASSUME NEW p \in AccountRequests, NEW q \in AccountRequests, p # q,
               accountRequest'[p].at = "forgot", accountRequest'[q].at = "forgot"
        PROVE  accountRequest'[p].token # accountRequest'[q].token
    BY <2>1, <2>4 DEF ForgottenUnseen
  <2> QED BY <2>3, <2>4 DEF ForgottenUnseen, Unseen
<1>10. ResetsHold'
  <2> SUFFICES ASSUME NEW q \in AccountRequests, accountRequest'[q].at = "reset"
               PROVE  /\ accountRequest'[q].row \notin overlapped' =>
                           accountRequest'[q].token = lastToken'[accountRequest'[q].row]
                      /\ \A a \in Rows : lastToken'[a] = accountRequest'[q].token => a = accountRequest'[q].row
                      /\ accountRequest'[q].token \in issued'
    BY DEF ResetsHold
  <2>1. q # r /\ accountRequest'[q] = accountRequest[q] /\ accountRequest[q].row \in Rows
    BY <1>2, AccountRequestShape DEF IdleAccountRequest
  <2>2. accountRequest[q].token # token
    BY <1>5, <2>1 DEF Unseen
  <2> QED BY <1>2, <1>3, <1>4, <2>1, <2>2 DEF ResetsHold
<1>11. UsedUp'
  <2>1. \A k : Resetting(k)' = Resetting(k)
    BY <1>2 DEF Resetting, IdleAccountRequest
  <2>2. \A k \in Tokens : uses[k] > 0 => k # token
    BY <1>5 DEF Unseen, AccountTypeOK
  <2> QED BY <1>2, <1>3, <2>1, <2>2 DEF UsedUp
<1>12. LastLinkStands'
  BY <1>2, <1>3, <1>4 DEF LastLinkStands
<1> QED BY <1>6, <1>7, <1>8, <1>9, <1>10, <1>11, <1>12

\* A reset finds the token in the row, so it was not used before.
LEMMA ResetStarts ==
  ASSUME AccountInv, NEW r \in AccountRequests, NEW account \in Rows, resetPassword(r, account)
  PROVE  AccountInv'
<1> USE DEF AccountInv, LinkInv
<1>1. PICK token \in Tokens : token = resetToken[account] /\ token = lastToken[account] /\ token \in issued
  BY DEF resetPassword, AccountTypeOK, TokensApart
<1>2. /\ accountRequest[r].at = "idle"
      /\ accountRequest' = [accountRequest EXCEPT ![r] = [at |-> "reset", row |-> account, token |-> token]]
      /\ accountRequest'[r] = [at |-> "reset", row |-> account, token |-> token]
      /\ \A q \in AccountRequests \ {r} : accountRequest'[q] = accountRequest[q]
      /\ UNCHANGED <<organization, role, signUps, resetToken, expired, issued, lastToken, uses, overlapped>>
  BY <1>1 DEF resetPassword, Waiting, Move, AccountTypeOK, resetVars
<1>3. AccountTypeOK'
  BY <1>2 DEF AccountTypeOK
<1>4. OneAdministrator' /\ SignedUp'
  BY <1>2, SignUpsKept
<1>5. TokensApart' /\ LastLinkStands'
  BY <1>2 DEF TokensApart, LastLinkStands
<1>6. ForgottenUnseen'
  <2>1. \A k : k # token /\ Unseen(k) => Unseen(k)'
    BY <1>2 DEF Unseen
  <2>2. \A q \in AccountRequests : accountRequest'[q].at = "forgot" =>
          /\ accountRequest'[q] = accountRequest[q] /\ accountRequest[q].at = "forgot"
          /\ Unseen(accountRequest[q].token) /\ accountRequest[q].token # token
    BY <1>1, <1>2 DEF ForgottenUnseen, Unseen
  <2>3. ASSUME NEW q \in AccountRequests, NEW k, k = accountRequest'[q].token, accountRequest'[q].at = "forgot"
        PROVE  Unseen(k)'
    BY <2>1, <2>2, <2>3
  <2>4. ASSUME NEW p \in AccountRequests, NEW q \in AccountRequests, p # q,
               accountRequest'[p].at = "forgot", accountRequest'[q].at = "forgot"
        PROVE  accountRequest'[p].token # accountRequest'[q].token
    BY <2>2, <2>4 DEF ForgottenUnseen
  <2> QED BY <2>3, <2>4 DEF ForgottenUnseen, Unseen
<1>7. ResetsHold'
  <2>1. \A a \in Rows : lastToken[a] = token => a = account
    BY <1>1, TokensAssumption DEF TokensApart, NoToken
  <2> QED BY <1>1, <1>2, <2>1 DEF ResetsHold
<1>8. UsedUp'
  <2> SUFFICES ASSUME NEW k \in Tokens
               PROVE  /\ uses[k] > 0 => k \in issued /\ \A a \in Rows : resetToken[a] # k
                      /\ uses[k] + Cardinality(Resetting(k)') <= Cardinality(AccountRequests)
    BY <1>2 DEF UsedUp, Resetting
  <2>1. /\ uses[k] \in Nat /\ (uses[k] > 0 => k \in issued /\ \A a \in Rows : resetToken[a] # k)
        /\ uses[k] + Cardinality(Resetting(k)) <= Cardinality(AccountRequests)
    BY DEF UsedUp, AccountTypeOK
  <2>2. CASE k = token
    <3>1. ~ uses[k] > 0
      BY <2>1, <2>2, <1>1
    <3>2. uses[k] = 0
      BY <2>1, <3>1
    <3>3. Resetting(k)' \subseteq AccountRequests
      BY DEF Resetting
    <3> QED BY <2>1, <3>2, <3>3, AccountsFinite
  <2>3. CASE k # token
    <3>1. Resetting(k)' = Resetting(k)
      BY <2>3, <1>2 DEF Resetting
    <3> QED BY <2>1, <3>1
  <2> QED BY <2>2, <2>3
<1> QED BY <1>3, <1>4, <1>5, <1>6, <1>7, <1>8

\* The password is set: the account's link is gone, and if it was the one used, it
\* was the account's last.
LEMMA PasswordStored ==
  ASSUME AccountInv, NEW r \in AccountRequests, storePassword(r)
  PROVE  AccountInv'
<1> USE DEF AccountInv, LinkInv
<1>1. PICK account \in Rows, token \in Tokens : account = accountRequest[r].row /\ token = accountRequest[r].token
  BY AccountRequestShape DEF storePassword
<1>2. /\ accountRequest[r].at = "reset"
      /\ accountRequest' = [accountRequest EXCEPT ![r] = IdleAccountRequest]
      /\ accountRequest'[r] = IdleAccountRequest
      /\ \A q \in AccountRequests \ {r} : accountRequest'[q] = accountRequest[q]
      /\ resetToken' = [resetToken EXCEPT ![account] = NoToken]
      /\ uses' = [uses EXCEPT ![token] = @ + 1]
      /\ UNCHANGED <<organization, role, signUps, expired, issued, lastToken, overlapped>>
  BY <1>1 DEF storePassword, Cleared, Move, AccountTypeOK
<1>3. /\ resetToken'[account] = NoToken /\ uses'[token] = uses[token] + 1
      /\ \A a \in Rows \ {account} : resetToken'[a] = resetToken[a]
      /\ \A k \in Tokens \ {token} : uses'[k] = uses[k]
      /\ uses' \in [Tokens -> Nat]
  BY <1>2 DEF AccountTypeOK
<1>4. /\ account \notin overlapped => token = lastToken[account]
      /\ \A a \in Rows : lastToken[a] = token => a = account
      /\ token \in issued
  BY <1>1, <1>2 DEF ResetsHold
<1>5. token # NoToken
  BY TokensAssumption DEF NoToken
<1>6. AccountTypeOK'
  BY <1>2, <1>3 DEF AccountTypeOK
<1>7. OneAdministrator' /\ SignedUp'
  BY <1>2, SignUpsKept DEF IdleAccountRequest
<1>8. TokensApart'
  BY <1>2, <1>3 DEF TokensApart
<1>9. ForgottenUnseen'
  <2>1. \A k \in Tokens : k # token /\ Unseen(k) => Unseen(k)'
    BY <1>2, <1>3 DEF Unseen, IdleAccountRequest
  <2>2. ASSUME NEW q \in AccountRequests, accountRequest'[q].at = "forgot"
        PROVE  /\ accountRequest'[q] = accountRequest[q] /\ accountRequest[q].at = "forgot"
               /\ Unseen(accountRequest[q].token) /\ accountRequest[q].token # token
               /\ accountRequest[q].token \in Tokens
    <3>1. accountRequest'[q] = accountRequest[q] /\ accountRequest[q].at = "forgot"
      BY <1>2, <2>2 DEF IdleAccountRequest
    <3> QED BY <3>1, <1>1, <1>2, AccountRequestShape DEF ForgottenUnseen, Unseen
  <2>3. ASSUME NEW q \in AccountRequests, NEW k, k = accountRequest'[q].token, accountRequest'[q].at = "forgot"
        PROVE  Unseen(k)'
    BY <2>1, <2>2, <2>3
  <2>4. ASSUME NEW p \in AccountRequests, NEW q \in AccountRequests, p # q,
               accountRequest'[p].at = "forgot", accountRequest'[q].at = "forgot"
        PROVE  accountRequest'[p].token # accountRequest'[q].token
    BY <2>2, <2>4 DEF ForgottenUnseen
  <2> QED BY <2>3, <2>4 DEF ForgottenUnseen, Unseen
<1>10. ResetsHold'
  BY <1>2 DEF ResetsHold, IdleAccountRequest
<1>11. UsedUp'
  <2> SUFFICES ASSUME NEW k \in Tokens
               PROVE  /\ uses'[k] > 0 => k \in issued /\ \A a \in Rows : resetToken'[a] # k
                      /\ uses'[k] + Cardinality(Resetting(k)') <= Cardinality(AccountRequests)
    BY <1>2 DEF UsedUp, Resetting
  <2>1. /\ uses[k] \in Nat /\ (uses[k] > 0 => k \in issued /\ \A a \in Rows : resetToken[a] # k)
        /\ uses[k] + Cardinality(Resetting(k)) <= Cardinality(AccountRequests)
    BY DEF UsedUp, AccountTypeOK
  <2>2. Resetting(k) \subseteq AccountRequests
    BY DEF Resetting
  <2>3. CASE k = token
    <3>1. \A a \in Rows : resetToken'[a] # token
      BY <1>3, <1>4, <1>5 DEF TokensApart
    <3>2. Resetting(k)' = Resetting(k) \ {r} /\ r \in Resetting(k)
      BY <2>3, <1>1, <1>2 DEF Resetting, IdleAccountRequest
    <3>3. Cardinality(Resetting(k)') = Cardinality(Resetting(k)) - 1
      BY <2>2, <3>2, AccountsFinite, FS_RemoveElement
    <3>4. uses'[k] + Cardinality(Resetting(k)') <= Cardinality(AccountRequests)
      <4>1. uses'[k] = uses[k] + 1 /\ Cardinality(Resetting(k)) \in Nat
        BY <2>2, <2>3, <1>3, AccountsFinite
      <4> QED BY <2>1, <3>3, <4>1, AccountsFinite
    <3> QED BY <2>3, <3>1, <3>4, <1>4
  <2>4. CASE k # token
    <3>1. Resetting(k)' = Resetting(k) /\ uses'[k] = uses[k]
      BY <2>4, <1>1, <1>2, <1>3 DEF Resetting, IdleAccountRequest
    <3>2. uses[k] > 0 => \A a \in Rows : resetToken'[a] # k
      BY <2>1, <1>3, TokensAssumption DEF NoToken
    <3> QED BY <2>1, <3>1, <3>2
  <2> QED BY <2>3, <2>4
<1>12. LastLinkStands'
  <2> SUFFICES ASSUME NEW a \in Rows, lastToken[a] # NoToken, a \notin overlapped, uses'[lastToken[a]] = 0
               PROVE  resetToken'[a] = lastToken[a]
    BY <1>2 DEF LastLinkStands
  <2>1. lastToken[a] \in Tokens /\ uses[token] \in Nat
    BY DEF AccountTypeOK
  <2>2. lastToken[a] # token
    BY <2>1, <1>3
  <2>3. a # account
    BY <2>2, <1>4
  <2>4. uses[lastToken[a]] = 0
    BY <2>1, <2>2, <1>3
  <2> QED BY <2>3, <2>4, <1>3 DEF LastLinkStands
<1> QED BY <1>6, <1>7, <1>8, <1>9, <1>10, <1>11, <1>12

\* There are no accounts and no links to begin with.
LEMMA AccountInitInv == AccountInit => AccountInv
<1> SUFFICES ASSUME AccountInit PROVE AccountInv
  OBVIOUS
<1>1. /\ \A r \in AccountRequests : accountRequest[r].at = "idle"
      /\ \A a \in Rows : role[a] = "none" /\ resetToken[a] = NoToken /\ lastToken[a] = NoToken
      /\ \A k \in Tokens : uses[k] = 0
      /\ \A e \in Emails : signUps[e] = 0
  BY DEF AccountInit, IdleAccountRequest
<1>2. AccountTypeOK
  BY DEF AccountInit, AccountTypeOK
<1>3. OneAdministrator
  BY <1>1 DEF AccountInit, OneAdministrator, Rows
<1>4. SignedUp
  <2>1. \A e \in Emails : SigningUp(e) = {}
    BY <1>1 DEF SigningUp
  <2>2. \A e \in Emails : Cardinality(SigningUp(e)) = 0
    BY <2>1, FS_EmptySet
  <2> QED BY <1>1, <2>2, AccountsFinite DEF SignedUp
<1>5. TokensApart /\ ForgottenUnseen /\ ResetsHold /\ LastLinkStands
  BY <1>1 DEF TokensApart, ForgottenUnseen, ResetsHold, LastLinkStands
<1>6. UsedUp
  <2>1. \A k \in Tokens : Resetting(k) = {}
    BY <1>1 DEF Resetting
  <2>2. \A k \in Tokens : Cardinality(Resetting(k)) = 0
    BY <2>1, FS_EmptySet
  <2> QED BY <1>1, <2>2, AccountsFinite DEF UsedUp
<1> QED BY <1>2, <1>3, <1>4, <1>5, <1>6 DEF AccountInv, LinkInv

\* Overlapping sign-ups leave every organization its one administrator and an email
\* no more accounts than requests; a reset link sets a password once, up to the
\* requests that hold it, and the last one stands until then.
THEOREM AccountsStaySound == AccountSpec => []AccountsSound
<1>1. AccountInv /\ [AccountNext]_accountVars => AccountInv'
  <2> SUFFICES ASSUME AccountInv, [AccountNext]_accountVars PROVE AccountInv'
    OBVIOUS
  <2>1. CASE UNCHANGED accountVars
    <3>1. UNCHANGED resetVars /\ UNCHANGED accountRequest /\ UNCHANGED <<organization, role, signUps>>
      BY <2>1 DEF accountVars, resetVars
    <3>2. AccountTypeOK'
      BY <3>1 DEF AccountInv, AccountTypeOK, resetVars
    <3> QED BY <3>1, <3>2, LinksKept, SignUpsKept DEF AccountInv
  <2>2. ASSUME NEW token \in Tokens, Expire(token) PROVE AccountInv'
    <3>1. AccountTypeOK' /\ TokensApart' /\ ResetsHold' /\ LastLinkStands'
      BY <2>2 DEF Expire, AccountInv, LinkInv, AccountTypeOK, TokensApart, ResetsHold, LastLinkStands
    <3>2. ForgottenUnseen' /\ UsedUp'
      BY <2>2 DEF Expire, AccountInv, LinkInv, ForgottenUnseen, Unseen, UsedUp, Resetting
    <3>3. OneAdministrator' /\ SignedUp'
      BY <2>2, SignUpsKept DEF Expire
    <3> QED BY <3>1, <3>2, <3>3 DEF AccountInv, LinkInv
  <2>3. ASSUME NEW r \in AccountRequests, NEW account \in Organizations \X SignUpEmails,
               resetPassword(r, account) \/ \E token \in Tokens : forgotPassword(r, account, token)
        PROVE  AccountInv'
    <3>1. account \in Rows
      BY EmailsAssumption DEF Rows
    <3> QED BY <2>3, <3>1, ResetStarts, ResetAsked
  <2>4. CASE \/ \E r \in AccountRequests, email \in SignUpEmails : register(r, email)
             \/ \E r \in AccountRequests : resolveUniqueOrganizationSlug(r) \/ signUp(r)
                                            \/ storeToken(r) \/ storePassword(r)
    BY <2>4, SignUpStarts, SlugFound, SignUpEnds, TokenStored, PasswordStored
  <2>5. ASSUME NEW o \in Organizations, NEW email \in SignUpEmails, onboard(o, email)
        PROVE  AccountInv'
    BY <2>5, AccountOnboarded
  <2>6. ASSUME NEW actor \in Staffed \X Emails, NEW email \in Emails,
               NEW targetRole \in {"TENANT_ADMIN", "ADMIN", "USER"}, createManagedUser(actor, email, targetRole)
        PROVE  AccountInv'
    BY <2>6, UserAdded
  <2> QED BY <2>1, <2>2, <2>3, <2>4, <2>5, <2>6 DEF AccountNext
<1>2. AccountInv => AccountsSound
  <2> SUFFICES ASSUME AccountInv PROVE AccountsSound
    OBVIOUS
  <2>1. OrganizationsHaveAdmin
    <3> SUFFICES ASSUME NEW o \in Organizations
                 PROVE  /\ Cardinality(AdministratorOf(o)) = IF o \in organization THEN 1 ELSE 0
                        /\ (\E e \in Emails : role[<<o, e>>] # "none") => o \in organization
      BY DEF OrganizationsHaveAdmin, AdministratorOf
    <3>1. CASE o \in organization
      <4>1. Cardinality(AdministratorOf(o)) = 1
        BY <3>1, FS_Singleton DEF AccountInv, OneAdministrator
      <4> QED BY <3>1, <4>1
    <3>2. CASE o \notin organization
      <4>1. \A e \in Emails : role[<<o, e>>] = "none"
        BY <3>2 DEF AccountInv, OneAdministrator
      <4>2. AdministratorOf(o) = {}
        BY <4>1 DEF AdministratorOf
      <4>3. Cardinality(AdministratorOf(o)) = 0
        BY <4>2, FS_EmptySet
      <4> QED BY <3>2, <4>1, <4>3
    <3> QED BY <3>1, <3>2
  <2>2. SignUpsBounded
    <3> SUFFICES ASSUME NEW e \in Emails PROVE signUps[e] <= Cardinality(AccountRequests)
      BY DEF SignUpsBounded
    <3>1. SigningUp(e) \subseteq AccountRequests
      BY DEF SigningUp
    <3>2. Cardinality(SigningUp(e)) \in Nat /\ signUps[e] \in Nat
      BY <3>1, AccountsFinite DEF AccountInv, AccountTypeOK
    <3> QED BY <3>2, AccountsFinite DEF AccountInv, SignedUp
  <2>3. ResetsBounded
    <3> SUFFICES ASSUME NEW k \in Tokens PROVE uses[k] <= Cardinality(AccountRequests)
      BY DEF ResetsBounded
    <3>1. Resetting(k) \subseteq AccountRequests
      BY DEF Resetting
    <3>2. Cardinality(Resetting(k)) \in Nat /\ uses[k] \in Nat
      BY <3>1, AccountsFinite DEF AccountInv, AccountTypeOK
    <3> QED BY <3>2, AccountsFinite DEF AccountInv, LinkInv, UsedUp
  <2> QED BY <2>1, <2>2, <2>3 DEF AccountsSound, AccountsConsistent, ResetLinks, AccountInv, LinkInv
<1> QED BY <1>1, <1>2, AccountInitInv, PTL DEF AccountSpec

-----------------------------------------------------------------------------
(* Runs of agent tasks.                                                     *)

\* What an orchestrator may be doing.
Orchestrator == [at : {"idle", "pick", "invoke"}, task : AgentTasks,
                 listed : [AgentTasks -> {"READY", "FAILED", "BLOCKED", "none"}], looping : BOOLEAN]

\* One more start is within the budget.
MayStart(t) == task[t].attempt < MaximumAttempts + byHand[t]

\* A task that waits may be started, and so may one that is listed to be resumed:
\* what was moved since it was listed was moved by hand.
Budgeted ==
  \A t \in AgentTasks :
    /\ task[t].attempt <= MaximumAttempts + byHand[t]
    /\ Status(t) \in {"PLANNED", "READY"} => MayStart(t)
    /\ orchestrator.listed[t] = "BLOCKED" => MayStart(t)
    /\ orchestrator.listed[t] = "FAILED" => Status(t) = "FAILED" \/ MayStart(t)

\* What is listed or invoked has left PLANNED, and nothing returns there; the
\* quality task leaves it when its dependencies have succeeded.
Ordered ==
  /\ \A t \in AgentTasks : orchestrator.listed[t] # "none" => Status(t) # "PLANNED"
  /\ orchestrator.at = "invoke" => Status(orchestrator.task) # "PLANNED"
  /\ ~ dryRun /\ ~ Touched(Quality) /\ Status(Quality) # "PLANNED" =>
       \A d \in Deps[Quality] : Status(d) = "SUCCEEDED"

\* A dry run writes no verdict, in its tasks neither.
NoVerdict ==
  dryRun => /\ ~ approved /\ runVerdict = "none"
            /\ \A t \in AgentTasks : /\ task[t].verdict = "none"
                                     /\ Status(t) = "SUCCEEDED" => Touched(t)

Ended == {"SUCCEEDED", "SIMULATED", "CANCELLED"}

\* A run that is called a success has ended, even when a process was killed since:
\* nothing leads on from there.
SuccessEnded == runStatus = "SUCCEEDED" => \A t \in AgentTasks : Status(t) \in Ended

ApprovedDone == approved => ~ dryRun /\ Status(Quality) # "PLANNED"

RunInv == RunTypeOK /\ Budgeted /\ Ordered /\ NoVerdict /\ SuccessEnded /\ ApprovedDone /\ NoneLeftBehind

\* The invariant gives the four promises.
LEMMA RunInvSound == RunInv => RunsSound
<1> SUFFICES ASSUME RunInv
             PROVE  RunsSound
  OBVIOUS
<1>1. ApprovalOfCompletedWork
  BY DEF RunInv, Ordered, ApprovedDone, ApprovalOfCompletedWork
<1>2. SuccessIsNoPretence
  BY DEF RunInv, NoVerdict, SuccessEnded, Ended, SuccessIsNoPretence, SimulationIsNotSuccess, SuccessIsReal
<1>3. RetriesBounded
  BY DEF RunInv, Budgeted, RetriesBounded
<1> QED
  BY <1>1, <1>2, <1>3 DEF RunInv, RunsSound

\* A new run has started nothing.
LEMMA RunInitial == RunInit => RunInv
<1> SUFFICES ASSUME RunInit
             PROVE  RunInv
  OBVIOUS
<1> USE PlanAssumption DEF Status
<1>0. /\ NoWork \in Orchestrator /\ NoWork.at = "idle"
      /\ \A t \in AgentTasks : NoWork.listed[t] = "none"
  BY DEF NoWork, Orchestrator
<1>1. orchestrator = NoWork \/ orchestrator = [NoWork EXCEPT !.at = "pick", !.looping = TRUE]
  BY DEF RunInit
<1>2. /\ orchestrator \in Orchestrator /\ orchestrator.at # "invoke"
      /\ \A t \in AgentTasks : orchestrator.listed[t] = "none"
  BY <1>0, <1>1 DEF Orchestrator
<1>a. \A t \in AgentTasks :
        /\ task[t].status = IF Deps[t] = {} THEN "READY" ELSE "PLANNED"
        /\ task[t].attempt = 0 /\ task[t].verdict = "none" /\ byHand[t] = 0
  BY DEF RunInit
<1>3. RunTypeOK
  BY <1>2 DEF RunInit, RunTypeOK, Orchestrator, Task, TaskStates, Verdicts
<1>4. Budgeted
  BY <1>a, <1>2 DEF Budgeted, MayStart
<1>5. ~ approved /\ runVerdict = "none" /\ runStatus = "PLANNED"
  BY DEF RunInit
<1>6. Ordered
  <2>1. Status(Quality) # "PLANNED" => Deps[Quality] = {}
    BY <1>a
  <2> QED
    BY <1>a, <1>2, <2>1 DEF Ordered
<1>7. NoVerdict /\ SuccessEnded /\ ApprovedDone
  BY <1>a, <1>5 DEF NoVerdict, SuccessEnded, ApprovedDone
<1>8. NoneLeftBehind
  <2> SUFFICES ASSUME NEW t \in AgentTasks, Status(t) = "PLANNED"
               PROVE  \E d \in Deps[t] : ~ dependencySatisfied(Status(d))
    BY DEF NoneLeftBehind
  <2>1. Deps[t] # {} /\ Deps[t] \subseteq AgentTasks
    BY <1>a
  <2> QED
    BY <1>a, <2>1 DEF dependencySatisfied
<1> QED
  BY <1>3, <1>4, <1>6, <1>7, <1>8 DEF RunInv

-----------------------------------------------------------------------------
\* What an update does to the tasks: one moves as it may, others only from PLANNED
\* to READY, once their dependencies are satisfied.
Moved(t, next, verdict) ==
  /\ task' \in [AgentTasks -> Task]
  /\ next = Status(t) \/ next \in TaskTransitions[Status(t)]
  /\ Status(t) = "FAILED" /\ next = "READY" => task[t].attempt < MaximumAttempts
  /\ task'[t].attempt = IF next = "RUNNING" THEN task[t].attempt + 1 ELSE task[t].attempt
  /\ task'[t].verdict = IF verdict = "none" THEN task[t].verdict ELSE verdict
  /\ task'[t].status = next \/ (next = "PLANNED" /\ task'[t].status = "READY")
  /\ \A u \in AgentTasks : u # t =>
       /\ task'[u].attempt = task[u].attempt /\ task'[u].verdict = task[u].verdict
       /\ task'[u].status = Status(u) \/ (Status(u) = "PLANNED" /\ task'[u].status = "READY")
  /\ \A u \in AgentTasks : Status(u) = "PLANNED" /\ task'[u].status = "READY" /\ (u = t => next = "PLANNED") =>
       \A d \in Deps[u] : dependencySatisfied(task'[d].status)

\* An update that was not killed has looked at every task, and says what it saw.
Completed ==
  /\ runStatus' = Rollup(task') /\ runVerdict' = RolledUpVerdict(task')
  /\ \A u \in AgentTasks : task'[u].status = "PLANNED" =>
       \E d \in Deps[u] : ~ dependencySatisfied(task'[d].status)

\* What promotion does to the tasks as they were written.
LEMMA Promotion ==
  ASSUME NEW w \in [AgentTasks -> Task], NEW us \in SUBSET Unlocked(w), NEW p,
         p = promoteReadyTasks(w, us)
  PROVE  /\ p \in [AgentTasks -> Task]
         /\ \A u \in AgentTasks :
              /\ p[u].attempt = w[u].attempt /\ p[u].verdict = w[u].verdict
              /\ u \in us => w[u].status = "PLANNED" /\ p[u].status = "READY"
              /\ u \notin us => p[u].status = w[u].status
              /\ dependencySatisfied(p[u].status) <=> dependencySatisfied(w[u].status)
<1>1. \A u \in AgentTasks : w[u] \in Task /\ p[u] = IF u \in us THEN [w[u] EXCEPT !.status = "READY"] ELSE w[u]
  BY DEF promoteReadyTasks
<1>2. \A u \in AgentTasks : u \in us => w[u].status = "PLANNED"
  BY DEF Unlocked
<1>3. \A u \in AgentTasks : p[u] \in Task
  BY <1>1 DEF Task, TaskStates
<1>4. p \in [AgentTasks -> Task]
  BY <1>3 DEF promoteReadyTasks
<1>5. ASSUME NEW u \in AgentTasks
      PROVE  /\ p[u].attempt = w[u].attempt /\ p[u].verdict = w[u].verdict
             /\ u \in us => w[u].status = "PLANNED" /\ p[u].status = "READY"
             /\ u \notin us => p[u].status = w[u].status
  BY <1>1, <1>2 DEF Task
<1>6. ASSUME NEW u \in AgentTasks
      PROVE  dependencySatisfied(p[u].status) <=> dependencySatisfied(w[u].status)
  BY <1>5 DEF dependencySatisfied
<1> QED
  BY <1>4, <1>5, <1>6

\* Every update is one.
LEMMA UpdateShape ==
  ASSUME RunTypeOK, NEW t \in AgentTasks, NEW next \in TaskStates, NEW verdict \in Verdicts \cup {"none"},
         updateTaskState(t, next, verdict) \/ updateTaskStateKilled(t, next, verdict)
  PROVE  /\ Moved(t, next, verdict)
         /\ \/ Completed /\ killed' = FALSE
            \/ UNCHANGED <<runStatus, runVerdict>> /\ killed' = TRUE
<1> DEFINE w == Written(t, next, verdict)
<1>0. /\ task \in [AgentTasks -> Task] /\ task[t] \in Task
      /\ w = [task EXCEPT ![t] = [task[t] EXCEPT !.status = next,
                                                 !.attempt = IF next = "RUNNING" THEN @ + 1 ELSE @,
                                                 !.verdict = IF verdict = "none" THEN @ ELSE verdict]]
  BY DEF RunTypeOK, Written
<1> DEFINE x == w[t]
<1>a. x = [status |-> next, attempt |-> IF next = "RUNNING" THEN task[t].attempt + 1 ELSE task[t].attempt,
           verdict |-> IF verdict = "none" THEN task[t].verdict ELSE verdict]
  BY <1>0 DEF Task
<1>b. x \in Task
  BY <1>0, <1>a DEF Task
<1>1. /\ w \in [AgentTasks -> Task]
      /\ w[t].attempt = IF next = "RUNNING" THEN task[t].attempt + 1 ELSE task[t].attempt
      /\ w[t].verdict = IF verdict = "none" THEN task[t].verdict ELSE verdict
      /\ w[t].status = next
      /\ \A u \in AgentTasks : u # t => w[u] = task[u]
  BY <1>0, <1>a, <1>b
<1> HIDE DEF w
<1>2. PICK us \in SUBSET Unlocked(w) :
        /\ task' = promoteReadyTasks(w, us)
        /\ \/ us = Unlocked(w) /\ killed' = FALSE
              /\ runStatus' = Rollup(task') /\ runVerdict' = RolledUpVerdict(task')
           \/ UNCHANGED <<runStatus, runVerdict>> /\ killed' = TRUE
  BY DEF updateTaskState, updateTaskStateKilled, w
<1>3. assertTransition(Status(t), next, task[t].attempt)
  BY DEF updateTaskState, updateTaskStateKilled
<1> DEFINE p == promoteReadyTasks(w, us)
<1>4. /\ p \in [AgentTasks -> Task]
      /\ \A u \in AgentTasks :
           /\ p[u].attempt = w[u].attempt /\ p[u].verdict = w[u].verdict
           /\ u \in us => w[u].status = "PLANNED" /\ p[u].status = "READY"
           /\ u \notin us => p[u].status = w[u].status
           /\ dependencySatisfied(p[u].status) <=> dependencySatisfied(w[u].status)
  BY <1>1, Promotion
<1>5. task' = p
  BY <1>2
<1> HIDE DEF p
<1>6. ASSUME NEW u \in AgentTasks, u \in us, NEW d \in Deps[u]
      PROVE  dependencySatisfied(p[d].status)
  <2>1. dependencySatisfied(w[d].status)
    BY <1>6 DEF Unlocked
  <2> QED
    BY <1>4, <2>1, PlanAssumption
<1>7. ASSUME us = Unlocked(w), NEW u \in AgentTasks, p[u].status = "PLANNED"
      PROVE  \E d \in Deps[u] : ~ dependencySatisfied(p[d].status)
  <2>1. w[u].status = "PLANNED" /\ u \notin Unlocked(w)
    BY <1>4, <1>7
  <2>2. PICK d \in Deps[u] : ~ dependencySatisfied(w[d].status)
    BY <2>1 DEF Unlocked
  <2> QED
    BY <1>4, <2>2, PlanAssumption
<1>8. Moved(t, next, verdict)
  <2>1. /\ next = Status(t) \/ next \in TaskTransitions[Status(t)]
        /\ Status(t) = "FAILED" /\ next = "READY" => task[t].attempt < MaximumAttempts
    BY <1>3, PlanAssumption DEF assertTransition, RunTypeOK, Task
  <2>2. p[t].status = next \/ (next = "PLANNED" /\ p[t].status = "READY")
    BY <1>1, <1>4
  <2>3. ASSUME NEW u \in AgentTasks, u # t
        PROVE  /\ p[u].attempt = task[u].attempt /\ p[u].verdict = task[u].verdict
               /\ p[u].status = Status(u) \/ (Status(u) = "PLANNED" /\ p[u].status = "READY")
    BY <1>1, <1>4, <2>3 DEF Status
  <2>4. ASSUME NEW u \in AgentTasks, Status(u) = "PLANNED", p[u].status = "READY", u = t => next = "PLANNED"
        PROVE  u \in us
    BY <1>1, <1>4, <2>4 DEF Status
  <2> QED
    BY <1>1, <1>4, <1>5, <1>6, <2>1, <2>2, <2>3, <2>4 DEF Moved
<1> QED
  BY <1>2, <1>5, <1>7, <1>8 DEF Completed

\* What whoever moves a task keeps to: its budget and its order; who may call a task
\* of a dry run a success, and who approves.
AllowedMove(t, next, verdict) ==
  /\ dryRun' = dryRun /\ approved' \in BOOLEAN
  /\ byHand' \in [AgentTasks -> Nat] /\ orchestrator' \in Orchestrator
  /\ byHand'[t] >= byHand[t] /\ \A u \in AgentTasks : u # t => byHand'[u] = byHand[u]
  /\ task[t].attempt <= MaximumAttempts + byHand'[t]
  /\ next \in {"PLANNED", "READY", "RUNNING"} => task[t].attempt < MaximumAttempts + byHand'[t]
  /\ \A u \in AgentTasks : u # t => orchestrator'.listed[u] \in {orchestrator.listed[u], "none"}
  /\ orchestrator'.listed[t] \in {"FAILED", "BLOCKED"} =>
       /\ task[t].attempt < MaximumAttempts + byHand'[t]
       /\ next = "RUNNING" => task[t].attempt + 1 < MaximumAttempts + byHand'[t]
  /\ orchestrator'.listed[t] # "none" => Status(t) # "PLANNED"
  /\ orchestrator'.at = "invoke" => Status(orchestrator'.task) # "PLANNED"
  /\ Status(t) = "PLANNED" /\ next # "PLANNED" => byHand'[t] > 0
  /\ dryRun /\ next = "SUCCEEDED" /\ Status(t) # "SUCCEEDED" => byHand'[t] > 0
  /\ dryRun => verdict = "none"
  /\ approved' => approved \/ (~ dryRun /\ t = Quality /\ next # "PLANNED")

\* Nothing returns to PLANNED, and what has ended stays.
LEMMA MovesOn ==
  ASSUME RunTypeOK, NEW t \in AgentTasks, NEW next \in TaskStates, NEW verdict, Moved(t, next, verdict)
  PROVE  \A u \in AgentTasks :
           /\ task'[u].status = "PLANNED" => Status(u) = "PLANNED" /\ (u = t => next = "PLANNED")
           /\ Status(u) \in Ended => task'[u].status = Status(u)
<1>1. \A u \in AgentTasks : Status(u) \in TaskStates
  BY DEF RunTypeOK, Task, Status
<1>2. next = "PLANNED" => Status(t) = "PLANNED"
  BY <1>1 DEF Moved, TaskTransitions, TaskStates
<1>3. Status(t) \in Ended => next = Status(t)
  BY <1>1 DEF Moved, TaskTransitions, Ended
<1> QED
  BY <1>2, <1>3 DEF Moved, Ended

\* The rollup says SUCCEEDED only of what has ended, or was said to have before.
LEMMA RollupEnded ==
  ASSUME NEW w \in [AgentTasks -> Task], Rollup(w) = "SUCCEEDED", runStatus = "SUCCEEDED" =>
           \A u \in AgentTasks : w[u].status \in Ended
  PROVE  \A u \in AgentTasks : w[u].status \in Ended
<1>1. \A u \in AgentTasks : w[u].status \in TaskStates
  BY DEF Task
<1>2. CASE AllTerminal(w) /\ ~ AnyIn(w, {"ESCALATED"}) /\ ~ AnyIn(w, {"BLOCKED"}) /\ ~ AnyIn(w, {"FAILED"})
  BY <1>1, <1>2 DEF AllTerminal, AnyIn, Active, Ended, TaskStates
<1>3. CASE \A u \in AgentTasks : w[u].status = "SUCCEEDED"
  BY <1>3 DEF Ended
<1>4. CASE runStatus = "SUCCEEDED"
  BY <1>4
<1> QED
  BY <1>2, <1>3, <1>4 DEF Rollup

\* A move that is allowed keeps the invariant.
LEMMA MoveKeeps ==
  ASSUME RunInv, NEW t \in AgentTasks, NEW next \in TaskStates, NEW verdict \in Verdicts \cup {"none"},
         updateTaskState(t, next, verdict) \/ updateTaskStateKilled(t, next, verdict),
         AllowedMove(t, next, verdict)
  PROVE  RunInv'
<1>0. RunTypeOK /\ byHand \in [AgentTasks -> Nat]
  BY DEF RunInv, RunTypeOK
<1>m. /\ Moved(t, next, verdict)
      /\ \/ Completed /\ killed' = FALSE
         \/ UNCHANGED <<runStatus, runVerdict>> /\ killed' = TRUE
  BY <1>0, UpdateShape
<1>o. \A u \in AgentTasks :
        /\ task'[u].status = "PLANNED" => Status(u) = "PLANNED" /\ (u = t => next = "PLANNED")
        /\ Status(u) \in Ended => task'[u].status = Status(u)
  BY <1>0, <1>m, MovesOn
<1>t. /\ task' \in [AgentTasks -> Task] /\ task \in [AgentTasks -> Task]
      /\ \A u \in AgentTasks : task[u].attempt \in Nat /\ task'[u].attempt \in Nat /\ byHand[u] \in Nat
      /\ \A u \in AgentTasks : byHand'[u] \in Nat
      /\ MaximumAttempts \in Nat
  BY <1>0, <1>m, PlanAssumption DEF RunTypeOK, Moved, Task, AllowedMove
<1>1. RunTypeOK'
  <2>1. runStatus' \in {"PLANNED", "RUNNING", "ESCALATED", "BLOCKED", "FAILED", "SIMULATED", "SUCCEEDED"}
    BY <1>0, <1>m DEF RunTypeOK, Completed, Rollup
  <2>2. runVerdict' \in Verdicts \cup {"none"}
    <3>1. task'[Quality].verdict \in Verdicts \cup {"none"}
      BY <1>t, PlanAssumption DEF Task
    <3> QED
      BY <1>0, <1>m, <3>1 DEF RunTypeOK, Completed, RolledUpVerdict
  <2> QED
    BY <1>0, <1>m, <1>t, <2>1, <2>2 DEF RunTypeOK, AllowedMove, Orchestrator
<1>2. Budgeted'
  <2> SUFFICES ASSUME NEW u \in AgentTasks
               PROVE  /\ task'[u].attempt <= MaximumAttempts + byHand'[u]
                      /\ task'[u].status \in {"PLANNED", "READY"} => task'[u].attempt < MaximumAttempts + byHand'[u]
                      /\ orchestrator'.listed[u] = "BLOCKED" => task'[u].attempt < MaximumAttempts + byHand'[u]
                      /\ orchestrator'.listed[u] = "FAILED" =>
                           task'[u].status = "FAILED" \/ task'[u].attempt < MaximumAttempts + byHand'[u]
    BY DEF Budgeted, MayStart, Status
  <2>1. CASE u = t
    <3>1. task'[t].attempt = IF next = "RUNNING" THEN task[t].attempt + 1 ELSE task[t].attempt
      BY <1>m DEF Moved
    <3>2. task'[t].status \in {"PLANNED", "READY"} => next \in {"PLANNED", "READY"}
      BY <1>m DEF Moved
    <3>3. CASE next = "RUNNING"
      BY <1>t, <2>1, <3>1, <3>2, <3>3 DEF AllowedMove
    <3>4. CASE next # "RUNNING"
      BY <1>t, <2>1, <3>1, <3>2, <3>4 DEF AllowedMove
    <3> QED
      BY <3>3, <3>4
  <2>2. CASE u # t
    <3>1. /\ task'[u].attempt = task[u].attempt /\ byHand'[u] = byHand[u]
          /\ orchestrator'.listed[u] \in {orchestrator.listed[u], "none"}
          /\ task'[u].status = task[u].status \/ (task[u].status = "PLANNED" /\ task'[u].status = "READY")
      BY <1>m, <2>2 DEF Moved, AllowedMove, Status
    <3>2. /\ task[u].attempt <= MaximumAttempts + byHand[u]
          /\ task[u].status \in {"PLANNED", "READY"} => task[u].attempt < MaximumAttempts + byHand[u]
          /\ orchestrator.listed[u] = "BLOCKED" => task[u].attempt < MaximumAttempts + byHand[u]
          /\ orchestrator.listed[u] = "FAILED" =>
               task[u].status = "FAILED" \/ task[u].attempt < MaximumAttempts + byHand[u]
      BY DEF RunInv, Budgeted, MayStart, Status
    <3> QED
      BY <3>1, <3>2
  <2> QED
    BY <2>1, <2>2
<1>3. Ordered'
  <2>1. ASSUME NEW u \in AgentTasks, orchestrator'.listed[u] # "none"
        PROVE  task'[u].status # "PLANNED"
    <3>1. Status(u) # "PLANNED"
      BY <2>1 DEF RunInv, Ordered, AllowedMove
    <3> QED
      BY <1>o, <3>1
  <2>2. orchestrator'.at = "invoke" => task'[orchestrator'.task].status # "PLANNED"
    BY <1>o DEF AllowedMove, Orchestrator
  <2>3. ASSUME ~ dryRun, byHand'[Quality] = 0, task'[Quality].status # "PLANNED", NEW d \in Deps[Quality]
        PROVE  task'[d].status = "SUCCEEDED"
    <3>0. Quality \in AgentTasks /\ d \in AgentTasks
      BY PlanAssumption
    <3>1. byHand[Quality] = 0 /\ ~ byHand[Quality] > 0
      BY <1>t, <2>3, <3>0 DEF AllowedMove
    <3>2. CASE Status(Quality) # "PLANNED"
      <4>1. Status(d) = "SUCCEEDED"
        BY <2>3, <3>1, <3>2 DEF RunInv, Ordered, Touched
      <4> QED
        BY <1>o, <3>0, <4>1 DEF Ended
    <3>3. CASE Status(Quality) = "PLANNED"
      <4>1. Quality = t => next = "PLANNED"
        BY <2>3, <3>3 DEF AllowedMove
      <4>2. task'[Quality].status = "READY"
        BY <1>m, <2>3, <3>0, <3>3, <4>1 DEF Moved
      <4>3. dependencySatisfied(task'[d].status)
        BY <1>m, <3>0, <3>3, <4>1, <4>2 DEF Moved
      <4> QED
        BY <2>3, <4>3 DEF dependencySatisfied
    <3> QED
      BY <3>2, <3>3
  <2>4. ~ (byHand'[Quality] > 0) => byHand'[Quality] = 0
    BY <1>t, PlanAssumption
  <2>5. dryRun' = dryRun
    BY DEF AllowedMove
  <2> QED
    BY <2>1, <2>2, <2>3, <2>4, <2>5 DEF Ordered, Status, Touched
<1>4. NoVerdict'
  <2> SUFFICES ASSUME dryRun
               PROVE  /\ ~ approved' /\ runVerdict' = "none"
                      /\ \A u \in AgentTasks : /\ task'[u].verdict = "none"
                                               /\ task'[u].status = "SUCCEEDED" => byHand'[u] > 0
    BY DEF AllowedMove, NoVerdict, Status, Touched
  <2>1. ~ approved'
    BY DEF AllowedMove, RunInv, NoVerdict
  <2>2. \A u \in AgentTasks : task'[u].verdict = "none"
    BY <1>m DEF Moved, AllowedMove, RunInv, NoVerdict
  <2>3. runVerdict' = "none"
    BY <1>m, <2>2, PlanAssumption DEF RunInv, NoVerdict, Completed, RolledUpVerdict
  <2>4. ASSUME NEW u \in AgentTasks, task'[u].status = "SUCCEEDED"
        PROVE  byHand'[u] > 0
    <3>1. byHand'[u] \in Nat /\ byHand[u] \in Nat /\ byHand'[u] >= byHand[u]
      BY <1>t DEF AllowedMove
    <3>2. CASE Status(u) = "SUCCEEDED"
      <4>1. byHand[u] > 0
        BY <3>2 DEF RunInv, NoVerdict, Touched
      <4> QED
        BY <3>1, <4>1
    <3>3. CASE Status(u) # "SUCCEEDED"
      <4>1. u = t /\ next = "SUCCEEDED"
        BY <1>m, <2>4, <3>3 DEF Moved
      <4> QED
        BY <3>3, <4>1 DEF AllowedMove
    <3> QED
      BY <3>2, <3>3
  <2> QED
    BY <2>1, <2>2, <2>3, <2>4
<1>5. SuccessEnded'
  <2> SUFFICES ASSUME runStatus' = "SUCCEEDED"
               PROVE  \A u \in AgentTasks : task'[u].status \in Ended
    BY DEF SuccessEnded, Status
  <2>1. runStatus = "SUCCEEDED" => \A u \in AgentTasks : task'[u].status \in Ended
    BY <1>o DEF RunInv, SuccessEnded
  <2>2. runStatus' = runStatus \/ runStatus' = Rollup(task')
    BY <1>m DEF Completed
  <2>3. ASSUME NEW w, w = task', Rollup(w) = "SUCCEEDED"
        PROVE  \A u \in AgentTasks : w[u].status \in Ended
    BY <1>t, <2>1, <2>3, RollupEnded
  <2> QED
    BY <2>1, <2>2, <2>3
<1>6. ApprovedDone'
  <2> SUFFICES ASSUME approved'
               PROVE  ~ dryRun /\ task'[Quality].status # "PLANNED"
    BY DEF AllowedMove, ApprovedDone, Status
  <2>1. ~ dryRun /\ (Status(Quality) # "PLANNED" \/ (t = Quality /\ next # "PLANNED"))
    BY DEF AllowedMove, RunInv, ApprovedDone
  <2> QED
    BY <1>o, <2>1, PlanAssumption
<1>7. NoneLeftBehind'
  <2>1. dryRun' = dryRun
    BY DEF AllowedMove
  <2> SUFFICES ASSUME ~ killed', NEW u \in AgentTasks, task'[u].status = "PLANNED"
               PROVE  \E d \in Deps[u] : ~ dependencySatisfied(task'[d].status)
    BY <2>1 DEF NoneLeftBehind, Status, dependencySatisfied
  <2> QED
    BY <1>m DEF Completed
<1> QED
  BY <1>1, <1>2, <1>3, <1>4, <1>5, <1>6, <1>7 DEF RunInv

\* A step that moves no task keeps it if it lists tasks as they are.
LEMMA ListingKeeps ==
  ASSUME RunInv, UNCHANGED <<dryRun, task, runStatus, runVerdict, approved, killed>>,
         byHand' \in [AgentTasks -> Nat], \A u \in AgentTasks : byHand'[u] >= byHand[u],
         orchestrator' \in Orchestrator,
         \A u \in AgentTasks :
           \/ orchestrator'.listed[u] \in {orchestrator.listed[u], "none"}
           \/ orchestrator'.listed[u] = Status(u) /\ Status(u) \in {"READY", "FAILED"}
           \/ orchestrator'.listed[u] = Status(u) /\ Status(u) = "BLOCKED" /\ byHand'[u] > byHand[u],
         orchestrator'.at = "invoke" => Status(orchestrator'.task) # "PLANNED"
  PROVE  RunInv'
<1>0. RunTypeOK /\ byHand \in [AgentTasks -> Nat] /\ MaximumAttempts \in Nat
      /\ \A u \in AgentTasks : task[u].attempt \in Nat /\ byHand[u] \in Nat /\ byHand'[u] \in Nat
  BY PlanAssumption DEF RunInv, RunTypeOK, Task
<1>1. RunTypeOK'
  BY <1>0 DEF RunTypeOK, Orchestrator
<1>2. Budgeted'
  <2> SUFFICES ASSUME NEW u \in AgentTasks
               PROVE  /\ task[u].attempt <= MaximumAttempts + byHand'[u]
                      /\ Status(u) \in {"PLANNED", "READY"} => task[u].attempt < MaximumAttempts + byHand'[u]
                      /\ orchestrator'.listed[u] = "BLOCKED" => task[u].attempt < MaximumAttempts + byHand'[u]
                      /\ orchestrator'.listed[u] = "FAILED" =>
                           Status(u) = "FAILED" \/ task[u].attempt < MaximumAttempts + byHand'[u]
    BY DEF Budgeted, MayStart, Status
  <2>1. /\ task[u].attempt <= MaximumAttempts + byHand[u]
        /\ Status(u) \in {"PLANNED", "READY"} => task[u].attempt < MaximumAttempts + byHand[u]
        /\ orchestrator.listed[u] = "BLOCKED" => task[u].attempt < MaximumAttempts + byHand[u]
        /\ orchestrator.listed[u] = "FAILED" =>
             Status(u) = "FAILED" \/ task[u].attempt < MaximumAttempts + byHand[u]
    BY DEF RunInv, Budgeted, MayStart
  <2>2. byHand'[u] >= byHand[u] /\ MaximumAttempts + byHand'[u] >= MaximumAttempts + byHand[u]
    BY <1>0
  <2>3. byHand'[u] > byHand[u] => task[u].attempt < MaximumAttempts + byHand'[u]
    BY <1>0, <2>1
  <2>4. task[u].attempt < MaximumAttempts + byHand[u] => task[u].attempt < MaximumAttempts + byHand'[u]
    BY <1>0, <2>2
  <2>5. task[u].attempt <= MaximumAttempts + byHand'[u]
    BY <1>0, <2>1, <2>2
  <2> QED
    BY <2>1, <2>3, <2>4, <2>5
<1>3. Ordered'
  <2>1. \A u \in AgentTasks : orchestrator'.listed[u] # "none" => Status(u) # "PLANNED"
    BY DEF RunInv, Ordered
  <2>2. ~ (byHand'[Quality] > 0) => ~ (byHand[Quality] > 0)
    BY <1>0, PlanAssumption
  <2>3. ~ dryRun /\ ~ (byHand'[Quality] > 0) /\ Status(Quality) # "PLANNED" =>
          \A d \in Deps[Quality] : Status(d) = "SUCCEEDED"
    BY <2>2 DEF RunInv, Ordered, Touched
  <2> QED
    BY <2>1, <2>3 DEF Ordered, Status, Touched
<1>4. NoVerdict'
  <2>1. \A u \in AgentTasks : byHand[u] > 0 => byHand'[u] > 0
    BY <1>0
  <2> QED
    BY <2>1 DEF RunInv, NoVerdict, Status, Touched
<1>5. SuccessEnded' /\ ApprovedDone' /\ NoneLeftBehind'
  BY DEF RunInv, SuccessEnded, ApprovedDone, NoneLeftBehind, Status, dependencySatisfied
<1> QED
  BY <1>1, <1>2, <1>3, <1>4, <1>5 DEF RunInv

\* The orchestrators of a step: listed tasks stay or leave the list.
LEMMA OrchestratorTypes ==
  ASSUME RunTypeOK
  PROVE  /\ NoWork \in Orchestrator /\ NoWork.at = "idle"
         /\ \A u \in AgentTasks : NoWork.listed[u] = "none"
         /\ \A t \in AgentTasks :
              /\ Delisted(t) \in Orchestrator /\ Delisted(t).at = "pick"
              /\ \A u \in AgentTasks : Delisted(t).listed[u] = IF u = t THEN "none" ELSE orchestrator.listed[u]
<1>1. orchestrator \in Orchestrator
  BY DEF RunTypeOK, Orchestrator
<1>2. /\ NoWork \in Orchestrator /\ NoWork.at = "idle"
      /\ \A u \in AgentTasks : NoWork.listed[u] = "none"
  BY PlanAssumption DEF NoWork, Orchestrator
<1>3. ASSUME NEW t \in AgentTasks
      PROVE  /\ Delisted(t) \in Orchestrator /\ Delisted(t).at = "pick"
             /\ \A u \in AgentTasks : Delisted(t).listed[u] = IF u = t THEN "none" ELSE orchestrator.listed[u]
  BY <1>1 DEF Delisted, Orchestrator
<1> QED
  BY <1>2, <1>3

\* Resuming lists what is ready or has failed; a person may list one blocked task.
LEMMA ResumingKeeps ==
  ASSUME RunInv, resumeRun \/ (\E t \in AgentTasks : resumeTask(t)) \/ runReadyLoop \/ KilledWaiting
  PROVE  RunInv'
<1>0. /\ RunTypeOK /\ orchestrator \in Orchestrator /\ byHand \in [AgentTasks -> Nat]
      /\ NoWork \in Orchestrator /\ NoWork.at = "idle"
      /\ \A u \in AgentTasks : NoWork.listed[u] = "none"
      /\ \A u \in AgentTasks : byHand[u] \in Nat
  BY OrchestratorTypes DEF RunInv, RunTypeOK, Orchestrator
<1>1. CASE resumeRun
  <2> DEFINE l == ListedIn({"READY", "FAILED"})
  <2>1. /\ l \in [AgentTasks -> {"READY", "FAILED", "BLOCKED", "none"}]
        /\ \A u \in AgentTasks : l[u] = "none" \/ (l[u] = Status(u) /\ Status(u) \in {"READY", "FAILED"})
    BY DEF ListedIn
  <2> HIDE DEF l
  <2>2. orchestrator' = [NoWork EXCEPT !.at = "pick", !.listed = l]
    BY <1>1 DEF resumeRun, l
  <2>3. orchestrator' \in Orchestrator /\ orchestrator'.listed = l /\ orchestrator'.at = "pick"
    BY <1>0, <2>1, <2>2 DEF Orchestrator
  <2> QED
    BY <1>0, <1>1, <2>1, <2>3, ListingKeeps DEF resumeRun
<1>2. ASSUME NEW t \in AgentTasks, resumeTask(t)
      PROVE  RunInv'
  <2>1. orchestrator' = [NoWork EXCEPT !.at = "pick", !.listed[t] = Status(t)]
        /\ Status(t) \in {"READY", "FAILED", "BLOCKED"}
        /\ byHand' = [byHand EXCEPT ![t] = @ + 1]
    BY <1>2 DEF resumeTask, ByHand
  <2>2. /\ orchestrator' \in Orchestrator /\ orchestrator'.at = "pick"
        /\ \A u \in AgentTasks : orchestrator'.listed[u] = IF u = t THEN Status(t) ELSE "none"
    BY <1>0, <2>1 DEF Orchestrator
  <2>3. /\ byHand' \in [AgentTasks -> Nat] /\ byHand'[t] > byHand[t]
        /\ \A u \in AgentTasks : byHand'[u] >= byHand[u]
    BY <1>0, <2>1
  <2> QED
    BY <1>0, <1>2, <2>1, <2>2, <2>3, ListingKeeps DEF resumeTask
<1>3. CASE runReadyLoop
  <2> DEFINE l == ListedIn({"READY"})
  <2>1. /\ l \in [AgentTasks -> {"READY", "FAILED", "BLOCKED", "none"}]
        /\ \A u \in AgentTasks : l[u] = "none" \/ (l[u] = Status(u) /\ Status(u) \in {"READY", "FAILED"})
    BY DEF ListedIn
  <2> HIDE DEF l
  <2>2. /\ orchestrator' = NoWork \/ orchestrator' = [orchestrator EXCEPT !.looping = TRUE, !.listed = l]
        /\ orchestrator.at = "pick"
    BY <1>3 DEF runReadyLoop, l
  <2>3. /\ orchestrator' \in Orchestrator /\ orchestrator'.at # "invoke"
        /\ \A u \in AgentTasks : orchestrator'.listed[u] \in {l[u], "none"}
    BY <1>0, <2>1, <2>2 DEF Orchestrator
  <2> QED
    BY <1>0, <1>3, <2>1, <2>3, ListingKeeps DEF runReadyLoop
<1>4. CASE KilledWaiting
  BY <1>0, <1>4, ListingKeeps DEF KilledWaiting
<1> QED
  BY <1>1, <1>2, <1>3, <1>4

\* A retry is checked against the budget, or was asked for by hand.
LEMMA RetryKeeps ==
  ASSUME RunInv, NEW t \in AgentTasks, retryListed(t)
  PROVE  RunInv'
<1>0. /\ RunTypeOK /\ orchestrator \in Orchestrator /\ byHand \in [AgentTasks -> Nat]
      /\ NoWork \in Orchestrator /\ NoWork.at = "idle"
      /\ \A u \in AgentTasks : NoWork.listed[u] = "none"
      /\ Delisted(t) \in Orchestrator /\ Delisted(t).at = "pick"
      /\ \A u \in AgentTasks : Delisted(t).listed[u] = IF u = t THEN "none" ELSE orchestrator.listed[u]
      /\ approved \in BOOLEAN
      /\ byHand[t] \in Nat /\ task[t].attempt \in Nat /\ MaximumAttempts \in Nat
  BY OrchestratorTypes, PlanAssumption DEF RunInv, RunTypeOK, Orchestrator, Task
<1>1. /\ orchestrator.listed[t] \in {"FAILED", "BLOCKED"} /\ Status(t) # "PLANNED"
      /\ orchestrator.at = "pick" /\ UNCHANGED <<dryRun, approved, byHand>>
  BY DEF retryListed, RunInv, Ordered
<1>2. CASE UNCHANGED <<task, runStatus, runVerdict, killed>> /\ orchestrator' = Delisted(t)
  <2>1. byHand' = byHand /\ UNCHANGED <<dryRun, task, runStatus, runVerdict, approved, killed>>
    BY <1>1, <1>2
  <2>2. \A u \in AgentTasks : byHand'[u] >= byHand[u]
    BY <1>0, <2>1
  <2>3. \A u \in AgentTasks : orchestrator'.listed[u] \in {orchestrator.listed[u], "none"}
    BY <1>0, <1>2
  <2> QED
    BY <1>0, <1>2, <2>1, <2>2, <2>3, ListingKeeps
<1>3. ASSUME updateTaskState(t, "READY", "none") \/ updateTaskStateKilled(t, "READY", "none"),
             orchestrator' = [orchestrator EXCEPT !.listed[t] = "READY"] \/ orchestrator' = NoWork
      PROVE  RunInv'
  <2>1. /\ orchestrator' \in Orchestrator /\ orchestrator'.at # "invoke"
        /\ orchestrator'.listed[t] \in {"READY", "none"}
        /\ \A u \in AgentTasks : u # t => orchestrator'.listed[u] \in {orchestrator.listed[u], "none"}
    BY <1>0, <1>1, <1>3 DEF Orchestrator
  <2>2. task[t].attempt < MaximumAttempts + byHand[t]
    <3>1. CASE Status(t) = "FAILED"
      <4>1. task[t].attempt < MaximumAttempts
        BY <1>0, <1>3, <3>1 DEF updateTaskState, updateTaskStateKilled, assertTransition
      <4> QED
        BY <1>0, <4>1
    <3>2. CASE Status(t) # "FAILED"
      BY <1>1, <3>2 DEF RunInv, Budgeted, MayStart
    <3> QED
      BY <3>1, <3>2
  <2>3. byHand' = byHand /\ dryRun' = dryRun /\ approved' = approved
    BY <1>1
  <2>4. AllowedMove(t, "READY", "none")
    BY <1>0, <1>1, <2>1, <2>2, <2>3 DEF AllowedMove
  <2> QED
    BY <1>3, <2>4, MoveKeeps DEF TaskStates
<1> QED
  BY <1>2, <1>3 DEF retryListed

\* A task is started only from READY, where its budget allows it.
LEMMA ExecuteKeeps ==
  ASSUME RunInv, NEW t \in AgentTasks, executeTask(t)
  PROVE  RunInv'
<1>0. /\ RunTypeOK /\ orchestrator \in Orchestrator /\ byHand \in [AgentTasks -> Nat]
      /\ NoWork \in Orchestrator /\ NoWork.at = "idle"
      /\ \A u \in AgentTasks : NoWork.listed[u] = "none"
      /\ Delisted(t) \in Orchestrator /\ Delisted(t).at = "pick"
      /\ \A u \in AgentTasks : Delisted(t).listed[u] = IF u = t THEN "none" ELSE orchestrator.listed[u]
      /\ approved \in BOOLEAN
      /\ byHand[t] \in Nat /\ task[t].attempt \in Nat /\ MaximumAttempts \in Nat
  BY OrchestratorTypes, PlanAssumption DEF RunInv, RunTypeOK, Orchestrator, Task
<1>1. /\ orchestrator.listed[t] = "READY" /\ Status(t) # "PLANNED"
      /\ orchestrator.at = "pick" /\ UNCHANGED <<dryRun, approved, byHand>>
  BY DEF executeTask, RunInv, Ordered
<1> DEFINE invoking == [orchestrator EXCEPT !.at = "invoke", !.task = t]
<1>i. /\ invoking \in Orchestrator /\ invoking.task = t
      /\ \A u \in AgentTasks : invoking.listed[u] = orchestrator.listed[u]
  BY <1>0 DEF Orchestrator
<1> HIDE DEF invoking
<1>2. ASSUME UNCHANGED <<task, runStatus, runVerdict, killed>>,
             orchestrator' = Delisted(t) \/ orchestrator' = invoking
      PROVE  RunInv'
  <2>1. byHand' = byHand /\ UNCHANGED <<dryRun, task, runStatus, runVerdict, approved, killed>>
    BY <1>1, <1>2
  <2>2. \A u \in AgentTasks : byHand'[u] >= byHand[u]
    BY <1>0, <2>1
  <2>3. \A u \in AgentTasks : orchestrator'.listed[u] \in {orchestrator.listed[u], "none"}
    BY <1>0, <1>i, <1>2
  <2>4. orchestrator' \in Orchestrator /\ (orchestrator'.at = "invoke" => orchestrator'.task = t)
    BY <1>0, <1>i, <1>2
  <2> QED
    BY <1>0, <1>1, <2>1, <2>2, <2>3, <2>4, ListingKeeps
<1>3. ASSUME NEW next \in {"BLOCKED", "RUNNING"},
             updateTaskState(t, next, "none") \/ updateTaskStateKilled(t, next, "none"),
             next = "RUNNING" => Status(t) = "READY",
             orchestrator' = Delisted(t) \/ orchestrator' = invoking \/ orchestrator' = NoWork
      PROVE  RunInv'
  <2>1. /\ orchestrator' \in Orchestrator /\ (orchestrator'.at = "invoke" => orchestrator'.task = t)
        /\ orchestrator'.listed[t] \in {"READY", "none"}
        /\ \A u \in AgentTasks : u # t => orchestrator'.listed[u] \in {orchestrator.listed[u], "none"}
    BY <1>0, <1>1, <1>i, <1>3
  <2>2. /\ task[t].attempt <= MaximumAttempts + byHand[t]
        /\ next = "RUNNING" => task[t].attempt < MaximumAttempts + byHand[t]
    BY <1>3 DEF RunInv, Budgeted, MayStart
  <2>3. byHand' = byHand /\ dryRun' = dryRun /\ approved' = approved
    BY <1>1
  <2>4. AllowedMove(t, next, "none")
    BY <1>0, <1>1, <1>3, <2>1, <2>2, <2>3 DEF AllowedMove
  <2> QED
    BY <1>3, <2>4, MoveKeeps DEF TaskStates
<1> QED
  BY <1>2, <1>3 DEF executeTask, invoking

\* What a provider answers ends the task it was asked for; in a dry run not as a
\* success, and an approval is of a task that succeeded.
LEMMA AnswerKeeps ==
  ASSUME RunInv, NEW result \in Results, providerAnswers(result)
  PROVE  RunInv'
<1> DEFINE t == orchestrator.task
           next == terminalStatusForResult(result)
           verdict == IF next = "SUCCEEDED" THEN result.verdict ELSE "none"
<1>0. /\ RunTypeOK /\ orchestrator \in Orchestrator /\ byHand \in [AgentTasks -> Nat]
      /\ approved \in BOOLEAN /\ dryRun \in BOOLEAN /\ t \in AgentTasks
      /\ NoWork \in Orchestrator /\ NoWork.at = "idle"
      /\ \A u \in AgentTasks : NoWork.listed[u] = "none"
      /\ byHand[t] \in Nat /\ task[t].attempt \in Nat /\ MaximumAttempts \in Nat
  BY OrchestratorTypes, PlanAssumption DEF RunInv, RunTypeOK, Orchestrator, Task
<1>d. /\ Delisted(t) \in Orchestrator /\ Delisted(t).at = "pick"
      /\ \A u \in AgentTasks : Delisted(t).listed[u] = IF u = t THEN "none" ELSE orchestrator.listed[u]
  BY <1>0, OrchestratorTypes
<1>1. /\ orchestrator.at = "invoke" /\ Status(t) # "PLANNED" /\ UNCHANGED <<dryRun, byHand>>
  BY DEF providerAnswers, RunInv, Ordered
<1>r. result \in Result
  BY ResultsAssumption
<1>n. /\ next \in {"BLOCKED", "FAILED", "SIMULATED", "SUCCEEDED"}
      /\ verdict \in Verdicts \cup {"none"}
      /\ dryRun => next # "SUCCEEDED"
  BY <1>r DEF terminalStatusForResult, Result
<1>a. evaluateQualityResult(result) => ~ dryRun
  BY DEF evaluateQualityResult
<1>2. CASE UNCHANGED <<task, runStatus, runVerdict, approved, killed>> /\ orchestrator' = NoWork
  <2>1. byHand' = byHand /\ UNCHANGED <<dryRun, task, runStatus, runVerdict, approved, killed>>
    BY <1>1, <1>2
  <2>2. \A u \in AgentTasks : byHand'[u] >= byHand[u]
    BY <1>0, <2>1
  <2> QED
    BY <1>0, <1>2, <2>1, <2>2, ListingKeeps
<1>3. ASSUME updateTaskState(t, next, verdict) \/ updateTaskStateKilled(t, next, verdict),
             orchestrator' = Delisted(t) \/ orchestrator' = NoWork,
             \/ approved' = approved
             \/ approved' = (approved \/ (t = Quality /\ evaluateQualityResult(result)))
      PROVE  RunInv'
  <2>1. /\ orchestrator' \in Orchestrator /\ orchestrator'.at # "invoke"
        /\ orchestrator'.listed[t] = "none"
        /\ \A u \in AgentTasks : u # t => orchestrator'.listed[u] \in {orchestrator.listed[u], "none"}
    BY <1>0, <1>d, <1>3
  <2>2. task[t].attempt <= MaximumAttempts + byHand[t]
    BY <1>0 DEF RunInv, Budgeted
  <2>3. approved' \in BOOLEAN
    BY <1>0, <1>3
  <2>4. approved' => approved \/ (~ dryRun /\ t = Quality)
    BY <1>a, <1>3
  <2>5. byHand' = byHand /\ dryRun' = dryRun
    BY <1>1
  <2>6. dryRun => verdict = "none"
    BY <1>n
  <2> HIDE DEF t, next, verdict
  <2>7. AllowedMove(t, next, verdict)
    BY <1>0, <1>1, <1>n, <2>1, <2>2, <2>3, <2>4, <2>5, <2>6 DEF AllowedMove
  <2> QED
    BY <1>0, <1>n, <1>3, <2>7, MoveKeeps DEF TaskStates
<1> QED
  BY <1>2, <1>3 DEF providerAnswers

\* A move by hand is worth one start.
LEMMA HandKeeps ==
  ASSUME RunInv, NEW t \in AgentTasks, NEW next \in TaskStates, UpdateByHand(t, next)
  PROVE  RunInv'
<1>0. /\ RunTypeOK /\ orchestrator \in Orchestrator /\ byHand \in [AgentTasks -> Nat]
      /\ approved \in BOOLEAN
      /\ byHand[t] \in Nat /\ task[t].attempt \in Nat /\ MaximumAttempts \in Nat
  BY PlanAssumption DEF RunInv, RunTypeOK, Orchestrator, Task
<1>1. /\ UNCHANGED <<dryRun, approved, orchestrator>> /\ byHand' = [byHand EXCEPT ![t] = @ + 1]
      /\ updateTaskState(t, next, "none") \/ updateTaskStateKilled(t, next, "none")
  BY DEF UpdateByHand, ByHand
<1>2. /\ byHand' \in [AgentTasks -> Nat] /\ byHand'[t] = byHand[t] + 1
      /\ \A u \in AgentTasks : u # t => byHand'[u] = byHand[u]
  BY <1>0, <1>1
<1>3. task[t].attempt <= MaximumAttempts + byHand[t]
  BY DEF RunInv, Budgeted
<1>4. next = "RUNNING" /\ orchestrator.listed[t] \in {"FAILED", "BLOCKED"} =>
        task[t].attempt < MaximumAttempts + byHand[t]
  <2>1. next = "RUNNING" => Status(t) # "FAILED"
    <3>1. assertTransition(Status(t), next, task[t].attempt)
      BY <1>1 DEF updateTaskState, updateTaskStateKilled
    <3> QED
      BY <3>1 DEF assertTransition, TaskTransitions
  <2> QED
    BY <2>1 DEF RunInv, Budgeted, MayStart
<1>5. /\ task[t].attempt < MaximumAttempts + byHand'[t] /\ task[t].attempt <= MaximumAttempts + byHand'[t]
      /\ byHand'[t] > 0 /\ byHand'[t] >= byHand[t]
      /\ task[t].attempt < MaximumAttempts + byHand[t] => task[t].attempt + 1 < MaximumAttempts + byHand'[t]
  BY <1>0, <1>2, <1>3
<1>6. /\ orchestrator.listed[t] # "none" => Status(t) # "PLANNED"
      /\ orchestrator.at = "invoke" => Status(orchestrator.task) # "PLANNED"
  BY DEF RunInv, Ordered
<1>7. AllowedMove(t, next, "none")
  BY <1>0, <1>1, <1>2, <1>4, <1>5, <1>6 DEF AllowedMove
<1> QED
  BY <1>1, <1>7, MoveKeeps

\* However often runs are resumed, tasks retried and moved by hand, and processes
\* killed between two writes: quality approves what was done, no dry run passes
\* for a success, no task is tried too often, none is left behind.
THEOREM RunsStaySound == RunSpec => []RunsSound
<1>1. ASSUME RunInv, [RunNext]_runVars
      PROVE  RunInv'
  <2>1. CASE RunNext
    BY <1>1, <2>1, RetryKeeps, ExecuteKeeps, AnswerKeeps, HandKeeps, ResumingKeeps DEF RunNext, Orchestrate
  <2>2. CASE UNCHANGED runVars
    BY <1>1, <2>2
       DEF runVars, RunInv, RunTypeOK, Budgeted, MayStart, Ordered, Touched, NoVerdict, SuccessEnded,
           ApprovedDone, NoneLeftBehind, Status, dependencySatisfied
  <2> QED
    BY <1>1, <2>1, <2>2
<1> QED
  BY <1>1, RunInitial, RunInvSound, PTL DEF RunSpec

-----------------------------------------------------------------------------
(* Payments.                                                               *)

(***************************************************************************)
(* The invariant.  A handler that has not saved yet holds a row as it was   *)
(* when it was INITIATED, so that what it saves has its order; and it has   *)
(* taken the success from a webhook or a signature of the provider, which   *)
(* come only after the capture.                                            *)
(***************************************************************************)
WebhooksTrue == \A w \in webhooks : w.kind = "captured" => w.payment \in captured

\* What a handler is about to save is founded.
Founded(j) ==
  /\ j.seen.status = "INITIATED"
  /\ j.seen.order /\ j.payment \in orders
  /\ j.change \in {"verify", "webhookCaptured"} => j.payment \in captured

HandlersFounded == \A h \in Handlers : handler[h] # NoChange => Founded(handler[h])

PaymentInv == PaymentTypeOK /\ WebhooksTrue /\ HandlersFounded /\ RowsTellTheTruth

-----------------------------------------------------------------------------
(***************************************************************************)
(* The shapes of a step.                                                   *)
(***************************************************************************)

\* Handler h has read a row that is INITIATED, for a change that has a reason.
Reads(h, p, change) ==
  /\ row[p].status = "INITIATED"
  /\ Read(h, p, change)
  /\ change \in {"verify", "webhookCaptured"} => p \in captured
  /\ UNCHANGED <<row, orders, captured, webhooks>>

\* Something happens at the provider, or nothing that the rows or handlers see.
Outside ==
  /\ captured \subseteq captured' /\ captured' \subseteq orders
  /\ webhooks' \subseteq Webhook
  /\ \A w \in webhooks' : w \in webhooks \/ w.kind = "failed" \/ w.payment \in captured'
  /\ UNCHANGED <<row, orders, handler>>

\* A change of a row is a change of that row's type.
LEMMA ChangedType ==
  ASSUME NEW r \in PaymentRow, NEW change \in Changes
  PROVE  /\ Changed(change, r) \in PaymentRow
         /\ Changed(change, r).order = r.order
         /\ Changed(change, r).status \in {"SUCCESS", "FAILED"}
         /\ Changed(change, r).status = "FAILED" <=> Changed(change, r).failureReason
         /\ Changed(change, r).status = "SUCCESS" /\ Changed(change, r).reference = "gateway"
              => change \in {"verify", "webhookCaptured"}
<1>1. CASE change = "markSuccess"
  BY <1>1 DEF Changed, PaymentRow, PaymentStatus, Kinds
<1>2. CASE change = "markFailure"
  BY <1>2 DEF Changed, PaymentRow, PaymentStatus, Kinds
<1>3. CASE change \in {"verify", "webhookCaptured"}
  BY <1>3 DEF Changed, PaymentRow, PaymentStatus, Kinds
<1>4. CASE change = "webhookFailed"
  BY <1>4 DEF Changed, PaymentRow, PaymentStatus, Kinds
<1> QED
  BY <1>1, <1>2, <1>3, <1>4 DEF Changes

\* Every step creates a payment, is one at the provider, reads, saves or rolls back.
LEMMA PaymentShape ==
  ASSUME PaymentInv, PaymentNext
  PROVE  \/ \E p \in Payments : createInitiatedPayment(p)
         \/ Outside
         \/ \E h \in Handlers, p \in Payments, change \in Changes : Reads(h, p, change)
         \/ \E h \in Handlers : save(h) \/ Rollback(h)
<1> USE DEF PaymentInv, PaymentTypeOK
<1>1. ASSUME NEW p \in Payments, Capture(p) \/ AttemptFails(p)
      PROVE  Outside
  <2>1. [payment |-> p, kind |-> "captured"] \in Webhook /\ [payment |-> p, kind |-> "failed"] \in Webhook
    BY DEF Webhook, Kinds
  <2> QED
    BY <1>1, <2>1 DEF Capture, AttemptFails, Outside
<1>2. ASSUME NEW h \in Handlers, NEW p \in Payments, markSuccess(h, p) \/ markFailure(h, p) \/ verify(h, p)
      PROVE  \E change \in Changes : Reads(h, p, change)
  BY <1>2 DEF markSuccess, markFailure, verify, CanMarkSuccess, CanMarkFailure, Reads, Changes
<1>3. ASSUME NEW w \in Webhook, webhookWithoutEffect(w)
      PROVE  Outside
  BY <1>3 DEF webhookWithoutEffect, Answered, Outside
<1>4. ASSUME NEW h \in Handlers, NEW w \in Webhook, applyWebhookCaptured(h, w) \/ applyWebhookFailed(h, w)
      PROVE  \E p \in Payments, change \in Changes : Reads(h, p, change)
  BY <1>4 DEF applyWebhookCaptured, applyWebhookFailed, CanMarkSuccess, CanMarkFailure, Reads, Changes,
              WebhooksTrue, Webhook
<1> QED
  BY <1>1, <1>2, <1>3, <1>4 DEF PaymentNext

\* A payment begins with its order, or only its order is left.
LEMMA CreationKeeps ==
  ASSUME PaymentInv, NEW p \in Payments, createInitiatedPayment(p)
  PROVE  PaymentInv'
<1> USE DEF PaymentInv, PaymentTypeOK
<1> DEFINE r == [NoPayment EXCEPT !.status = "INITIATED", !.order = TRUE, !.gatewayStatus = "created"]
<1>1. /\ r \in PaymentRow
      /\ r.status = "INITIATED" /\ r.order /\ ~ r.failureReason
  BY DEF NoPayment, PaymentRow, PaymentStatus, Kinds
<1>2. row' = [row EXCEPT ![p] = r] \/ UNCHANGED row
  BY DEF createInitiatedPayment
<1> HIDE DEF r
<1>3. /\ orders' = orders \cup {p}
      /\ UNCHANGED <<captured, webhooks, handler>>
  BY DEF createInitiatedPayment
<1>4. PaymentTypeOK'
  BY <1>1, <1>2, <1>3
<1>5. WebhooksTrue' /\ HandlersFounded'
  BY <1>3 DEF WebhooksTrue, HandlersFounded, Founded
<1>6. RowsTellTheTruth'
  BY <1>1, <1>2, <1>3 DEF RowsTellTheTruth, SuccessWasCaptured, PayableFromTheStart
<1> QED
  BY <1>4, <1>5, <1>6

\* The provider only captures more, and tells only what it did.
LEMMA OutsideKeeps ==
  ASSUME PaymentInv, Outside
  PROVE  PaymentInv'
<1> USE DEF PaymentInv, Outside
<1>1. PaymentTypeOK'
  BY DEF PaymentTypeOK
<1>2. WebhooksTrue'
  BY DEF WebhooksTrue
<1>3. HandlersFounded'
  BY DEF HandlersFounded, Founded
<1>4. RowsTellTheTruth'
  BY DEF RowsTellTheTruth, SuccessWasCaptured, PayableFromTheStart
<1> QED
  BY <1>1, <1>2, <1>3, <1>4

\* A handler starts with a row as it is.
LEMMA ReadingKeeps ==
  ASSUME PaymentInv, NEW h \in Handlers, NEW p \in Payments, NEW change \in Changes,
         Reads(h, p, change)
  PROVE  PaymentInv'
<1> USE DEF PaymentInv
<1> DEFINE j == [change |-> change, payment |-> p, seen |-> row[p]]
<1>1. handler' = [handler EXCEPT ![h] = j] /\ UNCHANGED <<row, orders, captured, webhooks>>
  BY DEF Reads, Read
<1>2. j \in Change
  BY DEF Change, PaymentTypeOK
<1>3. Founded(j)
  BY DEF Founded, Reads, RowsTellTheTruth, PayableFromTheStart
<1> HIDE DEF j
<1>4. PaymentTypeOK'
  BY <1>1, <1>2 DEF PaymentTypeOK
<1>5. WebhooksTrue' /\ RowsTellTheTruth'
  BY <1>1 DEF WebhooksTrue, RowsTellTheTruth, SuccessWasCaptured, PayableFromTheStart
<1>6. HandlersFounded'
  <2> SUFFICES ASSUME NEW i \in Handlers, handler'[i] # NoChange, NEW k, k = handler'[i]
               PROVE  Founded(k)
    BY <1>1 DEF HandlersFounded, Founded
  <2> QED
    BY <1>1, <1>3 DEF HandlersFounded, PaymentTypeOK
<1> QED
  BY <1>4, <1>5, <1>6

\* A handler that saves leaves a row that has its order, and says paid only if it was.
LEMMA SavingKeeps ==
  ASSUME PaymentInv, NEW h \in Handlers, save(h) \/ Rollback(h)
  PROVE  PaymentInv'
<1> USE DEF PaymentInv
<1>1. /\ handler[h] # NoChange /\ handler' = [handler EXCEPT ![h] = NoChange]
      /\ UNCHANGED <<orders, captured>>
      /\ webhooks' \subseteq webhooks
  BY DEF save, Rollback, Answered
<1>2. PICK j : j = handler[h]
  OBVIOUS
<1>3. j \in Change /\ Founded(j)
  BY <1>1, <1>2 DEF PaymentTypeOK, HandlersFounded
<1>4. /\ j.payment \in Payments /\ j.seen \in PaymentRow /\ j.change \in Changes
  BY <1>3 DEF Change
<1>5. PICK r : r = Changed(j.change, j.seen)
  OBVIOUS
<1>6. /\ r \in PaymentRow
      /\ r.order
      /\ r.status = "FAILED" <=> r.failureReason
      /\ r.status = "SUCCESS" /\ r.reference = "gateway" => j.payment \in captured
  BY <1>3, <1>4, <1>5, ChangedType DEF Founded
<1>7. row' = [row EXCEPT ![j.payment] = r] \/ UNCHANGED row
  BY <1>2, <1>5 DEF save, Rollback
<1>8. PaymentTypeOK'
  BY <1>1, <1>4, <1>6, <1>7 DEF PaymentTypeOK
<1>9. WebhooksTrue'
  BY <1>1 DEF WebhooksTrue
<1>10. HandlersFounded'
  BY <1>1 DEF HandlersFounded, Founded, PaymentTypeOK
<1>11. RowsTellTheTruth'
  <2>1. j.payment \in orders
    BY <1>3 DEF Founded
  <2> QED
    BY <1>1, <1>4, <1>6, <1>7, <2>1
       DEF RowsTellTheTruth, SuccessWasCaptured, PayableFromTheStart, PaymentTypeOK
<1> QED
  BY <1>8, <1>9, <1>10, <1>11

\* The invariant holds of the empty table and is kept by every step.
LEMMA PaymentInvAlways == PaymentSpec => []PaymentInv
<1>1. PaymentInit => PaymentInv
  BY DEF PaymentInit, PaymentInv, PaymentTypeOK, WebhooksTrue, HandlersFounded, RowsTellTheTruth,
         SuccessWasCaptured, PayableFromTheStart, NoPayment, PaymentRow, PaymentStatus, Kinds
<1>2. PaymentInv /\ [PaymentNext]_paymentVars => PaymentInv'
  <2>1. ASSUME PaymentInv, UNCHANGED paymentVars
        PROVE  PaymentInv'
    BY <2>1 DEF paymentVars, PaymentInv, PaymentTypeOK, WebhooksTrue, HandlersFounded, Founded,
                RowsTellTheTruth, SuccessWasCaptured, PayableFromTheStart
  <2> QED
    BY <2>1, PaymentShape, CreationKeeps, OutsideKeeps, ReadingKeeps, SavingKeeps
<1> QED
  BY <1>1, <1>2, PTL DEF PaymentSpec

\* Rows, webhooks and handlers stay well typed, and a row has a failure reason
\* exactly if it is FAILED (Payment.markFailed).
THEOREM PaymentTypeCorrect == PaymentSpec => []PaymentTypeOK
<1>1. PaymentInv => PaymentTypeOK
  BY DEF PaymentInv
<1> QED
  BY <1>1, PaymentInvAlways, PTL

\* However handlers overlap and webhooks repeat, a payment that shows as paid through
\* the provider was captured there, and one that shows at all has its order
\* (verify, applyWebhookCaptured, createInitiatedPayment).
THEOREM PaymentRowsTrue == PaymentSpec => []RowsTellTheTruth
<1>1. PaymentInv => RowsTellTheTruth
  BY DEF PaymentInv
<1> QED
  BY <1>1, PaymentInvAlways, PTL

\* Only a handler that read a payment while it was INITIATED overwrites a final
\* status (PaymentStatusPolicy, on the row as it was read).
THEOREM PaymentFinal == PaymentSpec => FinalUnlessOverlapped
<1>1. ASSUME PaymentInv, [PaymentNext]_paymentVars, NEW p \in Payments,
             row[p].status \in {"SUCCESS", "FAILED"}, row'[p] # row[p]
      PROVE  \E h \in Handlers :
               /\ handler[h] # NoChange /\ handler'[h] = NoChange
               /\ handler[h].payment = p /\ handler[h].seen.status = "INITIATED"
  <2> USE DEF PaymentInv, PaymentTypeOK
  <2>1. ASSUME NEW q \in Payments, createInitiatedPayment(q)
        PROVE  FALSE
    BY <1>1, <2>1 DEF createInitiatedPayment
  <2>2. PICK h \in Handlers : save(h) \/ Rollback(h)
    BY <1>1, <2>1, PaymentShape DEF paymentVars, Outside, Reads
  <2>3. /\ handler[h] # NoChange /\ handler'[h] = NoChange
        /\ handler[h].payment = p
    BY <1>1, <2>2 DEF save, Rollback
  <2>4. handler[h].seen.status = "INITIATED"
    BY <1>1, <2>3 DEF HandlersFounded, Founded
  <2> QED
    BY <2>3, <2>4
<1>2. PaymentInv /\ [PaymentNext]_paymentVars =>
        [\A p \in Payments :
           row[p].status \in {"SUCCESS", "FAILED"} /\ row'[p] # row[p] =>
             \E h \in Handlers :
               /\ handler[h] # NoChange /\ handler'[h] = NoChange
               /\ handler[h].payment = p /\ handler[h].seen.status = "INITIATED"]_paymentVars
  BY <1>1
<1> QED
  BY <1>2, PaymentInvAlways, PTL DEF PaymentSpec, FinalUnlessOverlapped
-----------------------------------------------------------------------------
(* Working trees of tasks.                                                 *)

\* An integration works on the branch it looked at, a removal within what it was
\* told, unless somebody was in the main tree meanwhile.
CommandKnown ==
  /\ DOMAIN history = Branches /\ head \in Branches
  /\ command = NoCommand \/ command.at \in {"remove", "merge", "commit", "abort"}
  /\ command # NoCommand /\ command.at \in {"merge", "commit", "abort"} =>
       /\ command = [task |-> command.task, at |-> command.at, merged |-> command.merged, branch |-> command.branch]
       /\ switched \/ command.branch = head
  /\ command # NoCommand /\ command.at = "remove" /\ command.sawDirty => command.force /\ command.allowDirty

\* A merge that is half done belongs to the integration that runs.
HalfMergedIsRunning ==
  mainTree = "merging" /\ ~ switched => command # NoCommand /\ command.at \in {"commit", "abort"}

TreesTyped == tree \in [TreeTasks -> {NoTree, "clean", "dirty"}]

TreesInv == CommandKnown /\ HalfMergedIsRunning /\ TreesTyped

LEMMA TreesStep == TreesInv /\ [TreesNext]_treeVars => TreesInv'
<1> SUFFICES ASSUME TreesInv, [TreesNext]_treeVars
             PROVE  TreesInv'
  OBVIOUS
<1>0. TreesTyped'
  <2>1. ASSUME NEW t \in TreeTasks, createTaskWorktree(t) \/ AgentWrites(t) \/ AgentCommits(t)
        PROVE  TreesTyped'
    BY <2>1 DEF createTaskWorktree, AgentWrites, AgentCommits, TreesInv, TreesTyped
  <2>2. CASE worktreeRemove
    <3>1. tree' = tree \/ tree' = [tree EXCEPT ![command.task] = NoTree]
      BY <2>2 DEF worktreeRemove
    <3> QED
      BY <3>1 DEF TreesInv, TreesTyped
  <2>3. CASE UNCHANGED tree
    BY <2>3 DEF TreesInv, TreesTyped
  <2> QED
    BY <2>1, <2>2, <2>3 DEF TreesNext, cleanupTaskWorktree, integrateTaskResult, mergeBranch, commitMerge,
       KilledIntegrating, PeopleWork, treeVars
<1> USE <1>0 DEF TreesInv, CommandKnown, HalfMergedIsRunning
<1>1. ASSUME NEW t \in TreeTasks, createTaskWorktree(t) \/ AgentWrites(t) \/ AgentCommits(t)
      PROVE  TreesInv'
  BY <1>1 DEF createTaskWorktree, AgentWrites, AgentCommits
<1>2. ASSUME NEW t \in TreeTasks, NEW force \in BOOLEAN, NEW allowDirty \in BOOLEAN,
             cleanupTaskWorktree(t, force, allowDirty)
      PROVE  TreesInv'
  <2>1. /\ command = NoCommand /\ command'.at = "remove" /\ command'.sawDirty = (tree[t] = "dirty")
        /\ command'.force = force /\ command'.allowDirty = allowDirty
        /\ tree[t] = "dirty" => force /\ allowDirty
        /\ UNCHANGED <<head, mainTree, history, switched>>
    BY <1>2 DEF cleanupTaskWorktree, refusesDirty
  <2> QED
    BY <2>1
<1>3. CASE worktreeRemove
  BY <1>3 DEF worktreeRemove
<1>4. ASSUME NEW t \in TreeTasks, NEW target \in Branches \union {"any"}, integrateTaskResult(t, target)
      PROVE  TreesInv'
  <2>1. CASE UNCHANGED <<command, switched>>
    BY <1>4, <2>1 DEF integrateTaskResult
  <2>2. CASE ~ UNCHANGED <<command, switched>>
    <3>1. /\ command' = [task |-> t, at |-> "merge", merged |-> {}, branch |-> head]
          /\ mainTree = "clean"
          /\ UNCHANGED <<head, mainTree, history, taskBranch, tree>>
      BY <1>4, <2>2 DEF integrateTaskResult, onTarget, mainIsClean
    <3> QED
      BY <3>1
  <2> QED
    BY <2>1, <2>2
<1>5. CASE mergeBranch
  <2>1. /\ command # NoCommand /\ command.at = "merge" /\ command'.at \in {"commit", "abort"}
        /\ command' = [task |-> command.task, at |-> command'.at, merged |-> command'.merged, branch |-> command.branch]
        /\ UNCHANGED <<head, history, switched>>
    BY <1>5 DEF mergeBranch
  <2>2. command' # NoCommand
    BY <2>1 DEF NoCommand
  <2> QED
    BY <2>1, <2>2
<1>6. CASE commitMerge
  <2>1. mainTree' # "merging"
    BY <1>6 DEF commitMerge, mergeAbort, MergeOver
  <2>2. command' = NoCommand /\ DOMAIN history' = Branches /\ head' = head
    BY <1>6 DEF commitMerge, NotIntegrated
  <2> QED
    BY <2>1, <2>2
<1>7. CASE KilledIntegrating
  BY <1>7 DEF KilledIntegrating
<1>8. CASE PeopleWork
  BY <1>8 DEF PeopleWork
<1>9. CASE UNCHANGED treeVars
  BY <1>9 DEF treeVars
<1> QED
  BY <1>1, <1>2, <1>3, <1>4, <1>5, <1>6, <1>7, <1>8, <1>9 DEF TreesNext

\* An integration that says ok put what it merged where it was asked to, no integration
\* leaves a merge half done, and work that was not committed is removed only by force
\* (integrateTaskResult, cleanupTaskWorktree), for any tasks and branches, whatever the
\* agents and the people in the main tree do meanwhile.
THEOREM TreesStaySound == TreesSpec => TreesSound
<1>1. TreesInit => TreesInv
  BY DEF TreesInit, TreesInv, CommandKnown, HalfMergedIsRunning, TreesTyped
<1> DEFINE Kept == NothingHalfMerged' /\ IntegratedWhereAsked /\ OnlyForcedLoss
<1>2. TreesInv /\ TreesInv' /\ [TreesNext]_treeVars => [Kept]_treeVars
  <2> SUFFICES ASSUME TreesInv, TreesInv', TreesNext
               PROVE  Kept
    OBVIOUS
  <2>1. NothingHalfMerged'
    BY DEF TreesInv, HalfMergedIsRunning, NothingHalfMerged
  <2>2. IntegratedWhereAsked
    <3> SUFFICES ASSUME history' # history, ~ switched
                 PROVE  command.merged \subseteq history'[command.branch]
      BY DEF IntegratedWhereAsked
    <3>1. /\ command # NoCommand /\ command.at = "commit"
          /\ history' = [history EXCEPT ![head] = @ \union command.merged]
      BY DEF TreesNext, createTaskWorktree, AgentWrites, AgentCommits, cleanupTaskWorktree, worktreeRemove,
             integrateTaskResult, mergeBranch, commitMerge, NotIntegrated, KilledIntegrating, PeopleWork
    <3> QED
      BY <3>1 DEF TreesInv, CommandKnown
  <2>3. OnlyForcedLoss
    <3> SUFFICES ASSUME NEW t \in TreeTasks, tree[t] = "dirty", tree'[t] = NoTree
                 PROVE  command.force /\ (command.sawDirty => command.allowDirty)
      BY DEF OnlyForcedLoss
    <3>1. CASE worktreeRemove
      <4>1. command # NoCommand /\ command.at = "remove"
            /\ (tree' = tree \/ (tree' = [tree EXCEPT ![command.task] = NoTree]
                                /\ (tree[command.task] # "dirty" \/ command.force)))
        BY <3>1 DEF worktreeRemove, flag
      <4>2. command.task = t /\ command.force
        BY <4>1 DEF TreesInv, TreesTyped, NoTree
      <4> QED
        BY <4>1, <4>2 DEF TreesInv, CommandKnown
    <3>2. CASE ~ worktreeRemove
      <4>1. \/ UNCHANGED tree
            \/ \E u \in TreeTasks : tree' = [tree EXCEPT ![u] = "clean"] \/ tree' = [tree EXCEPT ![u] = "dirty"]
        BY <3>2 DEF TreesNext, createTaskWorktree, AgentWrites, AgentCommits, cleanupTaskWorktree,
               integrateTaskResult, mergeBranch, commitMerge, KilledIntegrating, PeopleWork
      <4> QED
        BY <4>1 DEF TreesInv, TreesTyped, NoTree
    <3> QED
      BY <3>1, <3>2
  <2> QED
    BY <2>1, <2>2, <2>3
<1> QED
  BY <1>1, <1>2, TreesStep, PTL DEF TreesSpec, TreesSound

-----------------------------------------------------------------------------
(* Plans                                                                    *)

\* A set of numbers that is not empty has a least one: of the intervals from 0 to its
\* members, which are finite sets, one contains none of the others.
LEMMA LeastNumber ==
  ASSUME NEW T \in SUBSET Nat, T # {}
  PROVE  \E n \in T : \A m \in T : n <= m
<1> DEFINE U == {0 .. n : n \in T}
<1>1. U \subseteq FiniteSubsetsOf(Nat) /\ U # {}
  <2>1. \A n \in T : IsFiniteSet(0 .. n) /\ 0 .. n \subseteq Nat
    BY FS_Interval
  <2>2. \A n \in T : 0 .. n \in FiniteSubsetsOf(Nat)
    BY <2>1 DEF FiniteSubsetsOf
  <2>3. PICK n \in T : TRUE
    OBVIOUS
  <2> QED BY <2>2, <2>3
<1>2. PICK u \in U : \A w \in U : <<w, u>> \notin StrictSubsetOrdering(Nat)
  <2> HIDE DEF U
  <2> QED BY <1>1, FS_StrictSubsetOrderingWellFounded, WFMin, Zenon
<1>3. PICK n \in T : u = 0 .. n
  OBVIOUS
<1>4. ASSUME NEW m \in T, m < n PROVE FALSE
  <2>1. 0 .. m \in U
    OBVIOUS
  <2>2. 0 .. m \subseteq 0 .. n /\ n \in 0 .. n /\ n \notin 0 .. m
    BY <1>4
  <2>3. 0 .. m \in FiniteSubsetsOf(Nat) /\ 0 .. n \in FiniteSubsetsOf(Nat)
    BY <1>1
  <2>4. <<0 .. m, 0 .. n>> \in StrictSubsetOrdering(Nat)
    BY <2>2, <2>3 DEF StrictSubsetOrdering
  <2> HIDE DEF U
  <2> QED BY <1>2, <1>3, <2>1, <2>4, Zenon
<1> QED BY <1>3, <1>4

\* A set that has 0 and the successor of each of its members has every number.
LEMMA EveryNumber ==
  ASSUME NEW S \in SUBSET Nat, 0 \in S, \A n \in S : n + 1 \in S
  PROVE  S = Nat
<1> SUFFICES ASSUME S # Nat PROVE FALSE
  OBVIOUS
<1>1. PICK n \in Nat \ S : \A m \in Nat \ S : n <= m
  BY LeastNumber
<1> QED BY <1>1

\* What a step makes of x, up to N times.
Iterated(V, x, N, G) == \E g \in [0 .. N -> V] : g[0] = x /\ \A n \in 1 .. N : g[n] = G[<<n, g[n - 1]>>]

\* A step that leads from values to values can be taken any number of times.
LEMMA Iterates ==
  ASSUME NEW V, NEW x \in V, NEW N \in Nat, NEW G \in [(1 .. N) \X V -> V]
  PROVE  Iterated(V, x, N, G)
<1> DEFINE Upto(k) == \E g \in [0 .. k -> V] : g[0] = x /\ \A n \in 1 .. k : g[n] = G[<<n, g[n - 1]>>]
<1> DEFINE S == {k \in Nat : k <= N => Upto(k)}
<1>1. 0 \in S
  <2>1. [m \in 0 .. 0 |-> x] \in [0 .. 0 -> V] /\ [m \in 0 .. 0 |-> x][0] = x
    OBVIOUS
  <2>2. \A n \in 1 .. 0 : [m \in 0 .. 0 |-> x][n] = G[<<n, [m \in 0 .. 0 |-> x][n - 1]>>]
    OBVIOUS
  <2>3. Upto(0)
    BY <2>1, <2>2
  <2> HIDE DEF Upto
  <2> QED BY <2>3
<1>2. ASSUME NEW k \in S PROVE k + 1 \in S
  <2> SUFFICES ASSUME k + 1 <= N PROVE Upto(k + 1)
    OBVIOUS
  <2>1. PICK g \in [0 .. k -> V] : g[0] = x /\ \A n \in 1 .. k : g[n] = G[<<n, g[n - 1]>>]
    OBVIOUS
  <2> DEFINE h == [n \in 0 .. k + 1 |-> IF n = k + 1 THEN G[<<k + 1, g[k]>>] ELSE g[n]]
  <2>2. G[<<k + 1, g[k]>>] \in V
    <3>1. g[k] \in V /\ k + 1 \in 1 .. N
      OBVIOUS
    <3>2. <<k + 1, g[k]>> \in (1 .. N) \X V
      BY <3>1
    <3> QED BY <3>2
  <2>3. h \in [0 .. k + 1 -> V]
    BY <2>2
  <2>4. h[0] = x
    BY <2>1
  <2>5. ASSUME NEW n \in 1 .. k + 1 PROVE h[n] = G[<<n, h[n - 1]>>]
    <3>1. CASE n = k + 1
      <4>1. h[n] = G[<<k + 1, g[k]>>] /\ h[n - 1] = g[k]
        BY <3>1
      <4> QED BY <3>1, <4>1
    <3>2. CASE n # k + 1
      <4>1. n \in 1 .. k /\ h[n] = g[n] /\ h[n - 1] = g[n - 1]
        BY <3>2
      <4> QED BY <2>1, <4>1
    <3> QED BY <3>1, <3>2
  <2> QED BY <2>3, <2>4, <2>5
<1>3. S = Nat
  <2> HIDE DEF S
  <2>1. S \in SUBSET Nat
    BY DEF S
  <2> QED BY <1>1, <1>2, <2>1, EveryNumber
<1>4. Upto(N)
  <2> HIDE DEF Upto
  <2>1. N \in S
    BY <1>3
  <2> QED BY <2>1
<1> QED BY <1>4 DEF Iterated

\* Tasks, in groups that run one after the other.
Groups == Seq(Seq(Agents))

\* The task is at one place only.
Once(groups, t, i, j) ==
  \A k \in DOMAIN groups : \A l \in DOMAIN groups[k] : groups[k][l] = t <=> k = i /\ l = j

\* The groups have the tasks, each once.
Holds(groups, tasks) ==
  /\ groups \in Groups
  /\ \A i \in DOMAIN groups : \A j \in DOMAIN groups[i] : groups[i][j] \in tasks
  /\ \A t \in tasks : \E i \in DOMAIN groups : \E j \in DOMAIN groups[i] : Once(groups, t, i, j)

\* No two tasks of one group have scopes that overlap.
Apart(groups) ==
  \A i \in DOMAIN groups : \A j, l \in DOMAIN groups[i] :
    j # l => ~ writesOverlap(groups[i][j], groups[i][l])

\* It does not matter which of two tasks is asked.
LEMMA OverlapSymmetric ==
  ASSUME NEW a, NEW b, writesOverlap(a, b) PROVE writesOverlap(b, a)
BY DEF writesOverlap, scopesOverlap

\* A task gets a group of its own, or joins one where it overlaps with nobody.
LEMMA PlaceCases ==
  ASSUME NEW groups \in Groups, NEW added \in Agents
  PROVE  \/ place(groups, added) = Append(groups, <<added>>)
         \/ \E i \in DOMAIN groups :
              /\ \A j \in DOMAIN groups[i] : ~ writesOverlap(groups[i][j], added)
              /\ place(groups, added) = [groups EXCEPT ![i] = Append(groups[i], added)]
<1> DEFINE fits == firstFit(groups, added)
<1>1. CASE fits = {}
  BY <1>1 DEF place
<1>2. CASE fits # {}
  <2>1. fits \in SUBSET Nat
    BY DEF firstFit, Groups
  <2>2. \E i \in fits : \A j \in fits : i <= j
    <3> HIDE DEF fits
    <3> QED BY <1>2, <2>1, LeastNumber
  <2> DEFINE i == CHOOSE k \in fits : \A j \in fits : k <= j
  <2>3. i \in fits
    BY <2>2
  <2>4. i \in DOMAIN groups /\ \A j \in DOMAIN groups[i] : ~ writesOverlap(groups[i][j], added)
    BY <2>3 DEF firstFit
  <2>5. place(groups, added) = [groups EXCEPT ![i] = Append(groups[i], added)]
    BY <1>2 DEF place
  <2> HIDE DEF i
  <2> QED BY <2>4, <2>5
<1> QED BY <1>1, <1>2

\* Either way the groups have it too, and stay apart.
LEMMA PlaceHolds ==
  ASSUME NEW groups, NEW tasks, Holds(groups, tasks), Apart(groups), NEW added \in Agents, added \notin tasks
  PROVE  Holds(place(groups, added), tasks \union {added}) /\ Apart(place(groups, added))
<1> DEFINE new == place(groups, added)
<1>0. groups \in Seq(Seq(Agents)) /\ <<added>> \in Seq(Agents)
  BY DEF Holds, Groups
<1>t. \A i \in DOMAIN groups : \A j \in DOMAIN groups[i] : groups[i][j] # added
  BY DEF Holds
<1>1. CASE new = Append(groups, <<added>>)
  <2> DEFINE n == Len(groups) + 1
  <2>1. /\ new \in Seq(Seq(Agents)) /\ DOMAIN new = 1 .. n
        /\ DOMAIN groups = 1 .. Len(groups) /\ Len(groups) \in Nat
    BY <1>0, <1>1
  <2>2. \A i \in DOMAIN groups : i \in DOMAIN new /\ i # n /\ new[i] = groups[i]
    BY <1>0, <1>1, <2>1
  <2>3. n \in DOMAIN new /\ new[n] = <<added>> /\ DOMAIN new[n] = {1} /\ new[n][1] = added
    BY <1>0, <1>1, <2>1
  <2>4. \A i \in DOMAIN new : i = n \/ i \in DOMAIN groups
    BY <2>1
  <2> HIDE DEF new, n
  <2>5. \A i \in DOMAIN new : \A j \in DOMAIN new[i] : new[i][j] \in tasks \union {added}
    BY <2>2, <2>3, <2>4 DEF Holds
  <2>6. ASSUME NEW t \in tasks PROVE \E i \in DOMAIN new : \E j \in DOMAIN new[i] : Once(new, t, i, j)
    <3>a. PICK i \in DOMAIN groups : \E j \in DOMAIN groups[i] : Once(groups, t, i, j)
      BY DEF Holds
    <3>1. PICK j \in DOMAIN groups[i] : Once(groups, t, i, j)
      BY <3>a
    <3>2. Once(new, t, i, j)
      BY <2>2, <2>3, <2>4, <3>1 DEF Once
    <3> QED BY <2>2, <3>2
  <2>7. Once(new, added, n, 1)
    BY <1>t, <2>2, <2>3, <2>4 DEF Once
  <2>8. Holds(new, tasks \union {added})
    BY <2>1, <2>3, <2>5, <2>6, <2>7 DEF Holds, Groups
  <2>9. Apart(new)
    BY <2>2, <2>3, <2>4 DEF Apart
  <2> QED BY <2>8, <2>9 DEF new
<1>2. CASE \E i \in DOMAIN groups :
             /\ \A j \in DOMAIN groups[i] : ~ writesOverlap(groups[i][j], added)
             /\ new = [groups EXCEPT ![i] = Append(groups[i], added)]
  <2> HIDE DEF new
  <2>1. PICK g \in DOMAIN groups :
          /\ \A j \in DOMAIN groups[g] : ~ writesOverlap(groups[g][j], added)
          /\ new = [groups EXCEPT ![g] = Append(groups[g], added)]
    BY <1>2
  <2> DEFINE n == Len(groups[g]) + 1
  <2>2. groups[g] \in Seq(Agents)
    BY <1>0
  <2>3. Append(groups[g], added) \in Seq(Agents) /\ DOMAIN Append(groups[g], added) = 1 .. n
        /\ DOMAIN groups[g] = 1 .. n - 1 /\ n \in Nat
    BY <2>2
  <2>4. DOMAIN new = DOMAIN groups /\ new \in Seq(Seq(Agents))
    BY <1>0, <2>1, <2>3
  <2>5. \A i \in DOMAIN groups : i # g => new[i] = groups[i]
    BY <2>1
  <2>6. new[g] = Append(groups[g], added)
    BY <2>1
  <2>7. /\ DOMAIN new[g] = 1 .. n /\ new[g][n] = added
        /\ \A j \in DOMAIN groups[g] : j \in 1 .. n /\ j # n /\ new[g][j] = groups[g][j]
    BY <2>2, <2>3, <2>6
  <2>8. \A j \in 1 .. n : j = n \/ j \in DOMAIN groups[g]
    BY <2>3
  <2>k. n \in 1 .. n
    BY <2>3
  <2> HIDE DEF n
  <2>9. \A i \in DOMAIN new : \A j \in DOMAIN new[i] : new[i][j] \in tasks \union {added}
    BY <2>4, <2>5, <2>7, <2>8 DEF Holds
  <2>10. ASSUME NEW t \in tasks PROVE \E i \in DOMAIN new : \E j \in DOMAIN new[i] : Once(new, t, i, j)
    <3>a. PICK i \in DOMAIN groups : \E j \in DOMAIN groups[i] : Once(groups, t, i, j)
      BY DEF Holds
    <3>1. PICK j \in DOMAIN groups[i] : Once(groups, t, i, j)
      BY <3>a
    <3>2. j \in DOMAIN new[i]
      BY <2>5, <2>7, <3>1
    <3>3. Once(new, t, i, j)
      <4>1. \A k \in DOMAIN new : \A l \in DOMAIN new[k] : k # g => (new[k][l] = t <=> k = i /\ l = j)
        BY <2>4, <2>5, <3>1 DEF Once
      <4>2. \A l \in DOMAIN new[g] : l # n => (new[g][l] = t <=> g = i /\ l = j)
        BY <2>7, <2>8, <3>1 DEF Once
      <4>3. new[g][n] # t /\ ~ (g = i /\ n = j)
        BY <2>7, <2>3
      <4> QED BY <4>1, <4>2, <4>3, <2>7 DEF Once
    <3> QED BY <2>4, <3>2, <3>3
  <2>11. Once(new, added, g, n)
    BY <1>t, <2>4, <2>5, <2>7, <2>8 DEF Once
  <2>12. Holds(new, tasks \union {added})
    BY <2>4, <2>7, <2>k, <2>9, <2>10, <2>11 DEF Holds, Groups
  <2>13. Apart(new)
    <3> SUFFICES ASSUME NEW i \in DOMAIN new, NEW j \in DOMAIN new[i], NEW l \in DOMAIN new[i], j # l
                 PROVE  ~ writesOverlap(new[i][j], new[i][l])
      BY DEF Apart
    <3>1. CASE i # g
      BY <2>4, <2>5, <3>1 DEF Apart
    <3>2. CASE i = g
      <4>1. CASE j # n /\ l # n
        BY <2>1, <2>7, <2>8, <3>2, <4>1 DEF Apart
      <4>2. CASE l = n
        BY <2>1, <2>7, <2>8, <3>2, <4>2
      <4>3. CASE j = n
        <5>1. ~ writesOverlap(new[i][l], new[i][j])
          BY <2>1, <2>7, <2>8, <3>2, <4>3
        <5> QED BY <5>1, OverlapSymmetric
      <4> QED BY <4>1, <4>2, <4>3
    <3> QED BY <3>1, <3>2
  <2> QED BY <2>12, <2>13 DEF new
<1> QED BY <1>1, <1>2, PlaceCases DEF Holds

\* The tasks in the order they are placed, each once.
LEMMA TaskOrder ==
  /\ Len(orderHints) = 12
  /\ \A n \in 1 .. 12 : orderHints[n] \in Agents
  /\ \A m, n \in 1 .. 12 : orderHints[m] = orderHints[n] => m = n
  /\ \A a \in Agents : \E n \in 1 .. 12 : orderHints[n] = a
<1>1. Len(orderHints) = 12
  BY DEF orderHints
<1>2. \A n \in 1 .. 12 : n \in {1, 2, 3, 4, 5, 6, 7, 8, 9, 10, 11, 12}
  OBVIOUS
<1>3. /\ orderHints[1] = "orchestrator" /\ orderHints[2] = "database" /\ orderHints[3] = "security"
      /\ orderHints[4] = "core-api" /\ orderHints[5] = "experience" /\ orderHints[6] = "payments"
      /\ orderHints[7] = "devops" /\ orderHints[8] = "documentation" /\ orderHints[9] = "events-iot"
      /\ orderHints[10] = "performance" /\ orderHints[11] = "testing" /\ orderHints[12] = "quality"
  BY DEF orderHints
<1>4. \A n \in 1 .. 12 : orderHints[n] \in Agents
  BY <1>2, <1>3 DEF Agents
<1>5. \A a \in Agents : \E n \in 1 .. 12 : orderHints[n] = a
  BY <1>3 DEF Agents
<1>6. ASSUME NEW m \in 1 .. 12, NEW n \in 1 .. 12, orderHints[m] = orderHints[n] PROVE m = n
  BY <1>2, <1>3, <1>6
<1> QED BY <1>1, <1>4, <1>5, <1>6

\* Placing a task leaves groups of tasks.
LEMMA PlaceIsGroups ==
  ASSUME NEW groups \in Groups, NEW added \in Agents PROVE place(groups, added) \in Groups
<1>1. ASSUME place(groups, added) = Append(groups, <<added>>) PROVE place(groups, added) \in Groups
  BY <1>1 DEF Groups
<1>2. ASSUME NEW i \in DOMAIN groups, place(groups, added) = [groups EXCEPT ![i] = Append(groups[i], added)]
      PROVE  place(groups, added) \in Groups
  <2>1. Append(groups[i], added) \in Seq(Agents)
    BY DEF Groups
  <2> QED BY <1>2, <2>1 DEF Groups
<1> QED BY <1>1, <1>2, PlaceCases

\* The groups of the first n ready tasks, for every n.
Placed(ready, placed) ==
  placed = [n \in 0 .. Len(orderHints) |->
              IF n = 0 THEN <<>>
              ELSE IF orderHints[n] \in ready THEN place(placed[n - 1], orderHints[n])
              ELSE placed[n - 1]]

\* There are such groups.
LEMMA PlacedExists ==
  ASSUME NEW ready
  PROVE  \E placed : Placed(ready, placed)
<1> DEFINE G == [p \in (1 .. 12) \X Groups |->
                   IF orderHints[p[1]] \in ready THEN place(p[2], orderHints[p[1]]) ELSE p[2]]
<1>1. ASSUME NEW p \in (1 .. 12) \X Groups PROVE G[p] \in Groups
  <2>1. p[1] \in 1 .. 12 /\ p[2] \in Groups
    OBVIOUS
  <2>2. orderHints[p[1]] \in Agents
    BY <2>1, TaskOrder
  <2> QED BY <2>1, <2>2, PlaceIsGroups
<1>2. G \in [(1 .. 12) \X Groups -> Groups]
  BY <1>1
<1>3. <<>> \in Groups /\ 12 \in Nat
  BY DEF Groups
<1>4. Iterated(Groups, <<>>, 12, G)
  <2> HIDE DEF G
  <2> QED BY <1>2, <1>3, Iterates
<1>5. PICK g \in [0 .. 12 -> Groups] : g[0] = <<>> /\ \A n \in 1 .. 12 : g[n] = G[<<n, g[n - 1]>>]
  BY <1>4 DEF Iterated
<1>6. ASSUME NEW n \in 1 .. 12
      PROVE  g[n] = IF orderHints[n] \in ready THEN place(g[n - 1], orderHints[n]) ELSE g[n - 1]
  <2>1. g[n - 1] \in Groups /\ g[n] = G[<<n, g[n - 1]>>]
    BY <1>5
  <2>2. <<n, g[n - 1]>> \in (1 .. 12) \X Groups
    BY <2>1
  <2> QED BY <2>1, <2>2
<1>7. g = [n \in 0 .. 12 |->
              IF n = 0 THEN <<>>
              ELSE IF orderHints[n] \in ready THEN place(g[n - 1], orderHints[n])
              ELSE g[n - 1]]
  <2> HIDE DEF G
  <2>1. \A n \in 0 .. 12 : n = 0 \/ n \in 1 .. 12
    OBVIOUS
  <2> QED BY <1>5, <1>6, <2>1
<1>8. Len(orderHints) = 12
  BY TaskOrder
<1>9. Placed(ready, g)
  BY <1>7, <1>8 DEF Placed
<1> QED BY <1>9

\* All that are ready are placed, and apart.
LEMMA PartitionHolds ==
  ASSUME NEW ready \in SUBSET Agents
  PROVE  Holds(partitionParallelSafe(ready), ready) /\ Apart(partitionParallelSafe(ready))
<1> DEFINE placed == CHOOSE p : Placed(ready, p)
<1> DEFINE First(n) == {t \in ready : \E m \in 1 .. n : orderHints[m] = t}
<1> DEFINE S == {n \in Nat : n <= 12 => Holds(placed[n], First(n)) /\ Apart(placed[n])}
<1>1. Placed(ready, placed)
  <2>1. \E p : Placed(ready, p)
    BY PlacedExists
  <2> QED BY <2>1
<1>2. partitionParallelSafe(ready) = placed[12]
  BY TaskOrder DEF partitionParallelSafe, Placed
<1>3. /\ placed[0] = <<>>
      /\ \A n \in 1 .. 12 : placed[n] = IF orderHints[n] \in ready THEN place(placed[n - 1], orderHints[n])
                                        ELSE placed[n - 1]
  <2> HIDE DEF placed
  <2> QED BY <1>1, TaskOrder DEF Placed
<1> HIDE DEF placed
<1>4. 0 \in S
  <2>1. Holds(<<>>, {}) /\ Apart(<<>>)
    BY DEF Holds, Apart, Groups
  <2>2. First(0) = {}
    OBVIOUS
  <2> HIDE DEF First
  <2> QED BY <1>3, <2>1, <2>2
<1>5. ASSUME NEW n \in S PROVE n + 1 \in S
  <2> SUFFICES ASSUME n + 1 <= 12 PROVE Holds(placed[n + 1], First(n + 1)) /\ Apart(placed[n + 1])
    OBVIOUS
  <2>1. Holds(placed[n], First(n)) /\ Apart(placed[n])
    OBVIOUS
  <2>2. n + 1 \in 1 .. 12 /\ (n + 1) - 1 = n
    OBVIOUS
  <2>3. placed[n + 1] = IF orderHints[n + 1] \in ready THEN place(placed[n], orderHints[n + 1]) ELSE placed[n]
    BY <1>3, <2>2
  <2>4. \A m \in 1 .. n + 1 : m = n + 1 \/ m \in 1 .. n
    OBVIOUS
  <2>5. n + 1 \in 1 .. n + 1 /\ \A m \in 1 .. n : m \in 1 .. n + 1 /\ m # n + 1 /\ m \in 1 .. 12
    OBVIOUS
  <2>6. orderHints[n + 1] \in Agents /\ orderHints[n + 1] \notin First(n)
    BY <2>2, <2>5, TaskOrder
  <2>7. CASE orderHints[n + 1] \in ready
    <3>1. First(n + 1) = First(n) \union {orderHints[n + 1]}
      BY <2>4, <2>5, <2>7
    <3> HIDE DEF First
    <3> QED BY <2>1, <2>3, <2>6, <2>7, <3>1, PlaceHolds
  <2>8. CASE orderHints[n + 1] \notin ready
    <3>1. First(n + 1) = First(n)
      BY <2>4, <2>5, <2>8
    <3> HIDE DEF First
    <3> QED BY <2>1, <2>3, <2>8, <3>1
  <2> QED BY <2>7, <2>8
<1>6. S = Nat
  <2>1. S \in SUBSET Nat
    OBVIOUS
  <2> HIDE DEF S
  <2> QED BY <1>4, <1>5, <2>1, EveryNumber
<1>7. 12 \in S
  BY <1>6
<1>8. First(12) = ready
  BY TaskOrder
<1> QED BY <1>2, <1>7, <1>8

\* Every change has the orchestrator and quality.
Crewed(active) == active \in SUBSET Agents /\ "orchestrator" \in active /\ "quality" \in active

\* A task waits for tasks of the same plan.
LEMMA DependenciesActive ==
  ASSUME NEW active, Crewed(active), NEW files, NEW t \in active
  PROVE  dependencies(t, active, files) \subseteq active
<1>1. CASE t = "orchestrator"
  BY <1>1 DEF dependencies
<1>2. CASE t = "testing"
  BY <1>2 DEF dependencies, testingDependencies, Implementers, Crewed
<1>3. CASE t = "quality"
  BY <1>3 DEF dependencies, Crewed
<1>4. CASE t \notin {"orchestrator", "testing", "quality"}
  BY <1>4 DEF dependencies, Crewed, Set
<1> QED BY <1>1, <1>2, <1>3, <1>4

\* No tasks wait for each other in a circle: while some are left, one of them waits for
\* none that is left.
LEMMA SomethingReady ==
  ASSUME NEW active, Crewed(active), NEW files, NEW done \in SUBSET active, done # active
  PROVE  \E t \in active \ done : dependencies(t, active, files) \subseteq done
<1>1. CASE "orchestrator" \notin done
  <2>1. dependencies("orchestrator", active, files) = {}
    BY DEF dependencies
  <2> QED BY <1>1, <2>1 DEF Crewed
<1>2. CASE /\ "orchestrator" \in done
           /\ \E t \in {"database", "security"} : t \in active \ done
  <2>1. PICK t \in {"database", "security"} : t \in active \ done
    BY <1>2
  <2>2. dependencies(t, active, files) = {"orchestrator"}
    BY <2>1 DEF dependencies, Set
  <2> QED BY <1>2, <2>1, <2>2
<1>3. CASE /\ "orchestrator" \in done
           /\ \A t \in {"database", "security"} : t \notin active \ done
           /\ \E t \in Implementers(active) : t \notin done
  <2>1. PICK t \in Implementers(active) : t \notin done
    BY <1>3
  <2>2. dependencies(t, active, files) \subseteq {"orchestrator"} \union ({"database", "security"} \cap active)
    BY <2>1 DEF dependencies, Set, Implementers
  <2> QED BY <1>3, <2>1, <2>2 DEF Implementers
<1>4. CASE /\ "orchestrator" \in done
           /\ \A t \in Implementers(active) : t \in done
           /\ "testing" \in active \ done
  <2>1. dependencies("testing", active, files) \subseteq {"orchestrator"} \union Implementers(active)
    BY DEF dependencies, testingDependencies
  <2> QED BY <1>4, <2>1
<1>5. CASE /\ "orchestrator" \in done
           /\ \A t \in Implementers(active) : t \in done
           /\ "testing" \notin active \ done
  <2>1. \A t \in active : t # "quality" => t \in done
    BY <1>5 DEF Implementers
  <2>2. "quality" \in active \ done
    BY <2>1 DEF Crewed
  <2>3. dependencies("quality", active, files) \subseteq active \ {"quality"}
    <3>1. CASE "testing" \in active
      BY <3>1 DEF dependencies
    <3>2. CASE "testing" \notin active
      BY <3>2 DEF dependencies
    <3> QED BY <3>1, <3>2
  <2> QED BY <2>1, <2>2, <2>3
<1> QED BY <1>1, <1>2, <1>3, <1>4, <1>5

\* Two sequences of groups, one after the other: each place in them is a place in one.
Joined(A, B, S, T) ==
  /\ Holds(A \o B, S \union T)
  /\ Apart(A \o B)
  /\ DOMAIN A = 1 .. Len(A) /\ Len(A) \in Nat
  /\ \A i \in DOMAIN A : i \in DOMAIN (A \o B) /\ (A \o B)[i] = A[i]
  /\ \A i \in DOMAIN (A \o B) :
       i \in DOMAIN A \/ (i > Len(A) /\ i - Len(A) \in DOMAIN B /\ (A \o B)[i] = B[i - Len(A)])

\* Their tasks are those of both, and no group changes.
LEMMA TwoParts ==
  ASSUME NEW A, NEW B, NEW S, NEW T, Holds(A, S), Apart(A), Holds(B, T), Apart(B), S \cap T = {}
  PROVE  Joined(A, B, S, T)
<1> DEFINE C == A \o B
<1>1. A \in Seq(Seq(Agents)) /\ B \in Seq(Seq(Agents))
  BY DEF Holds, Groups
<1> DEFINE n == Len(A)
<1>2. n \in Nat /\ DOMAIN A = 1 .. n /\ DOMAIN B = 1 .. Len(B) /\ Len(B) \in Nat /\ DOMAIN C = 1 .. n + Len(B)
  BY <1>1
<1>3. C \in Seq(Seq(Agents))
  BY <1>1
<1>4. \A i \in DOMAIN A : i \in Int /\ i <= n /\ i \in DOMAIN C /\ C[i] = A[i]
  BY <1>1, <1>2
<1>5. \A i \in DOMAIN B : n + i > n /\ (n + i) - n = i /\ n + i \in DOMAIN C /\ C[n + i] = B[i]
  BY <1>1, <1>2
<1>6. \A i \in DOMAIN C : i \in DOMAIN A \/ (i > n /\ i - n \in DOMAIN B /\ n + (i - n) = i /\ C[i] = B[i - n])
  <2> SUFFICES ASSUME NEW i \in DOMAIN C, i \notin DOMAIN A
               PROVE  i > n /\ i - n \in DOMAIN B /\ n + (i - n) = i /\ C[i] = B[i - n]
    OBVIOUS
  <2>1. i > n /\ i - n \in DOMAIN B /\ n + (i - n) = i
    BY <1>2
  <2> QED BY <1>5, <2>1
<1>7. \A i \in DOMAIN A : \A j \in DOMAIN A[i] : A[i][j] \in S
  BY DEF Holds
<1>8. \A i \in DOMAIN B : \A j \in DOMAIN B[i] : B[i][j] \in T
  BY DEF Holds
<1> HIDE DEF C, n
<1>9. \A i \in DOMAIN C : \A j \in DOMAIN C[i] : C[i][j] \in S \union T
  BY <1>4, <1>6, <1>7, <1>8
<1>10. ASSUME NEW t \in S PROVE \E i \in DOMAIN C : \E j \in DOMAIN C[i] : Once(C, t, i, j)
  <2>1. PICK i \in DOMAIN A : \E j \in DOMAIN A[i] : Once(A, t, i, j)
    BY DEF Holds
  <2>2. PICK j \in DOMAIN A[i] : Once(A, t, i, j)
    BY <2>1
  <2>3. ASSUME NEW k \in DOMAIN C, NEW l \in DOMAIN C[k] PROVE C[k][l] = t <=> k = i /\ l = j
    <3>1. CASE k \in DOMAIN A
      BY <1>4, <2>2, <3>1 DEF Once
    <3>2. CASE k \notin DOMAIN A
      BY <1>6, <1>8, <3>2
    <3> QED BY <3>1, <3>2
  <2>4. i \in DOMAIN C /\ j \in DOMAIN C[i]
    BY <1>4, <2>2
  <2> QED BY <2>3, <2>4 DEF Once
<1>11. ASSUME NEW t \in T PROVE \E i \in DOMAIN C : \E j \in DOMAIN C[i] : Once(C, t, i, j)
  <2>1. PICK i \in DOMAIN B : \E j \in DOMAIN B[i] : Once(B, t, i, j)
    BY DEF Holds
  <2>2. PICK j \in DOMAIN B[i] : Once(B, t, i, j)
    BY <2>1
  <2>3. ASSUME NEW k \in DOMAIN C, NEW l \in DOMAIN C[k] PROVE C[k][l] = t <=> k = n + i /\ l = j
    <3>1. CASE k \in DOMAIN A
      <4>1. C[k][l] \in S /\ k # n + i
        BY <1>2, <1>4, <1>7, <1>5, <3>1
      <4> QED BY <4>1
    <3>2. CASE k \notin DOMAIN A
      <4>1. k - n \in DOMAIN B /\ C[k] = B[k - n] /\ (k - n = i <=> k = n + i)
        BY <1>5, <1>6, <3>2
      <4> QED BY <2>2, <4>1 DEF Once
    <3> QED BY <3>1, <3>2
  <2>4. n + i \in DOMAIN C /\ j \in DOMAIN C[n + i]
    BY <1>5, <2>2
  <2> QED BY <2>3, <2>4 DEF Once
<1>12. Holds(C, S \union T)
  BY <1>3, <1>9, <1>10, <1>11 DEF Holds, Groups
<1>13. Apart(C)
  <2> SUFFICES ASSUME NEW i \in DOMAIN C, NEW j \in DOMAIN C[i], NEW l \in DOMAIN C[i], j # l
               PROVE  ~ writesOverlap(C[i][j], C[i][l])
    BY DEF Apart
  <2>1. CASE i \in DOMAIN A
    BY <1>4, <2>1 DEF Apart
  <2>2. CASE i \notin DOMAIN A
    BY <1>6, <2>2 DEF Apart
  <2> QED BY <2>1, <2>2
<1> QED BY <1>2, <1>4, <1>6, <1>12, <1>13 DEF C, n, Joined

\* What a task waits for is in an earlier group.
InTurn(levels, active, files) ==
  \A i \in DOMAIN levels : \A j \in DOMAIN levels[i] : \A d \in dependencies(levels[i][j], active, files) :
    \E k \in DOMAIN levels : k < i /\ \E l \in DOMAIN levels[k] : levels[k][l] = d

\* The rounds so far placed every task that is done, in an order that respects what
\* each waits for.
Sound(state, active, files) ==
  /\ state \in [levels : Groups, done : SUBSET active]
  /\ Holds(state.levels, state.done)
  /\ Apart(state.levels)
  /\ InTurn(state.levels, active, files)

\* The tasks that wait for none left.
ReadyAfter(active, files, done) == {t \in active \ done : dependencies(t, active, files) \subseteq done}

\* What a round makes of them.
Advanced(active, files, state) ==
  [levels |-> state.levels \o partitionParallelSafe(ReadyAfter(active, files, state.done)),
   done   |-> state.done \union ReadyAfter(active, files, state.done)]

\* While tasks are left, a round places those that are ready; then it changes nothing.
LEMMA RoundCases ==
  ASSUME NEW active, Crewed(active), NEW files, NEW state \in [levels : Groups, done : SUBSET active]
  PROVE  /\ state.done = active => round(active, files, state) = state
         /\ state.done # active =>
              /\ ReadyAfter(active, files, state.done) # {}
              /\ round(active, files, state) = Advanced(active, files, state)
<1>1. state.done \in SUBSET active
  OBVIOUS
<1>2. ASSUME state.done = active PROVE round(active, files, state) = state
  BY <1>2 DEF round
<1>3. ASSUME state.done # active
      PROVE  /\ ReadyAfter(active, files, state.done) # {}
             /\ round(active, files, state) = Advanced(active, files, state)
  <2>1. \E t \in active \ state.done : dependencies(t, active, files) \subseteq state.done
    <3> DEFINE done == state.done
    <3>1. done \in SUBSET active /\ done # active
      BY <1>1, <1>3
    <3> HIDE DEF done
    <3>2. \E t \in active \ done : dependencies(t, active, files) \subseteq done
      BY ONLY Crewed(active), <3>1, SomethingReady
    <3> QED BY <3>2 DEF done
  <2>2. ReadyAfter(active, files, state.done) # {}
    BY <2>1 DEF ReadyAfter
  <2>3. active \ state.done # {}
    BY <1>1, <1>3
  <2> QED BY <2>2, <2>3 DEF round, ReadyAfter, Advanced
<1> QED BY <1>2, <1>3

\* A round leaves groups of tasks.
LEMMA RoundTyped ==
  ASSUME NEW active, Crewed(active), NEW files, NEW state \in [levels : Groups, done : SUBSET active]
  PROVE  round(active, files, state) \in [levels : Groups, done : SUBSET active]
<1> DEFINE ready == ReadyAfter(active, files, state.done)
<1>1. CASE state.done = active
  BY <1>1, RoundCases
<1>2. CASE state.done # active
  <2>1. round(active, files, state) = Advanced(active, files, state)
    BY ONLY Crewed(active), state \in [levels : Groups, done : SUBSET active], <1>2, RoundCases
  <2>2. ready \in SUBSET active /\ ready \in SUBSET Agents
    BY DEF ReadyAfter, Crewed
  <2>3. partitionParallelSafe(ready) \in Groups
    BY <2>2, PartitionHolds DEF Holds
  <2>4. state.levels \o partitionParallelSafe(ready) \in Groups
    BY <2>3 DEF Groups
  <2>5. round(active, files, state) = [levels |-> state.levels \o partitionParallelSafe(ready),
                                       done |-> state.done \union ready]
    BY <2>1 DEF Advanced
  <2> HIDE DEF ready
  <2> QED BY <2>2, <2>4, <2>5
<1> QED BY <1>1, <1>2

\* There are finitely many agents.
LEMMA AgentsFinite ==
  IsFiniteSet(Agents)
<1> DEFINE added == [n \in 1 .. 12 |-> orderHints[n]]
<1>1. added \in Surjection(1 .. 12, Agents)
  <2>1. added \in [1 .. 12 -> Agents]
    BY TaskOrder
  <2>2. \A a \in Agents : \E n \in 1 .. 12 : added[n] = a
    BY TaskOrder
  <2> HIDE DEF added
  <2> QED BY <2>1, <2>2, Fun_IsSurj
<1>2. IsFiniteSet(1 .. 12)
  <2>1. 1 \in Int /\ 12 \in Int
    OBVIOUS
  <2>2. \A a, b \in Int : IsFiniteSet(a .. b)
    BY FS_Interval
  <2> QED BY <2>1, <2>2
<1> QED BY <1>1, <1>2, FS_Surjection

\* A round keeps the order, and does at least one task.
LEMMA RoundSound ==
  ASSUME NEW active, Crewed(active), NEW files, NEW state, Sound(state, active, files)
  PROVE  /\ Sound(round(active, files, state), active, files)
         /\ state.done # active => Cardinality(round(active, files, state).done) > Cardinality(state.done)
<1> DEFINE ready == ReadyAfter(active, files, state.done)
<1>1. CASE state.done = active
  <2>1. state \in [levels : Groups, done : SUBSET active]
    BY DEF Sound
  <2>2. round(active, files, state) = state
    BY <1>1, <2>1, RoundCases
  <2> QED BY <1>1, <2>2
<1>2. CASE state.done # active
  <2> DEFINE B == partitionParallelSafe(ready)
  <2> DEFINE C == state.levels \o B
  <2> DEFINE new == round(active, files, state)
  <2>0. state \in [levels : Groups, done : SUBSET active]
    BY DEF Sound
  <2>1. ready # {} /\ new = [levels |-> C, done |-> state.done \union ready]
    <3>1. Crewed(active)
      OBVIOUS
    <3>2. ready # {} /\ new = Advanced(active, files, state)
      BY ONLY <1>2, <2>0, <3>1, RoundCases
    <3> QED BY <3>2 DEF Advanced
  <2>2. ready \in SUBSET active /\ ready \in SUBSET Agents /\ state.done \cap ready = {}
    BY DEF ReadyAfter, Crewed
  <2>3. \A t \in ready : dependencies(t, active, files) \subseteq state.done
    BY DEF ReadyAfter
  <2> HIDE DEF ready
  <2>4. Holds(B, ready) /\ Apart(B)
    BY <2>2, PartitionHolds
  <2> HIDE DEF B
  <2>5. Holds(state.levels, state.done) /\ Apart(state.levels) /\ InTurn(state.levels, active, files)
    BY DEF Sound
  <2> DEFINE A == state.levels
  <2>6. /\ Holds(C, state.done \union ready)
        /\ Apart(C)
        /\ DOMAIN A = 1 .. Len(A) /\ Len(A) \in Nat
        /\ \A i \in DOMAIN A : i \in DOMAIN C /\ C[i] = A[i]
        /\ \A i \in DOMAIN C : i \in DOMAIN A \/ (i > Len(A) /\ i - Len(A) \in DOMAIN B /\ C[i] = B[i - Len(A)])
    <3>1. Joined(state.levels, B, state.done, ready)
      BY <2>2, <2>4, <2>5, TwoParts
    <3> QED BY <3>1 DEF Joined
  <2>7. \A t \in state.done : \E k \in DOMAIN A : \E l \in DOMAIN A[k] : A[k][l] = t
    BY <2>5 DEF Holds, Once
  <2>8. \A i \in DOMAIN B : \A j \in DOMAIN B[i] : B[i][j] \in ready
    BY <2>4 DEF Holds
  <2>9. ASSUME NEW i \in DOMAIN C, NEW j \in DOMAIN C[i], NEW d \in dependencies(C[i][j], active, files)
        PROVE  \E k \in DOMAIN C : k < i /\ \E l \in DOMAIN C[k] : C[k][l] = d
    <3> HIDE DEF C, A
    <3>1. CASE i \in DOMAIN A
      <4>1. InTurn(A, active, files)
        BY <2>5 DEF A
      <4>2. C[i] = A[i]
        BY <2>6, <3>1
      <4>3. PICK k \in DOMAIN A : k < i /\ \E l \in DOMAIN A[k] : A[k][l] = d
        BY <3>1, <4>1, <4>2 DEF InTurn
      <4> QED BY <2>6, <4>3
    <3>2. CASE i \notin DOMAIN A
      <4>1. i > Len(A) /\ i - Len(A) \in DOMAIN B /\ C[i] = B[i - Len(A)]
        BY <2>6, <3>2
      <4>2. d \in state.done
        BY <2>3, <2>8, <4>1
      <4>3. PICK k \in DOMAIN A : \E l \in DOMAIN A[k] : A[k][l] = d
        BY <2>7, <4>2
      <4>4. i \in Int
        <5>1. C \in Seq(Seq(Agents))
          BY <2>6 DEF Holds, Groups
        <5> QED BY <5>1
      <4>5. k < i
        BY <2>6, <4>1, <4>4
      <4> QED BY <2>6, <4>3, <4>5
    <3> QED BY <3>1, <3>2
  <2>10. InTurn(C, active, files)
    BY <2>9 DEF InTurn
  <2>11. Sound(new, active, files)
    <3>1. new \in [levels : Groups, done : SUBSET active]
      BY <2>0, RoundTyped
    <3> HIDE DEF C
    <3> QED BY <2>1, <2>6, <2>10, <3>1 DEF Sound
  <2>12. Cardinality(new.done) > Cardinality(state.done)
    <3>1. IsFiniteSet(Agents)
      BY AgentsFinite
    <3>2. IsFiniteSet(new.done) /\ new.done = state.done \union ready
      <4>1. new.done = state.done \union ready
        BY <2>1
      <4>2. new.done \subseteq Agents
        BY <2>0, <2>2, <4>1 DEF Crewed
      <4> QED BY <3>1, <4>1, <4>2, FS_Subset
    <3>3. state.done \subseteq new.done /\ state.done # new.done
      BY <2>1, <2>2, <3>2
    <3>4. /\ Cardinality(state.done) <= Cardinality(new.done)
          /\ Cardinality(state.done) = Cardinality(new.done) => state.done = new.done
      BY <3>2, <3>3, FS_Subset
    <3>5. Cardinality(state.done) \in Nat /\ Cardinality(new.done) \in Nat
      BY <3>2, <3>3, FS_Subset, FS_CardinalityType
    <3> QED BY <3>3, <3>4, <3>5
  <2> QED BY <2>11, <2>12
<1> QED BY <1>1, <1>2

\* The groups after n rounds, for every n.
After(active, files, after) ==
  after = [n \in 0 .. Cardinality(active) |->
             IF n = 0 THEN [levels |-> <<>>, done |-> {}] ELSE round(active, files, after[n - 1])]

\* A plan has finitely many tasks.
LEMMA StaffFinite ==
  ASSUME NEW active, Crewed(active)
  PROVE  IsFiniteSet(active) /\ Cardinality(active) \in Nat
BY AgentsFinite, FS_Subset, FS_CardinalityType DEF Crewed

\* There are such rounds.
LEMMA AfterExists ==
  ASSUME NEW active, Crewed(active), NEW files
  PROVE  \E after : After(active, files, after)
<1> DEFINE N == Cardinality(active)
<1> DEFINE V == [levels : Groups, done : SUBSET active]
<1> DEFINE G == [p \in (1 .. N) \X V |-> round(active, files, p[2])]
<1> DEFINE first == [levels |-> <<>>, done |-> {}]
<1>1. N \in Nat
  BY StaffFinite
<1>2. G \in [(1 .. N) \X V -> V]
  <2>1. ASSUME NEW p \in (1 .. N) \X V PROVE round(active, files, p[2]) \in V
    BY RoundTyped
  <2> HIDE DEF V
  <2> QED BY <2>1
<1>3. first \in V
  BY DEF Groups
<1>4. Iterated(V, first, N, G)
  <2> HIDE DEF V, G, first, N
  <2> QED BY <1>1, <1>2, <1>3, Iterates
<1>5. PICK g \in [0 .. N -> V] : g[0] = first /\ \A n \in 1 .. N : g[n] = G[<<n, g[n - 1]>>]
  <2> HIDE DEF V, G, first, N
  <2> QED BY <1>4 DEF Iterated
<1>6. ASSUME NEW n \in 1 .. N PROVE g[n] = round(active, files, g[n - 1])
  <2> HIDE DEF V, N
  <2>1. g[n - 1] \in V /\ g[n] = G[<<n, g[n - 1]>>]
    <3> HIDE DEF G
    <3>1. n - 1 \in 0 .. N
      BY <1>1
    <3> QED BY <1>5, <3>1
  <2>2. <<n, g[n - 1]>> \in (1 .. N) \X V
    BY <2>1
  <2> QED BY <2>1, <2>2
<1>7. g = [n \in 0 .. N |-> IF n = 0 THEN first ELSE round(active, files, g[n - 1])]
  <2> HIDE DEF V, G, N, first
  <2>1. \A n \in 0 .. N : n = 0 \/ n \in 1 .. N
    BY <1>1
  <2> QED BY <1>5, <1>6, <2>1
<1> QED BY <1>7 DEF After

\* After as many rounds as there are tasks, all are done, each once, after all it waits
\* for, in groups whose scopes do not overlap.
LEMMA OrderingSound ==
  ASSUME NEW active, Crewed(active), NEW files
  PROVE  LET order == buildOrdering(active, files)
         IN Holds(order, active) /\ Apart(order) /\ InTurn(order, active, files)
<1> DEFINE after == CHOOSE a : After(active, files, a)
<1> DEFINE N == Cardinality(active)
<1> DEFINE Far(n) == after[n].done = active \/ n <= Cardinality(after[n].done)
<1> DEFINE S == {n \in Nat : n <= N => Sound(after[n], active, files) /\ Far(n)}
<1>0. N \in Nat
  BY StaffFinite
<1>1. After(active, files, after)
  <2>1. \E a : After(active, files, a)
    BY AfterExists
  <2> QED BY <2>1
<1>2. buildOrdering(active, files) = after[N].levels
  BY DEF buildOrdering, After
<1>3. after[0] = [levels |-> <<>>, done |-> {}] /\ \A n \in 1 .. N : after[n] = round(active, files, after[n - 1])
  <2> HIDE DEF after, N
  <2>1. after = [n \in 0 .. N |->
                   IF n = 0 THEN [levels |-> <<>>, done |-> {}] ELSE round(active, files, after[n - 1])]
    BY <1>1 DEF After, N
  <2>2. 0 \in 0 .. N /\ \A n \in 1 .. N : n \in 0 .. N /\ n # 0
    BY <1>0
  <2> QED BY <2>1, <2>2
<1> HIDE DEF after
<1>4. 0 \in S
  <2>1. Holds(<<>>, {}) /\ Apart(<<>>) /\ InTurn(<<>>, active, files) /\ <<>> \in Groups
    BY DEF Holds, Apart, InTurn, Groups
  <2>2. after[0].levels = <<>> /\ after[0].done = {} /\ after[0] \in [levels : Groups, done : SUBSET active]
    BY <1>3, <2>1
  <2>3. Sound(after[0], active, files)
    BY <2>1, <2>2 DEF Sound
  <2>4. Far(0)
    BY <2>2, FS_EmptySet
  <2> QED BY <2>3, <2>4
<1>5. ASSUME NEW n \in S PROVE n + 1 \in S
  <2> SUFFICES ASSUME n + 1 <= N PROVE Sound(after[n + 1], active, files) /\ Far(n + 1)
    OBVIOUS
  <2>1. Sound(after[n], active, files) /\ Far(n)
    BY <1>0
  <2>2. after[n + 1] = round(active, files, after[n])
    <3>1. n + 1 \in 1 .. N /\ (n + 1) - 1 = n
      BY <1>0
    <3> QED BY <1>3, <3>1
  <2>3. Sound(after[n + 1], active, files)
    BY <2>1, <2>2, RoundSound
  <2>4. CASE after[n].done = active
    <3>1. after[n] \in [levels : Groups, done : SUBSET active]
      BY <2>1 DEF Sound
    <3>2. after[n + 1] = after[n]
      BY <2>2, <2>4, <3>1, RoundCases
    <3> QED BY <2>3, <2>4, <3>2
  <2>5. CASE after[n].done # active
    <3>1. Cardinality(after[n + 1].done) > Cardinality(after[n].done)
      BY <2>1, <2>2, <2>5, RoundSound
    <3>2. n <= Cardinality(after[n].done)
      BY <2>1, <2>5
    <3>3. Cardinality(after[n].done) \in Nat /\ Cardinality(after[n + 1].done) \in Nat
      <4>1. after[n].done \in SUBSET active /\ after[n + 1].done \in SUBSET active
        BY <2>1, <2>3 DEF Sound
      <4> QED BY <4>1, StaffFinite, FS_Subset, FS_CardinalityType
    <3>4. n + 1 <= Cardinality(after[n + 1].done)
      BY <3>1, <3>2, <3>3
    <3> QED BY <2>3, <3>4
  <2> QED BY <2>4, <2>5
<1>6. S = Nat
  <2>1. S \in SUBSET Nat
    OBVIOUS
  <2> HIDE DEF S
  <2> QED BY <1>4, <1>5, <2>1, EveryNumber
<1>7. Sound(after[N], active, files) /\ Far(N)
  BY <1>0, <1>6
<1>8. after[N].done = active
  <2>1. after[N].done \in SUBSET active
    BY <1>7 DEF Sound
  <2>2. IsFiniteSet(active)
    BY StaffFinite
  <2>3. Cardinality(after[N].done) <= N /\ (N = Cardinality(after[N].done) => active = after[N].done)
    BY <2>1, <2>2, FS_Subset
  <2>4. Cardinality(after[N].done) \in Nat
    BY <2>1, <2>2, FS_Subset, FS_CardinalityType
  <2> QED BY <1>0, <1>7, <2>3, <2>4
<1> QED BY <1>2, <1>7, <1>8 DEF Sound

\* Every change activates the orchestrator and quality.
LEMMA ActiveStaffed ==
  ASSUME NEW files PROVE Crewed(activatedIds(files))
BY DEF activatedIds, Crewed, Agents

\* The plan is the one of the changed files.
Planned == plan = planOf(changedFiles)

\* What the plan says of its tasks.
LEMMA PlanFields ==
  ASSUME Planned
  PROVE  /\ plan.tasks = activatedIds(changedFiles)
         /\ plan.order = buildOrdering(plan.tasks, changedFiles)
         /\ plan.pattern = selectPattern(changedFiles, plan.tasks)
         /\ Crewed(plan.tasks)
         /\ Holds(plan.order, plan.tasks)
         /\ Apart(plan.order)
         /\ InTurn(plan.order, plan.tasks, changedFiles)
<1>1. /\ plan.tasks = activatedIds(changedFiles)
      /\ plan.order = buildOrdering(activatedIds(changedFiles), changedFiles)
      /\ plan.pattern = selectPattern(changedFiles, activatedIds(changedFiles))
  BY DEF Planned, planOf
<1>2. Crewed(activatedIds(changedFiles))
  BY ActiveStaffed
<1> QED BY <1>1, <1>2, OrderingSound

\* The group a task is in is the only one it is in.
LEMMA GroupOfTask ==
  ASSUME Planned, NEW t \in plan.tasks
  PROVE  /\ GroupOf(t) \in Int
         /\ \A i \in DOMAIN plan.order : \A j \in DOMAIN plan.order[i] : plan.order[i][j] = t => GroupOf(t) = i
<1>1. Holds(plan.order, plan.tasks)
  BY PlanFields
<1>2. PICK i \in DOMAIN plan.order : \E j \in DOMAIN plan.order[i] : Once(plan.order, t, i, j)
  BY <1>1 DEF Holds
<1>3. PICK j \in DOMAIN plan.order[i] : Once(plan.order, t, i, j)
  BY <1>2
<1>4. plan.order[i][j] = t
  BY <1>3 DEF Once
<1>5. \A k \in DOMAIN plan.order : \A l \in DOMAIN plan.order[k] : plan.order[k][l] = t => k = i
  BY <1>3 DEF Once
<1> DEFINE Has(k) == \E l \in DOMAIN plan.order[k] : plan.order[k][l] = t
<1>6. GroupOf(t) = CHOOSE k \in DOMAIN plan.order : Has(k)
  BY DEF GroupOf
<1>7. Has(i) /\ \A k \in DOMAIN plan.order : Has(k) => k = i
  BY <1>4, <1>5
<1> HIDE DEF Has
<1>8. GroupOf(t) = i
  BY <1>6, <1>7
<1>9. i \in Int
  BY <1>1 DEF Holds, Groups
<1> QED BY <1>5, <1>8, <1>9

\* What a task waits for is in an earlier group.
LEMMA DependencyFirst ==
  ASSUME Planned, NEW b \in plan.tasks, NEW a \in dependencies(b, plan.tasks, changedFiles)
  PROVE  Before(a, b)
<1>1. Holds(plan.order, plan.tasks) /\ InTurn(plan.order, plan.tasks, changedFiles)
  BY PlanFields
<1>2. PICK i \in DOMAIN plan.order : \E j \in DOMAIN plan.order[i] : plan.order[i][j] = b
  BY <1>1 DEF Holds, Once
<1>3. PICK k \in DOMAIN plan.order : k < i /\ \E l \in DOMAIN plan.order[k] : plan.order[k][l] = a
  BY <1>1, <1>2 DEF InTurn
<1>4. GroupOf(b) = i
  BY <1>2, GroupOfTask
<1>5. a \in plan.tasks => GroupOf(a) = k
  BY <1>3, GroupOfTask
<1> QED BY <1>3, <1>4, <1>5 DEF Before

\* So the stages come in order, whatever the change.
LEMMA StagesFollow ==
  ASSUME Planned PROVE StagesInOrder
<1>1. Holds(plan.order, plan.tasks) /\ Crewed(plan.tasks)
  BY PlanFields
<1>2. Before("database", "core-api")
  <2>1. CASE "database" \in plan.tasks /\ "core-api" \in plan.tasks
    <3>1. "database" \in dependencies("core-api", plan.tasks, changedFiles)
      BY <2>1 DEF dependencies, Set
    <3> QED BY <2>1, <3>1, DependencyFirst
  <2>2. CASE ~ ("database" \in plan.tasks /\ "core-api" \in plan.tasks)
    BY <2>2 DEF Before
  <2> QED BY <2>1, <2>2
<1>3. ASSUME NEW t \in Implementers(plan.tasks) PROVE Before("orchestrator", t) /\ Before(t, "testing")
  <2>1. t \in plan.tasks
    BY DEF Implementers
  <2>2. "orchestrator" \in dependencies(t, plan.tasks, changedFiles)
    BY DEF dependencies, Implementers
  <2>3. Before(t, "testing")
    <3>1. CASE "testing" \in plan.tasks
      <4>1. t \in dependencies("testing", plan.tasks, changedFiles)
        BY DEF dependencies, testingDependencies
      <4> QED BY <3>1, <4>1, DependencyFirst
    <3>2. CASE "testing" \notin plan.tasks
      BY <3>2 DEF Before
    <3> QED BY <3>1, <3>2
  <2> QED BY <2>1, <2>2, <2>3, DependencyFirst
<1>4. ASSUME NEW t \in plan.tasks \ {"quality"} PROVE Before(t, "quality")
  <2>1. "quality" \in plan.tasks
    BY <1>1 DEF Crewed
  <2>2. CASE "testing" \notin plan.tasks
    <3>1. t \in dependencies("quality", plan.tasks, changedFiles)
      BY <2>2 DEF dependencies
    <3> QED BY <2>1, <3>1, DependencyFirst
  <2>3. CASE "testing" \in plan.tasks
    <3>1. Before("testing", "quality")
      <4>1. "testing" \in dependencies("quality", plan.tasks, changedFiles)
        BY <2>3 DEF dependencies
      <4> QED BY <2>1, <4>1, DependencyFirst
    <3>2. t # "testing" => Before(t, "testing")
      <4>1. CASE t \in Implementers(plan.tasks)
        BY <1>3, <4>1
      <4>2. CASE t = "orchestrator" /\ Implementers(plan.tasks) = {}
        <5>1. t \in dependencies("testing", plan.tasks, changedFiles)
          BY <4>2 DEF dependencies, testingDependencies
        <5> QED BY <2>3, <5>1, DependencyFirst
      <4>3. CASE t = "orchestrator" /\ Implementers(plan.tasks) # {}
        <5>1. PICK u \in Implementers(plan.tasks) : TRUE
          BY <4>3
        <5>2. Before(t, u) /\ Before(u, "testing") /\ u \in plan.tasks
          BY <1>3, <4>3, <5>1 DEF Implementers
        <5> QED BY <2>3, <5>2, GroupOfTask DEF Before
      <4> QED BY <4>1, <4>2, <4>3 DEF Implementers
    <3> QED BY <2>1, <2>3, <3>1, <3>2, GroupOfTask DEF Before
  <2> QED BY <2>2, <2>3
<1>5. \A i \in DOMAIN plan.order : \A j \in DOMAIN plan.order[i] : plan.order[i][j] \in plan.tasks
  BY <1>1 DEF Holds
<1>6. \A t \in plan.tasks : \E i \in DOMAIN plan.order : \E j \in DOMAIN plan.order[i] :
        \A k \in DOMAIN plan.order : \A l \in DOMAIN plan.order[k] :
          plan.order[k][l] = t <=> k = i /\ l = j
  BY <1>1 DEF Holds, Once
<1> QED BY <1>2, <1>3, <1>4, <1>5, <1>6 DEF StagesInOrder

\* A prefix of a sequence is what it begins with.
LEMMA PrefixElements ==
  ASSUME NEW E, NEW s \in Seq(E), NEW t \in Seq(E)
  PROVE  IsPrefix(s, t) <=> Len(s) <= Len(t) /\ \A i \in 1 .. Len(s) : s[i] = t[i]
<1>1. SubSeq(s, 1, Len(s)) = [i \in 1 .. Len(s) |-> s[i]]
  OBVIOUS
<1>2. Len(s) <= Len(t) => SubSeq(t, 1, Len(s)) = [i \in 1 .. Len(s) |-> t[i]]
  OBVIOUS
<1>3. IsPrefix(s, t) <=> Len(s) <= Len(t) /\ SubSeq(s, 1, Len(s)) = SubSeq(t, 1, Len(s))
  BY DEF IsPrefix
<1>4. ([i \in 1 .. Len(s) |-> s[i]] = [i \in 1 .. Len(s) |-> t[i]]) <=> \A i \in 1 .. Len(s) : s[i] = t[i]
  OBVIOUS
<1> QED BY <1>1, <1>2, <1>3, <1>4

\* The segments of paths; those of the manifest are strings like all others.
Segments ==
  STRING \union {"backend", "frontend", "payment-service", "iot-edge", "src", "docs", "prisma", "auth", "cypress",
                 "events", "iot", "infra", "mosquitto", "scripts", "agents", "reports", "orchestration", "workflows",
                 ".github", ".grok", ".env.example", "docker-compose.iot.yml"}

\* What patterns look under is a path.
Rooted(patterns) == \A p \in patterns : p.under \in Seq(Segments)

\* The patterns of the manifest are made of paths,
LEMMA PatternsRooted ==
  /\ \A dir \in Seq(Segments) : Rooted({Exactly(dir)}) /\ \A name : Rooted({Named(dir, name)})
  /\ \A dirs : dirs \subseteq Seq(Segments) => Rooted(Dirs(dirs))
  /\ \A names : Rooted(Everywhere(names))
  /\ \A ps, qs : Rooted(ps) /\ Rooted(qs) => Rooted(ps \union qs)
<1>1. <<>> \in Seq(Segments)
  OBVIOUS
<1>2. \A dir \in Seq(Segments) : Rooted({Exactly(dir)}) /\ \A name : Rooted({Named(dir, name)})
  BY DEF Exactly, Named, Rooted
<1>3. ASSUME NEW dirs, dirs \subseteq Seq(Segments) PROVE Rooted(Dirs(dirs))
  BY <1>3 DEF Within, Dirs, Rooted
<1>4. ASSUME NEW names PROVE Rooted(Everywhere(names))
  <2> DEFINE top == <<>>
  <2>1. \A n : Named(top, n).under \in Seq(Segments)
    BY <1>1 DEF Named
  <2> HIDE DEF top
  <2>2. \A p \in {Named(top, n) : n \in names} : p.under \in Seq(Segments)
    BY <2>1
  <2> QED BY <2>2 DEF Everywhere, Rooted, top
<1>5. \A ps, qs : Rooted(ps) /\ Rooted(qs) => Rooted(ps \union qs)
  BY DEF Rooted
<1> QED BY <1>2, <1>3, <1>4, <1>5

\* of up to three segments,
LEMMA ShortPaths ==
  \A a, b, c \in Segments :
    <<a>> \in Seq(Segments) /\ <<a, b>> \in Seq(Segments) /\ <<a, b, c>> \in Seq(Segments)
OBVIOUS

\* also where an agent may write what activates it;
LEMMA ActivationRooted ==
  Rooted(activationPaths("devops")) /\ Rooted(activationPaths("documentation"))
<1>1. activationPaths("devops") = Dirs({<<".github", "workflows">>, <<"scripts">>, <<"infra">>})
                                  \union Everywhere({"Dockerfile", "env.example"})
                                  \union {Exactly(<<"docker-compose.iot.yml">>)}
  BY DEF activationPaths
<1>2. activationPaths("documentation") = Dirs({<<"docs">>, <<".grok">>}) \union Everywhere({"md"})
  BY DEF activationPaths
<1>3. /\ {<<".github", "workflows">>, <<"scripts">>, <<"infra">>} \subseteq Seq(Segments)
      /\ {<<"docs">>, <<".grok">>} \subseteq Seq(Segments)
      /\ <<"docker-compose.iot.yml">> \in Seq(Segments)
  BY ShortPaths DEF Segments
<1> DEFINE D == {<<".github", "workflows">>, <<"scripts">>, <<"infra">>}
<1> DEFINE E == {<<"docs">>, <<".grok">>}
<1>4. Rooted(Dirs(D)) /\ Rooted(Dirs(E)) /\ Rooted({Exactly(<<"docker-compose.iot.yml">>)})
  <2> HIDE DEF D, E
  <2> QED BY <1>3, PatternsRooted DEF D, E
<1>5. Rooted(Everywhere({"Dockerfile", "env.example"})) /\ Rooted(Everywhere({"md"}))
  BY PatternsRooted
<1>6. Rooted(Dirs(D) \union Everywhere({"Dockerfile", "env.example"}))
  BY <1>4, <1>5, PatternsRooted
<1> QED BY <1>1, <1>2, <1>4, <1>5, <1>6, PatternsRooted

\* every agent's are.
LEMMA WritePathsRooted ==
  ASSUME NEW a \in Agents PROVE Rooted(writePaths(a))
<1>1. CASE a = "orchestrator"
  <2>1. writePaths(a) = Dirs({<<".grok", "orchestration">>, <<"scripts", "agents">>})
    BY <1>1 DEF writePaths
  <2>2. {<<".grok", "orchestration">>, <<"scripts", "agents">>} \subseteq Seq(Segments)
    BY ShortPaths DEF Segments
  <2> QED BY <2>1, <2>2, PatternsRooted
<1>2. CASE a = "core-api"
  <2>1. writePaths(a) = Dirs({<<"backend", "src">>, <<"backend", "docs">>})
    BY <1>2 DEF writePaths, Src
  <2>2. {<<"backend", "src">>, <<"backend", "docs">>} \subseteq Seq(Segments)
    BY ShortPaths DEF Segments
  <2> QED BY <2>1, <2>2, PatternsRooted
<1>3. CASE a = "experience"
  <2>1. writePaths(a) = Dirs({<<"frontend", "src">>}) \union {Exactly(<<"frontend", ".env.example">>)}
    BY <1>3 DEF writePaths, Src
  <2>2. {<<"frontend", "src">>, <<"frontend", ".env.example">>} \subseteq Seq(Segments)
    BY ShortPaths DEF Segments
  <2> QED BY <2>1, <2>2, PatternsRooted
<1>4. CASE a = "payments"
  <2>1. writePaths(a) = Dirs({<<"payment-service">>})
    BY <1>4 DEF writePaths
  <2>2. {<<"payment-service">>} \subseteq Seq(Segments)
    BY ShortPaths DEF Segments
  <2> QED BY <2>1, <2>2, PatternsRooted
<1>5. CASE a = "quality"
  <2>1. writePaths(a) = Dirs({<<".grok", "reports">>})
    BY <1>5 DEF writePaths
  <2>2. {<<".grok", "reports">>} \subseteq Seq(Segments)
    BY ShortPaths DEF Segments
  <2> QED BY <2>1, <2>2, PatternsRooted
<1>6. CASE a = "database"
  <2>1. writePaths(a) = Dirs({<<"backend", "prisma">>})
    BY <1>6 DEF writePaths
  <2>2. {<<"backend", "prisma">>} \subseteq Seq(Segments)
    BY ShortPaths DEF Segments
  <2> QED BY <2>1, <2>2, PatternsRooted
<1>7. CASE a = "devops"
  <2>1. writePaths(a) = activationPaths("devops")
    BY <1>7 DEF writePaths
  <2> QED BY <2>1, ActivationRooted
<1>8. CASE a = "security"
  <2>1. writePaths(a) = Dirs({<<"backend", "src", "auth">>}) \union {Named(<<"backend", "src">>, "guards")}
    BY <1>8 DEF writePaths, Src
  <2>2. {<<"backend", "src", "auth">>, <<"backend", "src">>} \subseteq Seq(Segments)
    BY ShortPaths DEF Segments
  <2> QED BY <2>1, <2>2, PatternsRooted
<1>9. CASE a = "testing"
  <2>1. writePaths(a) = Everywhere({"spec"}) \union Dirs({<<"frontend", "cypress">>})
    BY <1>9 DEF writePaths
  <2>2. {<<"frontend", "cypress">>} \subseteq Seq(Segments)
    BY ShortPaths DEF Segments
  <2> QED BY <2>1, <2>2, PatternsRooted
<1>10. CASE a = "documentation"
  <2>1. writePaths(a) = activationPaths("documentation")
    BY <1>10 DEF writePaths
  <2> QED BY <2>1, ActivationRooted
<1>11. CASE a = "performance"
  <2>1. writePaths(a) = Dirs({<<"backend", "src">>, <<"frontend", "src">>})
    BY <1>11 DEF writePaths, Src
  <2>2. {<<"backend", "src">>, <<"frontend", "src">>} \subseteq Seq(Segments)
    BY ShortPaths DEF Segments
  <2> QED BY <2>1, <2>2, PatternsRooted
<1>12. CASE a = "events-iot"
  <2>1. writePaths(a) = Dirs({<<"backend", "src", "events">>, <<"backend", "src", "iot">>, <<"iot-edge">>,
                              <<"infra", "mosquitto">>})
    BY <1>12 DEF writePaths
  <2>2. {<<"backend", "src", "events">>, <<"backend", "src", "iot">>, <<"iot-edge">>,
         <<"infra", "mosquitto">>} \subseteq Seq(Segments)
    BY ShortPaths DEF Segments
  <2> QED BY <2>1, <2>2, PatternsRooted
<1> QED BY <1>1, <1>2, <1>3, <1>4, <1>5, <1>6, <1>7, <1>8, <1>9, <1>10, <1>11, <1>12 DEF Agents

\* A file that a pattern matches is under the pattern's path.
LEMMA MatchedUnder ==
  ASSUME NEW p, p.under \in Seq(Segments), NEW f, f.path \in Seq(Segments), matchGlob(p, f)
  PROVE  IsPrefix(p.under, f.path)
<1>1. CASE p.name = "itself"
  <2>1. p.under = f.path
    BY <1>1 DEF matchGlob
  <2> QED BY <2>1, PrefixElements
<1>2. CASE p.name # "itself"
  BY <1>2 DEF matchGlob, IsStrictPrefix
<1> QED BY <1>1, <1>2

\* A file under two paths makes one of them a prefix of the other.
LEMMA BothMatched ==
  ASSUME NEW p, NEW q, NEW f,
         p.under \in Seq(Segments), q.under \in Seq(Segments), f.path \in Seq(Segments),
         matchGlob(p, f), matchGlob(q, f), p.under # <<>>, q.under # <<>>
  PROVE  scopesOverlap(p, q)
<1>1. p.under \in Seq(Segments) /\ q.under \in Seq(Segments)
  OBVIOUS
<1>2. IsPrefix(p.under, f.path) /\ IsPrefix(q.under, f.path)
  BY MatchedUnder
<1> DEFINE s == p.under
<1> DEFINE t == q.under
<1> DEFINE u == f.path
<1>3. Len(s) <= Len(u) /\ \A i \in 1 .. Len(s) : s[i] = u[i]
  BY <1>1, <1>2, PrefixElements
<1>4. Len(t) <= Len(u) /\ \A i \in 1 .. Len(t) : t[i] = u[i]
  BY <1>1, <1>2, PrefixElements
<1>5. Len(s) \in Nat /\ Len(t) \in Nat /\ s \in Seq(Segments) /\ t \in Seq(Segments)
  BY <1>1
<1> HIDE DEF s, t, u
<1>6. CASE Len(s) <= Len(t)
  <2>1. \A i \in 1 .. Len(s) : s[i] = t[i]
    BY <1>3, <1>4, <1>5, <1>6
  <2>2. IsPrefix(s, t)
    BY <1>5, <1>6, <2>1, PrefixElements
  <2> QED BY <2>2 DEF s, t, scopesOverlap
<1>7. CASE Len(t) <= Len(s)
  <2>1. \A i \in 1 .. Len(t) : t[i] = s[i]
    BY <1>3, <1>4, <1>5, <1>7
  <2>2. IsPrefix(t, s)
    BY <1>5, <1>7, <2>1, PrefixElements
  <2> QED BY <2>2 DEF s, t, scopesOverlap
<1> QED BY <1>5, <1>6, <1>7

\* So no two tasks of a group may both write it, unless a pattern of theirs is cut to
\* nothing.
LEMMA WritesStayApart ==
  ASSUME Planned, changedFiles \subseteq Files PROVE GroupsWriteApart
<1> SUFFICES ASSUME NEW i \in DOMAIN plan.order, NEW a \in ToSet(plan.order[i]), NEW b \in ToSet(plan.order[i]), a # b,
                    validateTaskInvocation(a, changedFiles), validateTaskInvocation(b, changedFiles),
                    NEW f \in resolveTaskWriteFiles(a, changedFiles) \cap resolveTaskWriteFiles(b, changedFiles)
             PROVE  \E p \in writePaths(a) \union writePaths(b) : p.under = <<>> /\ matchGlob(p, f)
  BY DEF GroupsWriteApart
<1>1. Holds(plan.order, plan.tasks) /\ Apart(plan.order) /\ Crewed(plan.tasks)
  BY PlanFields
<1>2. PICK j, l \in DOMAIN plan.order[i] : plan.order[i][j] = a /\ plan.order[i][l] = b
  BY DEF ToSet
<1>3. ~ writesOverlap(a, b)
  BY <1>1, <1>2 DEF Apart
<1>4. a \in Agents /\ b \in Agents
  BY <1>1, <1>2 DEF Holds, Crewed
<1>5. f \in Files /\ {a, b} \cap {"quality", "orchestrator"} = {}
  BY DEF resolveTaskWriteFiles
<1>6. f.path \in Seq(Segments)
  <2>1. f.path \in Seq(STRING)
    BY <1>5, FilesAssumption DEF FilesAssumption
  <2> QED BY <2>1 DEF Segments
<1>7. assertWriteAllowed(a, f) /\ assertWriteAllowed(b, f)
  BY DEF validateTaskInvocation
<1>8. PICK p \in writePaths(a) : matchGlob(p, f)
  BY <1>7 DEF assertWriteAllowed, matchAnyGlob
<1>9. PICK q \in writePaths(b) : matchGlob(q, f)
  BY <1>7 DEF assertWriteAllowed, matchAnyGlob
<1>10. p.under \in Seq(Segments) /\ q.under \in Seq(Segments)
  BY <1>4, WritePathsRooted DEF Rooted
<1>11. CASE p.under = <<>>
  BY <1>8, <1>11
<1>12. CASE q.under = <<>>
  BY <1>9, <1>12
<1>13. CASE p.under # <<>> /\ q.under # <<>>
  <2>1. scopesOverlap(p, q)
    BY <1>6, <1>8, <1>9, <1>10, <1>13, BothMatched
  <2> QED BY <1>3, <1>5, <2>1 DEF writesOverlap
<1> QED BY <1>11, <1>12, <1>13

\* A file under a path begins with its segments.
LEMMA BelowSegments ==
  ASSUME NEW f, f.path \in Seq(Segments)
  PROVE  /\ \A a \in Segments : In(<<a>>, f) => f.path[1] = a
         /\ \A a, b \in Segments : In(<<a, b>>, f) => f.path[1] = a /\ f.path[2] = b /\ In(<<a>>, f)
<1>1. ASSUME NEW a \in Segments, In(<<a>>, f) PROVE f.path[1] = a
  <2> DEFINE s == <<a>>
  <2>1. s \in Seq(Segments) /\ Len(s) = 1 /\ s[1] = a
    OBVIOUS
  <2>2. IsPrefix(s, f.path)
    BY <1>1 DEF In, IsStrictPrefix
  <2> HIDE DEF s
  <2>3. Len(s) <= Len(f.path) /\ \A i \in 1 .. Len(s) : s[i] = f.path[i]
    BY <2>1, <2>2, PrefixElements
  <2> QED BY <2>1, <2>3
<1>2. ASSUME NEW a \in Segments, NEW b \in Segments, In(<<a, b>>, f)
      PROVE  f.path[1] = a /\ f.path[2] = b /\ In(<<a>>, f)
  <2> DEFINE s == <<a, b>>
  <2> DEFINE t == <<a>>
  <2>1. s \in Seq(Segments) /\ Len(s) = 2 /\ s[1] = a /\ s[2] = b
    OBVIOUS
  <2>2. t \in Seq(Segments) /\ Len(t) = 1 /\ t[1] = a
    OBVIOUS
  <2>3. IsPrefix(s, f.path)
    BY <1>2 DEF In, IsStrictPrefix
  <2> HIDE DEF s, t
  <2>4. Len(s) <= Len(f.path) /\ \A i \in 1 .. Len(s) : s[i] = f.path[i]
    <3>1. s \in Seq(Segments)
      BY <2>1
    <3> QED BY <2>3, <3>1, PrefixElements
  <2>5. s[1] = f.path[1] /\ s[2] = f.path[2]
    <3>1. 1 \in 1 .. Len(s) /\ 2 \in 1 .. Len(s)
      BY <2>1
    <3> QED BY <2>4, <3>1
  <2>6. Len(t) <= Len(f.path) /\ \A i \in 1 .. Len(t) : t[i] = f.path[i]
    <3>1. \A i \in 1 .. Len(t) : i = 1
      BY <2>2
    <3>2. t[1] = f.path[1]
      BY <2>1, <2>2, <2>5
    <3>3. Len(t) <= Len(f.path)
      BY <2>1, <2>2, <2>4
    <3> QED BY <3>1, <3>2, <3>3
  <2>7. IsPrefix(t, f.path)
    BY <2>2, <2>6, PrefixElements
  <2>8. t # f.path
    BY <2>1, <2>2, <2>4
  <2>9. In(<<a>>, f)
    BY <2>7, <2>8 DEF In, IsStrictPrefix, t
  <2> QED BY <2>1, <2>5, <2>9
<1> QED BY <1>1, <1>2

\* A pattern dir/** matches what is under the directory.
LEMMA DirsMatch ==
  ASSUME NEW dirs, NEW f
  PROVE  matchAnyGlob(Dirs(dirs), f) <=> Under(dirs, f)
<1>1. ASSUME NEW d PROVE matchGlob(Within(d), f) <=> In(d, f)
  <2>1. Within(d).name = "any" /\ Within(d).under = d /\ "any" # "itself"
    BY DEF Within
  <2> QED BY <2>1 DEF matchGlob, In
<1> QED BY <1>1 DEF matchAnyGlob, Dirs, Under

\* Production code of each service activates the agent that may write there, and that
\* is not denied it.
LEMMA ServiceOwned ==
  ASSUME NEW f, f.path \in Seq(Segments), isProductionPath(f), NEW agent, NEW dir,
         \/ agent = "core-api" /\ dir = <<"backend", "src">>
         \/ agent = "experience" /\ dir = <<"frontend", "src">>
         \/ agent = "payments" /\ dir = <<"payment-service">>
         \/ agent = "events-iot" /\ dir = <<"iot-edge">>
         \/ agent = "database" /\ dir = <<"backend", "prisma">>,
         In(dir, f)
  PROVE  Activated(agent, f) /\ ("secret" \notin f.names => assertWriteAllowed(agent, f))
<1>0. {"backend", "frontend", "payment-service", "iot-edge", "src", "prisma"} \subseteq Segments
  BY DEF Segments
<1> DEFINE first == f.path[1]
<1> DEFINE second == f.path[2]
<1>1. /\ \A a \in Segments : In(<<a>>, f) => first = a
      /\ \A a, b \in Segments : In(<<a, b>>, f) => first = a /\ second = b
  BY BelowSegments
<1> HIDE DEF first, second
<1>2. /\ In(<<"backend", "src">>, f) => first = "backend" /\ second = "src"
      /\ In(<<"backend", "prisma">>, f) => first = "backend" /\ second = "prisma"
      /\ In(<<"frontend", "src">>, f) => first = "frontend"
      /\ In(<<"backend">>, f) => first = "backend"
      /\ In(<<"frontend">>, f) => first = "frontend"
      /\ In(<<"payment-service">>, f) => first = "payment-service"
      /\ In(<<"payment-service", "src">>, f) => first = "payment-service"
      /\ In(<<"iot-edge">>, f) => first = "iot-edge"
  BY <1>0, <1>1
<1>3. "spec" \notin f.names /\ ~ In(<<"frontend", "cypress">>, f)
  BY DEF isProductionPath, isTestPath
<1>4. CASE agent = "core-api" /\ dir = <<"backend", "src">>
  <2>1. ~ matchAnyGlob(deniedPaths(agent), f)
    <3>1. deniedPaths(agent) = Dirs({<<"frontend">>, <<"payment-service">>, <<"backend", "prisma">>})
      BY <1>4 DEF deniedPaths
    <3> QED BY <1>2, <1>4, <3>1, DirsMatch DEF Under
  <2>2. matchAnyGlob(writePaths(agent), f)
    <3>1. writePaths(agent) = Dirs({<<"backend", "src">>, <<"backend", "docs">>})
      BY <1>4 DEF writePaths, Src
    <3> QED BY <1>4, <3>1, DirsMatch DEF Under
  <2>3. Activated(agent, f)
    <3>1. activationPaths(agent) = Dirs({<<"backend", "src">>, <<"backend", "docs">>})
      BY <1>4 DEF activationPaths, Src
    <3>2. pathExclude(agent) = {Named(<<"backend", "src">>, "spec")}
      BY <1>4 DEF pathExclude, Src
    <3>3. ~ matchAnyGlob(pathExclude(agent), f)
      BY <1>3, <3>2 DEF matchAnyGlob, matchGlob, Named
    <3> QED BY <1>4, <3>1, <3>3, DirsMatch DEF Activated, Under
  <2> QED BY <2>1, <2>2, <2>3 DEF assertWriteAllowed
<1>5. CASE agent = "experience" /\ dir = <<"frontend", "src">>
  <2>1. ~ matchAnyGlob(deniedPaths(agent), f)
    <3>1. deniedPaths(agent) = Dirs({<<"backend">>, <<"payment-service">>})
      BY <1>5 DEF deniedPaths
    <3> QED BY <1>2, <1>5, <3>1, DirsMatch DEF Under
  <2>2. matchAnyGlob(Dirs({<<"frontend", "src">>}), f)
    BY <1>5, DirsMatch DEF Under
  <2>3. matchAnyGlob(writePaths(agent), f)
    <3>1. Dirs({<<"frontend", "src">>}) \subseteq writePaths(agent)
      BY <1>5 DEF writePaths, Src
    <3> QED BY <2>2, <3>1 DEF matchAnyGlob
  <2>4. Activated(agent, f)
    <3>1. activationPaths(agent) = Dirs({<<"frontend", "src">>})
      BY <1>5 DEF activationPaths, Src
    <3>2. pathExclude(agent) = {Named(<<"frontend", "src">>, "spec")} \union Dirs({<<"frontend", "cypress">>})
      BY <1>5 DEF pathExclude, Src
    <3>3. ~ matchAnyGlob(Dirs({<<"frontend", "cypress">>}), f)
      BY <1>3, DirsMatch DEF Under
    <3>4. ~ matchGlob(Named(<<"frontend", "src">>, "spec"), f)
      BY <1>3 DEF matchGlob, Named
    <3>5. ~ matchAnyGlob(pathExclude(agent), f)
      BY <3>2, <3>3, <3>4 DEF matchAnyGlob
    <3> QED BY <2>2, <3>1, <3>5 DEF Activated
  <2> QED BY <2>1, <2>3, <2>4 DEF assertWriteAllowed
<1>6. CASE agent = "payments" /\ dir = <<"payment-service">>
  <2>1. ~ matchAnyGlob(deniedPaths(agent), f)
    <3>1. deniedPaths(agent) = Dirs({<<"backend", "src">>, <<"frontend", "src">>})
      BY <1>6 DEF deniedPaths, Src
    <3> QED BY <1>2, <1>6, <3>1, DirsMatch DEF Under
  <2>2. writePaths(agent) = Dirs({dir}) /\ activationPaths(agent) = Dirs({dir}) /\ pathExclude(agent) = {}
    BY <1>6 DEF writePaths, activationPaths, pathExclude
  <2>3. matchAnyGlob(Dirs({dir}), f)
    BY DirsMatch DEF Under
  <2>4. ~ matchAnyGlob({}, f)
    BY DEF matchAnyGlob
  <2> QED BY <2>1, <2>2, <2>3, <2>4 DEF assertWriteAllowed, Activated
<1>7. CASE agent = "events-iot" /\ dir = <<"iot-edge">>
  <2>1. ~ matchAnyGlob(deniedPaths(agent), f)
    <3>1. deniedPaths(agent) = Dirs({<<"frontend">>, <<"payment-service">>})
      BY <1>7 DEF deniedPaths
    <3> QED BY <1>2, <1>7, <3>1, DirsMatch DEF Under
  <2>2. matchGlob(Within(dir), f)
    <3>1. Within(dir).name = "any" /\ Within(dir).under = dir /\ "any" # "itself"
      BY DEF Within
    <3> QED BY <3>1 DEF matchGlob, In
  <2>3. Within(dir) \in writePaths(agent) /\ Within(dir) \in activationPaths(agent)
    BY <1>7 DEF writePaths, activationPaths, Dirs
  <2>4. pathExclude(agent) = {}
    BY <1>7 DEF pathExclude
  <2> QED BY <2>1, <2>2, <2>3, <2>4 DEF assertWriteAllowed, Activated, matchAnyGlob
<1>8. CASE agent = "database" /\ dir = <<"backend", "prisma">>
  <2>1. ~ matchAnyGlob(deniedPaths(agent), f)
    <3>1. deniedPaths(agent) = Dirs({<<"frontend">>, <<"payment-service">>, <<"backend", "src">>})
      BY <1>8 DEF deniedPaths, Src
    <3>2. first = "backend" /\ second = "prisma"
      BY <1>2, <1>8
    <3>3. ~ In(<<"frontend">>, f) /\ ~ In(<<"payment-service">>, f) /\ ~ In(<<"backend", "src">>, f)
      BY <1>2, <3>2
    <3> QED BY <3>1, <3>3, DirsMatch DEF Under
  <2>2. writePaths(agent) = Dirs({dir}) /\ activationPaths(agent) = Dirs({dir}) /\ pathExclude(agent) = {}
    BY <1>8 DEF writePaths, activationPaths, pathExclude
  <2>3. matchAnyGlob(Dirs({dir}), f)
    BY DirsMatch DEF Under
  <2>4. ~ matchAnyGlob({}, f)
    BY DEF matchAnyGlob
  <2> QED BY <2>1, <2>2, <2>3, <2>4 DEF assertWriteAllowed, Activated
<1> QED BY <1>4, <1>5, <1>6, <1>7, <1>8

\* The agents that own production code.
Owners == {"core-api", "experience", "payments", "events-iot", "database"}

\* All production code is in one of these services.
LEMMA ProductionOwner ==
  ASSUME NEW f, f.path \in Seq(Segments), isProductionPath(f)
  PROVE  \E a \in Owners : Activated(a, f) /\ ("secret" \notin f.names => assertWriteAllowed(a, f))
<1>1. \/ In(<<"backend", "src">>, f) \/ In(<<"frontend", "src">>, f) \/ In(<<"payment-service", "src">>, f)
      \/ In(<<"iot-edge">>, f) \/ In(<<"backend", "prisma">>, f)
  BY DEF isProductionPath, Under, Src
<1>2. In(<<"payment-service", "src">>, f) => In(<<"payment-service">>, f)
  BY BelowSegments DEF Segments
<1> DEFINE Owned(a) == Activated(a, f) /\ ("secret" \notin f.names => assertWriteAllowed(a, f))
<1>3. /\ In(<<"backend", "src">>, f) => Owned("core-api")
      /\ In(<<"frontend", "src">>, f) => Owned("experience")
      /\ In(<<"payment-service">>, f) => Owned("payments")
      /\ In(<<"iot-edge">>, f) => Owned("events-iot")
      /\ In(<<"backend", "prisma">>, f) => Owned("database")
  BY ServiceOwned
<1> HIDE DEF Owned
<1>4. \E a \in Owners : Owned(a)
  BY <1>1, <1>2, <1>3 DEF Owners
<1> QED BY <1>4 DEF Owned

\* Its owner gets a task, and so does testing.
LEMMA OwnersActive ==
  ASSUME NEW files, ~ docsOnly(files), NEW f \in files, isProductionPath(f),
         NEW a \in Owners, Activated(a, f)
  PROVE  a \in activatedIds(files) /\ "testing" \in activatedIds(files)
<1>1. a \in Agents
  BY DEF Owners, Agents
<1>2. productionChange(files)
  BY DEF productionChange
<1> QED BY <1>1, <1>2 DEF activatedIds

\* The writers that are counted to choose a pattern are the implementers.
LEMMA WritersFinite ==
  ASSUME Planned
  PROVE  LET specialists == plan.tasks \ {"orchestrator", "quality", "documentation", "testing"}
             writers     == plan.tasks \ {"orchestrator", "quality", "testing"}
         IN writers = Implementers(plan.tasks) /\ Cardinality(writers) \in Nat
<1>1. Crewed(plan.tasks)
  BY PlanFields
<1>2. IsFiniteSet(plan.tasks)
  BY <1>1, StaffFinite
<1> DEFINE writers == plan.tasks \ {"orchestrator", "quality", "testing"}
<1>3. writers \in SUBSET plan.tasks
  OBVIOUS
<1>4. Cardinality(writers) \in Nat
  BY <1>2, <1>3, FS_Subset, FS_CardinalityType
<1> QED BY <1>4 DEF Implementers

\* So production code has an owner that may write it, and writers of several kinds are
\* not routed as one.
LEMMA ProductionStaysOwned ==
  ASSUME Planned, changedFiles \subseteq Files PROVE ProductionOwned
<1>1. ASSUME NEW f \in changedFiles PROVE f.path \in Seq(Segments)
  <2>1. f.path \in Seq(STRING)
    BY FilesAssumption DEF FilesAssumption
  <2> QED BY <2>1 DEF Segments
<1>2. plan.tasks = activatedIds(changedFiles) /\ plan.pattern = selectPattern(changedFiles, plan.tasks)
  BY PlanFields
<1>3. ASSUME NEW f \in changedFiles, isProductionPath(f), ~ docsOnly(changedFiles)
      PROVE  /\ "secret" \notin f.names => \E a \in plan.tasks : assertWriteAllowed(a, f)
             /\ "testing" \in plan.tasks
  <2>1. PICK a \in Owners : Activated(a, f) /\ ("secret" \notin f.names => assertWriteAllowed(a, f))
    BY <1>1, <1>3, ProductionOwner
  <2> QED BY <1>2, <1>3, <2>1, OwnersActive
<1>4. ASSUME NEW f \in changedFiles, isProductionPath(f), ~ isDocsPath(f),
             Cardinality(Implementers(plan.tasks)) >= 2
      PROVE  plan.pattern = "hybrid"
  <2> DEFINE specialists == plan.tasks \ {"orchestrator", "quality", "documentation", "testing"}
  <2> DEFINE writers == plan.tasks \ {"orchestrator", "quality", "testing"}
  <2> DEFINE unknown == unknownFiles(changedFiles)
  <2>1. ~ docsOnly(changedFiles) /\ productionChange(changedFiles)
    BY <1>4 DEF docsOnly, Only, productionChange
  <2>2. specialists # {}
    <3>1. PICK a \in Owners : Activated(a, f)
      BY <1>1, <1>4, ProductionOwner
    <3>2. a \in plan.tasks
      BY <1>2, <1>4, <2>1, <3>1, OwnersActive
    <3> QED BY <3>2 DEF Owners
  <2>3. isKnownPath(f)
    <3>1. \/ In(<<"backend", "src">>, f) \/ In(<<"frontend", "src">>, f) \/ In(<<"payment-service", "src">>, f)
          \/ In(<<"iot-edge">>, f) \/ In(<<"backend", "prisma">>, f)
      BY <1>4 DEF isProductionPath, Under, Src
    <3>2. In(<<"backend">>, f) \/ In(<<"frontend">>, f) \/ In(<<"payment-service">>, f) \/ In(<<"iot-edge">>, f)
      BY <1>1, <3>1, BelowSegments DEF Segments
    <3> QED BY <3>2 DEF isKnownPath, Under
  <2>4. ~ \A g \in changedFiles : g \in unknown \/ isDocsPath(g)
    BY <1>4, <2>3 DEF unknownFiles
  <2>5. writers = Implementers(plan.tasks) /\ Cardinality(writers) \in Nat
    BY WritersFinite
  <2>6. Cardinality(writers) >= 2 /\ ~ (Cardinality(writers) <= 1)
    BY <1>4, <2>5
  <2> QED BY <1>2, <2>1, <2>2, <2>4, <2>6 DEF selectPattern
<1> QED BY <1>3, <1>4 DEF ProductionOwned

\* There is no plan yet, or that of the changed files.
PlannerInv ==
  changedFiles \subseteq Files /\ (plan = NoPlan \/ Planned)

\* Whatever files a change touches, its plan runs every task once and in the order of the
\* stages, lets no two tasks of a group write the same file, and has an owner for
\* production code (lib/planner.mjs planRun, lib/permissions.mjs).
THEOREM PlansStaySound ==
  PlannerSpec => []PlansSound
<1>1. PlannerInit => PlannerInv
  BY DEF PlannerInit, PlannerInv
<1>2. PlannerInv /\ [PlannerNext]_plannerVars => PlannerInv'
  <2> SUFFICES ASSUME PlannerInv, [PlannerNext]_plannerVars PROVE PlannerInv'
    OBVIOUS
  <2>1. CASE PlannerNext
    BY <2>1 DEF PlannerNext, planRun, PlannerInv, Planned
  <2>2. CASE UNCHANGED plannerVars
    BY <2>2 DEF plannerVars, PlannerInv, Planned
  <2> QED BY <2>1, <2>2
<1>3. PlannerInv => PlansSound
  BY StagesFollow, WritesStayApart, ProductionStaysOwned DEF PlannerInv, PlansSound
<1> QED BY <1>1, <1>2, <1>3, PTL DEF PlannerSpec
===============================================================================
