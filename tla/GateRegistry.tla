----------------------------- MODULE GateRegistry -----------------------------
(***************************************************************************)
(* vehicle-access-credentials.service.ts and gates.service.ts: the tags, QR *)
(* codes and gates that administrators enrol, revoke, move and switch off,  *)
(* and what the detection of a tag finds of them.  Every operation checks   *)
(* in one statement and writes in a later one; a detection reads the gate,  *)
(* its lot, the credential and the vehicle one after the other.             *)
(***************************************************************************)
EXTENDS Naturals

CONSTANTS
  Tags,              \* identifiers; a row keeps the hash of one
  Cars,              \* vehicles of the organization
  GateLots,          \* its parking lots
  RegistryRequests,  \* administrators' requests in flight
  GateClerks,        \* bound: those of them that may be about the gate
  Detections,        \* detections in flight
  MaxCredentials     \* bound: rows ever inserted

ASSUME MaxCredentialsAssumption == MaxCredentials \in Nat
ASSUME LotsAssumption == "none" \notin GateLots

VARIABLES
  cars,              \* vehicles that were not deleted
  credentialRow,     \* the rows of vehicle_access_credentials, by id
  outdated,          \* ids whose validUntil has passed
  gate,
  openLots,          \* lots that are active
  registryRequest,
  detection

registryVars == <<cars, credentialRow, outdated, gate, openLots, registryRequest, detection>>

CredentialIds == 1..MaxCredentials
NoRow == [status |-> "none"]
NoLot == "none"
NoGate == [isActive |-> FALSE, lot |-> NoLot]
IdleRequest == [at |-> "idle"]
NoDetection == [at |-> "idle"]

CredentialRow == [status : {"ACTIVE", "REVOKED"}, tag : Tags, car : Cars]
GateRow == [isActive : BOOLEAN, lot : GateLots \cup {NoLot}]

\* What an update may name: nothing, or one value.
SmallSets(S) == {{}} \cup {{x} : x \in S}

RegistryTypeOK ==
  /\ cars \subseteq Cars /\ openLots \subseteq GateLots /\ outdated \subseteq CredentialIds
  /\ credentialRow \in [CredentialIds -> CredentialRow \cup [status : {"none", "deleted"}]]
  /\ gate \in GateRow
  /\ registryRequest \in [RegistryRequests ->
       {IdleRequest} \cup [at : {"create"}, tag : Tags, car : Cars]
         \cup [at : {"found", "revoke"}, id : CredentialIds]
         \cup [at : {"createGate"}, row : GateRow]
         \cup [at : {"updateGate"}, lots : SmallSets(GateLots), isActive : SmallSets(BOOLEAN)]]
  /\ \A d \in Detections : detection[d].at \in {"idle", "gate", "lot", "credential", "vehicle"}

RegistryInit ==
  /\ cars = Cars /\ openLots = GateLots /\ outdated = {}
  /\ credentialRow = [id \in CredentialIds |-> NoRow]
  /\ gate = NoGate
  /\ registryRequest = [r \in RegistryRequests |-> IdleRequest]
  /\ detection = [d \in Detections |-> NoDetection]

BeginRequest(r, step) ==
  /\ registryRequest[r].at = "idle"
  /\ registryRequest' = [registryRequest EXCEPT ![r] = step]
  /\ UNCHANGED <<cars, credentialRow, outdated, gate, openLots, detection>>

EndRequest(r, at) ==
  /\ registryRequest[r].at = at
  /\ registryRequest' = [registryRequest EXCEPT ![r] = IdleRequest]
  /\ UNCHANGED <<cars, outdated, openLots, detection>>

Stored(id) == credentialRow[id].status \in {"ACTIVE", "REVOKED"}
WithTag(tag) == {id \in CredentialIds : Stored(id) /\ credentialRow[id].tag = tag}

-----------------------------------------------------------------------------
(* Credentials                                                             *)

\* create, createRfid and createQr, up to the insert.
create(r, tag, car) ==
  /\ car \in cars
  /\ BeginRequest(r, [at |-> "create", tag |-> tag, car |-> car])

\* Fault: the hash is looked for among the active rows only.
hashTakenIfActive(tag) == \E id \in WithTag(tag) : credentialRow[id].status = "ACTIVE"

\* @@unique([organizationId, credentialHash]), whatever the status of the row.
hashTaken(tag) == WithTag(tag) # {}

\* A vehicle deleted since the check breaks the foreign key: refused as well.
createCredential(r) ==
  LET request == registryRequest[r]
  IN /\ EndRequest(r, "create")
     /\ IF request.car \notin cars \/ hashTaken(request.tag)
        THEN UNCHANGED credentialRow
        ELSE \E id \in CredentialIds :
               /\ credentialRow[id] = NoRow
               /\ \A other \in CredentialIds : other < id => credentialRow[other] # NoRow
               /\ credentialRow' = [credentialRow EXCEPT ![id] =
                    [status |-> "ACTIVE", tag |-> request.tag, car |-> request.car]]
     /\ UNCHANGED gate

\* revokeForVehicle looks for the row, then calls revoke, which looks again.
revokeForVehicle(r, car, id) ==
  /\ Stored(id) /\ credentialRow[id].car = car
  /\ BeginRequest(r, [at |-> "found", id |-> id])

revoke(r, id) == Stored(id) /\ BeginRequest(r, [at |-> "revoke", id |-> id])

revokeFound(r) ==
  /\ registryRequest[r].at = "found"
  /\ registryRequest' = [registryRequest EXCEPT ![r] =
       IF Stored(registryRequest[r].id) THEN [at |-> "revoke", id |-> registryRequest[r].id]
       ELSE IdleRequest]
  /\ UNCHANGED <<cars, credentialRow, outdated, gate, openLots, detection>>

\* The update names the id; it fails when the row is gone.
storeRevoked(r) ==
  LET id == registryRequest[r].id
  IN /\ EndRequest(r, "revoke")
     /\ credentialRow' = [credentialRow EXCEPT ![id].status = IF Stored(id) THEN "REVOKED" ELSE @]
     /\ UNCHANGED gate

-----------------------------------------------------------------------------
(* Gates, and what happens to vehicles and lots                            *)

assertParkingLotBelongsToOrganization(lot) == lot \in openLots

createGate(r, lot, isActive) ==
  /\ assertParkingLotBelongsToOrganization(lot)
  /\ BeginRequest(r, [at |-> "createGate", row |-> [isActive |-> isActive, lot |-> lot]])

\* externalId is unique in the organization.
insertGate(r) ==
  /\ EndRequest(r, "createGate")
  /\ gate' = IF gate = NoGate THEN registryRequest[r].row ELSE gate
  /\ UNCHANGED credentialRow

\* An update names what it changes: a lot, isActive (as a singleton), or both.
updateGate(r, lots, isActive) ==
  /\ gate # NoGate
  /\ \A lot \in lots : assertParkingLotBelongsToOrganization(lot)
  /\ BeginRequest(r, [at |-> "updateGate", lots |-> lots, isActive |-> isActive])

\* The gate stays in the table, switched off.
removeGate(r) == updateGate(r, {}, {FALSE})

writeGate(r) ==
  LET request == registryRequest[r]
  IN /\ EndRequest(r, "updateGate")
     /\ gate' = [isActive |-> IF request.isActive = {} THEN gate.isActive ELSE TRUE \in request.isActive,
                 lot |-> CHOOSE lot \in GateLots :
                           lot \in request.lots \/ (request.lots = {} /\ lot = gate.lot)]
     /\ UNCHANGED credentialRow

\* Fault: the rows of a deleted vehicle stay.
cascadeNot(car) == credentialRow

\* onDelete: Cascade.
cascade(car) ==
  [id \in CredentialIds |-> IF Stored(id) /\ credentialRow[id].car = car
                            THEN [status |-> "deleted"] ELSE credentialRow[id]]

removeVehicle(car) ==
  /\ car \in cars
  /\ cars' = cars \ {car}
  /\ credentialRow' = cascade(car)
  /\ outdated' = {id \in outdated : credentialRow[id].car # car}
  /\ UNCHANGED <<gate, openLots, registryRequest, detection>>

removeLot(lot) ==
  /\ lot \in openLots
  /\ openLots' = openLots \ {lot}
  /\ UNCHANGED <<cars, credentialRow, outdated, gate, registryRequest, detection>>

\* Only of a row that has one; which rows have is left open until it passes.
PassValidUntil(id) ==
  /\ Stored(id) /\ id \notin outdated
  /\ outdated' = outdated \cup {id}
  /\ UNCHANGED <<cars, credentialRow, gate, openLots, registryRequest, detection>>

-----------------------------------------------------------------------------
(* A detection                                                             *)

Proceed(d, from, step) ==
  /\ detection[d].at = from
  /\ detection' = [detection EXCEPT ![d] = step]
  /\ UNCHANGED <<cars, credentialRow, outdated, gate, openLots, registryRequest>>

\* The detection comes in and reads its gate.  evaluate denies for a gate or a lot that
\* is not active, whatever else is read: such a detection is over.  "barred" remembers
\* which credentials could not open a gate at that time.
processDetection(d, tag) ==
  /\ gate.isActive
  /\ Proceed(d, "idle", [at |-> "gate", tag |-> tag, lot |-> gate.lot,
       barred |-> {id \in CredentialIds :
                     credentialRow[id] # NoRow
                       /\ (credentialRow[id].status # "ACTIVE" \/ id \in outdated \/ openLots = {})}])

readLot(d) ==
  LET read == detection[d]
  IN /\ read.at = "gate"
     /\ Proceed(d, "gate",
          IF read.lot \in openLots
          THEN [at |-> "lot", tag |-> read.tag, barred |-> read.barred] ELSE NoDetection)

\* resolveVehicleContext: the row with this hash, whatever its status.
findCredential(d) ==
  \/ /\ detection[d].at = "lot"
     /\ \E id \in WithTag(detection[d].tag) :
          Proceed(d, "lot", [at |-> "credential", barred |-> detection[d].barred,
                             id |-> id, status |-> credentialRow[id].status,
                             car |-> credentialRow[id].car])
  \/ /\ detection[d].at = "lot" /\ WithTag(detection[d].tag) = {}
     /\ Proceed(d, "lot", NoDetection)

findVehicle(d) ==
  /\ detection[d].at = "credential"
  /\ Proceed(d, "credential",
       IF detection[d].car \in cars THEN [detection[d] EXCEPT !.at = "vehicle"] ELSE NoDetection)

\* Fault: only the time is looked at.
mayOpenUntilOutdated(d) == detection[d].id \notin outdated

\* evaluate, as far as the registry goes: the status as it was read, the time now.
mayOpen(d) ==
  /\ detection[d].status = "ACTIVE"
  /\ detection[d].id \notin outdated

\* The detection's row names the vehicle: one deleted since ends in an error.
grant(d) ==
  /\ detection[d].at = "vehicle"
  /\ mayOpen(d) /\ detection[d].car \in cars
  /\ Proceed(d, "vehicle", NoDetection)

deny(d) ==
  /\ detection[d].at = "vehicle"
  /\ ~ (mayOpen(d) /\ detection[d].car \in cars)
  /\ Proceed(d, "vehicle", NoDetection)

RegistryNext ==
  \/ \E r \in RegistryRequests :
       \/ \E tag \in Tags, car \in Cars : create(r, tag, car)
       \/ createCredential(r) \/ revokeFound(r) \/ storeRevoked(r) \/ insertGate(r) \/ writeGate(r)
       \/ \E car \in Cars, id \in CredentialIds : revokeForVehicle(r, car, id)
       \/ \E id \in CredentialIds : revoke(r, id)
       \/ /\ r \in GateClerks
          /\ \/ \E lot \in GateLots, isActive \in BOOLEAN : createGate(r, lot, isActive)
             \/ \E lots \in SmallSets(GateLots), isActive \in SmallSets(BOOLEAN) :
                  updateGate(r, lots, isActive)
             \/ removeGate(r)
  \/ \E car \in Cars : removeVehicle(car)
  \/ \E lot \in GateLots : removeLot(lot)
  \/ \E id \in CredentialIds : PassValidUntil(id)
  \/ \E d \in Detections :
       \/ \E tag \in Tags : processDetection(d, tag)
       \/ readLot(d) \/ findCredential(d) \/ findVehicle(d) \/ grant(d) \/ deny(d)

RegistrySpec == RegistryInit /\ [][RegistryNext]_registryVars

-----------------------------------------------------------------------------
(* Properties                                                              *)

\* However creations, revocations and deletions of vehicles overlap, a tag leads to
\* one row at most, and that row to a vehicle that exists: a revoked tag cannot be
\* enrolled again beside its revoked row.
TagsLeadToOneCar ==
  \A id \in CredentialIds : Stored(id) =>
    /\ credentialRow[id].car \in cars
    /\ \A other \in WithTag(credentialRow[id].tag) : other = id

\* A gate never opens for a credential that had been revoked, had run out or was
\* deleted when the detection came in, or when no lot was open, whatever was enrolled
\* and moved in between.
BarredStaysOut ==
  \A d \in Detections : grant(d) => detection[d].id \notin detection[d].barred

\* Both, of every step and of the gates it opens (VehicleAccessCredentialsService,
\* resolveVehicleContext, evaluate).
RegistrySound == [][TagsLeadToOneCar' /\ BarredStaysOut]_registryVars
===============================================================================
