-------------------------------- MODULE Devices --------------------------------
(***************************************************************************)
(* iot-devices.service.ts: one gate device as administrators and its own    *)
(* heartbeats change it.  Every operation reads the row and writes it in a  *)
(* later statement.                                                         *)
(***************************************************************************)
EXTENDS Naturals

CONSTANTS
  Credentials,     \* rotateCredential draws a fresh one
  DeviceRequests   \* requests and heartbeats in flight

ASSUME CredentialsAssumption == "none" \notin Credentials

VARIABLES
  device,          \* its row
  deviceRequest,
  drawn,           \* credentials drawn so far
  handedOut,       \* credentials returned to an administrator
  retired,         \* history: credentials that were replaced
  switchedOff,     \* history: the last switch was disable()
  beating          \* history: a heartbeat was on its way when disable() was written

deviceVars == <<device, deviceRequest, drawn, handedOut, retired, switchedOff, beating>>

NoCredential == "none"
Device == [status : {"OFFLINE", "ONLINE", "DISABLED"}, isEnabled : BOOLEAN,
           credential : Credentials \cup {NoCredential}]
IdleDeviceRequest == [at |-> "idle"]

DeviceTypeOK ==
  /\ device \in Device
  /\ deviceRequest \in [DeviceRequests ->
       {IdleDeviceRequest} \cup [at : {"heartbeat", "disable"}]
         \cup [at : {"update"}, isEnabled : BOOLEAN, read : Device]
         \cup [at : {"rotate", "return"}, credential : Credentials]]
  /\ drawn \subseteq Credentials /\ handedOut \subseteq drawn /\ retired \subseteq drawn
  /\ switchedOff \in BOOLEAN /\ beating \in BOOLEAN

\* create.
DeviceInit ==
  /\ \E isEnabled \in BOOLEAN :
       device = [status |-> "OFFLINE", isEnabled |-> isEnabled, credential |-> NoCredential]
  /\ deviceRequest = [r \in DeviceRequests |-> IdleDeviceRequest]
  /\ drawn = {} /\ handedOut = {} /\ retired = {}
  /\ switchedOff = FALSE /\ beating = FALSE

Begin(r, step) ==
  /\ deviceRequest[r].at = "idle"
  /\ deviceRequest' = [deviceRequest EXCEPT ![r] = step]
  /\ UNCHANGED <<device, handedOut, retired, switchedOff, beating>>

End(r, at) ==
  /\ deviceRequest[r].at = at
  /\ deviceRequest' = [deviceRequest EXCEPT ![r] = IdleDeviceRequest]

\* Fault: the heartbeat of a disabled device counts.
heardFromAny == TRUE

heardFrom == device.isEnabled

recordHeartbeat(r) == heardFrom /\ Begin(r, [at |-> "heartbeat"]) /\ UNCHANGED drawn

writeHeartbeat(r) ==
  /\ End(r, "heartbeat")
  /\ device' = [device EXCEPT !.status = "ONLINE"]
  /\ UNCHANGED <<drawn, handedOut, retired, switchedOff, beating>>

disable(r) == Begin(r, [at |-> "disable"]) /\ UNCHANGED drawn

writeDisable(r) ==
  /\ End(r, "disable")
  /\ device' = [device EXCEPT !.isEnabled = FALSE, !.status = "DISABLED"]
  /\ switchedOff' = TRUE
  /\ beating' = \E q \in DeviceRequests : deviceRequest[q].at = "heartbeat"
  /\ UNCHANGED <<drawn, handedOut, retired>>

\* An update that names isEnabled; the status stays as it is.
update(r, isEnabled) ==
  Begin(r, [at |-> "update", isEnabled |-> isEnabled, read |-> device]) /\ UNCHANGED drawn

Updated(r) == [device EXCEPT !.isEnabled = deviceRequest[r].isEnabled]

writeUpdate(r) ==
  /\ End(r, "update")
  /\ device' = Updated(r)
  /\ switchedOff' = FALSE
  /\ UNCHANGED <<drawn, handedOut, retired, beating>>

\* randomBytes: a credential is never drawn twice.
rotateCredential(r, credential) ==
  /\ credential \notin drawn
  /\ drawn' = drawn \cup {credential}
  /\ Begin(r, [at |-> "rotate", credential |-> credential])

writeCredential(r) ==
  /\ deviceRequest[r].at = "rotate"
  /\ retired' = retired \cup ({device.credential} \ {NoCredential})
  /\ device' = [device EXCEPT !.credential = deviceRequest[r].credential]
  /\ deviceRequest' = [deviceRequest EXCEPT ![r].at = "return"]
  /\ UNCHANGED <<drawn, handedOut, switchedOff, beating>>

returnCredential(r) ==
  /\ End(r, "return")
  /\ handedOut' = handedOut \cup {deviceRequest[r].credential}
  /\ UNCHANGED <<device, drawn, retired, switchedOff, beating>>

DeviceNext ==
  \E r \in DeviceRequests :
    \/ recordHeartbeat(r) \/ writeHeartbeat(r)
    \/ disable(r) \/ writeDisable(r)
    \/ \E isEnabled \in BOOLEAN : update(r, isEnabled)
    \/ writeUpdate(r)
    \/ \E credential \in Credentials : rotateCredential(r, credential)
    \/ writeCredential(r) \/ returnCredential(r)

DeviceSpec == DeviceInit /\ [][DeviceNext]_deviceVars

-----------------------------------------------------------------------------
(* Properties                                                              *)

\* A device that was disabled is not shown online, unless a heartbeat that had
\* found it enabled was on its way.
DisabledNotOnline == switchedOff /\ ~ beating => device.status # "ONLINE"

\* A credential that was replaced never opens the door again, whatever updates
\* and rotations overlap; and once they are over somebody holds the one that does.
RotatedOut ==
  /\ device.credential \notin retired
  /\ (\A r \in DeviceRequests : deviceRequest[r].at \notin {"rotate", "return"}) =>
       device.credential \in handedOut \cup {NoCredential}
\* Heartbeats, switches, updates and rotations that overlap neither show a disabled
\* device online nor bring an old credential back.
DevicesSound == DisabledNotOnline /\ RotatedOut
===============================================================================
