----------------------------- MODULE PortStatus -----------------------------
(***************************************************************************)
(* How the USB HAL (usb/usb/Usb.cpp) puts a port status together: with     *)
(* mLock, queryVersionHelper reads one file of sysfs after the other while *)
(* the kernel goes on changing them.                                       *)
(*                                                                         *)
(* A query fills status in field by field, the way getPortStatusHelper,    *)
(* queryMoistureDetectionStatus, queryPowerTransferStatus and              *)
(* queryNonCompliantChargerStatus do.  StatusOf says what it should be for *)
(* a port that stays as it is.                                             *)
(*                                                                         *)
(* There is one port, as on the device, and its class directory can be     *)
(* opened: with no port, or no directory, the code goes on with the first  *)
(* of no statuses.  There is one reader: the threads that query exclude    *)
(* each other (UsbHal).                                                    *)
(***************************************************************************)
EXTENDS Naturals

Reasons == {"debug-accessory", "bc12", "missing_rp", "other", "input_power_limited",
            "unknown"}

\* What a query reads.  accessory and pd are files of the partner, which are
\* gone without it; detector is the moisture detector; dataEnabled is
\* mUsbDataEnabled.
AllPorts == [attached : BOOLEAN, power : {"SOURCE", "SINK"}, data : {"HOST", "DEVICE"},
             accessory : {"none", "analog_audio", "debug"}, pd : BOOLEAN,
             pogo : BOOLEAN, dataEnabled : BOOLEAN,
             usbType : {"[D", "[U", "other"}, detector : {"off", "dry", "wet"},
             limited : BOOLEAN, reasons : SUBSET Reasons]

CONSTANTS
  Ports,            \* the ports a query may find
  Flags,            \* are both flags of INPUT_POWER_LIMITED set?
  MaxDisturbances   \* bound: changes and failing reads in one query

ASSUME PortsAssumption == Ports \subseteq AllPorts
ASSUME FlagsAssumption == Flags \in BOOLEAN
ASSUME MaxDisturbancesAssumption == MaxDisturbances \in Nat

\* A PortStatus as it is constructed, with the Status of getPortStatusHelper.
Blank == [result |-> "SUCCESS",
          currentPowerRole |-> "NONE", currentDataRole |-> "NONE", currentMode |-> "NONE",
          canChangeDataRole |-> FALSE, canChangePowerRole |-> FALSE,
          usbDataStatus |-> {}, powerBrickStatus |-> "UNKNOWN",
          contaminantDetectionStatus |-> "DISABLED", contaminantProtectionStatus |-> "NONE",
          powerTransferLimited |-> FALSE, complianceWarnings |-> {}]

VARIABLES
  port,             \* what there is to read
  pc,               \* what the query reads next
  connected,        \* local of getPortStatusHelper: was "-partner" there?
  status,           \* currentPortStatus[0] and the Status
  disturbances      \* changes of port and failing reads since the query began

vars == <<port, pc, connected, status, disturbances>>

Pcs == {"idle", "names", "power", "data", "accessory", "mode", "canChangeData",
        "canChangePower", "dataStatus", "brick", "moisture", "limit", "warnings", "notify"}

Init ==
  /\ port \in Ports
  /\ pc = "idle" /\ connected = FALSE /\ status = Blank
  /\ disturbances = 0

-----------------------------------------------------------------------------
(* The query *)

\* A read that succeeds, and a step that reads nothing.
Read(from, to) ==
  /\ pc = from /\ pc' = to
  /\ UNCHANGED <<port, connected, disturbances>>

\* A read that fails, for another reason than a missing partner.
Unreadable(from, to) ==
  /\ disturbances < MaxDisturbances
  /\ disturbances' = disturbances + 1
  /\ pc = from /\ pc' = to
  /\ UNCHANGED <<port, connected>>

Fill(field, v) == status' = [status EXCEPT ![field] = v]
Keep == UNCHANGED status

\* "goto done": what follows getPortStatusHelper is still read.
Error == Fill("result", "ERROR")
AfterError == "moisture"

Begin ==
  /\ pc = "idle" /\ pc' = "names"
  /\ status' = Blank
  /\ UNCHANGED <<port, connected, disturbances>>

\* getTypeCPortNamesHelper
Names ==
  /\ pc = "names" /\ pc' = "power"
  /\ connected' = port.attached
  /\ UNCHANGED <<port, status, disturbances>>

\* getCurrentRoleHelper of a power or data role: NONE unless connected.
CurrentRole(role) == IF connected THEN role ELSE "NONE"

PowerRole ==
  \/ Read("power", "data") /\ Fill("currentPowerRole", CurrentRole(port.power))
  \/ connected /\ Unreadable("power", AfterError) /\ Error

DataRole ==
  \/ Read("data", "accessory") /\ Fill("currentDataRole", CurrentRole(port.data))
  \/ connected /\ Unreadable("data", AfterError) /\ Error

\* getCurrentRoleHelper of a mode, which asks the partner for its accessory
\* mode first, and the port for its data role again.
ModeOfAccessory == [a \in {"analog_audio", "debug"} |->
                      IF a = "debug" THEN "DEBUG_ACCESSORY" ELSE "AUDIO_ACCESSORY"]
Ignored == Keep
NoAccessory == Error

Accessory ==
  \/ ~connected /\ Read("accessory", "canChangeData") /\ Keep
  \/ /\ connected /\ port.attached /\ port.accessory # "none"
     /\ Read("accessory", "canChangeData")
     /\ Fill("currentMode", ModeOfAccessory[port.accessory])
  \/ /\ connected /\ port.attached /\ port.accessory = "none"
     /\ Read("accessory", "mode")
     /\ Keep
  \/ connected /\ ~port.attached /\ Read("accessory", AfterError) /\ NoAccessory
  \/ connected /\ Unreadable("accessory", AfterError) /\ Error

ModeSwapped == IF port.data = "HOST" THEN "UFP" ELSE "DFP"
ModeOfDataRole == IF port.data = "HOST" THEN "DFP" ELSE "UFP"

Mode ==
  \/ Read("mode", "canChangeData") /\ Fill("currentMode", ModeOfDataRole)
  \/ Unreadable("mode", AfterError) /\ Error

\* canSwitchRoleHelper, once for each of two fields.
CanSwitchRole == connected /\ port.attached /\ port.pd

CanChange ==
  \/ Read("canChangeData", "canChangePower") /\ Fill("canChangeDataRole", CanSwitchRole)
  \/ Read("canChangePower", "dataStatus") /\ Fill("canChangePowerRole", CanSwitchRole)
  \/ connected /\ Unreadable("canChangeData", "canChangePower") /\ Keep
  \/ connected /\ Unreadable("canChangePower", "dataStatus") /\ Keep

UsbDataStatus(pogo) ==
  LET disabled == {s \in {"DISABLED_DOCK_DEVICE_MODE", "DISABLED_FORCE"} :
                     IF s = "DISABLED_FORCE" THEN ~port.dataEnabled ELSE pogo}
  IN IF disabled = {} THEN {"ENABLED"} ELSE disabled

DataStatus ==
  \/ Read("dataStatus", "brick") /\ Fill("usbDataStatus", UsbDataStatus(port.pogo))
  \/ Unreadable("dataStatus", "brick") /\ Fill("usbDataStatus", UsbDataStatus(FALSE))

BrickOfType == CASE port.usbType = "[D" -> "CONNECTED"
                 [] port.usbType = "[U" -> "UNKNOWN"
                 [] OTHER -> "NOT_CONNECTED"
NeedsType == connected /\ status.currentPowerRole # "SOURCE"

PowerBrick ==
  \/ Read("brick", "moisture")
     /\ Fill("powerBrickStatus", IF NeedsType THEN BrickOfType ELSE "NOT_CONNECTED")
  \/ NeedsType /\ Unreadable("brick", "moisture") /\ Keep

\* queryMoistureDetectionStatus
Moisture ==
  \/ /\ Read("moisture", "limit")
     /\ status' = CASE port.detector = "off" -> status
                    [] port.detector = "dry" ->
                         [status EXCEPT !.contaminantDetectionStatus = "NOT_DETECTED"]
                    [] port.detector = "wet" ->
                         [status EXCEPT !.contaminantDetectionStatus = "DETECTED",
                                        !.contaminantProtectionStatus = "FORCE_DISABLE"]
  \/ Unreadable("moisture", "limit") /\ Keep

\* queryPowerTransferStatus
Limit ==
  \/ Read("limit", "warnings") /\ Fill("powerTransferLimited", port.limited)
  \/ Unreadable("limit", "warnings") /\ Keep

\* queryNonCompliantChargerStatus: one warning for each reason that is known, and
\* a charger that does not do Type-C is made a partner.
Unmapped(reason) == reason
WarningOf(reason) == CASE reason = "debug-accessory" -> "DEBUG_ACCESSORY"
                       [] reason = "bc12" -> "BC_1_2"
                       [] reason = "missing_rp" -> "MISSING_RP"
                       [] OTHER -> IF Flags THEN "INPUT_POWER_LIMITED" ELSE "OTHER"
Known(reasons) == reasons \ {"unknown"}
AsCharger(s) == [s EXCEPT !.currentMode = "UFP", !.currentPowerRole = "SINK",
                          !.currentDataRole = "NONE", !.powerBrickStatus = "CONNECTED"]

ComplianceWarnings ==
  \/ /\ Read("warnings", "notify")
     /\ LET warned == [status EXCEPT !.complianceWarnings =
                         {WarningOf(r) : r \in Known(port.reasons)}]
        IN status' = IF Known(port.reasons) # {} /\ status.currentPowerRole = "NONE"
                     THEN AsCharger(warned) ELSE warned
  \/ Unreadable("warnings", "notify") /\ Keep

\* notifyPortStatusChange
Notify ==
  /\ pc = "notify" /\ pc' = "idle"
  /\ status' = Blank /\ connected' = FALSE
  /\ disturbances' = 0
  /\ UNCHANGED port

Query == \/ Begin \/ Names \/ PowerRole \/ DataRole \/ Accessory \/ Mode \/ CanChange
         \/ DataStatus \/ PowerBrick \/ Moisture \/ Limit \/ ComplianceWarnings \/ Notify

-----------------------------------------------------------------------------
(* The kernel: a partner comes or goes, or roles are swapped *)

PortChanges ==
  /\ pc # "idle"
  /\ disturbances < MaxDisturbances
  /\ disturbances' = disturbances + 1
  /\ \/ port' = [port EXCEPT !.attached = ~@]
     \/ port' = [port EXCEPT !.power = IF @ = "SINK" THEN "SOURCE" ELSE "SINK"]
     \/ port' = [port EXCEPT !.data = IF @ = "HOST" THEN "DEVICE" ELSE "HOST"]
  /\ UNCHANGED <<pc, connected, status>>

Next == Query \/ PortChanges

Spec == Init /\ [][Next]_vars

-----------------------------------------------------------------------------
(* The status of a port that stays as it is *)

\* A charger is there that the Type-C class knows no partner for.
PlainCharger(p) == ~p.attached /\ Known(p.reasons) # {}

Roles(p) ==
  CASE p.attached -> [power |-> p.power, data |-> p.data]
    [] PlainCharger(p) -> [power |-> "SINK", data |-> "NONE"]
    [] OTHER -> [power |-> "NONE", data |-> "NONE"]

ModeOf(p) ==
  CASE PlainCharger(p) -> "UFP"
    [] ~p.attached /\ ~PlainCharger(p) -> "NONE"
    [] p.attached /\ p.accessory = "debug" -> "DEBUG_ACCESSORY"
    [] p.attached /\ p.accessory = "analog_audio" -> "AUDIO_ACCESSORY"
    [] p.attached /\ p.accessory = "none" /\ p.data = "HOST" -> "DFP"
    [] p.attached /\ p.accessory = "none" /\ p.data = "DEVICE" -> "UFP"

\* A brick charges the device: through a partner that sinks nothing of ours,
\* or as a plain charger.
BrickOf(p) ==
  CASE PlainCharger(p) \/ (p.attached /\ p.power = "SINK" /\ p.usbType = "[D") -> "CONNECTED"
    [] p.attached /\ p.power = "SINK" /\ p.usbType = "[U" -> "UNKNOWN"
    [] OTHER -> "NOT_CONNECTED"

StatusOf(p) ==
  [result |-> "SUCCESS",
   currentPowerRole |-> Roles(p).power, currentDataRole |-> Roles(p).data,
   currentMode |-> ModeOf(p),
   canChangeDataRole |-> p.attached /\ p.pd, canChangePowerRole |-> p.attached /\ p.pd,
   usbDataStatus |-> (IF p.pogo THEN {"DISABLED_DOCK_DEVICE_MODE"} ELSE {})
                       \cup (IF p.dataEnabled THEN {} ELSE {"DISABLED_FORCE"})
                       \cup (IF p.dataEnabled /\ ~p.pogo THEN {"ENABLED"} ELSE {}),
   powerBrickStatus |-> BrickOf(p),
   contaminantDetectionStatus |-> (CASE p.detector = "off" -> "DISABLED"
                                     [] p.detector = "dry" -> "NOT_DETECTED"
                                     [] p.detector = "wet" -> "DETECTED"),
   contaminantProtectionStatus |-> IF p.detector = "wet" THEN "FORCE_DISABLE" ELSE "NONE",
   powerTransferLimited |-> p.limited,
   complianceWarnings |-> {WarningOf(r) : r \in Known(p.reasons)}]

-----------------------------------------------------------------------------
(* Properties *)

Statuses ==
  [result : {"SUCCESS", "ERROR"},
   currentPowerRole : {"NONE", "SOURCE", "SINK"},
   currentDataRole : {"NONE", "HOST", "DEVICE"},
   currentMode : {"NONE", "DFP", "UFP", "DEBUG_ACCESSORY", "AUDIO_ACCESSORY"},
   canChangeDataRole : BOOLEAN, canChangePowerRole : BOOLEAN,
   usbDataStatus : SUBSET {"DISABLED_DOCK_DEVICE_MODE", "DISABLED_FORCE", "ENABLED"},
   powerBrickStatus : {"UNKNOWN", "CONNECTED", "NOT_CONNECTED"},
   contaminantDetectionStatus : {"DISABLED", "NOT_DETECTED", "DETECTED"},
   contaminantProtectionStatus : {"NONE", "FORCE_DISABLE"},
   powerTransferLimited : BOOLEAN,
   complianceWarnings : SUBSET {"DEBUG_ACCESSORY", "BC_1_2", "MISSING_RP",
                                "INPUT_POWER_LIMITED", "OTHER"}]

\* Every variable has its type.
TypeOK ==
  /\ port \in AllPorts
  /\ pc \in Pcs
  /\ connected \in BOOLEAN
  /\ disturbances \in 0..MaxDisturbances
  /\ status \in Statuses

\* The status of a query during which the port stayed as it was and every file
\* could be read is the port's (Usb.cpp:833-946).
StatusIsPorts ==
  pc = "notify" /\ disturbances = 0 => status = StatusOf(port)

\* A status with SUCCESS never mixes a partner with no partner, whatever
\* changes while it is read: with a power role it has a mode, and without one
\* neither a mode nor a data role (Usb.cpp:844-869).
RolesTogether ==
  pc = "notify" /\ status.result = "SUCCESS" =>
    /\ status.currentPowerRole = "NONE" <=> status.currentMode = "NONE"
    /\ status.currentDataRole # "NONE" => status.currentPowerRole # "NONE"
=============================================================================
