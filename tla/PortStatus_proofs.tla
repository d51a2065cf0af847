-------------------------- MODULE PortStatus_proofs --------------------------
(***************************************************************************)
(* Proofs about PortStatus.  Filled says, place by place, which fields of  *)
(* status have been read so far and what the others still are; Together is *)
(* the part of it that survives changes of the port.                       *)
(***************************************************************************)
EXTENDS PortStatus, TLAPS

\* The places at which a field has been read already.
AfterNames == Pcs \ {"idle", "names"}
AfterPower == AfterNames \ {"power"}
AfterData == AfterPower \ {"data"}
AfterMode == AfterData \ {"accessory", "mode"}
AfterCanData == AfterMode \ {"canChangeData"}
AfterCanPower == AfterCanData \ {"canChangePower"}
AfterDataStatus == AfterCanPower \ {"dataStatus"}
AfterBrick == AfterDataStatus \ {"brick"}
AfterMoisture == AfterBrick \ {"moisture"}
AfterLimit == AfterMoisture \ {"limit"}

\* Between queries, and at the start of one, status is as constructed.
Unread == pc \in {"idle", "names"} => status = Blank

\* Without failure, no field speaks of a partner that an earlier one denies.
Together ==
  status.result = "SUCCESS" =>
    /\ pc \notin AfterPower => status.currentPowerRole = "NONE"
    /\ pc \notin AfterData => status.currentDataRole = "NONE"
    /\ pc \notin AfterMode => status.currentMode = "NONE"
    /\ pc \in AfterPower \ AfterMode =>
         (connected <=> status.currentPowerRole # "NONE")
    /\ pc = "mode" => connected
    /\ status.currentDataRole # "NONE" => status.currentPowerRole # "NONE"
    /\ pc \in AfterMode =>
         (status.currentPowerRole = "NONE" <=> status.currentMode = "NONE")

\* What a query that nothing disturbs has read, before a plain charger is made
\* a partner.
ReadOfRoles ==
  /\ pc \in AfterNames => connected = port.attached
  /\ pc \in AfterPower =>
       status.currentPowerRole = IF port.attached THEN port.power ELSE "NONE"
  /\ pc \in AfterData =>
       status.currentDataRole = IF port.attached THEN port.data ELSE "NONE"
  /\ pc = "mode" => port.accessory = "none"
  /\ pc \in AfterMode =>
       status.currentMode = IF port.attached THEN ModeOf(port) ELSE "NONE"
ReadOfRest ==
  /\ pc \in AfterCanData => status.canChangeDataRole = (port.attached /\ port.pd)
  /\ pc \in AfterCanPower => status.canChangePowerRole = (port.attached /\ port.pd)
  /\ pc \in AfterDataStatus => status.usbDataStatus = StatusOf(port).usbDataStatus
  /\ pc \in AfterMoisture =>
       /\ status.contaminantDetectionStatus = StatusOf(port).contaminantDetectionStatus
       /\ status.contaminantProtectionStatus = StatusOf(port).contaminantProtectionStatus
  /\ pc \notin AfterMoisture =>
       /\ status.contaminantDetectionStatus = "DISABLED"
       /\ status.contaminantProtectionStatus = "NONE"
  /\ pc \in AfterLimit => status.powerTransferLimited = port.limited
ReadOfBrick ==
  pc \in AfterBrick =>
    status.powerBrickStatus = IF port.attached THEN BrickOf(port) ELSE "NOT_CONNECTED"

Filled ==
  disturbances = 0 =>
    /\ status.result = "SUCCESS"
    /\ pc # "notify" => ReadOfRoles /\ ReadOfRest /\ ReadOfBrick

IInv == TypeOK /\ Unread /\ Together /\ Filled /\ StatusIsPorts

-----------------------------------------------------------------------------
(* Fields and records *)

\* Warnings are compliance warnings.
LEMMA WarningType ==
  ASSUME NEW r \in Reasons
  PROVE  WarningOf(r) \in {"DEBUG_ACCESSORY", "BC_1_2", "MISSING_RP",
                           "INPUT_POWER_LIMITED", "OTHER"}
BY FlagsAssumption DEF WarningOf, Reasons

\* A status is known by its fields.
LEMMA StatusByFields ==
  ASSUME NEW s \in Statuses, NEW t \in Statuses,
         s.result = t.result,
         s.currentPowerRole = t.currentPowerRole, s.currentDataRole = t.currentDataRole,
         s.currentMode = t.currentMode,
         s.canChangeDataRole = t.canChangeDataRole,
         s.canChangePowerRole = t.canChangePowerRole,
         s.usbDataStatus = t.usbDataStatus, s.powerBrickStatus = t.powerBrickStatus,
         s.contaminantDetectionStatus = t.contaminantDetectionStatus,
         s.contaminantProtectionStatus = t.contaminantProtectionStatus,
         s.powerTransferLimited = t.powerTransferLimited,
         s.complianceWarnings = t.complianceWarnings
  PROVE  s = t
BY SMT DEF Statuses

\* The status a port should have is one.
LEMMA StatusOfType ==
  ASSUME NEW p \in AllPorts
  PROVE  StatusOf(p) \in Statuses
<1>1. {WarningOf(r) : r \in Known(p.reasons)}
        \in SUBSET {"DEBUG_ACCESSORY", "BC_1_2", "MISSING_RP",
                    "INPUT_POWER_LIMITED", "OTHER"}
  BY WarningType DEF Known, AllPorts
<1>2. /\ Roles(p).power \in {"NONE", "SOURCE", "SINK"}
      /\ Roles(p).data \in {"NONE", "HOST", "DEVICE"}
      /\ ModeOf(p) \in {"NONE", "DFP", "UFP", "DEBUG_ACCESSORY", "AUDIO_ACCESSORY"}
      /\ BrickOf(p) \in {"UNKNOWN", "CONNECTED", "NOT_CONNECTED"}
  BY DEF Roles, ModeOf, BrickOf, PlainCharger, AllPorts
<1> QED BY <1>1, <1>2 DEF StatusOf, Statuses, AllPorts

LEMMA BlankType == Blank \in Statuses
BY DEF Blank, Statuses

-----------------------------------------------------------------------------
(* Types *)

LEMMA NoDisturbance == 0 \in 0..MaxDisturbances
BY MaxDisturbancesAssumption

\* The brick's status has its type, whatever is read.
LEMMA BrickType ==
  (IF NeedsType THEN BrickOfType ELSE "NOT_CONNECTED")
    \in {"UNKNOWN", "CONNECTED", "NOT_CONNECTED"}
<1>1. BrickOfType \in {"UNKNOWN", "CONNECTED", "NOT_CONNECTED"}
  BY DEF BrickOfType
<1> QED BY <1>1, Zenon

\* A status that is made a charger's stays a status, with four fields changed.
LEMMA ChargerType ==
  ASSUME NEW s \in Statuses
  PROVE  /\ AsCharger(s) \in Statuses
         /\ AsCharger(s).result = s.result
         /\ AsCharger(s).currentPowerRole = "SINK"
         /\ AsCharger(s).currentDataRole = "NONE"
         /\ AsCharger(s).currentMode = "UFP"
         /\ AsCharger(s).powerBrickStatus = "CONNECTED"
         /\ \A f \in {"canChangeDataRole", "canChangePowerRole", "usbDataStatus",
                      "contaminantDetectionStatus", "contaminantProtectionStatus",
                      "powerTransferLimited", "complianceWarnings"} :
              AsCharger(s)[f] = s[f]
<1> DEFINE s1 == [s EXCEPT !.currentMode = "UFP"]
           s2 == [s1 EXCEPT !.currentPowerRole = "SINK"]
           s3 == [s2 EXCEPT !.currentDataRole = "NONE"]
           s4 == [s3 EXCEPT !.powerBrickStatus = "CONNECTED"]
           rest == {"canChangeDataRole", "canChangePowerRole", "usbDataStatus",
                    "contaminantDetectionStatus", "contaminantProtectionStatus",
                    "powerTransferLimited", "complianceWarnings"}
<1>1. AsCharger(s) = s4
  BY DEF AsCharger
<1>2. /\ s1 \in Statuses /\ s1.result = s.result /\ s1.currentMode = "UFP"
      /\ \A f \in rest : s1[f] = s[f]
  BY DEF Statuses
<1> HIDE DEF s1
<1>3. /\ s2 \in Statuses /\ s2.result = s.result /\ s2.currentMode = "UFP"
      /\ s2.currentPowerRole = "SINK"
      /\ \A f \in rest : s2[f] = s[f]
  BY <1>2 DEF Statuses
<1> HIDE DEF s2
<1>4. /\ s3 \in Statuses /\ s3.result = s.result /\ s3.currentMode = "UFP"
      /\ s3.currentPowerRole = "SINK" /\ s3.currentDataRole = "NONE"
      /\ \A f \in rest : s3[f] = s[f]
  BY <1>3 DEF Statuses
<1> HIDE DEF s3
<1>5. /\ s4 \in Statuses /\ s4.result = s.result /\ s4.currentMode = "UFP"
      /\ s4.currentPowerRole = "SINK" /\ s4.currentDataRole = "NONE"
      /\ s4.powerBrickStatus = "CONNECTED"
      /\ \A f \in rest : s4[f] = s[f]
  BY <1>4 DEF Statuses
<1> QED BY <1>1, <1>5

\* What the last read does to status: with the warnings, and perhaps as a
\* charger, unless it fails.
Warned == [status EXCEPT !.complianceWarnings = {WarningOf(r) : r \in Known(port.reasons)}]

LEMMA WarningsShape ==
  ASSUME ComplianceWarnings
  PROVE  /\ pc = "warnings" /\ pc' = "notify" /\ port' = port /\ connected' = connected
         /\ \/ /\ disturbances' = disturbances
               /\ \/ /\ Known(port.reasons) # {} /\ status.currentPowerRole = "NONE"
                     /\ status' = AsCharger(Warned)
                  \/ /\ ~(Known(port.reasons) # {} /\ status.currentPowerRole = "NONE")
                     /\ status' = Warned
            \/ /\ disturbances < MaxDisturbances /\ disturbances' = disturbances + 1
               /\ status' = status
BY Zenon DEF ComplianceWarnings, Read, Unreadable, Keep, Warned

LEMMA WarnedType ==
  ASSUME TypeOK
  PROVE  /\ Warned \in Statuses
         /\ Warned.complianceWarnings = {WarningOf(r) : r \in Known(port.reasons)}
         /\ \A f \in {"result", "currentPowerRole", "currentDataRole", "currentMode",
                      "canChangeDataRole", "canChangePowerRole", "usbDataStatus",
                      "powerBrickStatus", "contaminantDetectionStatus",
                      "contaminantProtectionStatus", "powerTransferLimited"} :
              Warned[f] = status[f]
<1> DEFINE W == {WarningOf(r) : r \in Known(port.reasons)}
           s == [status EXCEPT !.complianceWarnings = W]
<1>1. W \in SUBSET {"DEBUG_ACCESSORY", "BC_1_2", "MISSING_RP",
                   "INPUT_POWER_LIMITED", "OTHER"}
  BY WarningType DEF Known, TypeOK, AllPorts
<1>2. Warned = s
  BY DEF Warned
<1> HIDE DEF W
<1>3. /\ s \in Statuses
      /\ s.complianceWarnings = W
      /\ \A f \in {"result", "currentPowerRole", "currentDataRole", "currentMode",
                   "canChangeDataRole", "canChangePowerRole", "usbDataStatus",
                   "powerBrickStatus", "contaminantDetectionStatus",
                   "contaminantProtectionStatus", "powerTransferLimited"} :
           s[f] = status[f]
  BY <1>1 DEF TypeOK, Statuses
<1> QED BY <1>2, <1>3 DEF W

\* What the reads of the power supply's type and of the moisture detector do.
Brick == IF NeedsType THEN BrickOfType ELSE "NOT_CONNECTED"

LEMMA MoistureShape ==
  ASSUME TypeOK, Moisture
  PROVE  \/ /\ Read("moisture", "limit")
            /\ \/ port.detector = "off" /\ status' = status
               \/ /\ port.detector = "dry"
                  /\ status' = [status EXCEPT !.contaminantDetectionStatus = "NOT_DETECTED"]
               \/ /\ port.detector = "wet"
                  /\ status' = [status EXCEPT !.contaminantDetectionStatus = "DETECTED",
                                              !.contaminantProtectionStatus = "FORCE_DISABLE"]
         \/ Unreadable("moisture", "limit") /\ status' = status
BY DEF TypeOK, Moisture, Keep, AllPorts

\* The fields of the detector keep their types, and the others their values.
LEMMA DetectionType ==
  ASSUME NEW s \in Statuses, NEW v \in {"NOT_DETECTED", "DETECTED"}
  PROVE  [s EXCEPT !.contaminantDetectionStatus = v] \in Statuses
BY DEF Statuses

LEMMA ProtectionType ==
  ASSUME NEW s \in Statuses
  PROVE  [s EXCEPT !.contaminantProtectionStatus = "FORCE_DISABLE"] \in Statuses
BY DEF Statuses

LEMMA MoistureType ==
  ASSUME TypeOK, Moisture
  PROVE  status' \in Statuses
<1> DEFINE dry == [status EXCEPT !.contaminantDetectionStatus = "NOT_DETECTED"]
           half == [status EXCEPT !.contaminantDetectionStatus = "DETECTED"]
           wet == [half EXCEPT !.contaminantProtectionStatus = "FORCE_DISABLE"]
<1>1. status \in Statuses /\ dry \in Statuses /\ half \in Statuses
  BY DetectionType DEF TypeOK
<1> HIDE DEF dry
<1>2. wet \in Statuses
  <2> HIDE DEF half
  <2> QED BY <1>1, ProtectionType
<1>3. status' = status \/ status' = dry \/ status' = wet
  BY MoistureShape, Zenon DEF dry
<1> QED BY <1>1, <1>2, <1>3, Zenon

LEMMA BrickShape ==
  ASSUME PowerBrick
  PROVE  /\ pc = "brick" /\ pc' = "moisture" /\ port' = port /\ connected' = connected
         /\ Brick \in {"UNKNOWN", "CONNECTED", "NOT_CONNECTED"}
         /\ \/ /\ disturbances' = disturbances
               /\ status' = [status EXCEPT !.powerBrickStatus = Brick]
            \/ /\ disturbances < MaxDisturbances /\ disturbances' = disturbances + 1
               /\ status' = status
<1>1. Brick \in {"UNKNOWN", "CONNECTED", "NOT_CONNECTED"}
  BY BrickType, Zenon DEF Brick
<1> QED BY <1>1, Zenon DEF PowerBrick, Read, Unreadable, Fill, Keep, Brick

\* Every step keeps the types.
LEMMA TypeStep ==
  ASSUME TypeOK, [Next]_vars
  PROVE  TypeOK'
<1> USE MaxDisturbancesAssumption DEF TypeOK, Pcs
<1>1. CASE Begin
  BY <1>1, BlankType DEF Begin
<1>2. CASE Names
  BY <1>2 DEF Names, AllPorts
<1>3. CASE PowerRole
  BY <1>3
     DEF PowerRole, Read, Unreadable, Fill, Keep, Error, AfterError, CurrentRole,
         Statuses, AllPorts
<1>4. CASE DataRole
  BY <1>4
     DEF DataRole, Read, Unreadable, Fill, Keep, Error, AfterError, CurrentRole,
         Statuses, AllPorts
<1>5. CASE Accessory
  BY <1>5
     DEF Accessory, Read, Unreadable, Fill, Keep, Error, AfterError, NoAccessory,
         ModeOfAccessory, Statuses, AllPorts
<1>6. CASE Mode
  BY <1>6
     DEF Mode, Read, Unreadable, Fill, Keep, Error, AfterError, ModeOfDataRole,
         Statuses, AllPorts
<1>7. CASE CanChange
  BY <1>7
     DEF CanChange, Read, Unreadable, Fill, Keep, Error, AfterError, CanSwitchRole,
         Statuses, AllPorts
<1>8. CASE DataStatus
  BY <1>8
     DEF DataStatus, Read, Unreadable, Fill, Keep, Error, AfterError, UsbDataStatus,
         Statuses, AllPorts
<1>9. CASE PowerBrick
  <2>1. status' \in Statuses
    BY <1>9, BrickShape DEF Statuses
  <2> QED BY <1>9, <2>1, BrickShape
<1>10. CASE Moisture
  <2>1. status' \in Statuses
    BY <1>10, MoistureType
  <2>2. /\ pc' = "limit" /\ port' = port /\ connected' = connected
        /\ \/ disturbances' = disturbances
           \/ disturbances < MaxDisturbances /\ disturbances' = disturbances + 1
    BY ONLY <1>10, Zenon DEF Moisture, Read, Unreadable
  <2> QED BY <2>1, <2>2
<1>11. CASE Limit
  BY <1>11 DEF Limit, Read, Unreadable, Fill, Keep, Error, AfterError, Statuses, AllPorts
<1>12. CASE ComplianceWarnings
  <2>1. status' \in Statuses
    BY <1>12, WarningsShape, WarnedType, ChargerType
  <2> QED BY <1>12, <2>1, WarningsShape
<1>13. CASE Notify
  BY <1>13, BlankType, NoDisturbance DEF Notify
<1>14. CASE PortChanges
  <2>1. port.attached \in BOOLEAN /\ (~port.attached) \in BOOLEAN
    BY DEF AllPorts
  <2>2. port' \in AllPorts
    <3>1. CASE port' = [port EXCEPT !.attached = ~@]
      BY <3>1, <2>1 DEF AllPorts
    <3>2. CASE port' = [port EXCEPT !.power = IF @ = "SINK" THEN "SOURCE" ELSE "SINK"]
      BY <3>2 DEF AllPorts
    <3>3. CASE port' = [port EXCEPT !.data = IF @ = "HOST" THEN "DEVICE" ELSE "HOST"]
      BY <3>3 DEF AllPorts
    <3> QED BY <1>14, <3>1, <3>2, <3>3 DEF PortChanges
  <2> QED BY <1>14, <2>2 DEF PortChanges
<1>15. CASE UNCHANGED vars
  BY <1>15 DEF vars
<1> QED
  BY <1>1, <1>2, <1>3, <1>4, <1>5, <1>6, <1>7, <1>8, <1>9, <1>10, <1>11,
     <1>12, <1>13, <1>14, <1>15
     DEF Next, Query

\* Types are correct at the start.
LEMMA TypeInit == Init => TypeOK
BY BlankType, NoDisturbance, PortsAssumption DEF Init, TypeOK, Pcs

\* The values of the variables, and of every field of the status, are those
\* the source declares (Usb.cpp:833).
THEOREM TypeCorrect == Spec => []TypeOK
BY TypeInit, TypeStep, PTL DEF Spec

-----------------------------------------------------------------------------
(* Roles *)

\* What is read of the roles, and whether it was read, is not touched again
\* before the warnings.
RoleFields == {"result", "currentPowerRole", "currentDataRole", "currentMode"}

LEMMA FillKeepsRoles ==
  ASSUME TypeOK, NEW f, f \notin RoleFields, NEW v, NEW t, t = [status EXCEPT ![f] = v]
  PROVE  \A g \in RoleFields : t[g] = status[g]
<1>1. \A g \in RoleFields : g \in DOMAIN status /\ g # f
  BY DEF TypeOK, Statuses, RoleFields
<1> QED BY <1>1

LEMMA MoistureKeepsRoles ==
  ASSUME TypeOK, Moisture
  PROVE  \A g \in RoleFields : status'[g] = status[g]
<1> DEFINE d(v) == [status EXCEPT !["contaminantDetectionStatus"] = v]
           wet == [d("DETECTED") EXCEPT !["contaminantProtectionStatus"] = "FORCE_DISABLE"]
<1>1. status' = status \/ status' = d("NOT_DETECTED") \/ status' = wet
  BY MoistureShape, Zenon
<1>2. \A v : \A g \in RoleFields : d(v)[g] = status[g]
  BY FillKeepsRoles DEF RoleFields
<1>3. \A g \in RoleFields : g \in DOMAIN d("DETECTED") /\ g # "contaminantProtectionStatus"
  BY DEF TypeOK, Statuses, RoleFields
<1> HIDE DEF d
<1>4. \A g \in RoleFields : wet[g] = status[g]
  BY <1>2, <1>3
<1> HIDE DEF wet
<1> QED BY ONLY <1>1, <1>2, <1>4, Zenon

LEMMA TogetherLater ==
  ASSUME Together, pc \in AfterMode, pc' \in AfterMode,
         \A g \in RoleFields : status'[g] = status[g]
  PROVE  Unread' /\ Together'
<1>1. /\ status'.result = status.result
      /\ status'.currentPowerRole = status.currentPowerRole
      /\ status'.currentDataRole = status.currentDataRole
      /\ status'.currentMode = status.currentMode
  BY DEF RoleFields
<1>2. /\ pc' \in AfterPower /\ pc' \in AfterData /\ pc' \in AfterMode
      /\ pc' # "idle" /\ pc' # "names" /\ pc' # "mode"
  BY DEF AfterNames, AfterPower, AfterData, AfterMode
<1>3. status.result = "SUCCESS" =>
        /\ status.currentDataRole # "NONE" => status.currentPowerRole # "NONE"
        /\ status.currentPowerRole = "NONE" <=> status.currentMode = "NONE"
  BY Zenon DEF Together
<1>4. status'.result = "SUCCESS" =>
        /\ status'.currentDataRole # "NONE" => status'.currentPowerRole # "NONE"
        /\ status'.currentPowerRole = "NONE" <=> status'.currentMode = "NONE"
  BY ONLY <1>1, <1>3
<1>5. Together'
  BY ONLY <1>2, <1>4, Zenon DEF Together
<1> QED BY <1>2, <1>5 DEF Unread

\* Every step keeps what is read of the roles consistent.
LEMMA TogetherStep ==
  ASSUME TypeOK, Unread, Together, [Next]_vars
  PROVE  Unread' /\ Together'
<1> USE DEF TypeOK, Unread, Together, Pcs, AfterNames, AfterPower, AfterData, AfterMode
<1>1. CASE Begin
  BY <1>1 DEF Begin, Blank, Statuses, AllPorts
<1>2. CASE Names
  BY <1>2 DEF Names, Statuses, AllPorts
<1>3. CASE PowerRole
  BY <1>3
     DEF PowerRole, Read, Unreadable, Fill, Keep, Error, AfterError, CurrentRole,
         Statuses, AllPorts
<1>4. CASE DataRole
  BY <1>4
     DEF DataRole, Read, Unreadable, Fill, Keep, Error, AfterError, CurrentRole,
         Statuses, AllPorts
<1>5. CASE Accessory
  BY <1>5
     DEF Accessory, Read, Unreadable, Fill, Keep, Error, AfterError, NoAccessory,
         ModeOfAccessory, Statuses, AllPorts
<1>6. CASE Mode
  BY <1>6
     DEF Mode, Read, Unreadable, Fill, Keep, Error, AfterError, ModeOfDataRole,
         Statuses, AllPorts
<1>7. CASE CanChange
  BY <1>7
     DEF CanChange, Read, Unreadable, Fill, Keep, Error, AfterError, Statuses,
         AllPorts
<1>8. CASE DataStatus
  <2>1. /\ pc = "dataStatus" /\ pc' = "brick"
        /\ \E v : status' = [status EXCEPT !["usbDataStatus"] = v]
    BY ONLY <1>8, Zenon DEF DataStatus, Read, Unreadable, Fill
  <2>2. PICK v : status' = [status EXCEPT !["usbDataStatus"] = v]
    BY <2>1
  <2>3. \A g \in RoleFields : status'[g] = status[g]
    BY <2>2, FillKeepsRoles DEF RoleFields
  <2> QED BY <2>1, <2>3, TogetherLater
<1>9. CASE PowerBrick
  <2>1. /\ pc = "brick" /\ pc' = "moisture"
        /\ \/ status' = [status EXCEPT !["powerBrickStatus"] = Brick]
           \/ status' = status
    BY <1>9, BrickShape
  <2>2. \A g \in RoleFields : status'[g] = status[g]
    BY <2>1, FillKeepsRoles DEF RoleFields
  <2> QED BY <2>1, <2>2, TogetherLater
<1>10. CASE Moisture
  <2>1. pc = "moisture" /\ pc' = "limit"
    BY ONLY <1>10, Zenon DEF Moisture, Read, Unreadable
  <2>2. \A g \in RoleFields : status'[g] = status[g]
    BY <1>10, MoistureKeepsRoles
  <2> QED BY <2>1, <2>2, TogetherLater
<1>11. CASE Limit
  <2>1. /\ pc = "limit" /\ pc' = "warnings"
        /\ \/ status' = [status EXCEPT !["powerTransferLimited"] = port.limited]
           \/ status' = status
    BY ONLY <1>11, Zenon DEF Limit, Read, Unreadable, Fill, Keep
  <2>2. \A g \in RoleFields : status'[g] = status[g]
    BY <2>1, FillKeepsRoles DEF RoleFields
  <2> QED BY <2>1, <2>2, TogetherLater
<1>12. CASE ComplianceWarnings
  BY <1>12, WarningsShape, WarnedType, ChargerType
<1>13. CASE Notify
  BY <1>13 DEF Notify, Blank, Statuses, AllPorts
<1>14. CASE PortChanges
  BY <1>14 DEF PortChanges, Statuses, AllPorts
<1>15. CASE UNCHANGED vars
  BY <1>15 DEF vars
<1> QED
  BY <1>1, <1>2, <1>3, <1>4, <1>5, <1>6, <1>7, <1>8, <1>9, <1>10, <1>11,
     <1>12, <1>13, <1>14, <1>15
     DEF Next, Query

LEMMA TogetherInit == Init => Unread /\ Together
BY DEF Init, Unread, Together, Blank, Pcs, AfterNames, AfterPower, AfterData, AfterMode

\* A status with SUCCESS does not mix a partner with none, however often the
\* port changes while it is read (Usb.cpp:844-869).
THEOREM RolesAreTogether == Spec => []RolesTogether
<1>1. Together => RolesTogether
  BY DEF Together, RolesTogether, Pcs, AfterNames, AfterPower, AfterData, AfterMode
<1>2. TypeOK /\ Unread /\ Together /\ [Next]_vars => Unread' /\ Together'
  BY TogetherStep
<1> QED BY <1>1, <1>2, TogetherInit, TypeCorrect, PTL DEF Spec

-----------------------------------------------------------------------------
(* A query that nothing disturbs *)

\* What a port that stays as it is should have in some of the fields.
LEMMA ModeIs ==
  ASSUME NEW p \in AllPorts, p.attached
  PROVE  /\ p.accessory = "debug" => ModeOf(p) = "DEBUG_ACCESSORY"
         /\ p.accessory = "analog_audio" => ModeOf(p) = "AUDIO_ACCESSORY"
         /\ p.accessory = "none" /\ p.data = "HOST" => ModeOf(p) = "DFP"
         /\ p.accessory = "none" /\ p.data = "DEVICE" => ModeOf(p) = "UFP"
BY DEF ModeOf, PlainCharger, AllPorts

LEMMA DataStatusIs ==
  ASSUME TypeOK
  PROVE  UsbDataStatus(port.pogo) = StatusOf(port).usbDataStatus
<1>1. port.pogo \in BOOLEAN /\ port.dataEnabled \in BOOLEAN
  BY DEF TypeOK, AllPorts
<1>2. StatusOf(port).usbDataStatus
        = (IF port.pogo THEN {"DISABLED_DOCK_DEVICE_MODE"} ELSE {})
            \cup (IF port.dataEnabled THEN {} ELSE {"DISABLED_FORCE"})
            \cup (IF port.dataEnabled /\ ~port.pogo THEN {"ENABLED"} ELSE {})
  BY DEF StatusOf
<1> QED BY <1>1, <1>2 DEF UsbDataStatus

LEMMA BrickIs ==
  ASSUME TypeOK, connected = port.attached,
         status.currentPowerRole = IF port.attached THEN port.power ELSE "NONE"
  PROVE  Brick = IF port.attached THEN BrickOf(port) ELSE "NOT_CONNECTED"
BY DEF TypeOK, AllPorts, Brick, NeedsType, BrickOfType, BrickOf, PlainCharger

LEMMA ContaminantIs ==
  ASSUME NEW p \in AllPorts
  PROVE  /\ p.detector = "off" =>
              /\ StatusOf(p).contaminantDetectionStatus = "DISABLED"
              /\ StatusOf(p).contaminantProtectionStatus = "NONE"
         /\ p.detector = "dry" =>
              /\ StatusOf(p).contaminantDetectionStatus = "NOT_DETECTED"
              /\ StatusOf(p).contaminantProtectionStatus = "NONE"
         /\ p.detector = "wet" =>
              /\ StatusOf(p).contaminantDetectionStatus = "DETECTED"
              /\ StatusOf(p).contaminantProtectionStatus = "FORCE_DISABLE"
BY DEF StatusOf, AllPorts

\* Every step of a query that nothing disturbs fills in what the port says.
LEMMA FilledStep ==
  ASSUME TypeOK, TypeOK', Unread, Together, Filled, [Next]_vars
  PROVE  Filled'
<1> SUFFICES ASSUME disturbances' = 0
             PROVE  Filled'
  BY DEF Filled
<1> USE DEF TypeOK, Unread, Filled, ReadOfRoles, ReadOfRest, ReadOfBrick, Pcs, AfterNames,
            AfterPower, AfterData, AfterMode, AfterCanData, AfterCanPower, AfterDataStatus,
            AfterBrick, AfterMoisture, AfterLimit
<1>1. CASE Begin
  BY <1>1 DEF Begin, Blank, Statuses, AllPorts
<1>2. CASE Names
  BY <1>2 DEF Names, Statuses, AllPorts
<1>3. CASE PowerRole
  BY <1>3
     DEF PowerRole, Read, Unreadable, Fill, Keep, Error, AfterError, CurrentRole,
         Statuses, AllPorts
<1>4. CASE DataRole
  BY <1>4
     DEF DataRole, Read, Unreadable, Fill, Keep, Error, AfterError, CurrentRole,
         Statuses, AllPorts
<1>5. CASE Accessory
  <2>1. /\ pc = "accessory" /\ port' = port /\ connected' = connected
        /\ connected = port.attached /\ disturbances = 0
        /\ \/ ~port.attached /\ pc' = "canChangeData" /\ status' = status
           \/ /\ port.attached /\ port.accessory # "none" /\ pc' = "canChangeData"
              /\ status' = [status EXCEPT !.currentMode = ModeOfAccessory[port.accessory]]
           \/ port.attached /\ port.accessory = "none" /\ pc' = "mode" /\ status' = status
    BY <1>5 DEF Accessory, Read, Unreadable, Fill, Keep
  <2>2. status.currentMode = "NONE"
    BY <2>1 DEF Together
  <2>3. port.attached /\ port.accessory # "none" =>
          ModeOfAccessory[port.accessory] = ModeOf(port)
    BY ModeIs DEF ModeOfAccessory, AllPorts
  <2> QED BY <2>1, <2>2, <2>3 DEF Statuses
<1>6. CASE Mode
  <2>1. Read("mode", "canChangeData") /\ Fill("currentMode", ModeOfDataRole)
    BY <1>6 DEF Mode, Unreadable
  <2>2. port.attached
    BY <2>1 DEF Together, Read
  <2>3. ModeOfDataRole = ModeOf(port)
    BY <2>1, <2>2, ModeIs DEF ModeOfDataRole, Read, AllPorts
  <2> QED BY <2>1, <2>2, <2>3 DEF Read, Fill, Statuses
<1>7. CASE CanChange
  BY <1>7
     DEF CanChange, Read, Unreadable, Fill, Keep, Error, AfterError, CanSwitchRole,
         Statuses, AllPorts
<1>8. CASE DataStatus
  <2>1. ~Unreadable("dataStatus", "brick")
    BY DEF Unreadable
  <2>2. Read("dataStatus", "brick") /\ Fill("usbDataStatus", StatusOf(port).usbDataStatus)
    BY <1>8, <2>1, DataStatusIs DEF DataStatus
  <2> QED BY <2>2 DEF Read, Fill, Statuses
<1>9. CASE PowerBrick
  <2>1. /\ pc = "brick" /\ pc' = "moisture" /\ port' = port /\ connected' = connected
        /\ disturbances = 0
        /\ status' = [status EXCEPT !.powerBrickStatus = Brick]
    BY <1>9, BrickShape
  <2>2. Brick = IF port.attached THEN BrickOf(port) ELSE "NOT_CONNECTED"
    BY <2>1, BrickIs
  <2> QED BY <2>1, <2>2 DEF Statuses
<1>10. CASE Moisture
  <2>1. /\ pc = "moisture" /\ pc' = "limit" /\ port' = port /\ connected' = connected
        /\ disturbances = 0
    BY <1>10, MoistureShape DEF Read, Unreadable
  <2>2. CASE port.detector = "off"
    <3>1. status' = status
      BY <1>10, <2>1, <2>2, MoistureShape DEF Unreadable
    <3> QED BY <2>1, <2>2, <3>1, ContaminantIs
  <2>3. CASE port.detector = "dry"
    <3>1. status' = [status EXCEPT !.contaminantDetectionStatus = "NOT_DETECTED"]
      BY <1>10, <2>1, <2>3, MoistureShape DEF Unreadable
    <3> QED BY <2>1, <2>3, <3>1, ContaminantIs DEF Statuses
  <2>4. CASE port.detector = "wet"
    <3>1. status' = [status EXCEPT !.contaminantDetectionStatus = "DETECTED",
                                  !.contaminantProtectionStatus = "FORCE_DISABLE"]
      BY <1>10, <2>1, <2>4, MoistureShape DEF Unreadable
    <3> QED BY <2>1, <2>4, <3>1, ContaminantIs DEF Statuses
  <2> QED BY <2>2, <2>3, <2>4 DEF AllPorts
<1>11. CASE Limit
  BY <1>11 DEF Limit, Read, Unreadable, Fill, Keep, Error, AfterError, Statuses, AllPorts
<1>12. CASE ComplianceWarnings
  BY <1>12, WarningsShape, WarnedType, ChargerType
<1>13. CASE Notify
  BY <1>13 DEF Notify, Blank, Statuses, AllPorts
<1>14. CASE PortChanges
  BY <1>14 DEF PortChanges, Statuses, AllPorts
<1>15. CASE UNCHANGED vars
  BY <1>15 DEF vars
<1> QED
  BY <1>1, <1>2, <1>3, <1>4, <1>5, <1>6, <1>7, <1>8, <1>9, <1>10, <1>11,
     <1>12, <1>13, <1>14, <1>15
     DEF Next, Query

\* The roles of a port that stays as it is, with and without a partner.
LEMMA RolesAre ==
  ASSUME NEW p \in AllPorts
  PROVE  /\ p.attached =>
              /\ StatusOf(p).currentPowerRole = p.power
              /\ StatusOf(p).currentDataRole = p.data
         /\ ~p.attached /\ Known(p.reasons) # {} =>
              /\ StatusOf(p).currentPowerRole = "SINK"
              /\ StatusOf(p).currentDataRole = "NONE"
              /\ ModeOf(p) = "UFP" /\ BrickOf(p) = "CONNECTED"
         /\ ~p.attached /\ Known(p.reasons) = {} =>
              /\ StatusOf(p).currentPowerRole = "NONE"
              /\ StatusOf(p).currentDataRole = "NONE"
              /\ ModeOf(p) = "NONE" /\ BrickOf(p) = "NOT_CONNECTED"
BY DEF StatusOf, Roles, ModeOf, BrickOf, PlainCharger, AllPorts

LEMMA OtherFieldsAre ==
  ASSUME NEW p \in AllPorts
  PROVE  /\ StatusOf(p).result = "SUCCESS"
         /\ StatusOf(p).currentMode = ModeOf(p)
         /\ StatusOf(p).canChangeDataRole = (p.attached /\ p.pd)
         /\ StatusOf(p).canChangePowerRole = (p.attached /\ p.pd)
         /\ StatusOf(p).powerBrickStatus = BrickOf(p)
         /\ StatusOf(p).powerTransferLimited = p.limited
         /\ StatusOf(p).complianceWarnings = {WarningOf(r) : r \in Known(p.reasons)}
BY DEF StatusOf

\* With the last read, the status is the port's.
LEMMA StatusStep ==
  ASSUME TypeOK, TypeOK', Filled, StatusIsPorts, [Next]_vars
  PROVE  StatusIsPorts'
<1> SUFFICES ASSUME pc' = "notify", disturbances' = 0
             PROVE  status' = StatusOf(port')
  BY DEF StatusIsPorts
<1> USE DEF TypeOK
<1>1. CASE Begin
  BY <1>1 DEF Begin
<1>2. CASE Names
  BY <1>2 DEF Names
<1>3. CASE PowerRole
  BY <1>3 DEF PowerRole, Read, Unreadable, AfterError
<1>4. CASE DataRole
  BY <1>4 DEF DataRole, Read, Unreadable, AfterError
<1>5. CASE Accessory
  BY <1>5 DEF Accessory, Read, Unreadable, AfterError
<1>6. CASE Mode
  BY <1>6 DEF Mode, Read, Unreadable, AfterError
<1>7. CASE CanChange
  BY <1>7 DEF CanChange, Read, Unreadable, AfterError
<1>8. CASE DataStatus
  BY <1>8 DEF DataStatus, Read, Unreadable, AfterError
<1>9. CASE PowerBrick
  BY <1>9 DEF PowerBrick, Read, Unreadable, AfterError
<1>10. CASE Moisture
  BY <1>10 DEF Moisture, Read, Unreadable, AfterError
<1>11. CASE Limit
  BY <1>11 DEF Limit, Read, Unreadable, AfterError
<1>12. CASE ComplianceWarnings
  <2>1. /\ pc = "warnings" /\ port' = port /\ disturbances = 0
        /\ \/ /\ Known(port.reasons) # {} /\ status.currentPowerRole = "NONE"
              /\ status' = AsCharger(Warned)
           \/ /\ ~(Known(port.reasons) # {} /\ status.currentPowerRole = "NONE")
              /\ status' = Warned
    BY <1>12, WarningsShape
  <2>2. ReadOfRoles /\ ReadOfRest /\ ReadOfBrick /\ status.result = "SUCCESS"
    BY <2>1 DEF Filled
  <2>3. /\ Warned.currentPowerRole = IF port.attached THEN port.power ELSE "NONE"
        /\ Warned.currentDataRole = IF port.attached THEN port.data ELSE "NONE"
        /\ Warned.currentMode = IF port.attached THEN ModeOf(port) ELSE "NONE"
        /\ Warned.powerBrickStatus = IF port.attached THEN BrickOf(port) ELSE "NOT_CONNECTED"
    BY <2>1, <2>2, WarnedType
       DEF ReadOfRoles, ReadOfBrick, Pcs, AfterNames, AfterPower, AfterData, AfterMode,
           AfterCanData, AfterCanPower, AfterDataStatus, AfterBrick
  <2>4. /\ Warned.result = "SUCCESS"
        /\ Warned.canChangeDataRole = (port.attached /\ port.pd)
        /\ Warned.canChangePowerRole = (port.attached /\ port.pd)
        /\ Warned.usbDataStatus = StatusOf(port).usbDataStatus
        /\ Warned.contaminantDetectionStatus = StatusOf(port).contaminantDetectionStatus
        /\ Warned.contaminantProtectionStatus = StatusOf(port).contaminantProtectionStatus
        /\ Warned.powerTransferLimited = port.limited
        /\ Warned.complianceWarnings = {WarningOf(r) : r \in Known(port.reasons)}
    BY <2>1, <2>2, WarnedType
       DEF ReadOfRest, Pcs, AfterNames, AfterPower, AfterData, AfterMode, AfterCanData,
           AfterCanPower, AfterDataStatus, AfterBrick, AfterMoisture, AfterLimit
  <2>5. status.currentPowerRole = "NONE" <=> ~port.attached
    BY <2>1, <2>2
       DEF ReadOfRoles, AllPorts, Pcs, AfterNames, AfterPower
  <2>6. Warned \in Statuses /\ StatusOf(port) \in Statuses
    BY WarnedType, StatusOfType
  <2>7. CASE ~port.attached /\ Known(port.reasons) # {}
    <3>1. status' = AsCharger(Warned)
      BY <2>1, <2>5, <2>7
    <3> DEFINE c == AsCharger(Warned)
    <3>2. /\ c.result = StatusOf(port).result
          /\ c.currentPowerRole = StatusOf(port).currentPowerRole
          /\ c.currentDataRole = StatusOf(port).currentDataRole
          /\ c.currentMode = StatusOf(port).currentMode
          /\ c.powerBrickStatus = StatusOf(port).powerBrickStatus
      BY <2>4, <2>6, <2>7, ChargerType, RolesAre, OtherFieldsAre
    <3>3. /\ c.canChangeDataRole = StatusOf(port).canChangeDataRole
          /\ c.canChangePowerRole = StatusOf(port).canChangePowerRole
          /\ c.usbDataStatus = StatusOf(port).usbDataStatus
          /\ c.contaminantDetectionStatus = StatusOf(port).contaminantDetectionStatus
          /\ c.contaminantProtectionStatus = StatusOf(port).contaminantProtectionStatus
          /\ c.powerTransferLimited = StatusOf(port).powerTransferLimited
          /\ c.complianceWarnings = StatusOf(port).complianceWarnings
      <4>1. /\ c.canChangeDataRole = Warned.canChangeDataRole
            /\ c.canChangePowerRole = Warned.canChangePowerRole
            /\ c.usbDataStatus = Warned.usbDataStatus
            /\ c.contaminantDetectionStatus = Warned.contaminantDetectionStatus
            /\ c.contaminantProtectionStatus = Warned.contaminantProtectionStatus
            /\ c.powerTransferLimited = Warned.powerTransferLimited
            /\ c.complianceWarnings = Warned.complianceWarnings
        BY <2>6, ChargerType
      <4> HIDE DEF c
      <4> QED BY ONLY <2>4, <4>1, OtherFieldsAre, TypeOK DEF TypeOK
    <3>4. c \in Statuses
      BY <2>6, ChargerType
    <3> HIDE DEF c
    <3>5. c = StatusOf(port)
      BY <2>6, <3>2, <3>3, <3>4, StatusByFields
    <3> QED BY <2>1, <3>1, <3>5 DEF c
  <2>8. CASE port.attached \/ Known(port.reasons) = {}
    <3>1. status' = Warned
      BY <2>1, <2>5, <2>8
    <3>2. /\ Warned.result = StatusOf(port).result
          /\ Warned.currentPowerRole = StatusOf(port).currentPowerRole
          /\ Warned.currentDataRole = StatusOf(port).currentDataRole
          /\ Warned.currentMode = StatusOf(port).currentMode
          /\ Warned.powerBrickStatus = StatusOf(port).powerBrickStatus
      BY <2>3, <2>4, <2>8, RolesAre, OtherFieldsAre
    <3>3. /\ Warned.canChangeDataRole = StatusOf(port).canChangeDataRole
          /\ Warned.canChangePowerRole = StatusOf(port).canChangePowerRole
          /\ Warned.usbDataStatus = StatusOf(port).usbDataStatus
          /\ Warned.contaminantDetectionStatus = StatusOf(port).contaminantDetectionStatus
          /\ Warned.contaminantProtectionStatus = StatusOf(port).contaminantProtectionStatus
          /\ Warned.powerTransferLimited = StatusOf(port).powerTransferLimited
          /\ Warned.complianceWarnings = StatusOf(port).complianceWarnings
      BY <2>4, OtherFieldsAre
    <3>4. Warned = StatusOf(port)
      BY <2>6, <3>2, <3>3, StatusByFields
    <3> QED BY <2>1, <3>1, <3>4
  <2> QED BY <2>7, <2>8
<1>13. CASE Notify
  BY <1>13 DEF Notify
<1>14. CASE PortChanges
  BY <1>14 DEF PortChanges
<1>15. CASE UNCHANGED vars
  BY <1>15 DEF vars, StatusIsPorts
<1> QED
  BY <1>1, <1>2, <1>3, <1>4, <1>5, <1>6, <1>7, <1>8, <1>9, <1>10, <1>11,
     <1>12, <1>13, <1>14, <1>15
     DEF Next, Query

LEMMA FilledInit == Init => Filled /\ StatusIsPorts
BY DEF Init, Filled, StatusIsPorts, ReadOfRoles, ReadOfRest, ReadOfBrick, Blank, Pcs,
       AfterNames, AfterPower, AfterData, AfterMode, AfterCanData, AfterCanPower,
       AfterDataStatus, AfterBrick, AfterMoisture, AfterLimit

\* The invariant is kept by every step.
LEMMA IInvStep ==
  ASSUME IInv, [Next]_vars
  PROVE  IInv'
<1>1. TypeOK'
  BY TypeStep DEF IInv
<1> QED BY <1>1, TogetherStep, FilledStep, StatusStep DEF IInv

\* The status of a query that nothing disturbed is the port's, for any port:
\* every field, the compliance warnings and a plain charger included
\* (Usb.cpp:833-946).
THEOREM UndisturbedStatusIsPorts == Spec => []StatusIsPorts
<1>1. Init => IInv
  BY TypeInit, TogetherInit, FilledInit DEF IInv
<1>2. IInv /\ [Next]_vars => IInv'
  BY IInvStep
<1>3. IInv => StatusIsPorts
  BY DEF IInv
<1> QED BY <1>1, <1>2, <1>3, PTL DEF Spec
=============================================================================
