---------------------------- MODULE MCPortStatus ----------------------------
(* PortStatus for TLC: every combination of the role files with a few of the *)
(* rest, and every combination of the rest with a few of the role files.     *)
EXTENDS PortStatus

SomeReasons == {{}, {"unknown"}, {"debug-accessory", "other"}, {"bc12", "unknown"},
                {"missing_rp", "input_power_limited"}}

RolePorts ==
  [attached : BOOLEAN, power : {"SOURCE", "SINK"}, data : {"HOST", "DEVICE"},
   accessory : {"none", "analog_audio", "debug"}, pd : BOOLEAN, pogo : {FALSE},
   dataEnabled : {TRUE}, usbType : {"[D"}, detector : {"off"}, limited : {TRUE},
   reasons : {{}, {"bc12"}}]

OtherPorts ==
  [attached : BOOLEAN, power : {"SOURCE", "SINK"}, data : {"DEVICE"},
   accessory : {"none"}, pd : {TRUE}, pogo : BOOLEAN,
   dataEnabled : BOOLEAN, usbType : {"[D", "[U", "other"}, detector : {"off", "dry", "wet"},
   limited : BOOLEAN, reasons : SomeReasons]

SomePorts == RolePorts \cup OtherPorts
=============================================================================
