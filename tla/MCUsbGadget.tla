------------------------------ MODULE MCUsbGadget ------------------------------
(***************************************************************************)
(* Requests for UsbGadget: none; functions that the HAL pulls up itself,   *)
(* with and without the vendor's; FunctionFS together with another         *)
(* function; an accessory; one that a property has to enable.              *)
(***************************************************************************)
EXTENDS UsbGadget

AllRequests == {{}, {"RNDIS"}, {"ACCESSORY"}, {"ADB", "NCM"}, {"UVC"}}
TwoVendors == {"user", "dm"}

=============================================================================
