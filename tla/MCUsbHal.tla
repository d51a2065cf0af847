------------------------------ MODULE MCUsbHal ------------------------------
(* UsbHal for TLC: the one Type-C port of the device. *)
EXTENDS UsbHal

CONSTANTS port0

OnePort == {port0}
=============================================================================
