--------------------------- MODULE MCUsbTransfer ----------------------------
(* Instances of UsbTransfer for TLC. *)
EXTENDS UsbTransfer
=============================================================================
