--------------------------- MODULE MCDeviceControl ---------------------------
(* A small instance of DeviceControl.                                      *)
EXTENDS DeviceControl

=============================================================================
