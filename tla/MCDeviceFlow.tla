----------------------------- MODULE MCDeviceFlow -----------------------------
(* One device for TLC.                                                        *)
EXTENDS DeviceFlow

Ports == Clients \X (1 .. MaxTry)
UploadBodies == {Whole, Part}
===============================================================================
