---------------------------- MODULE MCDeviceManager ----------------------------
(* Model values for DeviceManager. *)
EXTENDS DeviceManager
CONSTANTS u1, u2
================================================================================
