------------------------ MODULE MCDeviceInterfaceTarget -----------------------
(* Instances of DeviceInterfaceTarget for TLC: one thread that calls Methods. *)
EXTENDS DeviceInterfaceTarget
CONSTANT c1
MCCallers == {c1}
=============================================================================
