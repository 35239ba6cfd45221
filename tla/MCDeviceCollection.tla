------------------------- MODULE MCDeviceCollection -------------------------
(* A collection of two Modules, the first of them with a Child; any driver, *)
(* any open options, and starts that fail anywhere.                         *)
EXTENDS DeviceCollection, TLC

CONSTANTS a, b, c

MCModules == {a, b, c}
MCRoots == <<a, b>>
MCChildren == (a :> <<c>>) @@ (b :> <<>>) @@ (c :> <<>>)
MCDrivers == DriverKinds
MCFailing == [dr \in MCDrivers |-> Starts]
MCOptions == [dr \in MCDrivers |-> ToSet(OpenOptions)]
=============================================================================
