--------------------------- MODULE MCScheduledTask ---------------------------
(* Instances of ScheduledTask for TLC: two callers.                           *)
EXTENDS ScheduledTask
CONSTANTS c1, c2
MCCallers == {c1, c2}
MCBothModes == {"Deferred", "Immediate"}
=============================================================================
