---------------------- MODULE MCContinuousRequestTarget ----------------------
(* Instances of ContinuousRequestTarget for TLC.                              *)
EXTENDS ContinuousRequestTarget
MCAllModes == {"kernel", "passive", "user"}
=============================================================================
