-------------------- MODULE MCNotifyUserWithRequestMultiple --------------------
(* Instances of NotifyUserWithRequestMultiple for TLC.                        *)
EXTENDS NotifyUserWithRequestMultiple
CONSTANTS f1, f2, p1, p2, h1, h2
MCFiles == {f1, f2}
MCOneProducer == {p1}
MCProducers == {p1, p2}
MCHandlers == {h1, h2}
MCValues == 0 .. MaxData
=============================================================================
