------------------------- MODULE MCInterfaceBinding -------------------------
(* Two Protocols on one Transport; with two interfaces both Protocols are   *)
(* bound, or one of them twice in turn.                                     *)
EXTENDS InterfaceBinding

CONSTANTS p1, p2, t1, i1, i2, u1

MCProtocols == {p1, p2}
MCTransports == {t1}
MCInterfaces == {i1, i2}
MCUsers == {u1}
=============================================================================
