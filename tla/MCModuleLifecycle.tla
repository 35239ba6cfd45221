------------------------- MODULE MCModuleLifecycle -------------------------
(* Three callers, so that the count runs through several values on its way  *)
(* down, and three threads that close.                                      *)
EXTENDS ModuleLifecycle

CONSTANTS c1, c2, c3, r1, r2, d

MCCallers == {c1, c2, c3}
MCRemovers == {r1, r2}
=============================================================================
