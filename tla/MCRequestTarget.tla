--------------------------- MODULE MCRequestTarget ---------------------------
(* Instances of RequestTarget for TLC: one or two requests, two threads.      *)
EXTENDS RequestTarget
CONSTANTS r1, r2, t1, t2
MCRequests == {r1, r2}
MCOneRequest == {r1}
MCThreads == {t1, t2}
MCKinds == {"fresh", "synchronous", "reuse"}
MCReuse == {"reuse"}
MCFailures == {"format", "timer", "send"}
MCNoFailures == {}
MCBothLevels == BOOLEAN
MCDispatchLevel == {FALSE}
=============================================================================
