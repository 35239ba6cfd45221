------------------------ MODULE MCNotifyUserWithRequest ------------------------
(* Instances of NotifyUserWithRequest for TLC.                                *)
EXTENDS NotifyUserWithRequest
CONSTANTS b1, b2, r1, r2, t1, t2, t3
MCBuffers == {b1, b2}
MCRequests == {r1, r2}
MCThreeThreads == {t1, t2, t3}
MCSymmetry == Permutations(MCBuffers) \cup Permutations(Requests) \cup Permutations(Threads)
=============================================================================
