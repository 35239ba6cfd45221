-------------------------------- MODULE Rundown --------------------------------
(***************************************************************************)
(* DMF_Rundown: a count of the threads that use something, and the flag    *)
(* that keeps new ones out while its owner waits for them                  *)
(* (Modules.Library/Dmf_Rundown.c). Every access holds the Module lock, so *)
(* an operation is one step; the owner that waits polls a copy of the      *)
(* count, and is one step each time it polls.                              *)
(***************************************************************************)
EXTENDS Integers

VARIABLES
    ReferenceCount,         \* 1 for the owner that started, and 1 per user
    WaitingForRundown,      \* the owner waits
    polled                  \* the count as the waiting owner last read it

rundownVars == <<ReferenceCount, WaitingForRundown, polled>>

RundownTypeOK ==
    /\ ReferenceCount \in Nat
    /\ WaitingForRundown \in BOOLEAN
    /\ polled \in Nat

\* DMF_Rundown_Start by the owner, when it opens.
RundownInit ==
    /\ ReferenceCount = 1
    /\ WaitingForRundown = FALSE
    /\ polled = 0

Start ==
    /\ ReferenceCount' = 1
    /\ WaitingForRundown' = FALSE
    /\ UNCHANGED polled

CanReference_Unguarded == ReferenceCount >= 1   \* mutant: ignores the owner
CanReference == ReferenceCount >= 1 /\ ~WaitingForRundown

Reference ==
    /\ CanReference
    /\ ReferenceCount' = ReferenceCount + 1
    /\ UNCHANGED <<WaitingForRundown, polled>>

Dereference ==
    /\ ReferenceCount' = ReferenceCount - 1
    /\ UNCHANGED <<WaitingForRundown, polled>>

\* DMF_Rundown_EndAndWait: up to the loop, one pass of it, and its end.
EndBegins ==
    /\ WaitingForRundown' = TRUE
    /\ polled' = ReferenceCount
    /\ UNCHANGED ReferenceCount

EndPolls ==
    /\ polled > 0
    /\ ReferenceCount' = IF polled = 1 THEN 0 ELSE ReferenceCount
    /\ WaitingForRundown' = (WaitingForRundown /\ polled # 1)
    /\ polled' = ReferenceCount'

EndIsOver == polled = 0
=============================================================================
