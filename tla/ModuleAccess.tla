---------------------------- MODULE ModuleAccess ----------------------------
(***************************************************************************)
(* What a DMF Module promises the threads that use it, without locks,      *)
(* counters or flags: Methods may enter while the Module is open, nobody   *)
(* enters once a close has begun, the Module's resources are released only *)
(* after every Method has left, and a destroyed Module is never used.      *)
(* ModuleLifecycle implements this specification.                          *)
(***************************************************************************)
CONSTANT Callers        \* threads that call Methods of the Module

VARIABLES phase,        \* where the Module is in its open/close cycle
          users         \* callers that are inside a Method

aVars == <<phase, users>>

Phases == {"closed", "open", "draining", "closing", "destroyed"}

ATypeOK == /\ phase \in Phases
           /\ users \in SUBSET Callers

AInit == /\ phase = "closed"
         /\ users = {}

AOpen == /\ phase = "closed"
         /\ phase' = "open"
         /\ UNCHANGED users

AEnter(c) == /\ phase = "open"
             /\ c \notin users
             /\ users' = users \cup {c}
             /\ UNCHANGED phase

ALeave(c) == /\ c \in users
             /\ users' = users \ {c}
             /\ UNCHANGED phase

ABeginClose == /\ phase = "open"
               /\ phase' = "draining"
               /\ UNCHANGED users

ADrained == /\ phase = "draining"
            /\ users = {}
            /\ phase' = "closing"
            /\ UNCHANGED users

AEndClose == /\ phase = "closing"
             /\ phase' = "closed"
             /\ UNCHANGED users

ADestroy == /\ phase = "closed"
            /\ phase' = "destroyed"
            /\ UNCHANGED users

ANext == \/ AOpen \/ ABeginClose \/ ADrained \/ AEndClose \/ ADestroy
         \/ \E c \in Callers : AEnter(c) \/ ALeave(c)

ASafety == AInit /\ [][ANext]_aVars

ASpec == /\ ASafety
         /\ WF_aVars(ADrained)
         /\ WF_aVars(AEndClose)
         /\ \A c \in Callers : WF_aVars(ALeave(c))
=============================================================================
