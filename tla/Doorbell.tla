-------------------------------- MODULE Doorbell --------------------------------
(***************************************************************************)
(* DMF_Doorbell: however often and from wherever it is rung, one work item *)
(* at a time calls the Client back, and at least once after every ring     *)
(* (Modules.Library/Dmf_Doorbell.c). Each section under the lock of the    *)
(* Module is one step.                                                     *)
(*                                                                         *)
(* WDF queues a work item once however often it is enqueued, and may run   *)
(* one that is enqueued while its callback still runs beside it: Handlers  *)
(* are the callbacks that can run at a time.                               *)
(***************************************************************************)
CONSTANT Handlers

VARIABLES
    TrackDoorbellRing, WorkItemScheduled,
    workItem,       \* WDF has the work item in its queue
    ringer,         \* the threads that are about to enqueue it
    handler         \* where each handler is: "idle", "begin", "test" or a place of the Client

doorbellVars == <<TrackDoorbellRing, WorkItemScheduled, workItem, ringer, handler>>
moduleVars == <<TrackDoorbellRing, WorkItemScheduled>>

\* DMF_Doorbell_Open.
DoorbellInit ==
    /\ TrackDoorbellRing = FALSE /\ WorkItemScheduled = FALSE
    /\ workItem = FALSE
    /\ ringer = {}
    /\ handler = [h \in Handlers |-> "idle"]

\* DMF_Doorbell_Ring, under the lock.
Ring_OnlyWhenIdle(t) ==         \* mutant: a ring while the work item runs is forgotten
    /\ TrackDoorbellRing' = (TrackDoorbellRing \/ ~WorkItemScheduled)
    /\ WorkItemScheduled' = TRUE
    /\ ringer' = IF WorkItemScheduled THEN ringer ELSE ringer \cup {t}
    /\ UNCHANGED <<workItem, handler>>

Ring(t) ==
    /\ TrackDoorbellRing' = TRUE
    /\ WorkItemScheduled' = TRUE
    /\ ringer' = IF WorkItemScheduled THEN ringer ELSE ringer \cup {t}
    /\ UNCHANGED <<workItem, handler>>

\* The thread that found the work item not scheduled enqueues it.
RingEnqueues(t) ==
    /\ t \in ringer
    /\ ringer' = ringer \ {t}
    /\ workItem' = TRUE
    /\ UNCHANGED <<moduleVars, handler>>

\* Handlers are alike: the first one that is idle runs.
WorkItemStarts(h) ==
    /\ workItem
    /\ handler[h] = "idle" /\ h = CHOOSE k \in Handlers : handler[k] = "idle"
    /\ workItem' = FALSE
    /\ handler' = [handler EXCEPT ![h] = "begin"]
    /\ UNCHANGED <<moduleVars, ringer>>

\* Doorbell_WorkItemHandler: it calls the Client, from the place "callback" on.
CallsBack_Unscheduled(h) ==     \* mutant: the work item can be enqueued from now on
    /\ handler[h] = "begin"
    /\ TrackDoorbellRing' = FALSE
    /\ WorkItemScheduled' = FALSE
    /\ handler' = [handler EXCEPT ![h] = "callback"]
    /\ UNCHANGED <<workItem, ringer>>

CallsBack(h) ==
    /\ handler[h] = "begin"
    /\ TrackDoorbellRing' = FALSE
    /\ handler' = [handler EXCEPT ![h] = "callback"]
    /\ UNCHANGED <<WorkItemScheduled, workItem, ringer>>

\* The Client has returned: once more if the doorbell was rung meanwhile.
WasRungAgain == TrackDoorbellRing

Tests(h) ==
    /\ handler[h] = "test"
    /\ IF WasRungAgain
          THEN /\ TrackDoorbellRing' = FALSE
               /\ handler' = [handler EXCEPT ![h] = "callback"]
               /\ UNCHANGED WorkItemScheduled
          ELSE /\ WorkItemScheduled' = FALSE
               /\ handler' = [handler EXCEPT ![h] = "idle"]
               /\ UNCHANGED TrackDoorbellRing
    /\ UNCHANGED <<workItem, ringer>>

\* Who has the doorbell's errand: the thread that will enqueue the work item,
\* WDF's queue or a handler. There is one while WorkItemScheduled says so, and
\* one only.
IsActive(h) == handler[h] # "idle"

OneErrand ==
    /\ \A t, u \in ringer : t = u
    /\ \A h, k \in Handlers : IsActive(h) /\ IsActive(k) => h = k
    /\ workItem => ringer = {}
    /\ (\E h \in Handlers : IsActive(h)) => ~workItem /\ ringer = {}
    /\ ~WorkItemScheduled => ~workItem /\ ringer = {} /\ \A h \in Handlers : ~IsActive(h)
=============================================================================
