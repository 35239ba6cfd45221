-------------------------------- MODULE Thread --------------------------------
(***************************************************************************)
(* DMF_Thread with ThreadControlType_DmfControl: a thread that can be      *)
(* started and stopped any number of times and calls EvtThreadWork when    *)
(* work is ready (Modules.Library/Dmf_Thread.c).                           *)
(*                                                                         *)
(* These are its steps and its Methods; ThreadedBufferQueue gives them     *)
(* work. All events but EventClose reset themselves when a wait ends. Of   *)
(* two events that are set a wait takes the first. IsThreadStopPending,    *)
(* which only tells the Client, is left out.                               *)
(***************************************************************************)
EXTENDS Naturals

VARIABLES
    thread,         \* where the thread is
    events,         \* the events that are set
    isStopped       \* IsStopped

threadVars == <<thread, events, isStopped>>

Events == {"Start", "Stop", "WorkReady", "StopComplete", "Close"}

ThreadTypeOK ==
    /\ thread \in {"idle", "waiting", "working", "returning", "post",
                  "ended"}
    /\ events \subseteq Events
    /\ isStopped \in BOOLEAN

\* DMF_Thread_Open: the thread runs and waits for DMF_Thread_Start.
ThreadInit ==
    /\ thread = "idle"
    /\ events = {}
    /\ isStopped = TRUE

-----------------------------------------------------------------------------
(* The thread: Thread_ThreadCallback and Thread_WorkerThread.               *)

\* EvtThreadPre runs before the wait for work.
Starts ==
    /\ thread = "idle"
    /\ "Start" \in events
    /\ thread' = "waiting"
    /\ events' = events \ {"Start"}
    /\ UNCHANGED isStopped

BeginsWork ==
    /\ thread = "waiting"
    /\ "Stop" \notin events
    /\ "WorkReady" \in events
    /\ thread' = "working"
    /\ events' = events \ {"WorkReady"}
    /\ UNCHANGED isStopped

\* EvtThreadWork is done.
LeavesWork ==
    /\ thread = "working"
    /\ thread' = "returning"
    /\ UNCHANGED <<events, isStopped>>

\* Mutant: the event is reset after the work.
EndsWork_Resets ==
    /\ thread = "returning"
    /\ thread' = "waiting"
    /\ events' = events \ {"WorkReady"}
    /\ UNCHANGED isStopped

\* And the thread is back in its loop.
EndsWork ==
    /\ thread = "returning"
    /\ thread' = "waiting"
    /\ UNCHANGED <<events, isStopped>>

Stops ==
    /\ thread = "waiting"
    /\ "Stop" \in events
    /\ thread' = "post"
    /\ events' = events \ {"Stop"}
    /\ UNCHANGED isStopped

\* EvtThreadPost has run.
Stopped ==
    /\ thread = "post"
    /\ thread' = "idle"
    /\ events' = events \cup {"StopComplete"}
    /\ UNCHANGED isStopped

Ends ==
    /\ thread = "idle"
    /\ "Start" \notin events
    /\ "Close" \in events
    /\ thread' = "ended"
    /\ UNCHANGED <<events, isStopped>>

-----------------------------------------------------------------------------
(* DMF_Thread_WorkReady, DMF_Thread_Start and Thread_ThreadStop, which does *)
(* nothing when IsStopped, and Thread_ThreadDestroy.                        *)

WorkReady ==
    /\ events' = events \cup {"WorkReady"}
    /\ UNCHANGED <<thread, isStopped>>

ThreadStart ==
    /\ isStopped
    /\ isStopped' = FALSE
    /\ events' = events \cup {"Start"}
    /\ UNCHANGED thread

StopBegin ==
    /\ ~isStopped
    /\ events' = events \cup {"Stop"}
    /\ UNCHANGED <<thread, isStopped>>

\* Mutant: the caller does not wait for EventStopComplete.
StopEnd_NoWait ==
    /\ isStopped' = TRUE
    /\ events' = events \ {"StopComplete"}
    /\ UNCHANGED thread

StopEnd ==
    /\ "StopComplete" \in events
    /\ isStopped' = TRUE
    /\ events' = events \ {"StopComplete"}
    /\ UNCHANGED thread

DestroyBegin ==
    /\ events' = events \cup {"Close"}
    /\ UNCHANGED <<thread, isStopped>>

-----------------------------------------------------------------------------
\* Between a Stop and the next Start the thread calls nothing of the Client,
\* and no event is left that would stop the next run at once or end the next
\* Stop before the thread has stopped.
StoppedIsQuiet ==
    isStopped => /\ thread \in {"idle", "ended"}
                 /\ events \subseteq {"WorkReady", "Close"}
=============================================================================
