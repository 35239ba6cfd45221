-------------------------- MODULE ThreadedBufferQueue --------------------------
(***************************************************************************)
(* DMF_ThreadedBufferQueue: Client threads enqueue buffers of work in a    *)
(* DMF_BufferQueue and may wait for them; a DMF_Thread takes them out and  *)
(* has the Client do the work (Modules.Library/Dmf_ThreadedBufferQueue.c). *)
(*                                                                         *)
(* BufferPool gives the two pools of the queue (no buffer has a timer      *)
(* here), Thread the thread. One thread of the Client, the controller,     *)
(* starts, stops, flushes and closes the Module, one call at a time; it    *)
(* closes it when no caller is inside a Method other than to wait.         *)
(***************************************************************************)
EXTENDS BufferPool, Thread

CONSTANTS Callers,      \* threads of the Client that enqueue work
          NULL

ASSUME CallersAssumption == NULL \notin Callers

VARIABLES
    caller,     \* where each caller is
    fetched,    \* the buffer each caller has fetched or waits for
    wakes,      \* the caller whose Event and NtStatus are in each buffer
    event,      \* the Event on the stack of each caller
    status,     \* the NtStatus on its stack
    working,    \* the buffer the thread has taken out
    pending,    \* buffers whose work the Client has left pending
    flushedWork, \* the buffer Flush has taken out
    step,       \* how far the completion of each buffer is
    controller, \* what the controller does
    executed    \* history: the waiting callers whose work the Client has done

callerVars == <<caller, fetched, event, status>>
bufferVars == <<wakes, working, pending, flushedWork, step>>
threadedVars == <<poolVars, threadVars, callerVars, bufferVars, controller, executed>>

Closing == {"closeStop", "closeFlush", "destroy", "closed"}

ThreadedTypeOK ==
    /\ PoolTypeOK
    /\ ThreadTypeOK
    /\ caller \in [Callers -> {"idle", "fetched", "enqueued", "toWait", "waiting"}]
    /\ fetched \in [Callers -> Buffers \cup {NULL}]
    /\ wakes \in [Buffers -> Callers \cup {NULL}]
    /\ event \in [Callers -> BOOLEAN]
    /\ status \in [Callers -> {"none", "done", "cancelled"}]
    /\ working \subseteq Buffers
    /\ pending \subseteq Buffers
    /\ flushedWork \subseteq Buffers
    /\ step \in [Buffers -> {"none", "client", "write", "signal", "reuse"}]
    /\ controller \in {"idle", "stop", "flush"} \cup Closing
    /\ executed \subseteq Callers

ThreadedInit ==
    /\ PoolInit
    /\ ThreadInit
    /\ caller = [c \in Callers |-> "idle"]
    /\ fetched = [c \in Callers |-> NULL]
    /\ wakes = [b \in Buffers |-> NULL]
    /\ event = [c \in Callers |-> FALSE]
    /\ status = [c \in Callers |-> "none"]
    /\ working = {}
    /\ pending = {}
    /\ flushedWork = {}
    /\ step = [b \in Buffers |-> "none"]
    /\ controller = "idle"
    /\ executed = {}

-----------------------------------------------------------------------------
(* The callers.                                                             *)

ThreadedFetch(c, b) ==
    /\ controller \notin Closing
    /\ caller[c] = "idle"
    /\ SourceGet(b)
    /\ caller' = [caller EXCEPT ![c] = "fetched"]
    /\ fetched' = [fetched EXCEPT ![c] = b]
    /\ UNCHANGED <<threadVars, event, status, bufferVars, controller, executed>>

ThreadedReuse(c) ==
    /\ caller[c] = "fetched"
    /\ SourcePut(fetched[c])
    /\ wakes' = [wakes EXCEPT ![fetched[c]] = NULL]
    /\ caller' = [caller EXCEPT ![c] = "idle"]
    /\ fetched' = [fetched EXCEPT ![c] = NULL]
    /\ UNCHANGED <<threadVars, event, status, working, pending, flushedWork, step,
                   controller, executed>>

PutInQueue(b) == SinkPut(b) \/ SinkPutAtHead(b)

\* DMF_ThreadedBufferQueue_Enqueue and _EnqueueAtHead.
ThreadedEnqueue(c) ==
    /\ caller[c] = "fetched"
    /\ wakes' = [wakes EXCEPT ![fetched[c]] = NULL]
    /\ PutInQueue(fetched[c])
    /\ caller' = [caller EXCEPT ![c] = "enqueued"]
    /\ fetched' = [fetched EXCEPT ![c] = NULL]
    /\ UNCHANGED <<threadVars, event, status, working, pending, flushedWork, step,
                   controller, executed>>

\* DMF_ThreadedBufferQueue_EnqueueAndWait and _EnqueueAtHeadAndWait.
EnqueueAndWait(c) ==
    /\ caller[c] = "fetched"
    /\ wakes' = [wakes EXCEPT ![fetched[c]] = c]
    /\ PutInQueue(fetched[c])
    /\ caller' = [caller EXCEPT ![c] = "toWait"]
    /\ UNCHANGED <<threadVars, fetched, event, status, working, pending, flushedWork,
                   step, controller, executed>>

SetWorkReady(c) ==
    /\ caller[c] \in {"enqueued", "toWait"}
    /\ WorkReady
    /\ caller' = [caller EXCEPT ![c] = IF @ = "toWait" THEN "waiting" ELSE "idle"]
    /\ UNCHANGED <<poolVars, fetched, event, status, bufferVars, controller, executed>>

\* Mutant: the wait may end without the event.
Return_TimesOut(c) ==
    /\ caller[c] = "waiting"
    /\ caller' = [caller EXCEPT ![c] = "idle"]
    /\ fetched' = [fetched EXCEPT ![c] = NULL]
    /\ event' = [event EXCEPT ![c] = FALSE]
    /\ status' = [status EXCEPT ![c] = "none"]
    /\ executed' = executed \ {c}
    /\ UNCHANGED <<poolVars, threadVars, bufferVars, controller>>

\* Its Event and its NtStatus are no more.
Return(c) ==
    /\ caller[c] = "waiting"
    /\ event[c]
    /\ caller' = [caller EXCEPT ![c] = "idle"]
    /\ fetched' = [fetched EXCEPT ![c] = NULL]
    /\ event' = [event EXCEPT ![c] = FALSE]
    /\ status' = [status EXCEPT ![c] = "none"]
    /\ executed' = executed \ {c}
    /\ UNCHANGED <<poolVars, threadVars, bufferVars, controller>>

-----------------------------------------------------------------------------
(* ThreadedBufferQueue_WorkCompleted: by the thread, by Flush or, for work  *)
(* left pending, by the Client.                                             *)

\* Mutant: a buffer nobody waits for has an NtStatus too.
WriteStatus_Unchecked(b) ==
    /\ step[b] = "write"
    /\ status' = status @@ (wakes[b] :> "done")
    /\ step' = [step EXCEPT ![b] = "reuse"]
    /\ UNCHANGED <<poolVars, threadVars, caller, fetched, event, wakes, working,
                   pending, flushedWork, controller, executed>>

\* Mutant: its status is written after the caller is woken.
WriteStatus_Later(b) ==
    /\ step[b] = "write"
    /\ IF wakes[b] = NULL THEN UNCHANGED event
       ELSE event' = [event EXCEPT ![wakes[b]] = TRUE]
    /\ step' = [step EXCEPT ![b] = "signal"]
    /\ UNCHANGED <<poolVars, threadVars, caller, fetched, status, wakes, working,
                   pending, flushedWork, controller, executed>>

WriteStatus(b) ==
    /\ step[b] = "write"
    /\ IF wakes[b] = NULL
          THEN UNCHANGED status /\ step' = [step EXCEPT ![b] = "reuse"]
          ELSE /\ status' = [status EXCEPT ![wakes[b]] =
                                IF b \in flushedWork THEN "cancelled" ELSE "done"]
               /\ step' = [step EXCEPT ![b] = "signal"]
    /\ UNCHANGED <<poolVars, threadVars, caller, fetched, event, wakes, working,
                   pending, flushedWork, controller, executed>>

SetEvent(b) ==
    /\ step[b] = "signal"
    /\ event' = [event EXCEPT ![wakes[b]] = TRUE]
    /\ step' = [step EXCEPT ![b] = "reuse"]
    /\ UNCHANGED <<poolVars, threadVars, caller, fetched, status, wakes, working,
                   pending, flushedWork, controller, executed>>

\* The buffer is zeroed.
ReuseCompleted(b) ==
    /\ step[b] = "reuse"
    /\ SourcePut(b)
    /\ wakes' = [wakes EXCEPT ![b] = NULL]
    /\ step' = [step EXCEPT ![b] = "none"]
    /\ working' = working \ {b}
    /\ pending' = pending \ {b}
    /\ flushedWork' = flushedWork \ {b}
    /\ UNCHANGED <<threadVars, callerVars, controller, executed>>

WorkCompleted(b) == WriteStatus(b) \/ SetEvent(b) \/ ReuseCompleted(b)

-----------------------------------------------------------------------------
(* The thread: ThreadedBufferQueueThreadCallback is its EvtThreadWork.      *)

ThreadSteps ==
    /\ Starts \/ BeginsWork \/ EndsWork \/ Stops \/ Stopped \/ Ends
    /\ UNCHANGED <<poolVars, callerVars, bufferVars, controller, executed>>

WorkDequeue(b) ==
    /\ thread = "working"
    /\ working = {}
    /\ SinkGet(b)
    /\ working' = {b}
    /\ step' = [step EXCEPT ![b] = "client"]
    /\ UNCHANGED <<threadVars, callerVars, wakes, pending, flushedWork, controller,
                   executed>>

NoMoreWork ==
    /\ thread = "working"
    /\ working = {}
    /\ NoneToGet
    /\ LeavesWork
    /\ UNCHANGED <<poolVars, callerVars, bufferVars, controller, executed>>

\* The Client has done the work: WorkComplete.
ClientCompletes(b) ==
    /\ step[b] = "client"
    /\ b \in working
    /\ executed' = executed \cup ({wakes[b]} \ {NULL})
    /\ step' = [step EXCEPT ![b] = "write"]
    /\ UNCHANGED <<poolVars, threadVars, callerVars, wakes, working, pending,
                   flushedWork, controller>>

\* Mutant: the thread does not let go of the buffer.
ClientPends_KeepsBuffer(b) ==
    /\ step[b] = "client"
    /\ b \in working
    /\ pending' = pending \cup {b}
    /\ step' = [step EXCEPT ![b] = "write"]
    /\ UNCHANGED <<poolVars, threadVars, callerVars, wakes, working, flushedWork,
                   controller, executed>>

\* The Client keeps the buffer: WorkPending. The thread takes no other.
ClientPends(b) ==
    /\ step[b] = "client"
    /\ b \in working
    /\ working' = {}
    /\ pending' = pending \cup {b}
    /\ LeavesWork
    /\ UNCHANGED <<poolVars, callerVars, wakes, flushedWork, step, controller,
                   executed>>

\* DMF_ThreadedBufferQueue_WorkCompleted, once the work is done.
CompletePending(b) ==
    /\ step[b] = "client"
    /\ b \in pending
    /\ executed' = executed \cup ({wakes[b]} \ {NULL})
    /\ step' = [step EXCEPT ![b] = "write"]
    /\ UNCHANGED <<poolVars, threadVars, callerVars, wakes, working, pending,
                   flushedWork, controller>>

-----------------------------------------------------------------------------
(* The controller.                                                          *)

Start ==
    /\ controller = "idle"
    /\ ThreadStart
    /\ UNCHANGED <<poolVars, callerVars, bufferVars, controller, executed>>

Stop ==
    /\ controller = "idle"
    /\ StopBegin
    /\ controller' = "stop"
    /\ UNCHANGED <<poolVars, callerVars, bufferVars, executed>>

StopReturns ==
    /\ controller \in {"stop", "closeStop"}
    /\ StopEnd
    /\ controller' = IF controller = "stop" THEN "idle" ELSE "closeFlush"
    /\ UNCHANGED <<poolVars, callerVars, bufferVars, executed>>

Flush ==
    /\ controller = "idle"
    /\ controller' = "flush"
    /\ UNCHANGED <<poolVars, threadVars, callerVars, bufferVars, executed>>

FlushDequeue(b) ==
    /\ controller \in {"flush", "closeFlush"}
    /\ flushedWork = {}
    /\ SinkGet(b)
    /\ flushedWork' = {b}
    /\ step' = [step EXCEPT ![b] = "write"]
    /\ UNCHANGED <<threadVars, callerVars, wakes, working, pending, controller,
                   executed>>

FlushReturns ==
    /\ controller = "flush"
    /\ flushedWork = {}
    /\ NoneToGet
    /\ controller' = "idle"
    /\ UNCHANGED <<poolVars, threadVars, callerVars, bufferVars, executed>>

\* Mutant: waits for a thread that has stopped already.
ThreadedCloseBegin_AlwaysWaits ==
    /\ controller = "idle"
    /\ \A c \in Callers : caller[c] \in {"idle", "waiting"}
    /\ events' = events \cup {"Stop"}
    /\ controller' = "closeStop"
    /\ UNCHANGED <<thread, isStopped, poolVars, callerVars, bufferVars, executed>>

\* DMF_ThreadedBufferQueue_Close stops the thread, flushes, and then the
\* child DMF_Thread is closed.
ThreadedCloseBegin ==
    /\ controller = "idle"
    /\ \A c \in Callers : caller[c] \in {"idle", "waiting"}
    /\ \/ StopBegin /\ controller' = "closeStop"
       \/ isStopped /\ UNCHANGED threadVars /\ controller' = "closeFlush"
    /\ UNCHANGED <<poolVars, callerVars, bufferVars, executed>>

CloseFlushed ==
    /\ controller = "closeFlush"
    /\ flushedWork = {}
    /\ NoneToGet
    /\ DestroyBegin
    /\ controller' = "destroy"
    /\ UNCHANGED <<poolVars, callerVars, bufferVars, executed>>

ThreadEnded ==
    /\ controller = "destroy"
    /\ thread = "ended"
    /\ controller' = "closed"
    /\ UNCHANGED <<poolVars, threadVars, callerVars, bufferVars, executed>>

-----------------------------------------------------------------------------
CallerStep(c) == SetWorkReady(c) \/ Return(c)
WorkerStep == \/ ThreadSteps \/ NoMoreWork
              \/ \E b \in Buffers : WorkDequeue(b) \/ ClientCompletes(b) \/ ClientPends(b)
              \/ \E b \in working : WorkCompleted(b)
PendingStep(b) == CompletePending(b) \/ (b \in pending /\ WorkCompleted(b))
ControllerStep == \/ StopReturns \/ FlushReturns \/ CloseFlushed \/ ThreadEnded
                  \/ \E b \in Buffers : FlushDequeue(b)
                  \/ \E b \in flushedWork : WorkCompleted(b)

ThreadedNext ==
    \/ \E c \in Callers :
          \/ CallerStep(c) \/ ThreadedReuse(c) \/ ThreadedEnqueue(c)
          \/ EnqueueAndWait(c)
          \/ \E b \in Buffers : ThreadedFetch(c, b)
    \/ WorkerStep \/ ControllerStep
    \/ \E b \in Buffers : PendingStep(b)
    \/ Start \/ Stop \/ Flush \/ ThreadedCloseBegin

\* A call that has begun goes on, the thread runs, and the Client completes
\* the work it has left pending. It need not call anything.
ThreadedFairness ==
    /\ \A c \in Callers : WF_threadedVars(CallerStep(c))
    /\ WF_threadedVars(WorkerStep)
    /\ WF_threadedVars(ControllerStep)
    /\ \A b \in Buffers : WF_threadedVars(PendingStep(b))

ThreadedSpec == ThreadedInit /\ [][ThreadedNext]_threadedVars /\ ThreadedFairness

-----------------------------------------------------------------------------
\* A buffer that is in no list is held by one caller, the thread, Flush or
\* the Client that has left it pending: it is completed and reused once.
HeldByOne ==
    LET inHand == {fetched[c] : c \in {d \in Callers : caller[d] = "fetched"}}
        holder == <<inHand, working, pending, flushedWork>>
    IN  /\ held = inHand \cup working \cup pending \cup flushedWork
        /\ \A i, j \in DOMAIN holder : i # j => holder[i] \cap holder[j] = {}
        /\ \A c, d \in Callers :
              /\ c # d
              /\ caller[c] = "fetched" /\ caller[d] = "fetched"
              => fetched[c] # fetched[d]

\* The Event and the NtStatus that a completion is about to write are on the
\* stack of a caller that is still waiting for that buffer.
WakesWaitingCaller ==
    \A b \in Buffers :
        /\ step[b] \in {"write", "signal"}
        /\ wakes[b] # NULL
        => /\ caller[wakes[b]] \in {"toWait", "waiting"}
           /\ fetched[wakes[b]] = b

\* A caller that is woken reads what became of its own work: done when the
\* Client has done it, cancelled when Flush took it first.
WaiterGetsItsStatus ==
    \A c \in Callers :
        caller[c] = "waiting" /\ event[c] =>
            status[c] = IF c \in executed THEN "done" ELSE "cancelled"

\* While the thread is stopped it holds no buffer.
StoppedHoldsNothing == StoppedIsQuiet /\ (isStopped => working = {})

\* Work has one owner, and none while the thread is stopped but its Client.
WorkHasOneOwner == HeldByOne /\ StoppedHoldsNothing

\* A completion writes to the stack of the caller that waits for it, and writes
\* what became of that caller's work.
AnswersReachTheirCaller == WakesWaitingCaller /\ WaiterGetsItsStatus

InOperation == ~isStopped \/ controller \in Closing

\* Into an empty queue it makes no difference.
AtHead == sink # <<>> /\ \E b \in held : SinkPutAtHead(b)

\* A caller waits only while the thread is stopped: in operation it is
\* served, and so it is by the close, unless others go on enqueueing at the
\* head or the Client has left work pending.
WaiterIsServed ==
    \/ []<><<AtHead>>_threadedVars
    \/ <>(pending # {})
    \/ \A c \in Callers : caller[c] = "waiting" /\ InOperation
                            ~> caller[c] # "waiting" \/ ~InOperation

\* The same when work is left pending and completed later: "this function
\* waits until the work enqueued by the call to this Method to finish
\* execution" (Dmf_ThreadedBufferQueue.md:226).
WaiterIsServedAfterPending ==
    \/ []<><<AtHead>>_threadedVars
    \/ \A c \in Callers : caller[c] = "waiting" /\ InOperation
                            ~> caller[c] # "waiting" \/ ~InOperation

\* Close ends, whether it stops the thread itself or the Client has done so: no
\* event is awaited that an earlier run has used up or that nobody will set.
ThreadedCloseEnds == controller \in Closing ~> controller = "closed"
=============================================================================
