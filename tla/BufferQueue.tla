------------------------------ MODULE BufferQueue ------------------------------
(***************************************************************************)
(* DMF_BufferQueue: a producer and a consumer DMF_BufferPool, the buffers  *)
(* of the one enqueued in the other with or without a timer                *)
(* (Modules.Library/Dmf_BufferQueue.c), its Client, and its close followed *)
(* by the close of the consumer.                                           *)
(*                                                                         *)
(* Client threads call the Methods with any buffer they hold, also inside  *)
(* their timer callbacks. A Method that the closing Module validates       *)
(* (CLOSING_OK) may come until the consumer is closed, the others only     *)
(* while it is open. One thread at a time flushes.                         *)
(***************************************************************************)
EXTENDS BufferPool

VARIABLES
    phase,              \* of the Module, then of the consumer
    flushing,           \* the Flush of the Client or of Close is in its loop
    flushed,            \* the buffer that Flush has got and not reused yet
    clientCallback,     \* buffers with a ClientTimerExpirationCallback
    attached            \* buffers with resources of the Client attached

vars == <<poolVars, phase, flushing, flushed, clientCallback, attached>>
moduleVars == <<phase, flushing, flushed>>

TypeOK ==
    /\ PoolTypeOK
    /\ phase \in {"open", "closing", "consumerClosing", "closed"}
    /\ flushing \in BOOLEAN
    /\ flushed \subseteq held
    /\ clientCallback \subseteq Buffers
    /\ attached \subseteq Buffers

Init ==
    /\ PoolInit
    /\ phase = "open"
    /\ flushing = FALSE
    /\ flushed = {}
    /\ clientCallback = {}
    /\ attached = {}

-----------------------------------------------------------------------------
(* The Methods.                                                             *)

\* A new or zeroed buffer.
Fetch(b) ==
    /\ phase = "open"
    /\ SourceGet(b)
    /\ clientCallback' = clientCallback \ {b}
    /\ UNCHANGED <<moduleVars, attached>>

\* The Client may attach resources to the buffer it enqueues.
Enqueue(b) ==
    /\ phase = "open"
    /\ b \notin flushed
    /\ SinkPut(b) \/ SinkPutAtHead(b)
    /\ attached' = attached \cup {b}
    /\ UNCHANGED <<moduleVars, clientCallback>>

EnqueueWithTimer(b) ==
    /\ phase = "open"
    /\ b \notin flushed
    /\ clientCallback' = clientCallback \cup {b}
    /\ SinkPutWithTimer(b)
    /\ attached' = attached \cup {b}
    /\ UNCHANGED moduleVars

Dequeue(b) ==
    /\ phase = "open"
    /\ SinkGet(b)
    /\ UNCHANGED <<moduleVars, clientCallback, attached>>

Enumerate(b) ==
    /\ phase = "open"
    /\ EnumerateRemove(b) \/ EnumerateStopTimer(b)
    /\ UNCHANGED <<moduleVars, clientCallback, attached>>

ReuseBuffer_InConsumer(b) ==                    \* mutant: in the wrong pool
    /\ attached' = attached \ {b}
    /\ SinkPut(b)
    /\ UNCHANGED clientCallback

\* The cleanup callback, then the buffer goes back to the producer.
ReuseBuffer(b) ==
    /\ attached' = attached \ {b}
    /\ SourcePut(b)
    /\ UNCHANGED clientCallback

Reuse(b) ==
    /\ phase # "closed"
    /\ b \notin flushed
    /\ ReuseBuffer(b)
    /\ UNCHANGED moduleVars

\* DMF_BufferQueue_Flush, of the Client (Close's is CloseBegin).
FlushBegin ==
    /\ phase = "open"
    /\ ~flushing
    /\ flushing' = TRUE
    /\ UNCHANGED <<poolVars, phase, flushed, clientCallback, attached>>

FlushGets(b) ==
    /\ flushing
    /\ flushed = {}
    /\ SinkGet(b)
    /\ flushed' = {b}
    /\ UNCHANGED <<phase, flushing, clientCallback, attached>>

FlushReuses(b) ==
    /\ b \in flushed
    /\ ReuseBuffer(b)
    /\ flushed' = {}
    /\ UNCHANGED <<phase, flushing>>

\* Get fails: the consumer is empty or has only buffers about to expire.
FlushEnd ==
    /\ flushing
    /\ flushed = {}
    /\ NoneToGet
    /\ flushing' = FALSE
    /\ UNCHANGED <<poolVars, phase, flushed, clientCallback, attached>>

-----------------------------------------------------------------------------
(* The timer: BufferQueue_TimerCallback calls the Client's callback, which  *)
(* was stored in the buffer.                                                *)

Expire(b) ==
    /\ TimerExpires(b) \/ HandlerRemoves(b)
    /\ UNCHANGED <<moduleVars, clientCallback, attached>>

TimerCallback(b) ==
    /\ HandlerCalls(b)
    /\ clientCallback' = clientCallback \ {b}
    /\ UNCHANGED <<moduleVars, attached>>

TimerCallbackReturns_Clears(b) ==               \* mutant: cleared afterwards
    /\ HandlerReturns(b)
    /\ clientCallback' = clientCallback \ {b}
    /\ UNCHANGED <<moduleVars, attached>>

TimerCallbackReturns(b) ==
    /\ HandlerReturns(b)
    /\ UNCHANGED <<moduleVars, clientCallback, attached>>

-----------------------------------------------------------------------------
(* DMF_BufferQueue_Close, then DMF_BufferPool_Close of the consumer.        *)

CloseBegin ==
    /\ phase = "open"
    /\ ~flushing
    /\ phase' = "closing"
    /\ flushing' = TRUE
    /\ UNCHANGED <<poolVars, flushed, clientCallback, attached>>

ConsumerClose ==
    /\ phase = "closing"
    /\ ~flushing
    /\ phase' = "consumerClosing"
    /\ UNCHANGED <<poolVars, flushing, flushed, clientCallback, attached>>

ConsumerDestroys(b) ==
    /\ phase = "consumerClosing"
    /\ DestroyRemoves(b) \/ DestroyDeletes(b)
    /\ UNCHANGED <<moduleVars, clientCallback, attached>>

ConsumerClosed ==
    /\ phase = "consumerClosing"
    /\ sink = <<>>
    /\ destroying = {}
    /\ phase' = "closed"
    /\ UNCHANGED <<poolVars, flushing, flushed, clientCallback, attached>>

-----------------------------------------------------------------------------
ClientStep(b) == \/ Fetch(b) \/ Enqueue(b) \/ EnqueueWithTimer(b)
                 \/ Dequeue(b) \/ Enumerate(b) \/ Reuse(b)
FlushStep(b) == FlushGets(b) \/ FlushReuses(b)
TimerStep(b) == Expire(b) \/ TimerCallback(b) \/ TimerCallbackReturns(b)
CloseStep == \/ ConsumerClose \/ ConsumerClosed \/ FlushEnd
             \/ \E b \in Buffers : FlushStep(b) \/ ConsumerDestroys(b)

Next == \/ \E b \in Buffers : ClientStep(b) \/ TimerStep(b)
        \/ FlushBegin \/ CloseBegin \/ CloseStep

\* Timers expire, their handlers run and callbacks return, and a thread that
\* has begun to flush or to close goes on. The Client need not do anything.
Fairness == /\ \A b \in Buffers : WF_vars(TimerStep(b))
            /\ WF_vars(CloseStep)

Spec == Init /\ [][Next]_vars /\ Fairness

-----------------------------------------------------------------------------
\* The handler of a buffer finds the Client's callback stored in it: the
\* assertion of BufferQueue_TimerCallback (168), whatever the Client did with
\* the buffer in between.
TimerFindsClientCallback == Expiring \subseteq clientCallback

\* While the consumer is open the producer accounts for every buffer.
BuffersAreAccountedFor == phase \in {"open", "closing"} => AllocationIsExact

\* Every buffer is somewhere, and in one place only.
BuffersHavePlaces == OneOwner /\ BuffersAreAccountedFor

\* A timer finds the use of the buffer, and the callback, that it was started for.
TimersServeTheirUse == TimersBelongToTheSink /\ TimerFindsClientCallback

\* A buffer whose timer has expired is given to the Client, unless the close
\* of the consumer takes it first.
ExpiredIsDelivered ==
    \A b \in Buffers : b \in due ~> (handler[b] = "removed" \/ b \in destroying)

\* Close ends, whatever timers expire meanwhile.
CloseEnds == (phase = "closing") ~> (phase = "closed")

\* No buffer is deleted with resources of the Client attached: Close "causes
\* the Client's clean up callback to be called" (Dmf_BufferQueue.c:298).
CleanedUpBeforeDeleted == attached \subseteq Allocated
=============================================================================
