------------------------------ MODULE BufferPool ------------------------------
(***************************************************************************)
(* DMF_BufferPool: a pool that allocates buffers (source mode) and a pool  *)
(* that buffers from it are put into, optionally with a timer (sink mode)  *)
(* (Modules.Library/Dmf_BufferPool.c).                                     *)
(*                                                                         *)
(* These are the operations of the two pools; BufferQueue and              *)
(* ThreadedBufferQueue are built from them. Every operation holds the lock *)
(* of its pool for all it does, so each is one action, and the handler of  *)
(* a timer is three: until the lock, under it, and the Client's callback.  *)
(* The buffers in the source are zeroed and alike, so it is a set; the     *)
(* sink is consumed in order. A buffer has a WDFTIMER of its own, whose    *)
(* callbacks WDF runs one at a time.                                       *)
(***************************************************************************)
EXTENDS Naturals, SequencesExt

CONSTANTS Buffers,          \* bound: buffers there is memory for
          BufferCount,      \* SourceSettings.BufferCount
          EnableLookAside   \* SourceSettings.EnableLookAside

\* A source has buffers of its own or creates them on demand.
SourceAssumption ==
    /\ IsFiniteSet(Buffers)
    /\ BufferCount \in 0 .. Cardinality(Buffers)
    /\ EnableLookAside \in BOOLEAN
    /\ BufferCount = 0 => EnableLookAside
ASSUME SourceAssumption

VARIABLES
    source,             \* the list of the source
    sink,               \* the list of the sink, first to last
    held,               \* buffers the Client has got
    additional,         \* NumberOfAdditionalBuffersAllocated
    expirationCallback, \* buffers whose TimerExpirationCallback # NULL
    timer,              \* buffers whose timer is in the system's queue
    due,                \* buffers whose timer handler has yet to take the lock
    handler,            \* what the handler of each buffer does after it
    destroying          \* the buffers that the close of the sink has taken out

lists == <<source, sink, held, additional>>
timerVars == <<expirationCallback, timer, due, handler>>
poolVars == <<lists, timerVars, destroying>>

InSink == ToSet(sink)
\* Buffers that the handler has removed and not given to the Client yet.
Expiring == {b \in Buffers : handler[b] = "removed"}
Allocated == source \cup InSink \cup held \cup Expiring \cup destroying

PoolTypeOK ==
    /\ source \subseteq Buffers
    /\ sink \in Seq(Buffers)
    /\ held \subseteq Buffers
    /\ additional \in 0 .. Cardinality(Buffers)
    /\ expirationCallback \subseteq Buffers
    /\ timer \subseteq Buffers
    /\ due \subseteq Buffers
    /\ handler \in [Buffers -> {"idle", "removed", "calling"}]
    /\ destroying \subseteq Buffers

\* BufferPool_BufferPoolCreate allocates the buffers of the source.
PoolInit ==
    /\ source \in {s \in SUBSET Buffers : Cardinality(s) = BufferCount}
    /\ sink = <<>>
    /\ held = {}
    /\ additional = 0
    /\ expirationCallback = {}
    /\ timer = {}
    /\ due = {}
    /\ handler = [b \in Buffers |-> "idle"]
    /\ destroying = {}

-----------------------------------------------------------------------------
(* The source.                                                              *)

GetExisting(b) ==
    /\ b \in source
    /\ source' = source \ {b}
    /\ UNCHANGED <<additional, expirationCallback>>

\* BufferPool_BufferPoolEntryCreateAndAddToList, and the buffer is taken.
GetNew(b) ==
    /\ source = {}
    /\ EnableLookAside
    /\ b \notin Allocated /\ handler[b] = "idle"
    /\ additional' = additional + 1
    /\ expirationCallback' = expirationCallback \ {b}
    /\ UNCHANGED source

SourceGet(b) ==
    /\ GetExisting(b) \/ GetNew(b)
    /\ held' = held \cup {b}
    /\ UNCHANGED <<sink, timer, due, handler, destroying>>

SourcePut_KeepsCount(b) ==                      \* mutant: deletes uncounted
    /\ b \in held
    /\ held' = held \ {b}
    /\ IF EnableLookAside /\ additional > 0
          THEN UNCHANGED <<source, additional>>
          ELSE source' = source \cup {b} /\ UNCHANGED additional
    /\ UNCHANGED <<sink, timerVars, destroying>>

\* Additional buffers are deleted, whichever buffers they are.
SourcePut(b) ==
    /\ b \in held
    /\ held' = held \ {b}
    /\ IF EnableLookAside /\ additional > 0
          THEN additional' = additional - 1 /\ UNCHANGED source
          ELSE source' = source \cup {b} /\ UNCHANGED additional
    /\ UNCHANGED <<sink, timerVars, destroying>>

-----------------------------------------------------------------------------
(* The sink.                                                                *)

SinkPutIn(b, newSink) ==
    /\ b \in held
    /\ held' = held \ {b}
    /\ sink' = newSink
    /\ UNCHANGED <<source, additional, due, handler, destroying>>

SinkPut(b) ==
    SinkPutIn(b, Append(sink, b)) /\ UNCHANGED <<expirationCallback, timer>>
SinkPutAtHead(b) ==
    SinkPutIn(b, <<b>> \o sink) /\ UNCHANGED <<expirationCallback, timer>>

SinkPutWithTimer(b) ==
    /\ SinkPutIn(b, Append(sink, b))
    /\ expirationCallback' = expirationCallback \cup {b}
    /\ timer' = timer \cup {b}

\* WdfTimerStop(FALSE) fails once the handler is on its way to the buffer.
CanStop_Ignored(b) == TRUE                      \* mutant: its result is ignored
CanStop(b) == b \in expirationCallback => b \in timer

\* The first buffer that BufferPool_RemoveHeadList does not skip.
IsNext(b) == \E i \in DOMAIN sink : /\ sink[i] = b
                                    /\ CanStop(b)
                                    /\ \A j \in 1 .. i - 1 : ~CanStop(sink[j])
NoneToGet == \A b \in InSink : ~CanStop(b)

StopTimer(b) ==
    /\ expirationCallback' = expirationCallback \ {b}
    /\ timer' = timer \ {b}

SinkRemove(b) ==
    /\ StopTimer(b)
    /\ sink' = RemoveFirst(sink, b)
    /\ held' = held \cup {b}
    /\ UNCHANGED <<source, additional, due, handler, destroying>>

SinkGet(b) == IsNext(b) /\ SinkRemove(b)

\* DMF_BufferPool_Enumerate, for each buffer that it does something to. To
\* continue and to reset restart the timer that was stopped.
EnumerateRemove(b) == b \in InSink /\ CanStop(b) /\ SinkRemove(b)
EnumerateStopTimer(b) ==
    /\ b \in InSink /\ CanStop(b)
    /\ StopTimer(b)
    /\ UNCHANGED <<lists, due, handler, destroying>>

-----------------------------------------------------------------------------
(* The timer of buffer b. BufferPool_BufferPoolEntryTimerHandler.           *)

TimerExpires(b) ==
    /\ b \in timer
    /\ timer' = timer \ {b}
    /\ due' = due \cup {b}
    /\ UNCHANGED <<lists, expirationCallback, handler, destroying>>

\* Under the lock: only a buffer in the list, and with a callback, expires.
HandlerFinds_Unchecked(b) == TRUE               \* mutant: does not search
HandlerFinds(b) == b \in InSink /\ b \in expirationCallback

HandlerRemoves(b) ==
    /\ b \in due
    /\ handler[b] = "idle"
    /\ due' = due \ {b}
    /\ IF HandlerFinds(b)
          THEN /\ sink' = RemoveFirst(sink, b)
               /\ expirationCallback' = expirationCallback \ {b}
               /\ handler' = [handler EXCEPT ![b] = "removed"]
          ELSE UNCHANGED <<sink, expirationCallback, handler>>
    /\ UNCHANGED <<source, held, additional, timer, destroying>>

\* The Client's callback: the buffer is the Client's from here on.
HandlerCalls(b) ==
    /\ handler[b] = "removed"
    /\ handler' = [handler EXCEPT ![b] = "calling"]
    /\ held' = held \cup {b}
    /\ UNCHANGED <<source, sink, additional, expirationCallback, timer, due,
                   destroying>>

HandlerReturns(b) ==
    /\ handler[b] = "calling"
    /\ handler' = [handler EXCEPT ![b] = "idle"]
    /\ UNCHANGED <<lists, expirationCallback, timer, due, destroying>>

-----------------------------------------------------------------------------
(* The close of the sink: BufferPool_ListFlushAndDestroy.                   *)

DestroyRemoves(b) ==
    /\ destroying = {}
    /\ sink # <<>>
    /\ b = Head(sink)
    /\ sink' = Tail(sink)
    /\ destroying' = {b}
    /\ UNCHANGED <<source, held, additional, timerVars>>

\* WdfTimerStop(TRUE) has returned: the handler is not running.
HandlerIsOver_NotAwaited(b) == TRUE             \* mutant: WdfTimerStop(FALSE)
HandlerIsOver(b) == b \notin due /\ handler[b] = "idle"

DestroyDeletes(b) ==
    /\ b \in destroying
    /\ HandlerIsOver(b)
    /\ timer' = timer \ {b}
    /\ destroying' = destroying \ {b}
    /\ UNCHANGED <<lists, expirationCallback, due, handler>>

-----------------------------------------------------------------------------
(* What every use of the two pools must preserve.                           *)

\* A buffer has one owner: a list, the Client, the handler of its timer or
\* the closing sink. BufferPool_InsertList asserts a part of it.
OneOwner ==
    /\ LET owner == <<source, InSink, held, Expiring, destroying>>
       IN  \A i, j \in DOMAIN owner : i # j => owner[i] \cap owner[j] = {}
    /\ IsInjective(sink)

\* A timer that can fire, or a handler on its way, belongs to a buffer that
\* waits in the sink for it (or that the close of the sink waits with): a
\* buffer that was taken is never removed by an old timer, WdfTimerStart
\* never finds the timer running (the assertion timerWasInQueue), and no
\* handler comes to a buffer that was deleted.
TimersBelongToTheSink ==
    /\ timer \cap due = {}
    /\ \A b \in timer \cup due :
          \/ b \in InSink /\ b \in expirationCallback
          \/ b \in destroying

\* While the sink is open the source accounts for every buffer: those the
\* Client specified and the additional ones. So no more buffers than
\* specified come back to it (the assertions NumberOfBuffersInList).
AllocationIsExact == Cardinality(Allocated) = BufferCount + additional
=============================================================================
