------------------------- MODULE NotifyUserWithRequest -------------------------
(***************************************************************************)
(* DMF_NotifyUserWithRequest: holds requests of applications until there   *)
(* is data for them, and data until there is a request                     *)
(* (Modules.Library/Dmf_NotifyUserWithRequest.c).                          *)
(*                                                                         *)
(* BufferPool gives the two pools of the DMF_BufferQueue that holds the    *)
(* data; no buffer has a timer here. A manual WDFIOQUEUE holds the         *)
(* requests, and WDF takes out one that its application cancels. The lock  *)
(* of the Module is held while data is stored and while a request is       *)
(* looked for and the data for it taken, but not while that data is given  *)
(* to whatever request is first by then.                                   *)
(***************************************************************************)
EXTENDS BufferPool

CONSTANTS Requests,     \* bound: requests the applications have
          Threads,      \* threads of the Client that call Methods
          Closer,       \* the thread that closes the Module
          MaximumNumberOfPendingRequests,   \* of the Module's configuration
          MaxData,      \* bound: data the Client processes
          NULL

ASSUME NotifyAssumption ==
    /\ Closer \notin Threads
    /\ NULL \notin Threads \cup Buffers
    /\ MaximumNumberOfPendingRequests \in Nat \ {0}
    /\ MaxData \in Nat
    /\ BufferCount > 0 /\ ~EnableLookAside

VARIABLES
    EventRequestQueue,  \* requests that wait
    EventCountHeld,
    leaked,             \* history: how often a request left that stays counted
    request,            \* where each request is
    lock,               \* who holds the Module lock between two steps
    thread,             \* what each thread does
    data,               \* what each buffer contains, 0 for nothing
    produced,           \* data so far
    delivered,          \* data given to a request
    overwritten,        \* data that newer data replaced
    refused,            \* data for which there was no buffer
    raced,              \* history: a thread with data found no request
    references,         \* references to the Module
    closing             \* "open", then "closing", "returning", "closed"

countVars == <<EventCountHeld, leaked>>
queueVars == <<EventRequestQueue, countVars, request>>
dataVars == <<data, produced, delivered, overwritten, refused>>
moduleVars == <<references, closing>>
vars == <<poolVars, queueVars, lock, thread, dataVars, raced, moduleVars>>

AllThreads == Threads \cup {Closer}
Data == 1 .. MaxData
Idle == [at |-> "idle"]

TypeOK ==
    /\ PoolTypeOK
    /\ EventRequestQueue \in Seq(Requests)
    /\ EventCountHeld \in Nat /\ leaked \in Nat
    /\ request \in [Requests -> {"application", "adding", "queued", "retrieved", "cancelled"}]
    /\ lock \in Threads \cup {NULL}
    /\ \A t \in AllThreads :
         thread[t].at \in {"idle", "store", "forward", "takeBack", "complete", "retrieve",
                           "count", "answer", "putBack", "reuse", "return"}
    /\ data \in [Buffers -> 0 .. MaxData]
    /\ produced \in 0 .. MaxData
    /\ delivered \cup overwritten \cup refused \subseteq Data
    /\ raced \in BOOLEAN
    /\ references \in Nat
    /\ closing \in {"open", "closing", "returning", "closed"}

\* DMF_NotifyUserWithRequest_Open.
Init ==
    /\ PoolInit
    /\ EventRequestQueue = <<>> /\ EventCountHeld = 0 /\ leaked = 0
    /\ request = [r \in Requests |-> "application"]
    /\ lock = NULL
    /\ thread = [t \in AllThreads |-> Idle]
    /\ data = [b \in Buffers |-> 0]
    /\ produced = 0 /\ delivered = {} /\ overwritten = {} /\ refused = {}
    /\ raced = FALSE
    /\ references = 0 /\ closing = "open"

At(t, place) == thread[t].at = place
Goto(t, place) == thread' = [thread EXCEPT ![t].at = place]
HasBuffer(t) == thread[t].buffer # NULL

\* A Method takes a reference to the Module; b and r are the buffer and the
\* request that it works on, n how many requests it is to return.
Enter(t, place, b, r, n) ==
    /\ At(t, "idle") /\ lock # t
    /\ closing = "open"
    /\ references' = references + 1
    /\ thread' = [thread EXCEPT ![t] = [at |-> place, buffer |-> b, request |-> r, left |-> n]]
    /\ UNCHANGED closing

MethodReturns(t) ==
    /\ t # Closer /\ At(t, "return")
    /\ references' = references - 1
    /\ thread' = [thread EXCEPT ![t] = Idle]
    /\ UNCHANGED <<poolVars, queueVars, lock, dataVars, raced, closing>>

-----------------------------------------------------------------------------
(* DMF_NotifyUserWithRequest_DataProcess.                                   *)

\* Under the lock it fetches a buffer, or takes the oldest data out of its own.
DataProcess(t, b) ==
    /\ lock = NULL
    /\ produced < MaxData
    /\ Enter(t, "store", b, NULL, 1)
    /\ IF source # {} THEN SourceGet(b) /\ UNCHANGED overwritten
                      ELSE SinkGet(b) /\ overwritten' = overwritten \cup {data[b]}
    /\ produced' = produced + 1
    /\ data' = [data EXCEPT ![b] = produced + 1]
    /\ lock' = t
    /\ UNCHANGED <<queueVars, delivered, refused, raced>>

\* The buffer enters the queue and the lock is released.
DataIsStored(t) ==
    /\ At(t, "store")
    /\ SinkPut(thread[t].buffer)
    /\ lock' = NULL
    /\ thread' = [thread EXCEPT ![t].at = "complete", ![t].buffer = NULL]
    /\ UNCHANGED <<queueVars, dataVars, raced, moduleVars>>

\* Every buffer is with a thread that completes a request: the branch with the
\* comment "This should never happen" and DmfAssert(FALSE). The thread goes to
\* the end of the Method with the lock,
DataIsRefused(t) ==
    /\ lock = NULL
    /\ produced < MaxData
    /\ source = {} /\ NoneToGet
    /\ Enter(t, "return", NULL, NULL, 1)
    /\ produced' = produced + 1
    /\ refused' = refused \cup {produced + 1}
    /\ lock' = t
    /\ UNCHANGED <<poolVars, queueVars, data, delivered, overwritten, raced>>

\* and releases it after the reference.
RefusedUnlocks(t) ==
    /\ At(t, "idle") /\ lock = t
    /\ lock' = NULL
    /\ UNCHANGED <<poolVars, queueVars, thread, dataVars, raced, moduleVars>>

-----------------------------------------------------------------------------
(* DMF_NotifyUserWithRequest_RequestProcess, which is                       *)
(* DMF_NotifyUserWithRequest_EventRequestAdd and the search for data.       *)

IsOverLimit_Late == EventCountHeld > MaximumNumberOfPendingRequests    \* mutant: one more
IsOverLimit == EventCountHeld + 1 > MaximumNumberOfPendingRequests

EventRequestAdd(t, r) ==
    /\ request[r] = "application"
    /\ Enter(t, IF IsOverLimit THEN "takeBack" ELSE "forward", NULL, r, 1)
    /\ EventCountHeld' = EventCountHeld + 1
    /\ request' = [request EXCEPT ![r] = "adding"]
    /\ UNCHANGED <<poolVars, EventRequestQueue, leaked, lock, dataVars, raced>>

AddIsRefused(t) ==
    /\ At(t, "takeBack")
    /\ EventCountHeld' = EventCountHeld - 1
    /\ request' = [request EXCEPT ![thread[t].request] = "application"]
    /\ Goto(t, "return")
    /\ UNCHANGED <<poolVars, EventRequestQueue, leaked, lock, dataVars, raced, moduleVars>>

AddForwards_Only(t) ==                          \* mutant: nobody looks for data
    /\ At(t, "forward")
    /\ EventRequestQueue' = Append(EventRequestQueue, thread[t].request)
    /\ request' = [request EXCEPT ![thread[t].request] = "queued"]
    /\ Goto(t, "return")
    /\ UNCHANGED <<poolVars, countVars, lock, dataVars, raced, moduleVars>>

AddForwards(t) ==
    /\ At(t, "forward")
    /\ EventRequestQueue' = Append(EventRequestQueue, thread[t].request)
    /\ request' = [request EXCEPT ![thread[t].request] = "queued"]
    /\ Goto(t, "complete")
    /\ UNCHANGED <<poolVars, countVars, lock, dataVars, raced, moduleVars>>

\* WdfObjectAllocateContext or WdfRequestForwardToIoQueue fails; the request
\* stays counted.
AddFails(t) ==
    /\ At(t, "forward")
    /\ request' = [request EXCEPT ![thread[t].request] = "application"]
    /\ leaked' = leaked + 1
    /\ Goto(t, "return")
    /\ UNCHANGED <<poolVars, EventRequestQueue, EventCountHeld, lock, dataVars, raced,
                   moduleVars>>

-----------------------------------------------------------------------------
(* NotifyUserWithRequest_CompleteRequestWithEventData.                      *)

\* Under the lock: a request is there, and data for it is taken.
TakesData(t, b) ==
    /\ At(t, "complete") /\ lock = NULL
    /\ EventRequestQueue # <<>>
    /\ SinkGet(b)
    /\ thread' = [thread EXCEPT ![t].at = "retrieve", ![t].buffer = b]
    /\ UNCHANGED <<queueVars, lock, dataVars, raced, moduleVars>>

FindsNothing(t) ==
    /\ At(t, "complete") /\ lock = NULL
    /\ EventRequestQueue = <<>> \/ NoneToGet
    /\ Goto(t, "return")
    /\ UNCHANGED <<poolVars, queueVars, lock, dataVars, raced, moduleVars>>

PutsBack(t) ==
    /\ At(t, "putBack")
    /\ SinkPutAtHead(thread[t].buffer)
    /\ thread' = [thread EXCEPT ![t].at = "return", ![t].buffer = NULL]
    /\ UNCHANGED <<queueVars, lock, dataVars, raced, moduleVars>>

Reuses(t) ==
    /\ At(t, "reuse")
    /\ SourcePut(thread[t].buffer)
    /\ thread' = [thread EXCEPT ![t].at = "return", ![t].buffer = NULL]
    /\ UNCHANGED <<queueVars, lock, dataVars, raced, moduleVars>>

-----------------------------------------------------------------------------
(* NotifyUserWithRequest_EventRequestReturn and _EventRequestReturnAll.     *)

RequestReturn(t) ==
    /\ Enter(t, "retrieve", NULL, NULL, 1)
    /\ UNCHANGED <<poolVars, queueVars, lock, dataVars, raced>>

\* The number to return is read once. (The loop ends after a request it does
\* not find, so that the number 0 is as good as 1.)
RequestReturnAll(t) ==
    /\ EventCountHeld > 1
    /\ Enter(t, "retrieve", NULL, NULL, EventCountHeld)
    /\ UNCHANGED <<poolVars, queueVars, lock, dataVars, raced>>

\* WdfIoQueueRetrieveNextRequest: the first request, whichever was found before.
Retrieves(t) ==
    /\ At(t, "retrieve")
    /\ EventRequestQueue # <<>>
    /\ EventRequestQueue' = Tail(EventRequestQueue)
    /\ request' = [request EXCEPT ![Head(EventRequestQueue)] = "retrieved"]
    /\ thread' = [thread EXCEPT ![t].at = "count", ![t].request = Head(EventRequestQueue)]
    /\ UNCHANGED <<poolVars, countVars, lock, dataVars, raced, moduleVars>>

RetrievesNone_Counts(t) ==                      \* mutant: counts what it did not find
    /\ At(t, "retrieve")
    /\ EventRequestQueue = <<>>
    /\ EventCountHeld' = IF EventCountHeld = 0 THEN 0 ELSE EventCountHeld - 1
    /\ Goto(t, IF HasBuffer(t) THEN "putBack" ELSE "return")
    /\ raced' = (raced \/ HasBuffer(t))
    /\ UNCHANGED <<poolVars, EventRequestQueue, leaked, request, lock, dataVars, moduleVars>>

RetrievesNone_Reuses(t) ==                      \* mutant: the data is not put back
    /\ At(t, "retrieve")
    /\ EventRequestQueue = <<>>
    /\ Goto(t, IF HasBuffer(t) THEN "reuse" ELSE "return")
    /\ raced' = (raced \/ HasBuffer(t))
    /\ UNCHANGED <<poolVars, queueVars, lock, dataVars, moduleVars>>

RetrievesNone(t) ==
    /\ At(t, "retrieve")
    /\ EventRequestQueue = <<>>
    /\ Goto(t, IF HasBuffer(t) THEN "putBack" ELSE "return")
    /\ raced' = (raced \/ HasBuffer(t))
    /\ UNCHANGED <<poolVars, queueVars, lock, dataVars, moduleVars>>

Counts(t) ==
    /\ At(t, "count")
    /\ EventCountHeld' = EventCountHeld - 1
    /\ Goto(t, "answer")
    /\ UNCHANGED <<poolVars, EventRequestQueue, leaked, request, lock, dataVars, raced, moduleVars>>

\* The request is completed, with the data if there is one.
Answers(t) ==
    /\ At(t, "answer")
    /\ request' = [request EXCEPT ![thread[t].request] = "application"]
    /\ delivered' = IF HasBuffer(t) THEN delivered \cup {data[thread[t].buffer]} ELSE delivered
    /\ thread' = [thread EXCEPT ![t].at = IF HasBuffer(t) THEN "reuse"
                                          ELSE IF thread[t].left > 1 THEN "retrieve" ELSE "return",
                                ![t].left = @ - 1]
    /\ UNCHANGED <<poolVars, EventRequestQueue, countVars, lock, data, produced, overwritten,
                   refused, raced, moduleVars>>

\* The application cancels a request: WDF takes it out, EvtIoCanceledOnQueue
\* decrements and completes it.
Cancel(r) ==
    /\ request[r] = "queued"
    /\ EventRequestQueue' = RemoveFirst(EventRequestQueue, r)
    /\ request' = [request EXCEPT ![r] = "cancelled"]
    /\ UNCHANGED <<poolVars, countVars, lock, thread, dataVars, raced, moduleVars>>

EvtIoCanceledOnQueue(r) ==
    /\ request[r] = "cancelled"
    /\ EventCountHeld' = EventCountHeld - 1
    /\ request' = [request EXCEPT ![r] = "application"]
    /\ UNCHANGED <<poolVars, EventRequestQueue, leaked, lock, thread, dataVars, raced, moduleVars>>

-----------------------------------------------------------------------------
(* The close, when no Method is left.                                       *)

CloseBegins ==
    /\ closing = "open"
    /\ closing' = "closing"
    /\ UNCHANGED <<poolVars, queueVars, lock, thread, dataVars, raced, references>>

CloseReturnsAll ==
    /\ closing = "closing" /\ references = 0
    /\ closing' = "returning"
    /\ thread' = [thread EXCEPT ![Closer] = [at |-> "retrieve", buffer |-> NULL, request |-> NULL,
                                             left |-> EventCountHeld]]
    /\ UNCHANGED <<poolVars, queueVars, lock, dataVars, raced, references>>

CloseEnds ==
    /\ closing = "returning" /\ At(Closer, "return")
    /\ closing' = "closed"
    /\ UNCHANGED <<poolVars, queueVars, lock, thread, dataVars, raced, references>>

-----------------------------------------------------------------------------

ThreadStep(t) ==
    \/ DataIsStored(t) \/ AddIsRefused(t) \/ AddForwards(t) \/ AddFails(t)
    \/ (\E b \in Buffers : TakesData(t, b)) \/ FindsNothing(t)
    \/ Retrieves(t) \/ RetrievesNone(t) \/ Counts(t) \/ Answers(t)
    \/ PutsBack(t) \/ Reuses(t) \/ MethodReturns(t) \/ RefusedUnlocks(t)

Next ==
    \/ \E t \in Threads : \/ \E b \in Buffers : DataProcess(t, b)
                          \/ DataIsRefused(t)
                          \/ \E r \in Requests : EventRequestAdd(t, r)
                          \/ RequestReturn(t) \/ RequestReturnAll(t)
    \/ \E t \in AllThreads : ThreadStep(t)
    \/ \E r \in Requests : Cancel(r) \/ EvtIoCanceledOnQueue(r)
    \/ CloseBegins \/ CloseReturnsAll \/ CloseEnds

Spec == Init /\ [][Next]_vars

-----------------------------------------------------------------------------

\* EventCountHeld is the number of requests that wait or are on their way in or
\* out, and of those whose addition failed after they were counted and that
\* nobody takes off: never less (it is positive whenever it is decremented, as
\* is asserted), and never more. No more requests wait than
\* MaximumNumberOfPendingRequests, and the close, which reads the count once,
\* returns them all: none is deleted with the queue.
Counted == {r \in Requests : request[r] # "application"} \ 
               {thread[t].request : t \in {u \in AllThreads : At(u, "answer")}}

RequestsAreCounted ==
    /\ EventCountHeld = Cardinality(Counted) + leaked
    /\ Len(EventRequestQueue) <= MaximumNumberOfPendingRequests
    /\ closing = "closed" => EventRequestQueue = <<>>

\* The comment of EventCountHeld, "Number of event requests held": it is not that
\* when the addition of a request has failed.
CountIsOfHeldRequests == EventCountHeld = Cardinality(Counted)

\* Data that found a buffer is never lost and never given to two requests: it
\* waits in one buffer, or is with the one thread that will deliver it or put it
\* back, unless it was delivered or replaced by newer data. Data is lost only
\* where the code says that it never comes (DataIsRefused).
WithThread == {thread[t].buffer : t \in {u \in AllThreads :
                   \E place \in {"store", "retrieve", "count", "answer", "putBack"} :
                      At(u, place) /\ HasBuffer(u)}}

DataIsDeliveredOnce ==
    LET waiting == {data[b] : b \in InSink \cup WithThread}
        fate == <<waiting, delivered, overwritten, refused>>
    IN  /\ OneOwner
        /\ 1 .. produced = UNION {fate[i] : i \in DOMAIN fate}
        /\ \A i, j \in DOMAIN fate : i # j => fate[i] \cap fate[j] = {}

\* The comments of DataProcess, "This call should always succeed" of the Fetch
\* and "This should never happen" of the DmfAssert(FALSE): they hold while
\* there are no more threads than buffers, and the lock makes them hold no further,
\* since a thread completes a request outside it.
BufferIsAlwaysFound == refused = {}

\* Unless a thread came with data and found its request gone, data and a request
\* that wait are on their way to each other: when no Method runs, one of the two
\* queues is empty.
PairsMeet ==
    ~raced /\ (\A t \in Threads : At(t, "idle")) => EventRequestQueue = <<>> \/ sink = <<>>

\* The comment of the thread that did, "It will be completed later when a new
\* request is available": this data does not wait beside a request.
PutBackDataIsCompleted ==
    (\A t \in Threads : At(t, "idle")) => EventRequestQueue = <<>> \/ sink = <<>>
=============================================================================
