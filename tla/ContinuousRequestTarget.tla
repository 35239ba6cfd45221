------------------------ MODULE ContinuousRequestTarget ------------------------
(***************************************************************************)
(* The streams of DMF_ContinuousRequestTarget: requests that are sent to a *)
(* WDFIOTARGET, handed to the Client when the target completes them and    *)
(* sent again, from Start until the Client stops a stream or StopAndWait   *)
(* cancels them all (Modules.Library/Dmf_ContinuousRequestTarget.c).       *)
(*                                                                         *)
(* The Client starts, stops and closes from one thread. Each completion is *)
(* a thread of its own: it has the request until it sends it again or ends *)
(* the stream, and a few statements left after that, when the request may  *)
(* already have completed once more; those are counted. In user mode there *)
(* is no rundown and no event, and StopAndWait polls.                      *)
(***************************************************************************)
EXTENDS Integers, FiniteSets, FiniteSetsExt

CONSTANTS ContinuousRequestCount,   \* of the Module's configuration
          Modes,                    \* "kernel", "passive" (kernel, completing
                                    \* in DMF_QueuedWorkItem) or "user"
          MaxRoutines,              \* bound: completion routines that still run
          MaxClientBuffers          \* bound: output buffers the Client keeps

ASSUME StreamAssumption ==
    /\ ContinuousRequestCount \in Nat \ {0}
    /\ Modes \subseteq {"kernel", "passive", "user"}
    /\ MaxRoutines \in Nat \ {0}
    /\ MaxClientBuffers \in Nat

StreamRequests == 1 .. ContinuousRequestCount     \* CreatedStreamRequestsCollection

VARIABLES
    mode,
    Stopping, PendingStreamingRequests, StreamingRequestCount,
    TransientStreamRequestsCollection,  \* how often it contains each request
    rundown,            \* StreamRequestsRundown: who may acquire it, its count
    event,              \* StreamRequestsRundownCompletionEvent is set
    early,              \* history: since the last Start it was set before the last
                        \* stream had ended
    request,            \* where each request is
    cancelled,          \* requests with the target that were cancelled
    sender,             \* who sends each request: "start" or "completion"
    releasing, setting, removing, leaving,  \* what completion routines have left to do
    buffers,            \* output buffers out of their pool
    clientBuffers,      \* those that the Client keeps
    client,             \* what the Client's thread does
    index,              \* its requestIndex
    waits,              \* it cancels in StopAndWait, not in a Start that failed
    streamReferences,         \* references to the Module
    isClosing

context == <<Stopping, StreamingRequestCount, TransientStreamRequestsCollection>>
rundownVars == <<rundown, event, early>>
streams == <<request, cancelled, sender>>
routineVars == <<releasing, setting, removing, leaving>>
bufferVars == <<buffers, clientBuffers>>
clientVars == <<client, index, waits, isClosing>>
counted == <<PendingStreamingRequests, streamReferences>>
streamVars == <<mode, context, rundownVars, streams, routineVars, bufferVars, clientVars, counted>>

Places == {"idle", "send", "acquire", "acquired", "failed", "refused", "target",
           "queued", "completed", "callback", "ending"}

StreamTypeOK ==
    /\ mode \in Modes
    /\ Stopping \in BOOLEAN /\ event \in BOOLEAN /\ early \in BOOLEAN
    /\ isClosing \in BOOLEAN /\ waits \in BOOLEAN
    /\ PendingStreamingRequests \in Nat /\ streamReferences \in Nat
    /\ StreamingRequestCount \in Nat
    /\ TransientStreamRequestsCollection \in [StreamRequests -> Nat]
    /\ rundown \in [open : BOOLEAN, count : Nat]
    /\ request \in [StreamRequests -> Places]
    /\ cancelled \subseteq StreamRequests
    /\ sender \in [StreamRequests -> {"start", "completion"}]
    /\ releasing \in Nat /\ leaving \in Nat
    /\ setting \in [StreamRequests -> Nat] /\ removing \in [StreamRequests -> Nat]
    /\ buffers \in Nat /\ clientBuffers \in 0 .. MaxClientBuffers
    /\ client \in {"stopped", "starting", "sending", "releasing", "reducing", "setting",
                   "running", "rundown", "cancelling", "signalling", "waiting", "failed",
                   "closed"}
    /\ index \in 1 .. ContinuousRequestCount + 1

\* DMF_ContinuousRequestTarget_Open, the rundown initialised and completed.
StreamInit ==
    /\ mode \in Modes
    /\ Stopping = TRUE
    /\ PendingStreamingRequests = 0 /\ StreamingRequestCount = 0
    /\ TransientStreamRequestsCollection = [r \in StreamRequests |-> 0]
    /\ rundown = [open |-> FALSE, count |-> 0]
    /\ event = TRUE /\ early = FALSE
    /\ request = [r \in StreamRequests |-> "idle"]
    /\ cancelled = {}
    /\ sender = [r \in StreamRequests |-> "start"]
    /\ releasing = 0 /\ leaving = 0
    /\ setting = [r \in StreamRequests |-> 0] /\ removing = [r \in StreamRequests |-> 0]
    /\ buffers = 0 /\ clientBuffers = 0
    /\ client = "stopped" /\ index = 1 /\ waits = FALSE
    /\ streamReferences = 0 /\ isClosing = FALSE

Move(r, from, to) == request[r] = from /\ request' = [request EXCEPT ![r] = to]

\* ContinuousRequestTarget_DecreaseStreamRequestCount (not called in user mode) has
\* two steps: who finds no stream left after the decrement sets the event later,
\* when the Client's thread may have gone on.
DecreaseStreamRequestCount ==
    IF mode = "user" THEN UNCHANGED StreamingRequestCount
                     ELSE StreamingRequestCount' = StreamingRequestCount - 1

IsLastStream == mode # "user" /\ StreamingRequestCount = 1

EventSet ==
    /\ event' = TRUE
    /\ early' = (early \/ StreamingRequestCount # 0)

-----------------------------------------------------------------------------
(* ContinuousRequestTarget_StreamRequestSend.                               *)

SendReferences(r) ==
    /\ request[r] = "send"
    /\ IF isClosing THEN Move(r, "send", "refused") /\ UNCHANGED counted
       ELSE /\ Move(r, "send", "acquire")
            /\ PendingStreamingRequests' = PendingStreamingRequests + 1
            /\ streamReferences' = streamReferences + 1
    /\ UNCHANGED <<mode, context, rundownVars, cancelled, sender, routineVars, bufferVars,
                   clientVars>>

\* The owner that waits for the rundown lets nobody in; in user mode there is none.
RundownAcquire_Always ==                        \* mutant: kernel mode without rundown
    rundown' = [rundown EXCEPT !.count = @ + 1]

RundownAcquire ==
    /\ mode # "user" => rundown.open
    /\ rundown' = [rundown EXCEPT !.count = @ + 1]

SendAcquires(r) ==
    /\ Move(r, "acquire", "acquired")
    /\ RundownAcquire
    /\ UNCHANGED <<mode, context, event, early, cancelled, sender, routineVars, bufferVars,
                   clientVars, counted>>

SendIsRundown(r) ==
    /\ mode # "user" /\ ~rundown.open
    /\ Move(r, "acquire", "failed")
    /\ UNCHANGED <<mode, context, rundownVars, cancelled, sender, routineVars, bufferVars,
                   clientVars, counted>>

\* The buffers are got, the request is formatted and sent; from now on it may
\* complete, and its sender has the rundown to release.
SendSucceeds(r) ==
    /\ Move(r, "acquired", "target")
    /\ buffers' = buffers + 1
    /\ IF sender[r] = "start"
          THEN client' = "releasing" /\ UNCHANGED releasing
          ELSE releasing' = releasing + 1 /\ UNCHANGED client
    /\ UNCHANGED <<mode, context, rundownVars, cancelled, sender, setting, removing,
                   leaving, clientBuffers, index, waits, isClosing, counted>>

\* No buffer, the formatting or WdfRequestSend fails: the buffers go back.
StreamSendFails(r) ==
    /\ Move(r, "acquired", "failed")
    /\ rundown' = [rundown EXCEPT !.count = @ - 1]
    /\ UNCHANGED <<mode, context, event, early, cancelled, sender, routineVars, bufferVars,
                   clientVars, counted>>

SendReturnsFailure_StaysPending(r) ==           \* mutant: the increment is kept
    /\ Move(r, "failed", "refused")
    /\ streamReferences' = streamReferences - 1
    /\ UNCHANGED <<mode, context, rundownVars, cancelled, sender, routineVars, bufferVars,
                   clientVars, PendingStreamingRequests>>

SendReturnsFailure(r) ==
    /\ Move(r, "failed", "refused")
    /\ PendingStreamingRequests' = PendingStreamingRequests - 1
    /\ streamReferences' = streamReferences - 1
    /\ UNCHANGED <<mode, context, rundownVars, cancelled, sender, routineVars, bufferVars,
                   clientVars>>

-----------------------------------------------------------------------------
(* The completion routines and                                              *)
(* ContinuousRequestTarget_ProcessAsynchronousRequestStream.                *)

Routines == releasing + leaving + SumFunction(setting) + SumFunction(removing)
Processed ==
    {r \in StreamRequests :
       \/ request[r] \in {"completed", "callback", "ending"}
       \/ /\ sender[r] = "completion"
          /\ request[r] \in {"send", "acquire", "acquired", "failed", "refused"}}

StreamTargetCompletes(r) ==
    /\ Routines < MaxRoutines                       \* bound
    /\ Move(r, "target", IF mode = "passive" THEN "queued" ELSE "completed")
    /\ cancelled' = cancelled \ {r}
    /\ UNCHANGED <<mode, context, rundownVars, sender, routineVars, bufferVars, clientVars,
                   counted>>

\* DMF_QueuedWorkItem runs its callback for one request at a time.
StreamWorkItemRuns(r) ==
    /\ Move(r, "queued", "completed")
    /\ Routines = 0 /\ Processed = {}
    /\ UNCHANGED <<mode, context, rundownVars, cancelled, sender, routineVars, bufferVars,
                   clientVars, counted>>

\* While stopping, the Client is not called and the buffer goes back.
CompletionTests(r) ==
    /\ IF Stopping THEN Move(r, "completed", "ending") /\ buffers' = buffers - 1
                   ELSE Move(r, "completed", "callback") /\ UNCHANGED buffers
    /\ UNCHANGED <<mode, context, rundownVars, cancelled, sender, routineVars, clientBuffers,
                   clientVars, counted>>

\* The Client keeps the buffer or not, and goes on streaming or not.
ClientReturns(r, keeps, continues) ==
    /\ Move(r, "callback", IF continues THEN "send" ELSE "ending")
    /\ IF keeps THEN /\ clientBuffers < MaxClientBuffers
                     /\ clientBuffers' = clientBuffers + 1 /\ UNCHANGED buffers
                ELSE buffers' = buffers - 1 /\ UNCHANGED clientBuffers
    /\ sender' = [sender EXCEPT ![r] = "completion"]
    /\ UNCHANGED <<mode, context, rundownVars, cancelled, routineVars, clientVars, counted>>

\* DMF_ContinuousRequestTarget_BufferPut.
BufferPut ==
    /\ clientBuffers > 0 /\ ~isClosing
    /\ clientBuffers' = clientBuffers - 1
    /\ buffers' = buffers - 1
    /\ UNCHANGED <<mode, context, rundownVars, streams, routineVars, clientVars, counted>>

CompletionReleases ==
    /\ releasing > 0
    /\ releasing' = releasing - 1
    /\ leaving' = leaving + 1
    /\ rundown' = [rundown EXCEPT !.count = @ - 1]
    /\ UNCHANGED <<mode, context, event, early, streams, setting, removing, bufferVars,
                   clientVars, counted>>

\* The stream of r ends: its request is not sent again.
Ends(r) == request[r] = "ending" \/ (request[r] = "refused" /\ sender[r] = "completion")

\* After the decrement the routine sets the event, if it was the last, and removes r.
Ended(r) ==
    /\ request' = [request EXCEPT ![r] = "idle"]
    /\ IF IsLastStream THEN setting' = [setting EXCEPT ![r] = @ + 1] /\ UNCHANGED removing
                       ELSE removing' = [removing EXCEPT ![r] = @ + 1] /\ UNCHANGED setting
    /\ UNCHANGED <<mode, Stopping, TransientStreamRequestsCollection, rundownVars, cancelled,
                   sender, releasing, leaving, bufferVars, clientVars, counted>>

StreamEnds(r) == Ends(r) /\ DecreaseStreamRequestCount /\ Ended(r)

StreamSetsEvent(r) ==
    /\ setting[r] > 0
    /\ setting' = [setting EXCEPT ![r] = @ - 1]
    /\ removing' = [removing EXCEPT ![r] = @ + 1]
    /\ EventSet
    /\ UNCHANGED <<mode, context, rundown, streams, releasing, leaving, bufferVars, clientVars,
                   counted>>

StreamRemoves(r) ==
    /\ removing[r] > 0
    /\ removing' = [removing EXCEPT ![r] = @ - 1]
    /\ leaving' = leaving + 1
    /\ TransientStreamRequestsCollection' =
         [TransientStreamRequestsCollection EXCEPT ![r] = @ - 1]
    /\ UNCHANGED <<mode, Stopping, StreamingRequestCount, rundownVars, streams, releasing,
                   setting, bufferVars, clientVars, counted>>

CompletionReturns ==
    /\ leaving > 0
    /\ leaving' = leaving - 1
    /\ PendingStreamingRequests' = PendingStreamingRequests - 1
    /\ streamReferences' = streamReferences - 1
    /\ UNCHANGED <<mode, context, rundownVars, streams, releasing, setting, removing,
                   bufferVars, clientVars>>

-----------------------------------------------------------------------------
(* The Client's thread: Start (which asserts that it is stopped), called    *)
(* also by D0Entry, StopAndWait, called also by D0Exit, and the close.      *)
(* A Start that follows a StopAndWait which returned early would send a     *)
(* request that is out, and is left out.                                    *)

Start ==
    /\ client = "stopped" /\ ~isClosing
    /\ \A r \in StreamRequests : request[r] = "idle"          \* bound
    /\ streamReferences' = streamReferences + 1
    /\ Stopping' = FALSE
    /\ event' = FALSE /\ early' = FALSE
    /\ rundown' = [rundown EXCEPT !.open = TRUE]
    /\ StreamingRequestCount' = ContinuousRequestCount
    /\ client' = "starting" /\ index' = 1
    /\ UNCHANGED <<mode, TransientStreamRequestsCollection, streams, routineVars, bufferVars,
                   isClosing, waits, PendingStreamingRequests>>

\* One pass of the loop: the request joins the collection and is sent.
StartAdds ==
    /\ client = "starting" /\ index <= ContinuousRequestCount
    /\ TransientStreamRequestsCollection' =
         [TransientStreamRequestsCollection EXCEPT ![index] = @ + 1]
    /\ Move(index, "idle", "send")
    /\ sender' = [sender EXCEPT ![index] = "start"]
    /\ client' = "sending"
    /\ UNCHANGED <<mode, Stopping, StreamingRequestCount, rundownVars, cancelled, routineVars,
                   bufferVars, index, isClosing, waits, counted>>

StartReleases ==
    /\ client = "releasing"
    /\ rundown' = [rundown EXCEPT !.count = @ - 1]
    /\ client' = "starting" /\ index' = index + 1
    /\ UNCHANGED <<mode, context, event, early, streams, routineVars, bufferVars, isClosing,
                   waits, counted>>

\* A send failed: it and those not tried are no streams, and the count is reduced
\* one by one; then the others are cancelled.
StartFails ==
    /\ client = "sending" /\ Move(index, "refused", "idle")
    /\ TransientStreamRequestsCollection' =
         [TransientStreamRequestsCollection EXCEPT ![index] = @ - 1]
    /\ client' = "reducing"
    /\ UNCHANGED <<mode, Stopping, StreamingRequestCount, rundownVars, cancelled, sender,
                   routineVars, bufferVars, index, isClosing, waits, counted>>

IsReduced_OffByOne == mode = "user" \/ index >= ContinuousRequestCount       \* mutant
IsReduced == mode = "user" \/ index > ContinuousRequestCount

StartReduces ==
    /\ client = "reducing" /\ ~IsReduced
    /\ DecreaseStreamRequestCount
    /\ client' = IF IsLastStream THEN "setting" ELSE "reducing"
    /\ index' = index + 1
    /\ UNCHANGED <<mode, Stopping, TransientStreamRequestsCollection, rundownVars, streams,
                   routineVars, bufferVars, isClosing, waits, counted>>

StartSetsEvent ==
    /\ client = "setting"
    /\ EventSet
    /\ client' = "reducing"
    /\ UNCHANGED <<mode, context, rundown, streams, routineVars, bufferVars, index, isClosing,
                   waits, counted>>

StartCancels ==
    /\ client = "reducing" /\ IsReduced
    /\ Stopping' = TRUE
    /\ client' = "rundown" /\ waits' = FALSE
    /\ UNCHANGED <<mode, StreamingRequestCount, TransientStreamRequestsCollection, rundownVars,
                   streams, routineVars, bufferVars, index, isClosing, counted>>

StartReturns ==
    /\ client = "starting" /\ index > ContinuousRequestCount
    /\ client' = "running"
    /\ streamReferences' = streamReferences - 1
    /\ UNCHANGED <<mode, context, rundownVars, streams, routineVars, bufferVars, index,
                   isClosing, waits, PendingStreamingRequests>>

\* ContinuousRequestTarget_RequestsCancel, up to the rundown.
StopAndWait ==
    /\ client \in {"running", "failed", "stopped"} /\ ~isClosing
    /\ streamReferences' = streamReferences + 1
    /\ Stopping' = TRUE
    /\ client' = "rundown" /\ waits' = TRUE
    /\ UNCHANGED <<mode, StreamingRequestCount, TransientStreamRequestsCollection, rundownVars,
                   streams, routineVars, bufferVars, index, isClosing, PendingStreamingRequests>>

\* Nobody may acquire the rundown any more, and those that have it release it.
RundownBegins ==
    /\ client = "rundown" /\ rundown.open
    /\ rundown' = [rundown EXCEPT !.open = FALSE]
    /\ UNCHANGED <<mode, context, event, early, streams, routineVars, bufferVars, clientVars,
                   counted>>

RundownEnds ==
    /\ client = "rundown" /\ ~rundown.open
    /\ mode # "user" => rundown.count = 0
    /\ client' = "cancelling" /\ index' = 1
    /\ UNCHANGED <<mode, context, rundownVars, streams, routineVars, bufferVars, isClosing,
                   waits, counted>>

WithTarget == {r \in StreamRequests : request[r] = "target"}

\* WdfRequestCancelSentRequest for each request that was created.
CancelRequests_AllButLast ==                    \* mutant: stops one too early
    /\ client = "cancelling"
    /\ IF index < ContinuousRequestCount
          THEN /\ cancelled' = cancelled \cup ({index} \cap WithTarget)
               /\ index' = index + 1 /\ UNCHANGED client
          ELSE client' = "signalling" /\ UNCHANGED <<cancelled, index>>
    /\ UNCHANGED <<mode, context, rundownVars, request, sender, routineVars, bufferVars, isClosing,
                   waits, counted>>

CancelRequests ==
    /\ client = "cancelling"
    /\ IF index <= ContinuousRequestCount
          THEN /\ cancelled' = cancelled \cup ({index} \cap WithTarget)
               /\ index' = index + 1 /\ UNCHANGED client
          ELSE client' = "signalling" /\ UNCHANGED <<cancelled, index>>
    /\ UNCHANGED <<mode, context, rundownVars, request, sender, routineVars, bufferVars, isClosing,
                   waits, counted>>

CancelSignals ==
    /\ client = "signalling"
    /\ event' = (event \/ (mode # "user" /\ StreamingRequestCount = 0))
    /\ client' = IF waits THEN "waiting" ELSE "failed"
    /\ index' = 1
    /\ streamReferences' = IF waits THEN streamReferences ELSE streamReferences - 1
    /\ UNCHANGED <<mode, context, rundown, early, streams, routineVars, bufferVars, isClosing,
                   waits, PendingStreamingRequests>>

\* In user mode StopAndWait polls, and cancels what it finds in the collection.
StopPolls ==
    /\ client = "waiting" /\ mode = "user" /\ PendingStreamingRequests > 0
    /\ cancelled' =
         cancelled \cup {r \in WithTarget : TransientStreamRequestsCollection[r] > 0}
    /\ UNCHANGED <<mode, context, rundownVars, request, sender, routineVars, bufferVars,
                   clientVars, counted>>

HasStopped_NotAwaited == TRUE                   \* mutant: cancels and returns
HasStopped == IF mode = "user" THEN PendingStreamingRequests = 0 ELSE event

StopReturns ==
    /\ client = "waiting"
    /\ HasStopped
    /\ client' = "stopped"
    /\ streamReferences' = streamReferences - 1
    /\ UNCHANGED <<mode, context, rundownVars, streams, routineVars, bufferVars, index,
                   isClosing, waits, PendingStreamingRequests>>

\* The Module closes when it has no reference left; kernel mode also waits for
\* the event, "in case where Start() failed".
StreamCloseBegins ==
    /\ client = "stopped" \/ (client = "failed" /\ mode # "user")
    /\ ~isClosing
    /\ isClosing' = TRUE
    /\ UNCHANGED <<mode, context, rundownVars, streams, routineVars, bufferVars, client,
                   index, waits, counted>>

StreamClose ==
    /\ isClosing /\ client \in {"stopped", "failed"}
    /\ streamReferences = 0
    /\ mode # "user" => event
    /\ client' = "closed"
    /\ UNCHANGED <<mode, context, rundownVars, streams, routineVars, bufferVars, index,
                   isClosing, waits, counted>>

-----------------------------------------------------------------------------

StreamSendStep(r) ==
    \/ SendReferences(r) \/ SendAcquires(r) \/ SendIsRundown(r) \/ SendSucceeds(r)
    \/ StreamSendFails(r) \/ SendReturnsFailure(r)

StreamCompletionStep(r) ==
    \/ StreamWorkItemRuns(r) \/ CompletionTests(r)
    \/ (\E keeps, continues \in BOOLEAN : ClientReturns(r, keeps, continues))
    \/ StreamEnds(r) \/ StreamSetsEvent(r) \/ StreamRemoves(r)

StartStep == \/ StartAdds \/ StartReleases \/ StartReturns
             \/ StartFails \/ StartReduces \/ StartSetsEvent \/ StartCancels
StopStep == \/ RundownBegins \/ RundownEnds \/ CancelRequests \/ CancelSignals
            \/ StopPolls \/ StopReturns

StreamNext ==
    \/ \E r \in StreamRequests :
         StreamSendStep(r) \/ StreamCompletionStep(r) \/ StreamTargetCompletes(r)
    \/ CompletionReleases \/ CompletionReturns
    \/ BufferPut
    \/ Start \/ StartStep \/ StopAndWait \/ StopStep
    \/ StreamCloseBegins \/ StreamClose

\* Threads run and the Client's callback returns. The target need not complete a
\* request before it is cancelled.
StreamFairness ==
    /\ \A r \in StreamRequests :
         /\ WF_streamVars(StreamSendStep(r)) /\ WF_streamVars(StreamCompletionStep(r))
         /\ WF_streamVars(r \in cancelled /\ StreamTargetCompletes(r))
    /\ WF_streamVars(CompletionReleases) /\ WF_streamVars(CompletionReturns)
    /\ WF_streamVars(StartStep) /\ WF_streamVars(StopStep) /\ WF_streamVars(StreamClose)

StreamSpec == StreamInit /\ [][StreamNext]_streamVars /\ StreamFairness

-----------------------------------------------------------------------------

Streams == {r \in StreamRequests : request[r] # "idle"}
Unstarted ==
    {r \in StreamRequests :
       \/ client \in {"starting", "reducing", "setting"} /\ r >= index
       \/ client \in {"sending", "releasing"} /\ r > index}

IsQuiet ==
    /\ Streams = {} /\ releasing = 0
    /\ buffers = clientBuffers

\* Once StopAndWait has returned the target has no request of the streams, the
\* Client's callback does not run, and every buffer that the Client has not kept
\* is back in its pool; unless a completion routine of an earlier Start was late
\* and has set the event too early. When the Module is closed it is so anyway.
StoppedIsQuiet == client = "closed" \/ (client = "stopped" /\ ~early) => IsQuiet

\* "Stops streaming Asynchronous requests to the IoTarget and waits for all pending
\* requests to return" (ContinuousRequestTarget_StopAndWait). This is not so (no run
\* checks it): the routine that ends the last stream may be between its decrement
\* and its EventSet when the next Start resets the event.
AllRequestsHaveReturned == client = "stopped" => IsQuiet

\* StreamingRequestCount counts the streams that have not ended, those that Start
\* has yet to begin or to give up included. When it is zero the event is set or
\* somebody is about to set it; and while a stream is left only a late routine sets
\* it. When the Module has no reference left its Close finds what it asserts, no
\* pending request and the transient collection empty, and no event to wait for.
StreamsAreCounted ==
    /\ mode # "user" =>
         /\ StreamingRequestCount = Cardinality(Streams \cup Unstarted)
         /\ StreamingRequestCount = 0 =>
              \/ event \/ client = "setting"
              \/ \E r \in StreamRequests : setting[r] > 0
         /\ event /\ StreamingRequestCount # 0 => early
    /\ isClosing /\ streamReferences = 0 =>
         /\ PendingStreamingRequests = 0
         /\ \A r \in StreamRequests : TransientStreamRequestsCollection[r] = 0
         /\ mode # "user" => event

\* StopAndWait and Close return: every request is cancelled after it was sent for
\* the last time, and the last one wakes the thread that waits.
StopAndCloseReturn ==
    /\ client = "waiting" ~> client = "stopped"
    /\ isClosing ~> client = "closed"
=============================================================================
