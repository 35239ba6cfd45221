----------------------------- MODULE RequestTarget -----------------------------
(***************************************************************************)
(* DMF_RequestTarget: sends requests to a WDFIOTARGET, each created for    *)
(* one send or created once and sent again, and cancels them by the number *)
(* of the send (Modules.Library/Dmf_RequestTarget.c; the single requests   *)
(* of Dmf_ContinuousRequestTarget.c are the same statements).              *)
(*                                                                         *)
(* A WDFREQUEST is an object of WDF: deleting it leaves its memory in      *)
(* place as long as somebody holds a reference, a collection does for each *)
(* entry, and its handle may afterwards be given to a new request. Each    *)
(* send has a number; the number is also what UniqueRequestIdCancel holds. *)
(* A completion routine runs on a thread of its own, or, when the Module   *)
(* is to complete at PASSIVE_LEVEL, on that of DMF_QueuedWorkItem.         *)
(***************************************************************************)
EXTENDS Integers, SequencesExt

CONSTANTS Requests,         \* bound: requests there are handles for
          Threads,          \* threads of the Client that call Methods
          Kinds,            \* the ways the Client sends
          Failures,         \* the steps of a send that may fail
          PassiveLevels,    \* the values DMF_IsModulePassiveLevel may have
          MaxSends          \* bound: sends made

ASSUME RequestAssumption ==
    /\ Kinds \subseteq {"fresh", "synchronous", "reuse"}
    /\ Failures \subseteq {"format", "timer", "timerOfListed", "send"}
    /\ PassiveLevels \subseteq BOOLEAN
    /\ MaxSends \in Nat
ASSUME ThreadsAssumption == IsFiniteSet(Threads)

VARIABLES
    passiveLevel,
    PendingAsynchronousRequests,    \* requests that can be cancelled, a list
    PendingReuseRequests,           \* requests made by ReuseCreate
    UniqueRequestIdCancel,          \* of each request, 0 for none yet
    RequestInUse,                   \* of each request
    object,                         \* the object of each handle
    orphans,                        \* threads whose memory objects went with the request
    thread,                         \* what each thread does
    send,                           \* where each send is
    sends,                          \* sends made so far
    known,                          \* sends whose number the Client has got
    references,                     \* references to the Module
    closing                         \* "open", then "closing", then "closed"

collections == <<PendingAsynchronousRequests, PendingReuseRequests>>
requestVars == <<UniqueRequestIdCancel, RequestInUse, object, orphans>>
sendVars == <<send, sends, known>>
moduleVars == <<references, closing>>
vars == <<passiveLevel, collections, requestVars, thread, sendVars, moduleVars>>

SendIds == 1 .. MaxSends
Idle == [at |-> "idle"]
ThreadPlaces == {"prepare", "send", "abort", "freed", "wait", "finish", "leave",
                 "delete", "cancel", "release"}

TypeOK ==
    /\ passiveLevel \in PassiveLevels
    /\ PendingAsynchronousRequests \in Seq(Requests)
    /\ PendingReuseRequests \subseteq Requests
    /\ UniqueRequestIdCancel \in [Requests -> 0 .. MaxSends]
    /\ RequestInUse \in [Requests -> BOOLEAN]
    /\ object \in [Requests -> {"none", "live", "deleted"}]
    /\ orphans \subseteq Threads
    /\ \A t \in Threads : thread[t] = Idle \/ thread[t].at \in ThreadPlaces
    /\ \A n \in SendIds : send[n].at \in {"none", "failed", "target", "queued", "completed",
                                          "removed", "calling", "done"}
    /\ known \subseteq SendIds /\ sends \in 0 .. MaxSends
    /\ references \in Nat
    /\ closing \in {"open", "closing", "closed"}

\* DMF_RequestTarget_Open.
Init ==
    /\ passiveLevel \in PassiveLevels
    /\ PendingAsynchronousRequests = <<>> /\ PendingReuseRequests = {}
    /\ UniqueRequestIdCancel = [r \in Requests |-> 0]
    /\ RequestInUse = [r \in Requests |-> FALSE]
    /\ object = [r \in Requests |-> "none"] /\ orphans = {}
    /\ thread = [t \in Threads |-> Idle]
    /\ send = [n \in SendIds |-> [at |-> "none"]]
    /\ sends = 0 /\ known = {}
    /\ references = 0 /\ closing = "open"

Goto(t, place) == thread' = [thread EXCEPT ![t].at = place]
Return(t) == thread' = [thread EXCEPT ![t] = Idle]
At(t, places) == thread[t].at \in places

\* The memory of a request stays while the object is live or is referenced: by
\* a collection (the reference ReuseCreate takes lives as long as the entry of
\* PendingReuseRequests) or by a thread that cancels.
Referenced(r) ==
    \/ r \in ToSet(PendingAsynchronousRequests) \cup PendingReuseRequests
    \/ \E t \in Threads : /\ At(t, {"cancel", "release"})
                          /\ thread[t].request = r /\ thread[t].holds
Exists(r) == object[r] = "live" \/ (object[r] = "deleted" /\ Referenced(r))

ModuleReference == closing = "open" /\ references' = references + 1
ModuleDereference == references' = references - 1

-----------------------------------------------------------------------------
(* RequestTarget_RequestCreateAndSend and RequestTarget_RequestSendReuse.   *)

\* WdfRequestCreate.
CreateRequest(r) ==
    /\ ~Exists(r)
    /\ object' = [object EXCEPT ![r] = "live"]
    /\ UniqueRequestIdCancel' = [UniqueRequestIdCancel EXCEPT ![r] = 0]
    /\ RequestInUse' = [RequestInUse EXCEPT ![r] = FALSE]

\* RequestTarget_PendingCollectionReuseListSearch under the lock.
ReuseListSearch_Unmarked(r) ==                  \* mutant: does not look at the mark
    /\ r \in PendingReuseRequests
    /\ RequestInUse' = [RequestInUse EXCEPT ![r] = TRUE]

ReuseListSearch(r) ==
    /\ r \in PendingReuseRequests
    /\ ~RequestInUse[r]
    /\ RequestInUse' = [RequestInUse EXCEPT ![r] = TRUE]

\* A Method that sends takes a reference to the Module and creates or finds its
\* request. One that can do neither returns and has changed nothing.
SendBegins(t, kind, r, cancellable) ==
    /\ At(t, {"idle"})
    /\ sends < MaxSends
    /\ ModuleReference
    /\ IF kind = "reuse"
          THEN ReuseListSearch(r) /\ UNCHANGED <<UniqueRequestIdCancel, object>>
          ELSE CreateRequest(r)
    /\ sends' = sends + 1
    /\ thread' = [thread EXCEPT ![t] = [at |-> "prepare", kind |-> kind, request |-> r,
                                        id |-> sends + 1, cancellable |-> cancellable]]
    /\ UNCHANGED <<passiveLevel, collections, orphans, send, known, closing>>

\* WdfRequestReuse, the memory objects and the formatting; a send that can be
\* cancelled gets its number and enters the list.
Prepares(t) ==
    /\ At(t, {"prepare"})
    /\ Goto(t, "send")
    /\ IF thread[t].cancellable
          THEN /\ UniqueRequestIdCancel' =
                    [UniqueRequestIdCancel EXCEPT ![thread[t].request] = thread[t].id]
               /\ PendingAsynchronousRequests' =
                    Append(PendingAsynchronousRequests, thread[t].request)
          ELSE UNCHANGED <<UniqueRequestIdCancel, PendingAsynchronousRequests>>
    /\ UNCHANGED <<passiveLevel, PendingReuseRequests, RequestInUse, object, orphans, sendVars,
                   moduleVars>>

PrepareFails(t) ==
    /\ At(t, {"prepare"}) /\ "format" \in Failures
    /\ Goto(t, "abort")
    /\ UNCHANGED <<passiveLevel, collections, requestVars, sendVars, moduleVars>>

\* WdfRequestAllocateTimer fails: the request stays in the list.
TimerFails(t) ==
    /\ At(t, {"send"})
    /\ (IF thread[t].cancellable THEN "timerOfListed" ELSE "timer") \in Failures
    /\ Goto(t, "abort")
    /\ UNCHANGED <<passiveLevel, collections, requestVars, sendVars, moduleVars>>

\* WdfRequestSend succeeds, and the Client gets the number.
Sends(t) ==
    /\ At(t, {"send"})
    /\ send' = [send EXCEPT ![thread[t].id] =
                  [at |-> "target", request |-> thread[t].request,
                   kind |-> thread[t].kind, cancelled |-> FALSE]]
    /\ IF thread[t].kind = "synchronous"
          THEN Goto(t, "wait") /\ UNCHANGED known
          ELSE /\ Return(t)
               /\ known' = IF thread[t].cancellable THEN known \cup {thread[t].id} ELSE known
    /\ UNCHANGED <<passiveLevel, collections, requestVars, sends, moduleVars>>

SendFails_StaysListed(t) ==                     \* mutant: the entry is left
    /\ At(t, {"send"}) /\ "send" \in Failures
    /\ Goto(t, "abort")
    /\ UNCHANGED <<passiveLevel, collections, requestVars, sendVars, moduleVars>>

SendFails(t) ==
    /\ At(t, {"send"}) /\ "send" \in Failures
    /\ PendingAsynchronousRequests' =
         IF thread[t].cancellable
            THEN RemoveFirst(PendingAsynchronousRequests, thread[t].request)
            ELSE PendingAsynchronousRequests
    /\ Goto(t, "abort")
    /\ UNCHANGED <<passiveLevel, PendingReuseRequests, requestVars, sendVars, moduleVars>>

\* A failing send: a request of one send is deleted, one that is sent again is
\* given back, without the lock.
Aborts_KeepsMark(t) ==                          \* mutant: it stays in use
    /\ At(t, {"abort"})
    /\ IF thread[t].kind = "reuse"
          THEN Goto(t, "freed") /\ UNCHANGED <<RequestInUse, object>>
          ELSE /\ object' = [object EXCEPT ![thread[t].request] = "deleted"]
               /\ Goto(t, "leave") /\ UNCHANGED RequestInUse
    /\ send' = [send EXCEPT ![thread[t].id] = [at |-> "failed"]]
    /\ UNCHANGED <<passiveLevel, collections, UniqueRequestIdCancel, orphans, sends, known,
                   moduleVars>>

Aborts(t) ==
    /\ At(t, {"abort"})
    /\ IF thread[t].kind = "reuse"
          THEN /\ RequestInUse' = [RequestInUse EXCEPT ![thread[t].request] = FALSE]
               /\ Goto(t, "freed") /\ UNCHANGED object
          ELSE /\ object' = [object EXCEPT ![thread[t].request] = "deleted"]
               /\ Goto(t, "leave") /\ UNCHANGED RequestInUse
    /\ send' = [send EXCEPT ![thread[t].id] = [at |-> "failed"]]
    /\ UNCHANGED <<passiveLevel, collections, UniqueRequestIdCancel, orphans, sends, known,
                   moduleVars>>

\* The memory objects of the failing send are deleted after its request may have
\* been sent or deleted by another thread.
DeletesMemory(t) ==
    /\ At(t, {"freed"})
    /\ orphans' = orphans \ {t}
    /\ Goto(t, "leave")
    /\ UNCHANGED <<passiveLevel, collections, UniqueRequestIdCancel, RequestInUse, object,
                   sendVars, moduleVars>>

\* A synchronous send ends when the target has completed the request.
SynchronousEnds(t) ==
    /\ At(t, {"finish"})
    /\ object' = [object EXCEPT ![thread[t].request] = "deleted"]
    /\ send' = [send EXCEPT ![thread[t].id].at = "done"]
    /\ Goto(t, "leave")
    /\ UNCHANGED <<passiveLevel, collections, UniqueRequestIdCancel, RequestInUse, orphans,
                   sends, known, moduleVars>>

\* The Method drops its reference to the Module.
SendReturns(t) ==
    /\ At(t, {"leave"})
    /\ ModuleDereference
    /\ Return(t)
    /\ UNCHANGED <<passiveLevel, collections, requestVars, sendVars, closing>>

-----------------------------------------------------------------------------
(* The target, the completion routines and                                  *)
(* RequestTarget_ProcessAsynchronousRequestRoot, for send n.                *)

InState(n, places) == send[n].at \in places
Advance(n, place) == send' = [send EXCEPT ![n].at = place]

TargetCompletes(n) ==
    /\ InState(n, {"target"})
    /\ IF send[n].kind = "synchronous"
          THEN \E t \in Threads : /\ At(t, {"wait"}) /\ thread[t].id = n
                                  /\ Goto(t, "finish") /\ UNCHANGED send
          ELSE /\ Advance(n, IF passiveLevel THEN "queued" ELSE "completed")
               /\ UNCHANGED thread
    /\ UNCHANGED <<passiveLevel, collections, requestVars, sends, known, moduleVars>>

Processing == {"completed", "removed", "calling"}

\* DMF_QueuedWorkItem runs its callback for one buffer at a time.
WorkItemRuns(n) ==
    /\ InState(n, {"queued"})
    /\ \A m \in SendIds : ~InState(m, Processing)
    /\ Advance(n, "completed")
    /\ UNCHANGED <<passiveLevel, collections, requestVars, thread, sends, known, moduleVars>>

CompletionRemoves(n) ==
    /\ InState(n, {"completed"})
    /\ PendingAsynchronousRequests' = RemoveFirst(PendingAsynchronousRequests, send[n].request)
    /\ Advance(n, "removed")
    /\ UNCHANGED <<passiveLevel, PendingReuseRequests, requestVars, thread, sends, known,
                   moduleVars>>

\* A request that is sent again is free before the Client is called.
CompletionFrees(n) ==
    /\ InState(n, {"removed"})
    /\ RequestInUse' = IF send[n].kind = "reuse"
                          THEN [RequestInUse EXCEPT ![send[n].request] = FALSE]
                          ELSE RequestInUse
    /\ Advance(n, "calling")
    /\ UNCHANGED <<passiveLevel, collections, UniqueRequestIdCancel, object, orphans, thread,
                   sends, known, moduleVars>>

\* The Client's callback returns; a request of one send is deleted.
CallbackReturns_StaysInModule(n) ==             \* mutant: keeps its reference
    /\ InState(n, {"calling"})
    /\ object' = IF send[n].kind = "reuse" THEN object
                 ELSE [object EXCEPT ![send[n].request] = "deleted"]
    /\ Advance(n, "done")
    /\ UNCHANGED <<passiveLevel, collections, UniqueRequestIdCancel, RequestInUse, orphans,
                   thread, sends, known, moduleVars>>

CallbackReturns(n) ==
    /\ InState(n, {"calling"})
    /\ object' = IF send[n].kind = "reuse" THEN object
                 ELSE [object EXCEPT ![send[n].request] = "deleted"]
    /\ Advance(n, "done")
    /\ ModuleDereference
    /\ UNCHANGED <<passiveLevel, collections, UniqueRequestIdCancel, RequestInUse, orphans,
                   thread, sends, known, closing>>

-----------------------------------------------------------------------------
(* DMF_RequestTarget_Cancel, ReuseCreate and ReuseDelete.                   *)

\* RequestTarget_PendingCollectionListSearchAndReference under the lock.
IsFound(r, n) == r \in ToSet(PendingAsynchronousRequests) /\ UniqueRequestIdCancel[r] = n

CancelSearches_Unreferenced(t, n) ==            \* mutant: no WdfObjectReference
    /\ At(t, {"idle"})
    /\ n \in known /\ known' = known \ {n}
    /\ ModuleReference
    /\ \E r \in Requests :
         /\ IsFound(r, n)
         /\ thread' = [thread EXCEPT ![t] = [at |-> "cancel", id |-> n, request |-> r,
                                             holds |-> FALSE]]
    /\ UNCHANGED <<passiveLevel, collections, requestVars, send, sends, closing>>

\* A number that is not found changes nothing.
CancelSearches(t, n) ==
    /\ At(t, {"idle"})
    /\ n \in known /\ known' = known \ {n}          \* bound: one Cancel each
    /\ ModuleReference
    /\ \E r \in Requests :
         /\ IsFound(r, n)
         /\ thread' = [thread EXCEPT ![t] = [at |-> "cancel", id |-> n, request |-> r,
                                             holds |-> TRUE]]
    /\ UNCHANGED <<passiveLevel, collections, requestVars, send, sends, closing>>

\* WdfRequestCancelSentRequest: whatever send of the request is with the target.
CancelsSentRequest(t) ==
    /\ At(t, {"cancel"})
    /\ send' = [n \in SendIds |->
                  IF InState(n, {"target"}) /\ send[n].request = thread[t].request
                     THEN [send[n] EXCEPT !.cancelled = TRUE] ELSE send[n]]
    /\ Goto(t, "release")
    /\ UNCHANGED <<passiveLevel, collections, requestVars, sends, known, moduleVars>>

CancelReturns(t) ==
    /\ At(t, {"release"})
    /\ ModuleDereference
    /\ Return(t)
    /\ UNCHANGED <<passiveLevel, collections, requestVars, sendVars, closing>>

ReuseCreate(r) ==
    /\ closing = "open"
    /\ CreateRequest(r)
    /\ PendingReuseRequests' = PendingReuseRequests \cup {r}
    /\ UNCHANGED <<passiveLevel, PendingAsynchronousRequests, orphans, thread, sendVars,
                   moduleVars>>

\* Finds it free and marks it, so that nobody sends it any more.
ReuseDeleteSearches(t, r) ==
    /\ At(t, {"idle"})
    /\ closing # "closed"
    /\ ReuseListSearch(r)
    /\ thread' = [thread EXCEPT ![t] = [at |-> "delete", request |-> r]]
    /\ UNCHANGED <<passiveLevel, collections, UniqueRequestIdCancel, object, orphans, sendVars,
                   moduleVars>>

\* With the request go the memory objects of a send that has not yet come to
\* delete its own.
ReuseDeletes(t) ==
    /\ At(t, {"delete"})
    /\ orphans' = orphans \cup {u \in Threads : /\ At(u, {"freed"})
                                               /\ thread[u].request = thread[t].request}
    /\ PendingReuseRequests' = PendingReuseRequests \ {thread[t].request}
    /\ object' = [object EXCEPT ![thread[t].request] = "deleted"]
    /\ Return(t)
    /\ UNCHANGED <<passiveLevel, PendingAsynchronousRequests, UniqueRequestIdCancel,
                   RequestInUse, sendVars, moduleVars>>

-----------------------------------------------------------------------------
(* The close: the Module keeps Methods out, waits for its references and    *)
(* for the two collections to be empty.                                     *)

CloseBegins ==
    /\ closing = "open"
    /\ closing' = "closing"
    /\ UNCHANGED <<passiveLevel, collections, requestVars, thread, sendVars, references>>

Close ==
    /\ closing = "closing" /\ references = 0
    /\ PendingAsynchronousRequests = <<>> /\ PendingReuseRequests = {}
    /\ closing' = "closed"
    /\ UNCHANGED <<passiveLevel, collections, requestVars, thread, sendVars, references>>

-----------------------------------------------------------------------------

SendStep(t) ==
    \/ Prepares(t) \/ PrepareFails(t) \/ TimerFails(t) \/ Sends(t) \/ SendFails(t)
    \/ Aborts(t) \/ DeletesMemory(t) \/ SynchronousEnds(t) \/ SendReturns(t)

CompletionStep(n) ==
    \/ TargetCompletes(n) \/ WorkItemRuns(n) \/ CompletionRemoves(n)
    \/ CompletionFrees(n) \/ CallbackReturns(n)

OtherStep(t) == CancelsSentRequest(t) \/ CancelReturns(t) \/ ReuseDeletes(t)

Next ==
    \/ \E t \in Threads :
          \/ \E kind \in Kinds, r \in Requests, cancellable \in BOOLEAN :
                /\ kind = "synchronous" => ~cancellable
                /\ SendBegins(t, kind, r, cancellable)
          \/ SendStep(t)
          \/ \E n \in SendIds : CancelSearches(t, n)
          \/ \E r \in Requests : ReuseDeleteSearches(t, r)
          \/ OtherStep(t)
    \/ \E n \in SendIds : CompletionStep(n)
    \/ \E r \in Requests : "reuse" \in Kinds /\ ReuseCreate(r)
    \/ CloseBegins \/ Close

\* Threads run, the target completes what it was sent, the Client's callback
\* returns, and a Client that closes deletes the requests it created.
Fairness ==
    /\ \A t \in Threads : WF_vars(SendStep(t)) /\ WF_vars(OtherStep(t))
    /\ \A n \in SendIds : WF_vars(CompletionStep(n))
    /\ \A r \in Requests :
         WF_vars(closing = "closing" /\ \E t \in Threads : ReuseDeleteSearches(t, r))
    /\ WF_vars(Close)

Spec == Init /\ [][Next]_vars /\ Fairness

-----------------------------------------------------------------------------

\* Nobody touches a request whose memory may be somebody else's: the sender up
\* to its send or to the step that gives the request back, the completion routine
\* up to its last use, and the thread that cancels, which found the request
\* before it was completed. What a failing send still deletes after that step is
\* FailingSendsFindTheirMemory's matter.
TouchesLiveRequest ==
    /\ \A t \in Threads :
         /\ At(t, {"prepare", "send", "abort", "wait", "finish", "delete"})
              => object[thread[t].request] = "live"
         /\ At(t, {"cancel", "release"}) => Exists(thread[t].request)
    /\ \A n \in SendIds :
         InState(n, {"target", "queued", "completed", "removed"}
                      \cup IF InState(n, {"calling"}) /\ send[n].kind = "fresh"
                              THEN {"calling"} ELSE {})
            => object[send[n].request] = "live"

\* A request has one user at a time, from the search that marks it until the
\* completion or the failure that gives it back: it is not sent while it is
\* with the target, and not deleted under its sender.
Users(r) ==
    {<<"thread", t>> : t \in {t \in Threads :
        /\ At(t, {"prepare", "send", "abort", "delete"})
        /\ thread[t].request = r}}
    \cup {<<"send", n>> : n \in {n \in SendIds :
        /\ InState(n, {"target", "queued", "completed", "removed"})
        /\ send[n].request = r}}

RequestHasOneUser == \A r \in Requests : Cardinality(Users(r)) <= 1

\* What Close asserts ("There should be no outstanding requests in the
\* target"): when the last reference to the Module has gone no request can be
\* cancelled any more and no callback of the Client is still to run.
CloseFindsNoRequest ==
    closing # "open" /\ references = 0 =>
        /\ PendingAsynchronousRequests = <<>>
        /\ \A n \in SendIds : InState(n, {"none", "failed", "done"})

\* A failing ReuseSend deletes memory objects that exist. This does not hold and
\* no run checks it: the send has given its request back by then, so that a
\* ReuseDelete may have deleted the request and its memory objects with it.
FailingSendsFindTheirMemory == orphans = {}

\* From the sender to Close, whoever comes to a request finds it alive.
RequestsAreAlive == TouchesLiveRequest /\ CloseFindsNoRequest

\* Close waits in a loop for the collections to become empty, and they do.
CloseEnds == closing = "closing" ~> closing = "closed"

\* Cancel cancels the send whose number it was given ("certain to cancel exactly
\* the correct WDFREQUEST").
CancelsItsOwnSend ==
    [][\A t \in Threads : At(t, {"cancel"}) /\ thread'[t].at = "release" =>
         \A n \in SendIds : send'[n] # send[n] => n = thread[t].id]_vars
=============================================================================
