--------------------- MODULE NotifyUserWithRequestMultiple ---------------------
(***************************************************************************)
(* DMF_NotifyUserWithRequestMultiple: data is broadcast to every           *)
(* application that has the device open, each with a                       *)
(* DMF_NotifyUserWithRequest of its own (Modules.Library/                  *)
(* Dmf_NotifyUserWithRequestMultiple.c).                                   *)
(*                                                                         *)
(* Applications that come and go, and data, wait in lists for the callback *)
(* of a DMF_Doorbell, the only one that touches the list of the clients.   *)
(* In the mode ReplayLastMessageToNewClients a DMF_RingBuffer keeps the    *)
(* last data for those that come later. Of the NotifyUserWithRequest of a  *)
(* client there is only the data that it is given, in which order.         *)
(***************************************************************************)
EXTENDS Doorbell, RingBuffer, SequencesExt

CONSTANTS Files,        \* file objects, one for each application that opens the device
          Producers,    \* threads that call DMF_NotifyUserWithRequestMultiple_DataBroadcast
          MaxData,      \* bound: data that is broadcast
          EarlyUse      \* a client that EvtClientArrivalCallback will refuse uses or
                        \* closes its file before the callback was called

ASSUME MultipleAssumption ==
    /\ MaxData \in Nat /\ EarlyUse \in BOOLEAN
    /\ Mode = "DeleteOldestIfFullOnWrite"
    /\ Values = 0 .. MaxData /\ Zero = 0

VARIABLES
    replay,             \* ModeType.Modes.ReplayLastMessageToNewClients
    refused,            \* clients that EvtClientArrivalCallback refuses
    file,               \* what the application does with its file
    referenced,         \* file objects with a reference of this Module
    contexts,           \* FILE_OBJECT_CONTEXTs in DmfBufferQueueFileContextPool
    notifyModules,      \* files whose DmfModuleNotifyUserWithRequest is not NULL: it exists
    AddedToBroadcastList,
    PendingAdd, PendingRemove, ListHead,
    queue,              \* DmfModuleBufferQueueProcessing
    producer,           \* what each producer does
    broadcasts, processed,      \* how many data were broadcast, and given to the clients
    using,              \* files with a request that has found the context
    given,              \* what each client was given
    joined,             \* history: the data processed before a client was added
    local               \* the local variables of the callback, for each handler

fileVars == <<file, referenced, contexts, notifyModules, AddedToBroadcastList, using>>
listVars == <<PendingAdd, PendingRemove, ListHead>>
dataVars == <<queue, producer, broadcasts, processed, given, joined>>
modeVars == <<replay, refused>>
vars == <<doorbellVars, ringVars, fileVars, listVars, dataVars, modeVars, local>>

Nothing == [add |-> <<>>, remove |-> <<>>, file |-> "none", closed |-> FALSE,
            data |-> 0, clients |-> <<>>]

Init ==
    /\ DoorbellInit /\ RingInit
    /\ replay \in BOOLEAN
    /\ refused \in SUBSET Files
    /\ file = [f \in Files |-> "none"]
    /\ referenced = {} /\ contexts = {} /\ notifyModules = {}
    /\ AddedToBroadcastList = {} /\ using = {}
    /\ PendingAdd = <<>> /\ PendingRemove = <<>> /\ ListHead = <<>>
    /\ queue = <<>> /\ producer = [p \in Producers |-> "idle"]
    /\ broadcasts = 0 /\ processed = 0
    /\ given = [f \in Files |-> <<>>]
    /\ joined = [f \in Files |-> 0]
    /\ local = [h \in Handlers |-> Nothing]

-----------------------------------------------------------------------------
(* WDF calls back for the file of an application.                           *)

\* DMF_NotifyUserWithRequestMultiple_ModuleFileCreate.
FileCreate(f) ==
    /\ file[f] = "none"
    /\ notifyModules' = notifyModules \cup {f}
    /\ contexts' = contexts \cup {f}
    /\ file' = [file EXCEPT ![f] = "creating"]
    /\ UNCHANGED <<doorbellVars, ringVars, referenced, AddedToBroadcastList, using, listVars,
                   dataVars, modeVars, local>>

\* No memory for the Module or the context: the application has a file all the same.
FileCreateFails(f) ==
    /\ file[f] = "none"
    /\ file' = [file EXCEPT ![f] = "open"]
    /\ UNCHANGED <<doorbellVars, ringVars, referenced, contexts, notifyModules,
                   AddedToBroadcastList, using, listVars, dataVars, modeVars, local>>

IsAdded(f) ==
    /\ file[f] = "creating"
    /\ PendingAdd' = Append(PendingAdd, f)
    /\ file' = [file EXCEPT ![f] = "ringingCreate"]
    /\ UNCHANGED <<doorbellVars, ringVars, referenced, contexts, notifyModules,
                   AddedToBroadcastList, using, PendingRemove, ListHead, dataVars, modeVars, local>>

\* In the early use of a file its client is refused only later.
MayUse(f) == EarlyUse \/ ~(f \in refused /\ f \in contexts)

\* DMF_NotifyUserWithRequestMultiple_ModuleFileClose, up to the lock. A file
\* that is closed has no request any more.
CloseFinds_Unchecked(f) == TRUE             \* mutant: does not ask whether there is a context
CloseFinds(f) == f \in contexts

FileClose(f) ==
    /\ file[f] = "open" /\ f \notin using /\ f \notin ringer
    /\ MayUse(f)
    /\ file' = [file EXCEPT ![f] = IF CloseFinds(f) THEN "closing" ELSE "closed"]
    /\ UNCHANGED <<doorbellVars, ringVars, referenced, contexts, notifyModules,
                   AddedToBroadcastList, using, listVars, dataVars, modeVars, local>>

IsRemoved(f) ==
    /\ file[f] = "closing"
    /\ referenced' = referenced \cup {f}
    /\ PendingRemove' = Append(PendingRemove, f)
    /\ file' = [file EXCEPT ![f] = "ringingClose"]
    /\ UNCHANGED <<doorbellVars, ringVars, contexts, notifyModules, AddedToBroadcastList, using,
                   PendingAdd, ListHead, dataVars, modeVars, local>>

FileRings(f) ==
    /\ file[f] \in {"ringingCreate", "ringingClose"}
    /\ Ring(f)
    /\ file' = [file EXCEPT ![f] = IF @ = "ringingCreate" THEN "open" ELSE "closed"]
    /\ UNCHANGED <<ringVars, referenced, contexts, notifyModules, AddedToBroadcastList, using,
                   listVars, dataVars, modeVars, local>>

\* DMF_NotifyUserWithRequestMultiple_RequestProcess: it finds the context and
\* then gives the request to the Module that it found there.
RequestProcess(f) ==
    /\ file[f] = "open" /\ f \notin using /\ f \notin ringer
    /\ MayUse(f)
    /\ f \in contexts
    /\ using' = using \cup {f}
    /\ UNCHANGED <<doorbellVars, ringVars, file, referenced, contexts, notifyModules,
                   AddedToBroadcastList, listVars, dataVars, modeVars, local>>

RequestIsGiven(f) ==
    /\ f \in using
    /\ using' = using \ {f}
    /\ UNCHANGED <<doorbellVars, ringVars, file, referenced, contexts, notifyModules,
                   AddedToBroadcastList, listVars, dataVars, modeVars, local>>

-----------------------------------------------------------------------------
(* DMF_NotifyUserWithRequestMultiple_DataBroadcast.                         *)

DataBroadcast(p) ==
    /\ producer[p] = "idle" /\ p \notin ringer
    /\ broadcasts < MaxData
    /\ broadcasts' = broadcasts + 1
    /\ queue' = Append(queue, broadcasts + 1)
    /\ producer' = [producer EXCEPT ![p] = "ringing"]
    /\ UNCHANGED <<doorbellVars, ringVars, fileVars, listVars, processed, given, joined,
                   modeVars, local>>

ProducerRings(p) ==
    /\ producer[p] = "ringing"
    /\ Ring(p)
    /\ producer' = [producer EXCEPT ![p] = "idle"]
    /\ UNCHANGED <<ringVars, fileVars, listVars, queue, broadcasts, processed, given, joined,
                   modeVars, local>>

DoorbellSteps ==
    /\ \/ \E t \in Files \cup Producers : RingEnqueues(t)
       \/ \E h \in Handlers : WorkItemStarts(h) \/ CallsBack(h) \/ Tests(h)
    /\ UNCHANGED <<ringVars, fileVars, listVars, dataVars, modeVars, local>>

-----------------------------------------------------------------------------
(* NotifyUserWithRequestMultiple_DoorbellCallback.                          *)

Goto(h, place) ==
    /\ handler' = [handler EXCEPT ![h] = place]
    /\ UNCHANGED <<TrackDoorbellRing, WorkItemScheduled, workItem, ringer>>

TransfersLists(h) ==
    /\ handler[h] = "callback"
    /\ local' = [local EXCEPT ![h].add = PendingAdd, ![h].remove = PendingRemove]
    /\ PendingAdd' = <<>> /\ PendingRemove' = <<>>
    /\ Goto(h, "add")
    /\ UNCHANGED <<ringVars, fileVars, ListHead, dataVars, modeVars>>

\* A client is given the data that the ring buffer has, and is added.
AddsClient(h) ==
    LET f == Head(local[h].add)
    IN  /\ handler[h] = "add" /\ local[h].add # <<>>
        /\ f \notin refused
        /\ given' = [given EXCEPT ![f] = IF replay THEN Enumerated ELSE <<>>]
        /\ joined' = [joined EXCEPT ![f] = processed]
        /\ ListHead' = Append(ListHead, f)
        /\ AddedToBroadcastList' = AddedToBroadcastList \cup {f}
        /\ local' = [local EXCEPT ![h].add = Tail(@)]
        /\ UNCHANGED <<doorbellVars, ringVars, file, referenced, contexts, notifyModules, using,
                       PendingAdd, PendingRemove, queue, producer, broadcasts, processed, modeVars>>

RefusesClient(h) ==
    LET f == Head(local[h].add)
    IN  /\ handler[h] = "add" /\ local[h].add # <<>>
        /\ f \in refused
        /\ local' = [local EXCEPT ![h].add = Tail(@), ![h].file = f, ![h].closed = FALSE]
        /\ Goto(h, "deleteModule")
        /\ UNCHANGED <<ringVars, fileVars, listVars, dataVars, modeVars>>

AddsNoMore(h) ==
    /\ handler[h] = "add" /\ local[h].add = <<>>
    /\ Goto(h, "remove")
    /\ UNCHANGED <<ringVars, fileVars, listVars, dataVars, modeVars, local>>

RemovesClient(h) ==
    LET f == Head(local[h].remove)
    IN  /\ handler[h] = "remove" /\ local[h].remove # <<>>
        /\ IF f \in AddedToBroadcastList
              THEN \E i \in DOMAIN ListHead :
                       ListHead[i] = f /\ ListHead' = RemoveAt(ListHead, i)
              ELSE UNCHANGED ListHead
        /\ local' = [local EXCEPT ![h].remove = Tail(@), ![h].file = f, ![h].closed = TRUE]
        /\ Goto(h, "deleteModule")
        /\ UNCHANGED <<ringVars, fileVars, PendingAdd, PendingRemove, dataVars, modeVars>>

RemovesNoMore(h) ==
    /\ handler[h] = "remove" /\ local[h].remove = <<>>
    /\ Goto(h, "broadcast")
    /\ UNCHANGED <<ringVars, fileVars, listVars, dataVars, modeVars, local>>

\* NotifyUserWithRequestMultiple_DeleteDynamicFileObjectContext: it deletes the
\* Module and stores NULL for it. (WDF stops a driver that calls WdfObjectDelete
\* with NULL.)
DeletesModule(h) ==
    /\ handler[h] = "deleteModule"
    /\ local[h].file \in notifyModules
    /\ notifyModules' = notifyModules \ {local[h].file}
    /\ given' = [given EXCEPT ![local[h].file] = <<>>]
    /\ joined' = [joined EXCEPT ![local[h].file] = 0]
    /\ Goto(h, "removeContext")
    /\ UNCHANGED <<ringVars, file, referenced, contexts, AddedToBroadcastList, using, listVars,
                   queue, producer, broadcasts, processed, modeVars, local>>

\* It takes the context out of the pool; and the reference to the file object of a
\* client that was removed is released.
RemovesContext(h) ==
    /\ handler[h] = "removeContext"
    /\ contexts' = contexts \ {local[h].file}
    /\ AddedToBroadcastList' = AddedToBroadcastList \ {local[h].file}
    /\ referenced' = IF local[h].closed THEN referenced \ {local[h].file} ELSE referenced
    /\ local' = [local EXCEPT ![h].file = "none"]
    /\ Goto(h, IF local[h].closed THEN "remove" ELSE "add")
    /\ UNCHANGED <<ringVars, file, notifyModules, using, listVars, dataVars, modeVars>>

DequeuesData(h) ==
    /\ handler[h] = "broadcast" /\ queue # <<>>
    /\ queue' = Tail(queue)
    /\ IF replay THEN Write(Head(queue)) \/ WriteOverOldest(Head(queue)) ELSE UNCHANGED ringVars
    /\ local' = [local EXCEPT ![h].data = Head(queue), ![h].clients = ListHead]
    /\ Goto(h, "give")
    /\ UNCHANGED <<fileVars, listVars, producer, broadcasts, processed, given, joined, modeVars>>

\* DMF_NotifyUserWithRequest_DataProcess of the next client of the list.
GivesData(h) ==
    LET f == Head(local[h].clients)
    IN  /\ handler[h] = "give" /\ local[h].clients # <<>>
        /\ given' = [given EXCEPT ![f] = Append(@, local[h].data)]
        /\ local' = [local EXCEPT ![h].clients = Tail(@)]
        /\ UNCHANGED <<doorbellVars, ringVars, fileVars, listVars, queue, producer, broadcasts,
                       processed, joined, modeVars>>

GivesNoMore(h) ==
    /\ handler[h] = "give" /\ local[h].clients = <<>>
    /\ processed' = local[h].data
    /\ local' = [local EXCEPT ![h].data = 0]
    /\ Goto(h, "broadcast")
    /\ UNCHANGED <<ringVars, fileVars, listVars, queue, producer, broadcasts, given, joined, modeVars>>

CallbackReturns(h) ==
    /\ handler[h] = "broadcast" /\ queue = <<>>
    /\ Goto(h, "test")
    /\ UNCHANGED <<ringVars, fileVars, listVars, dataVars, modeVars, local>>

-----------------------------------------------------------------------------

CallbackStep(h) ==
    \/ TransfersLists(h) \/ AddsClient(h) \/ RefusesClient(h) \/ AddsNoMore(h)
    \/ RemovesClient(h) \/ RemovesNoMore(h) \/ DeletesModule(h) \/ RemovesContext(h)
    \/ DequeuesData(h) \/ GivesData(h) \/ GivesNoMore(h) \/ CallbackReturns(h)

Continues(f) == IsAdded(f) \/ IsRemoved(f) \/ FileRings(f) \/ RequestIsGiven(f)

Next ==
    \/ \E f \in Files : \/ FileCreate(f) \/ FileCreateFails(f) \/ FileClose(f)
                        \/ RequestProcess(f) \/ Continues(f)
    \/ \E p \in Producers : DataBroadcast(p) \/ ProducerRings(p)
    \/ DoorbellSteps
    \/ \E h \in Handlers : CallbackStep(h)

\* Threads inside a callback or a Method go on, and WDF runs the work item. No
\* application need open or close a file, and nobody need broadcast.
Fairness ==
    /\ \A f \in Files : WF_vars(Continues(f))
    /\ \A p \in Producers : WF_vars(ProducerRings(p))
    /\ WF_vars(DoorbellSteps)
    /\ \A h \in Handlers : WF_vars(CallbackStep(h))

Spec == Init /\ [][Next]_vars /\ Fairness

-----------------------------------------------------------------------------
Callback == {"callback", "add", "remove", "deleteModule", "removeContext", "broadcast", "give"}

\* Whoever has a FILE_OBJECT_CONTEXT in hand, or finds it in a list, finds one
\* that exists, with its Module: the assertion of
\* NotifyUserWithRequestMultiple_DeleteDynamicFileObjectContext (398) when it
\* looks for it, a request that was given the Module, the client that gets
\* data. And a file that is closed is still there for the callback.
Mentioned(h) ==
    ToSet(local[h].add) \cup ToSet(local[h].remove) \cup ToSet(local[h].clients)
        \cup (IF handler[h] = "deleteModule" THEN {local[h].file} ELSE {})

ContextsAreLive ==
    /\ ToSet(PendingAdd) \cup ToSet(PendingRemove) \cup ToSet(ListHead) \cup using
          \cup UNION {Mentioned(h) : h \in Handlers} \subseteq contexts \cap notifyModules
    /\ \A h \in Handlers : handler[h] = "removeContext" => local[h].file \in contexts
    /\ \A f \in contexts : file[f] = "closed" => f \in referenced

\* The comment of WdfObjectDelete there (378), "Destroy the Dmf
\* NotifyUserWithRequest Module": there is one, and the handle is not the NULL
\* that an earlier deletion of the same context has stored (381).
ModuleIsThereToDelete ==
    \A h \in Handlers : handler[h] = "deleteModule" => local[h].file \in notifyModules

\* The callback of the doorbell runs in one work item at a time ("This ensures
\* that multiple workitems do not run in parallel", Dmf_Doorbell.c:56), which is
\* why it uses the list of clients without a lock.
CallbackIsSerial ==
    \A h, k \in Handlers : handler[h] \in Callback /\ handler[k] \in Callback => h = k

\* And so every client in the list is given every datum from its arrival on, and
\* with the replay mode the last ItemCount before it, in the order they were
\* broadcast, each once.
Upto(f) ==      \* what a client of the list must have been given by now
    IF \E h \in Handlers : handler[h] = "give" /\ f \notin ToSet(local[h].clients)
    THEN processed + 1 ELSE processed

From(f) ==
    IF ~replay THEN joined[f] ELSE IF joined[f] > ItemCount THEN joined[f] - ItemCount ELSE 0

ClientsAreGivenAll ==
    /\ CallbackIsSerial
    /\ \A f \in ToSet(ListHead) : given[f] = [i \in 1 .. Upto(f) - From(f) |-> From(f) + i]

\* Nothing waits for a ring that was lost: all data is given to the clients in
\* the end, all that opened their file are added, and what a closed file had is
\* deleted.
PendingWorkIsDone ==
    []<>( /\ queue = <<>> /\ PendingAdd = <<>> /\ PendingRemove = <<>>
          /\ \A f \in contexts : file[f] # "closed" )
=============================================================================
