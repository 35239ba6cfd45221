------------------------ MODULE DeviceInterfaceTarget ------------------------
(***************************************************************************)
(* DMF_DeviceInterfaceTarget, Kernel-mode: a Module that opens while a     *)
(* device interface is present, over a WDFIOTARGET on it                   *)
(* (Modules.Library/Dmf_DeviceInterfaceTarget.c).                          *)
(*                                                                         *)
(* Three threads close it: the callback of the interface notification, the *)
(* callbacks of the WDFIOTARGET, and the driver that unregisters. The      *)
(* close reason says which of them came first. ModuleAccess, which         *)
(* ModuleLifecycle implements, is the framework's open and close.          *)
(*                                                                         *)
(* Assumed of the system: it tells of interfaces that exist on the thread   *)
(* that registers, of everything else in callbacks that come one at a      *)
(* time; IoUnregisterPlugPlayNotificationEx and WdfIoTargetClose wait for  *)
(* callbacks in progress on other threads; a removal that was vetoed is    *)
(* cancelled, one that was not is cancelled or completed.                  *)
(***************************************************************************)
EXTENDS Naturals

CONSTANTS Callers,              \* threads that call Methods
          MaxTargets,           \* bound: WDFIOTARGETs created
          MaxRegistrations      \* bound: times the driver registers

ASSUME BoundAssumption == /\ MaxTargets \in Nat \ {0}
                          /\ MaxRegistrations \in Nat \ {0}

VARIABLES
    phase, users,       \* the Module and the threads in its Methods
    IoTarget,           \* moduleContext->IoTarget
    sink,               \* the WDFIOTARGET the Methods send to
    link,               \* SymbolicLinkName is stored
    closeReason,        \* ModuleCloseReason
    closeAfterCancel,   \* CloseAfterRemoveCancel
    registered,         \* DeviceInterfaceNotification # NULL
    registrations,      \* how many times it was registered
    pc,                 \* where each thread is
    calledFor,          \* the WDFIOTARGET whose callback is running
    target,             \* the state of each WDFIOTARGET
    query,              \* how far the removal of its device has got
    strayed             \* what has happened that the code is not written for

accessVars == <<phase, users>>
targetContext == <<IoTarget, sink, link>>
reasonVars == <<closeReason, closeAfterCancel>>
registration == <<registered, registrations>>
interfaceVars == <<accessVars, targetContext, reasonVars, registration, pc, calledFor,
                   target, query, strayed>>

Access == INSTANCE ModuleAccess

Targets == 1 .. MaxTargets
NULL == 0
Reasons == {"QueryRemove", "RemoveComplete", "NotificationRemoval",
            "NotificationUnregister"}
InterfaceThreads == {"interface", "target", "driver"}

\* "refused": an arrival failed after it had stored its target in IoTarget.
\* "overtaken": a callback of a target ran beside the arrival of an interface
\* that existed when the driver registered.
\* "cancelled": a query was cancelled that did not hold the close reason; the
\* callback overwrites the reason of the thread that does.
Strays == {"refused", "overtaken", "cancelled"}

\* Once a thread is to close the Module: DMF_ModuleClose and DeviceClose.
Closing == {"close", "drain", "deviceClose", "closed"}
Steps == [interface |-> {"idle", "created", "open"} \cup Closing,
          target |-> {"idle", "queryRemove", "ask", "removeCancel", "reopen",
                      "cancelled", "cancelFailed", "removeComplete"} \cup Closing,
          driver |-> {"idle", "registering", "running", "unregistered",
                      "reasonSet"} \cup Closing]

InterfaceTypeOK ==
    /\ Access!ATypeOK
    /\ IoTarget \in Targets \cup {NULL}
    /\ sink \in Targets \cup {NULL}
    /\ link \in BOOLEAN
    /\ closeReason \in Reasons \cup {"NotSet"}
    /\ closeAfterCancel \in BOOLEAN
    /\ registered \in BOOLEAN
    /\ registrations \in 0 .. MaxRegistrations
    /\ pc \in [InterfaceThreads -> UNION {Steps[t] : t \in InterfaceThreads}]
    /\ \A t \in InterfaceThreads : pc[t] \in Steps[t]
    /\ calledFor \in Targets \cup {NULL}
    /\ target \in [Targets -> {"none", "open", "queryClosed", "deleted"}]
    /\ query \in [Targets -> {"none", "accepted", "vetoed", "gone"}]
    /\ strayed \subseteq Strays

InterfaceInit ==
    /\ Access!AInit
    /\ IoTarget = NULL
    /\ sink = NULL
    /\ link = FALSE
    /\ closeReason = "NotSet"
    /\ closeAfterCancel = FALSE
    /\ registered = FALSE
    /\ registrations = 0
    /\ pc = [interface |-> "idle", target |-> "idle", driver |-> "idle"]
    /\ calledFor = NULL
    /\ target = [t \in Targets |-> "none"]
    /\ query = [t \in Targets |-> "none"]
    /\ strayed = {}

\* Thread t goes on to step s.
GoesTo(t, s) == pc' = [pc EXCEPT ![t] = s]

StrayIf(stray, condition) == {s \in {stray} : condition}

-----------------------------------------------------------------------------
(* DeviceInterfaceTarget_ModuleCloseReasonSet, under the Module lock.       *)

ReasonSet_Always(reason) ==                     \* mutant: the last one wins
    /\ closeReason' = reason
    /\ UNCHANGED closeAfterCancel

ReasonSet_Stores(reason) ==                     \* mutant: stores its result
    /\ closeReason' = IF closeReason = "NotSet" THEN reason
                      ELSE IF closeReason = reason THEN "Duplicate" ELSE closeReason
    /\ UNCHANGED closeAfterCancel

ReasonSet(reason) ==
    /\ closeReason' = IF closeReason = "NotSet" THEN reason ELSE closeReason
    /\ closeAfterCancel' = \/ closeAfterCancel
                           \/ /\ closeReason \notin {"NotSet", reason}
                              /\ reason \in {"NotificationUnregister",
                                             "NotificationRemoval"}

\* What it returns: the reason when the caller is the first.
IsFirst == closeReason = "NotSet"

-----------------------------------------------------------------------------
(* DMF_ModuleClose by thread t: StreamStopAndModuleClose.                   *)

\* Only the first closer of an open Module goes on.
ModuleClose(t) ==
    /\ pc[t] = "close"
    /\ IF phase = "open"
          THEN Access!ABeginClose /\ GoesTo(t, "drain")
          ELSE UNCHANGED accessVars /\ GoesTo(t, "idle")
    /\ UNCHANGED <<targetContext, reasonVars, registration, calledFor, target,
                   query, strayed>>

Drained(t) ==
    /\ pc[t] = "drain"
    /\ Access!ADrained
    /\ GoesTo(t, "deviceClose")
    /\ UNCHANGED <<targetContext, reasonVars, registration, calledFor, target,
                   query, strayed>>

TargetAfterClose ==
    [target EXCEPT ![IoTarget] =
        CASE closeReason = "QueryRemove" -> "queryClosed"
          [] closeReason = "NotSet" -> @
          [] OTHER -> "deleted"]

\* DMF_DeviceInterfaceTarget_Close. A callback of the WDFIOTARGET on another
\* thread keeps WdfIoTargetClose waiting.
DeviceClose(t) ==
    /\ pc[t] = "deviceClose"
    /\ \/ closeReason \in {"NotSet", "QueryRemove"}
       \/ t = "target"
       \/ pc["target"] = "idle"
    /\ sink' = NULL
    /\ target' = TargetAfterClose
    /\ link' = (link /\ closeReason \in {"NotSet", "QueryRemove"})
    /\ GoesTo(t, "closed")
    /\ UNCHANGED <<accessVars, IoTarget, reasonVars, registration, calledFor,
                   query, strayed>>

DeviceCloseEnd(t) ==
    /\ pc[t] = "closed"
    /\ Access!AEndClose
    /\ IoTarget' = NULL
    /\ GoesTo(t, "idle")
    /\ UNCHANGED <<sink, link, reasonVars, registration, calledFor, target, query,
                   strayed>>

CloseSteps ==
    \E t \in InterfaceThreads :
        ModuleClose(t) \/ Drained(t) \/ DeviceClose(t) \/ DeviceCloseEnd(t)

-----------------------------------------------------------------------------
(* DeviceInterfaceTarget_InterfaceArrivalRemovalCallback.                   *)

\* A notification of its own thread; the arrival of an existing interface is
\* on the thread that registers and waits for no callback.
InterfaceNotified ==
    /\ registered
    /\ pc["interface"] = "idle"

\* Arrival, up to the WdfIoTargetOpen of
\* DeviceInterfaceTarget_DeviceCreateNewIoTargetByName. What fails before or
\* there leaves no trace.
Arrival(t) ==
    /\ InterfaceNotified
    /\ pc["target"] = "idle" \/ pc["driver"] = "registering"
    /\ ~link
    /\ target[t] = "none"
    /\ \A other \in Targets : other < t => target[other] # "none"
    /\ link' = TRUE
    /\ IoTarget' = t
    /\ target' = [target EXCEPT ![t] = "open"]
    /\ GoesTo("interface", "created")
    /\ strayed' = strayed \cup StrayIf("overtaken", pc["target"] # "idle")
    /\ UNCHANGED <<accessVars, sink, reasonVars, registration, calledFor, query>>

ArrivalReset_KeepsReason ==                     \* mutant: only the flag
    /\ pc["interface"] = "created"
    /\ closeAfterCancel' = FALSE
    /\ GoesTo("interface", "open")
    /\ UNCHANGED <<accessVars, targetContext, closeReason, registration, calledFor,
                   target, query, strayed>>

ArrivalReset ==
    /\ pc["interface"] = "created"
    /\ closeReason' = "NotSet"
    /\ closeAfterCancel' = FALSE
    /\ GoesTo("interface", "open")
    /\ UNCHANGED <<accessVars, targetContext, registration, calledFor, target,
                   query, strayed>>

ArrivalOpen ==
    /\ pc["interface"] = "open"
    /\ Access!AOpen
    /\ sink' = IoTarget
    /\ GoesTo("interface", "idle")
    /\ UNCHANGED <<IoTarget, link, reasonVars, registration, calledFor, target,
                   query, strayed>>

\* The Client vetoes the target: DeviceCreateNewIoTargetByName fails, and
\* IoTarget stays.
ArrivalVetoed ==
    /\ pc["interface"] = "created"
    /\ link' = FALSE
    /\ GoesTo("interface", "idle")
    /\ strayed' = strayed \cup {"refused"}
    /\ UNCHANGED <<accessVars, IoTarget, sink, reasonVars, registration, calledFor,
                   target, query>>

\* DMF_ModuleOpen fails, and IoTarget stays.
ArrivalOpenFails ==
    /\ pc["interface"] = "open"
    /\ link' = FALSE
    /\ GoesTo("interface", "idle")
    /\ strayed' = strayed \cup {"refused"}
    /\ UNCHANGED <<accessVars, IoTarget, sink, reasonVars, registration, calledFor,
                   target, query>>

\* Removal of the interface whose name is stored.
Removal ==
    /\ InterfaceNotified
    /\ pc["target"] = "idle"
    /\ link
    /\ ReasonSet("NotificationRemoval")
    /\ GoesTo("interface", IF IsFirst /\ IoTarget # NULL
                           THEN "close" ELSE "idle")
    /\ UNCHANGED <<accessVars, targetContext, registration, calledFor, target,
                   query, strayed>>

ArrivalEnds == ArrivalReset \/ ArrivalOpen \/ ArrivalVetoed \/ ArrivalOpenFails

Interface == \/ \E t \in Targets : Arrival(t)
             \/ ArrivalEnds \/ Removal

-----------------------------------------------------------------------------
(* The callbacks of a WDFIOTARGET.                                          *)

TargetNotified(t, step, strays) ==
    /\ pc["target"] = "idle"
    /\ \/ pc["interface"] = "idle"
       \/ pc["driver"] = "registering" /\ pc["interface"] \in {"created", "open"}
    /\ target[t] \in {"open", "queryClosed"}
    /\ calledFor' = t
    /\ GoesTo("target", step)
    /\ strayed' = strayed \cup StrayIf("overtaken", pc["interface"] # "idle") \cup strays
    /\ UNCHANGED <<accessVars, targetContext, reasonVars, registration, target>>

\* The device of target t is about to be removed.
QueryRemoveBegin(t) ==
    /\ query[t] = "none"
    /\ query' = [query EXCEPT ![t] = "accepted"]
    /\ TargetNotified(t, "queryRemove", {})

QueryRemove ==
    /\ pc["target"] = "queryRemove"
    /\ ReasonSet("QueryRemove")
    /\ GoesTo("target", IF IsFirst THEN "ask" ELSE "idle")
    /\ UNCHANGED <<accessVars, targetContext, registration, calledFor, target,
                   query, strayed>>

\* The Client answers.
QueryRemoveAllowed ==
    /\ pc["target"] = "ask"
    /\ GoesTo("target", "close")
    /\ UNCHANGED <<accessVars, targetContext, reasonVars, registration, calledFor,
                   target, query, strayed>>

QueryRemoveVetoed ==
    /\ pc["target"] = "ask"
    /\ query' = [query EXCEPT ![calledFor] = "vetoed"]
    /\ GoesTo("target", "idle")
    /\ UNCHANGED <<accessVars, targetContext, reasonVars, registration, calledFor,
                   target, strayed>>

RemoveCancelBegin(t) ==
    /\ query[t] \in {"accepted", "vetoed"}
    /\ query' = [query EXCEPT ![t] = "none"]
    /\ TargetNotified(t, "removeCancel",
                      StrayIf("cancelled", closeReason \notin {"NotSet", "QueryRemove"}))

\* WdfIoTargetOpen can only reopen a target closed for the query.
RemoveCancel ==
    /\ pc["target"] = "removeCancel"
    /\ \/ /\ IoTarget # NULL
          /\ GoesTo("target", "cancelled")
          /\ UNCHANGED <<IoTarget, link, target>>
       \/ /\ IoTarget = NULL
          /\ target[calledFor] = "queryClosed"
          /\ IoTarget' = calledFor
          /\ target' = [target EXCEPT ![calledFor] = "open"]
          /\ GoesTo("target", "reopen")
          /\ UNCHANGED link
       \/ /\ IoTarget = NULL
          /\ target' = [target EXCEPT ![calledFor] = "deleted"]
          /\ link' = FALSE
          /\ GoesTo("target", "cancelFailed")
          /\ UNCHANGED IoTarget
    /\ UNCHANGED <<accessVars, sink, reasonVars, registration, calledFor, query,
                   strayed>>

RemoveCancelOpens ==
    /\ pc["target"] = "reopen"
    /\ Access!AOpen
    /\ sink' = IoTarget
    /\ GoesTo("target", "cancelled")
    /\ UNCHANGED <<IoTarget, link, reasonVars, registration, calledFor, target,
                   query, strayed>>

RemoveCancelOpenFails ==
    /\ pc["target"] = "reopen"
    /\ target' = [target EXCEPT ![calledFor] = "deleted"]
    /\ IoTarget' = NULL
    /\ link' = FALSE
    /\ GoesTo("target", "cancelFailed")
    /\ UNCHANGED <<accessVars, sink, reasonVars, registration, calledFor, query,
                   strayed>>

ReasonAfterCancel_NotSet == "NotSet"            \* mutant: forgets the request

ReasonAfterCancel ==
    IF closeAfterCancel THEN "NotificationUnregister" ELSE "NotSet"

\* Its Exit: a close that was asked for meanwhile happens now.
RemoveCancelExit ==
    /\ pc["target"] \in {"cancelled", "cancelFailed"}
    /\ closeReason' = ReasonAfterCancel
    /\ GoesTo("target", IF closeAfterCancel /\ pc["target"] = "cancelled"
                        THEN "close" ELSE "idle")
    /\ UNCHANGED <<accessVars, targetContext, closeAfterCancel, registration,
                   calledFor, target, query, strayed>>

\* The device of target t is gone, with or without QueryRemove.
RemoveCompleteBegin(t) ==
    /\ query[t] \in {"none", "accepted"}
    /\ query' = [query EXCEPT ![t] = "gone"]
    /\ TargetNotified(t, "removeComplete", {})

RemoveComplete ==
    /\ pc["target"] = "removeComplete"
    /\ ReasonSet("RemoveComplete")
    /\ IF closeReason = "QueryRemove"
          THEN /\ target' = [target EXCEPT ![calledFor] = "deleted"]
               /\ link' = FALSE
          ELSE UNCHANGED <<target, link>>
    /\ GoesTo("target", IF IsFirst THEN "close" ELSE "idle")
    /\ UNCHANGED <<accessVars, IoTarget, sink, registration, calledFor, query, strayed>>

TargetBegins(t) ==
    QueryRemoveBegin(t) \/ RemoveCancelBegin(t) \/ RemoveCompleteBegin(t)

TargetSteps == \/ QueryRemove \/ QueryRemoveAllowed \/ QueryRemoveVetoed
               \/ RemoveCancel \/ RemoveCancelOpens \/ RemoveCancelOpenFails
               \/ RemoveCancelExit \/ RemoveComplete

-----------------------------------------------------------------------------
(* The driver: DMF_DeviceInterfaceTarget_NotificationRegister, when a       *)
(* dynamic Module is created or in PrepareHardware, and _Unregister.        *)

Register ==
    /\ pc["driver"] = "idle"
    /\ registrations < MaxRegistrations
    /\ registrations' = registrations + 1
    /\ closeAfterCancel' = FALSE
    /\ registered' = TRUE
    /\ GoesTo("driver", "registering")
    /\ UNCHANGED <<accessVars, targetContext, closeReason, calledFor, target,
                   query, strayed>>

\* IoRegisterPlugPlayNotification has told about the existing interfaces.
Registered ==
    /\ pc["driver"] = "registering"
    /\ pc["interface"] = "idle"
    /\ GoesTo("driver", "running")
    /\ UNCHANGED <<accessVars, targetContext, reasonVars, registration, calledFor,
                   target, query, strayed>>

Unregister ==
    /\ pc["driver"] = "running"
    /\ registered
    /\ pc["interface"] = "idle"
    /\ registered' = FALSE
    /\ GoesTo("driver", "unregistered")
    /\ UNCHANGED <<accessVars, targetContext, reasonVars, registrations, calledFor,
                   target, query, strayed>>

UnregisterReason ==
    /\ pc["driver"] = "unregistered"
    /\ ReasonSet("NotificationUnregister")
    /\ GoesTo("driver", IF IsFirst THEN "reasonSet" ELSE "idle")
    /\ UNCHANGED <<accessVars, targetContext, registration, calledFor, target,
                   query, strayed>>

UnregisterCheck ==
    /\ pc["driver"] = "reasonSet"
    /\ GoesTo("driver", IF IoTarget # NULL THEN "close" ELSE "idle")
    /\ UNCHANGED <<accessVars, targetContext, reasonVars, registration, calledFor,
                   target, query, strayed>>

DriverSteps == Registered \/ UnregisterReason \/ UnregisterCheck

-----------------------------------------------------------------------------
(* Methods, such as DMF_DeviceInterfaceTarget_Send.                         *)

Method(c) == /\ Access!AEnter(c) \/ Access!ALeave(c)
             /\ UNCHANGED <<targetContext, reasonVars, registration, pc, calledFor,
                            target, query, strayed>>

MethodReturns(c) == c \in users /\ Method(c)

InterfaceNext ==
    \/ Interface
    \/ \E t \in Targets : TargetBegins(t)
    \/ TargetSteps
    \/ Register \/ Unregister \/ DriverSteps
    \/ CloseSteps
    \/ \E c \in Callers : Method(c)

\* A device whose removal was asked for is removed or is not.
QueryAnswered(t) ==
    query[t] \in {"accepted", "vetoed"} /\ (RemoveCancelBegin(t) \/ RemoveCompleteBegin(t))

InterfaceFairness ==
    /\ WF_interfaceVars(TargetSteps)
    /\ WF_interfaceVars(ArrivalEnds)
    /\ WF_interfaceVars(DriverSteps)
    /\ WF_interfaceVars(CloseSteps)
    /\ \A c \in Callers : WF_interfaceVars(MethodReturns(c))
    /\ \A t \in Targets : WF_interfaceVars(QueryAnswered(t))

InterfaceSpec == InterfaceInit /\ [][InterfaceNext]_interfaceVars /\ InterfaceFairness

-----------------------------------------------------------------------------
(* Properties.                                                              *)

\* Until one of Strays happens (each breaks all of what follows, and section 6
\* of the README says how):

\* A thread inside a Method sends to a WDFIOTARGET that is open: no closer,
\* and no callback of the target, deletes it under the Method ("Methods are
\* always synchronized with the IoTarget", line 161).
MethodsUseOpenTarget ==
    strayed = {} /\ users # {} => sink # NULL /\ target[sink] = "open"

\* DeviceClose closes a target that is open: whichever thread came first,
\* none of the others has closed or deleted it. The removal that found no
\* other reason finds the Module on its own target (assertion at line 1888).
\* An arrival finds no target (assertion at line 1955).
ClosesOpenTarget ==
    strayed = {} =>
        /\ \A t \in InterfaceThreads : pc[t] = "deviceClose" =>
              IoTarget # NULL /\ target[IoTarget] = "open"
        /\ pc["target"] = "close" => IoTarget = calledFor
        /\ InterfaceNotified /\ pc["target"] = "idle" /\ ~link => IoTarget = NULL

\* A target closed for a query is nobody's but the query's: until the answer
\* the Module is closed, has no target and no other interface is opened.
QueryOwnsTarget ==
    strayed = {} /\ pc["target"] = "idle" /\ (\E t \in Targets : target[t] = "queryClosed")
        => phase = "closed" /\ IoTarget = NULL /\ link

\* One WDFIOTARGET at a time: any that is open is the Module's.
NoTargetIsLeaked ==
    strayed = {} => \A t \in Targets : target[t] = "open" => IoTarget = t

\* The Module's own Methods and callbacks find its target open.
UsesOpenTarget == MethodsUseOpenTarget /\ ClosesOpenTarget

\* Every target that is open, or closed for a query, has its owner.
TargetsHaveOwners == QueryOwnsTarget /\ NoTargetIsLeaked

\* A driver that unregisters and does not register again ends with a closed
\* Module, even when a removal that was pending reopens it meanwhile.
UnregisterCloses == <>[](~registered) => <>[](strayed = {} => phase = "closed")
=============================================================================
