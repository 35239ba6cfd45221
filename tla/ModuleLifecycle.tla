-------------------------- MODULE ModuleLifecycle --------------------------
(***************************************************************************)
(* The life of one DMF Module (a DMF_OBJECT): it is opened by a            *)
(* notification, its Methods are called by Client threads, it is closed by *)
(* removal callbacks that may race with each other and with its            *)
(* unregistration, and at last it is destroyed                             *)
(* (Framework/DmfInternal.c, DmfCall.c, DmfCore.c).                        *)
(*                                                                         *)
(* Every access to shared state outside ReferenceCountLock is a step of    *)
(* its own; a section under ReferenceCountLock is one step.                *)
(*                                                                         *)
(* Assumed of the environment (PnP manager and Client driver), the same    *)
(* the asserts of DMF_HandleValidate_Open state: an open begins only when  *)
(* the notification is registered and no close is executing; unregistering *)
(* a notification waits for its callback to return; the Client calls no    *)
(* Method and no close of a Module it has destroyed.                       *)
(***************************************************************************)
EXTENDS Naturals, FiniteSets

CONSTANTS Callers,      \* threads that call Methods of the Module
          Removers,     \* threads that run removal callbacks
          Destroyer     \* the thread that unregisters and destroys the Module

ASSUME CallersAssumption == IsFiniteSet(Callers)
ASSUME DestroyerAssumption == Destroyer \notin Removers

Closers == Removers \cup {Destroyer}

VARIABLES
    moduleState,        \* DMF_OBJECT.ModuleState
    referenceCount,     \* DMF_OBJECT.ReferenceCount
    isClosePending,     \* DMF_OBJECT.IsClosePending
    moduleClosed,       \* DMF_OBJECT.ModuleClosed, TRUE when nothing is to be closed
    needToCallPreClose, \* DMF_OBJECT.NeedToCallPreClose
    openedDuring,       \* DMF_OBJECT.ModuleOpenedDuring
    canBeDeleted,       \* DMF_OBJECT.ModuleCanBeDeletedEvent is set
    registered,         \* the notification that opens the Module is registered
    opener,             \* where the thread in DMF_Internal_Open is
    caller,             \* where each caller of Methods is
    closer,             \* where each thread in DMF_Internal_Close is
    sampled             \* each closer's local copy of ReferenceCount

moduleVars == <<moduleState, referenceCount, isClosePending, moduleClosed,
                needToCallPreClose, openedDuring, canBeDeleted>>
vars == <<moduleVars, registered, opener, caller, closer, sampled>>

States == {"Created", "Opening", "Opened", "Closing", "Closed", "Destroying"}

OpenerAt == {"idle", "reset", "opening", "opened", "failed", "admitting",
             "postOpen"}

CloserAt == {"idle", "unregister", "unregistered", "preClose", "calledPreClose", "rundown",
             "deviceClose", "closed", "signal", "awaitEvent", "destroyed"}

\* Closers that passed the test of ModuleClosed and own the close.
PastGate == {"preClose", "calledPreClose", "rundown", "deviceClose", "closed", "signal"}

Owners == {c \in Closers : closer[c] \in PastGate}

Holders == {c \in Callers : caller[c] = "method"}

TypeOK ==
    /\ moduleState \in States
    /\ referenceCount \in Nat
    /\ isClosePending \in BOOLEAN
    /\ moduleClosed \in BOOLEAN
    /\ needToCallPreClose \in BOOLEAN
    /\ openedDuring \in {"Invalid", "Manual"}
    /\ canBeDeleted \in BOOLEAN
    /\ registered \in BOOLEAN
    /\ opener \in OpenerAt
    /\ caller \in [Callers -> {"idle", "method"}]
    /\ closer \in [Closers -> CloserAt]
    /\ sampled \in [Closers -> Nat]

\* The state DMF_ModuleCreate leaves the Module in.
Init ==
    /\ moduleState = "Created"
    /\ referenceCount = 0
    /\ isClosePending = FALSE
    /\ moduleClosed = TRUE
    /\ needToCallPreClose = FALSE
    /\ openedDuring = "Invalid"
    /\ canBeDeleted = TRUE
    /\ registered = TRUE
    /\ opener = "idle"
    /\ caller = [c \in Callers |-> "idle"]
    /\ closer = [c \in Closers |-> "idle"]
    /\ sampled = [c \in Closers |-> 0]

-----------------------------------------------------------------------------
(* DMF_Internal_Open, run by the arrival or RemoveCancel callback.          *)

OpenReset ==
    /\ opener = "idle"
    /\ registered
    /\ Owners = {}
    /\ moduleState \in {"Created", "Closed"}
    /\ canBeDeleted' = FALSE
    /\ opener' = "reset"
    /\ UNCHANGED <<moduleState, referenceCount, isClosePending, moduleClosed,
                   needToCallPreClose, openedDuring, registered, caller,
                   closer, sampled>>

OpenBegin ==
    /\ opener = "reset"
    /\ moduleState' = "Opening"
    /\ opener' = "opening"
    /\ UNCHANGED <<referenceCount, isClosePending, moduleClosed, canBeDeleted,
                   needToCallPreClose, openedDuring, registered, caller,
                   closer, sampled>>

\* The DeviceOpen callback succeeds.
DeviceOpenSucceeds ==
    /\ opener = "opening"
    /\ moduleState' = "Opened"
    /\ opener' = "opened"
    /\ UNCHANGED <<referenceCount, isClosePending, moduleClosed, canBeDeleted,
                   needToCallPreClose, openedDuring, registered, caller,
                   closer, sampled>>

DeviceOpenFails ==
    /\ opener = "opening"
    /\ moduleState' = "Created"
    /\ opener' = "failed"
    /\ UNCHANGED <<referenceCount, isClosePending, moduleClosed, canBeDeleted,
                   needToCallPreClose, openedDuring, registered, caller,
                   closer, sampled>>

OpenFailed_NoSignal ==                       \* mutant: the event stays reset
    /\ opener = "failed"
    /\ UNCHANGED canBeDeleted
    /\ opener' = "idle"
    /\ UNCHANGED <<moduleState, referenceCount, isClosePending, moduleClosed,
                   needToCallPreClose, openedDuring, registered, caller,
                   closer, sampled>>

OpenFailed ==
    /\ opener = "failed"
    /\ canBeDeleted' = TRUE
    /\ opener' = "idle"
    /\ UNCHANGED <<moduleState, referenceCount, isClosePending, moduleClosed,
                   needToCallPreClose, openedDuring, registered, caller,
                   closer, sampled>>

\* From here on DMF_ModuleReference succeeds.
OpenAdmit ==
    /\ opener = "opened"
    /\ referenceCount' = 1
    /\ opener' = "admitting"
    /\ UNCHANGED <<moduleState, isClosePending, moduleClosed, canBeDeleted,
                   needToCallPreClose, openedDuring, registered, caller,
                   closer, sampled>>

\* The Client's PostOpen callback runs between this step and OpenFinish.
OpenRecord ==
    /\ opener = "admitting"
    /\ openedDuring' = "Manual"
    /\ needToCallPreClose' = TRUE
    /\ opener' = "postOpen"
    /\ UNCHANGED <<moduleState, referenceCount, isClosePending, moduleClosed,
                   canBeDeleted, registered, caller, closer, sampled>>

\* From here on the Module can be closed.
OpenFinish ==
    /\ opener = "postOpen"
    /\ moduleClosed' = FALSE
    /\ opener' = "idle"
    /\ UNCHANGED <<moduleState, referenceCount, isClosePending, canBeDeleted,
                   needToCallPreClose, openedDuring, registered, caller,
                   closer, sampled>>

Open == \/ OpenReset \/ OpenBegin \/ DeviceOpenSucceeds \/ DeviceOpenFails
        \/ OpenFailed \/ OpenAdmit \/ OpenRecord \/ OpenFinish

-----------------------------------------------------------------------------
(* DMF_ModuleReference and DMF_ModuleDereference around every Method.       *)

Admits_WhilePending == referenceCount >= 1      \* mutant: ignores the close

Admits == /\ referenceCount >= 1
          /\ ~isClosePending

ModuleReference(c) ==
    /\ caller[c] = "idle"
    /\ Admits
    /\ referenceCount' = referenceCount + 1
    /\ caller' = [caller EXCEPT ![c] = "method"]
    /\ UNCHANGED <<moduleState, isClosePending, moduleClosed, canBeDeleted,
                   needToCallPreClose, openedDuring, registered, opener,
                   closer, sampled>>

ModuleDereference(c) ==
    /\ caller[c] = "method"
    /\ referenceCount' = referenceCount - 1
    /\ caller' = [caller EXCEPT ![c] = "idle"]
    /\ UNCHANGED <<moduleState, isClosePending, moduleClosed, canBeDeleted,
                   needToCallPreClose, openedDuring, registered, opener,
                   closer, sampled>>

-----------------------------------------------------------------------------
(* DMF_Internal_Close.                                                      *)

ModuleIsClosed_TestOnly(c) ==                \* mutant: reads without setting
    /\ closer[c] = IF c = Destroyer THEN "unregistered" ELSE "idle"
    /\ moduleState # "Destroying"
    /\ UNCHANGED moduleClosed
    /\ closer' = [closer EXCEPT ![c] = IF ~moduleClosed THEN "preClose"
                                       ELSE IF c = Destroyer THEN "awaitEvent"
                                       ELSE "idle"]
    /\ UNCHANGED <<moduleState, referenceCount, isClosePending, canBeDeleted,
                   needToCallPreClose, openedDuring, registered, opener,
                   caller, sampled>>

\* DMF_ModuleIsClosed: the first closer to see FALSE owns the close, every
\* other one returns. The destroyer goes on to wait for the event.
ModuleIsClosed(c) ==
    /\ closer[c] = IF c = Destroyer THEN "unregistered" ELSE "idle"
    /\ moduleState # "Destroying"
    /\ moduleClosed' = TRUE
    /\ closer' = [closer EXCEPT ![c] = IF ~moduleClosed THEN "preClose"
                                       ELSE IF c = Destroyer THEN "awaitEvent"
                                       ELSE "idle"]
    /\ UNCHANGED <<moduleState, referenceCount, isClosePending, canBeDeleted,
                   needToCallPreClose, openedDuring, registered, opener,
                   caller, sampled>>

\* The Client's PreClose callback, which may still call Methods.
PreClose(c) ==
    /\ closer[c] = "preClose"
    /\ needToCallPreClose' = FALSE
    /\ closer' = [closer EXCEPT ![c] = "calledPreClose"]
    /\ UNCHANGED <<moduleState, referenceCount, isClosePending, moduleClosed,
                   openedDuring, canBeDeleted, registered, opener, caller,
                   sampled>>

RundownBegin_NotPending(c) ==                \* mutant: Methods still admitted
    /\ closer[c] = "calledPreClose"
    /\ UNCHANGED isClosePending
    /\ sampled' = [sampled EXCEPT ![c] = referenceCount]
    /\ closer' = [closer EXCEPT ![c] = "rundown"]
    /\ UNCHANGED <<moduleState, referenceCount, moduleClosed, canBeDeleted,
                   needToCallPreClose, openedDuring, registered, opener,
                   caller>>

\* DMF_ModuleWaitForReferenceCountToClear, the section before its loop.
RundownBegin(c) ==
    /\ closer[c] = "calledPreClose"
    /\ isClosePending' = TRUE
    /\ sampled' = [sampled EXCEPT ![c] = referenceCount]
    /\ closer' = [closer EXCEPT ![c] = "rundown"]
    /\ UNCHANGED <<moduleState, referenceCount, moduleClosed, canBeDeleted,
                   needToCallPreClose, openedDuring, registered, opener,
                   caller>>

IsLast_OffByOne(count) == count <= 2            \* mutant

\* Only the reference of the open Module itself is left.
IsLast(count) == count = 1

\* One turn of its loop. The decision to clear ReferenceCount is taken on the
\* copy read in the previous turn.
RundownPoll(c) ==
    /\ closer[c] = "rundown"
    /\ sampled[c] > 0
    /\ IF IsLast(sampled[c])
          THEN /\ referenceCount' = 0
               /\ isClosePending' = FALSE
          ELSE UNCHANGED <<referenceCount, isClosePending>>
    /\ sampled' = [sampled EXCEPT ![c] = referenceCount']
    /\ UNCHANGED <<moduleState, moduleClosed, needToCallPreClose, openedDuring,
                   canBeDeleted, registered, opener, caller, closer>>

DeviceCloseBegin(c) ==
    /\ closer[c] = "rundown"
    /\ sampled[c] = 0
    /\ moduleState' = "Closing"
    /\ closer' = [closer EXCEPT ![c] = "deviceClose"]
    /\ UNCHANGED <<referenceCount, isClosePending, moduleClosed, canBeDeleted,
                   needToCallPreClose, openedDuring, registered, opener,
                   caller, sampled>>

DeviceCloseEnd_SignalsEarly(c) ==            \* mutant: sets the event too
    /\ closer[c] = "deviceClose"
    /\ moduleState' = "Closed"
    /\ canBeDeleted' = TRUE
    /\ closer' = [closer EXCEPT ![c] = "closed"]
    /\ UNCHANGED <<referenceCount, isClosePending, moduleClosed,
                   needToCallPreClose, openedDuring, registered, opener,
                   caller, sampled>>

\* The DeviceClose callback returns.
DeviceCloseEnd(c) ==
    /\ closer[c] = "deviceClose"
    /\ moduleState' = "Closed"
    /\ closer' = [closer EXCEPT ![c] = "closed"]
    /\ UNCHANGED <<referenceCount, isClosePending, moduleClosed, canBeDeleted,
                   needToCallPreClose, openedDuring, registered, opener,
                   caller, sampled>>

CloseRecord_Keeps(c) ==                      \* mutant: the record stays
    /\ closer[c] = "closed"
    /\ UNCHANGED openedDuring
    /\ closer' = [closer EXCEPT ![c] = "signal"]
    /\ UNCHANGED <<moduleState, referenceCount, isClosePending, moduleClosed,
                   needToCallPreClose, canBeDeleted, registered, opener,
                   caller, sampled>>

CloseRecord(c) ==
    /\ closer[c] = "closed"
    /\ openedDuring' = "Invalid"
    /\ closer' = [closer EXCEPT ![c] = "signal"]
    /\ UNCHANGED <<moduleState, referenceCount, isClosePending, moduleClosed,
                   needToCallPreClose, canBeDeleted, registered, opener,
                   caller, sampled>>

CloseSignal(c) ==
    /\ closer[c] = "signal"
    /\ canBeDeleted' = TRUE
    /\ closer' = [closer EXCEPT ![c] = IF c = Destroyer THEN "awaitEvent"
                                       ELSE "idle"]
    /\ UNCHANGED <<moduleState, referenceCount, isClosePending, moduleClosed,
                   needToCallPreClose, openedDuring, registered, opener,
                   caller, sampled>>

\* The rest of the close of the closer that owns it.
Close(c) == \/ PreClose(c) \/ RundownBegin(c) \/ RundownPoll(c)
            \/ DeviceCloseBegin(c) \/ DeviceCloseEnd(c) \/ CloseRecord(c)
            \/ CloseSignal(c)

-----------------------------------------------------------------------------
(* DMF_Module_CloseOrUnregisterNotificationOnDestroy of a NOTIFY_Create     *)
(* Module, then DMF_ModuleDestroy.                                          *)

\* No new notification is delivered from here on.
NotificationUnregister ==
    /\ closer[Destroyer] = "idle"
    /\ registered' = FALSE
    /\ closer' = [closer EXCEPT ![Destroyer] = "unregister"]
    /\ UNCHANGED <<moduleVars, opener, caller, sampled>>

\* Unregistering has waited for the callback in progress.
\* DMF_Generic_NotificationUnregister then closes the Module.
CallbackDrained ==
    /\ closer[Destroyer] = "unregister"
    /\ opener = "idle"
    /\ closer' = [closer EXCEPT ![Destroyer] = "unregistered"]
    /\ UNCHANGED <<moduleVars, registered, opener, caller, sampled>>

ModuleDestroy ==
    /\ closer[Destroyer] = "awaitEvent"
    /\ canBeDeleted
    /\ moduleState' = "Destroying"
    /\ closer' = [closer EXCEPT ![Destroyer] = "destroyed"]
    /\ UNCHANGED <<referenceCount, isClosePending, moduleClosed, canBeDeleted,
                   needToCallPreClose, openedDuring, registered, opener,
                   caller, sampled>>

-----------------------------------------------------------------------------
Next == \/ Open
        \/ \E c \in Callers : ModuleReference(c) \/ ModuleDereference(c)
        \/ \E c \in Closers : ModuleIsClosed(c) \/ Close(c)
        \/ NotificationUnregister
        \/ CallbackDrained
        \/ ModuleDestroy

SafeSpec == Init /\ [][Next]_vars

\* Threads that are inside the framework keep running, Methods return, and an
\* unload that has begun goes on. Nobody has to call a Method, open the Module,
\* remove the device or unload the driver.
Fairness ==
    /\ WF_vars(Open /\ opener # "idle")
    /\ \A c \in Callers : WF_vars(ModuleDereference(c))
    /\ \A c \in Closers : WF_vars(Close(c))
    /\ WF_vars(ModuleIsClosed(Destroyer))
    /\ WF_vars(CallbackDrained)
    /\ WF_vars(ModuleDestroy)

Spec == SafeSpec /\ Fairness

-----------------------------------------------------------------------------
(* Properties.                                                              *)

\* While a Method runs the Module stays open: the DeviceClose callback, which
\* releases what the Method uses, never overlaps it, and no Method starts
\* before DeviceOpen has succeeded.
MethodsRunOpened == Holders # {} => moduleState = "Opened"

\* Of the threads that close the Module at the same time one runs the close,
\* and none of them starts while the Module is opening or is not open.
OneClose == /\ Cardinality(Owners) <= 1
            /\ Owners # {} => opener = "idle" /\ moduleClosed

\* ReferenceCount is one for the open Module plus one for every Method that
\* runs, and zero when it is not open.
ReferenceCountIsExact ==
    \/ referenceCount = Cardinality(Holders) + 1
    \/ referenceCount = 0 /\ Holders = {}

\* A Module that is open and that nobody closes admits Methods: neither the
\* count nor IsClosePending is left over from an earlier close.
OpenedModuleAdmits ==
    ~moduleClosed => referenceCount >= 1 /\ ~isClosePending

\* When ModuleCanBeDeletedEvent is set, the close (or the failed open) has
\* done all its work: nothing of the Module is open and no thread writes to
\* it any more, so that the waiting thread may free it.
DeletableIsQuiet ==
    canBeDeleted => /\ moduleState \notin {"Opening", "Opened", "Closing"}
                    /\ openedDuring = "Invalid"
                    /\ opener \in {"idle"}
                    /\ Owners = {}
                    /\ Holders = {}

\* The Client gets PreClose once for each PostOpen: the closer finds the flag
\* set, and nobody sets it again before the Module is closed.
PreCloseIsDue ==
    /\ \A c \in Closers : closer[c] = "preClose" => needToCallPreClose
    /\ \A c \in Owners : closer[c] # "preClose" => ~needToCallPreClose

\* The DmfAssert statements of DMF_HandleValidate_Open, DMF_Internal_Open,
\* DMF_HandleValidate_Close, DMF_Internal_Close, DMF_ModuleDereference and
\* DMF_HandleValidate_Destroy.
AssertsHold ==
    /\ opener = "reset" => moduleState \in {"Created", "Closed"}
    /\ opener = "opened" => referenceCount = 0
    /\ opener = "admitting" => openedDuring = "Invalid"
    /\ \A c \in Closers :
          /\ closer[c] = "preClose" => moduleState \in {"Opened", "Created"}
          /\ closer[c] = "closed" => openedDuring # "Invalid"
    /\ closer[Destroyer] = "awaitEvent" /\ canBeDeleted
          => moduleState \in {"Closed", "Created"}
    /\ Holders # {} => referenceCount >= 1

\* A driver that unloads gets through: the unregistration meets an open, a
\* failed open or another thread's close and the Module is still destroyed.
UnloadEnds == ~registered ~> moduleState = "Destroying"

\* The Module as its users see it.
Phase == IF moduleState = "Destroying" THEN "destroyed"
         ELSE IF isClosePending THEN "draining"
         ELSE IF referenceCount >= 1 THEN "open"
         ELSE IF \E c \in Owners : closer[c] \notin {"preClose", "calledPreClose"}
              THEN "closing"
         ELSE "closed"

\* The counter, the flags and the polling loop implement the open/close
\* cycle of ModuleAccess, its progress included: a close that has begun ends,
\* whatever calls of Methods keep arriving, the purpose of IsClosePending.
Access == INSTANCE ModuleAccess WITH phase <- Phase, users <- Holders

ImplementsAccess == Access!ASpec
=============================================================================
