-------------------------- MODULE DeviceCollection --------------------------
(***************************************************************************)
(* The Module Collection of a device: trees of Modules that the framework  *)
(* opens, registers, closes and destroys as WDF calls the device's PnP and *)
(* power callbacks (Framework/DmfContainer.c, DmfModuleCollection.c,       *)
(* DmfCall.c, DmfGeneric.c).                                               *)
(*                                                                         *)
(* WDF runs these callbacks one at a time: pending is what the callback    *)
(* in progress has yet to dispatch to, and each dispatch is a step.        *)
(* Notifications arrive on other threads between any two steps; inside one *)
(* Module they are the concern of ModuleLifecycle.                         *)
(*                                                                         *)
(* Modules have the generic PnP and power handlers, and the Bridge is in   *)
(* the collection, so that all callbacks are dispatched. Assumed of WDF:   *)
(* ReleaseHardware follows a failed start; a device is stopped from D0, or *)
(* taken away in D0 or D3, in D3 without a D0Exit; D0Entry reports the     *)
(* power action of the D0Exit, or none.                                    *)
(*                                                                         *)
(* On three paths the code closes less than it opened: mishap remembers    *)
(* them, and Forgotten says which Modules they leave open.                 *)
(***************************************************************************)
EXTENDS Integers, FiniteSets, Sequences, SequencesExt

CONSTANTS Modules,
          Roots,            \* the collection, in the order of its creation
          Children,         \* the Child Modules of each Module, in that order
          Drivers,          \* the kinds of Client driver, of those below
          Options,          \* for each, the open options of its Modules
          Failing           \* for each, the callbacks in which a Module may fail

\* A driver that is not PnP calls DMF_Invoke_DeviceCallbacksCreate, and
\* DMF_Invoke_DeviceCallbacksDestroy or leaves that to the framework.
DriverKinds == {"PnP", "invoking", "leaving"}

\* In the order of DmfModuleOpenOption, which the code compares.
OpenOptions == <<"OPEN_Create", "OPEN_PrepareHardware",
                 "OPEN_D0EntrySystemPowerUp", "OPEN_D0Entry",
                 "NOTIFY_PrepareHardware", "NOTIFY_D0Entry", "NOTIFY_Create">>

Starts == {"PostCreate", "PrepareHardware", "D0Entry"}

\* ParentModule and ChildObjectList: each Module is in one place, a root or the
\* Child of one Module, and its Children are below it.
ASSUME TreeAssumption ==
    /\ IsFiniteSet(Modules)
    /\ Roots \in Seq(Modules) /\ IsInjective(Roots)
    /\ Children \in [Modules -> Seq(Modules)]
    /\ \A m \in Modules : IsInjective(Children[m])
    /\ \A m, n \in Modules : m # n => ToSet(Children[m]) \cap ToSet(Children[n]) = {}
    /\ ToSet(Roots) = Modules \ UNION {ToSet(Children[m]) : m \in Modules}
    /\ \E height \in [Modules -> 1 .. Cardinality(Modules)] :
          \A m \in Modules : \A c \in ToSet(Children[m]) : height[c] < height[m]
ASSUME DriverAssumption == /\ Drivers \subseteq DriverKinds
                           /\ Options \in [Drivers -> SUBSET ToSet(OpenOptions)]
                           /\ Failing \in [Drivers -> SUBSET Starts]

VARIABLES
    driver,             \* the kind of Client driver
    openOption,         \* OpenOption of each Module
    moduleState,        \* ModuleState
    openedDuring,       \* ModuleOpenedDuring
    registeredDuring,   \* ModuleNotificationRegisteredDuring
    registered,         \* Modules that PnP notifies
    device,             \* what the device has gone through
    callback,           \* the WDF callback in progress, or its clean up
    pending,            \* the Modules it has yet to dispatch to
    powerState,         \* its PreviousState or TargetState
    powerAction,        \* WdfDeviceGetSystemPowerAction
    mishap              \* history: a path on which the code forgets Modules

modules == <<moduleState, openedDuring, registeredDuring, registered>>
config == <<driver, openOption, mishap>>
deviceVars == <<config, modules, device, callback, pending, powerState, powerAction>>

OpenTypes == {"OPEN_Create", "OPEN_PrepareHardware",
              "OPEN_D0EntrySystemPowerUp", "OPEN_D0Entry"}
OptionOrder(m) == CHOOSE k \in DOMAIN OpenOptions : OpenOptions[k] = openOption[m]

During == {"Invalid", "Manual", "Create", "PrepareHardware", "D0Entry",
           "D0EntrySystemPowerUp"}
Cleanups == {"CleanupPrepareHardware", "CleanupSystemPowerUp", "CleanupD0Entry"}
Callbacks == Starts \cup Cleanups
                \cup {"D0Exit", "ReleaseHardware", "CloseOnDestroy", "TreeDestroy"}
Devices == {"added", "created", "prepared", "D0", "D3", "exited", "released",
            "failing", "failed", "removed", "destroyed"}
Mishaps == {"D0EntryFailed", "removedInD3", "exitedToD0"}

DeviceTypeOK ==
    /\ driver \in Drivers
    /\ openOption \in [Modules -> Options[driver]]
    /\ moduleState \in [Modules -> {"Created", "Opened", "Closed", "Destroyed"}]
    /\ openedDuring \in [Modules -> During]
    /\ registeredDuring \in [Modules -> {"Invalid", "PrepareHardware", "D0Entry"}]
    /\ registered \subseteq {m \in Modules : openOption[m] \notin OpenTypes}
    /\ device \in Devices
    /\ callback \in Callbacks \cup {"none"}
    /\ pending \in Seq(Modules)
    /\ powerState \in {"D0", "D3", "D3Final"}
    /\ powerAction \in {"None", "Sleep", "Hibernate"}
    /\ mishap \in Mishaps \cup {"none"}

DeviceInit ==
    /\ driver \in Drivers
    /\ openOption \in [Modules -> Options[driver]]
    /\ moduleState = [m \in Modules |-> "Created"]
    /\ openedDuring = [m \in Modules |-> "Invalid"]
    /\ registeredDuring = [m \in Modules |-> "Invalid"]
    /\ registered = {}
    /\ device = "added"
    /\ callback = "none"
    /\ pending = <<>>
    /\ powerState = "D3Final"
    /\ powerAction = "None"
    /\ mishap = "none"

-----------------------------------------------------------------------------
(* The order in which a callback is dispatched over a tree.                 *)

FlatMap(f, s) == FlattenSeq([k \in DOMAIN s |-> f[s[k]]])

childrenFirst[m \in Modules] == FlatMap(childrenFirst, Children[m]) \o <<m>>

parentFirst[m \in Modules] == <<m>> \o FlatMap(parentFirst, Children[m])

parentFirstBackward[m \in Modules] ==
    <<m>> \o FlatMap(parentFirstBackward, Reverse(Children[m]))

DispatchOrder_RootsOnly(c) ==                   \* mutant: exits at the roots only
    CASE c \in Starts -> FlatMap(childrenFirst, Roots)
      [] c \in {"D0Exit", "ReleaseHardware"} -> Reverse(Roots)
      [] c = "CloseOnDestroy" -> FlatMap(parentFirstBackward, Reverse(Roots))
      [] c = "TreeDestroy" -> FlatMap(childrenFirst, Roots)
      [] c \in Cleanups -> Roots

DispatchOrder(c) ==
    CASE c \in Starts -> FlatMap(childrenFirst, Roots)
      [] c \in {"D0Exit", "ReleaseHardware"} -> FlatMap(parentFirst, Reverse(Roots))
      [] c = "CloseOnDestroy" -> FlatMap(parentFirstBackward, Reverse(Roots))
      [] c = "TreeDestroy" -> FlatMap(childrenFirst, Roots)
      [] c \in Cleanups -> Roots

Dispatch(c) == callback' = c /\ pending' = DispatchOrder(c)

-----------------------------------------------------------------------------
(* WDF calls the device.                                                    *)

BeginPostCreate ==
    /\ callback = "none" /\ device = "added"
    /\ Dispatch("PostCreate")
    /\ UNCHANGED <<config, modules, device, powerState, powerAction>>

\* A device that was stopped to rebalance its resources starts again.
BeginPrepareHardware ==
    /\ callback = "none"
    /\ device \in IF driver = "PnP" THEN {"created", "released"} ELSE {"created"}
    /\ Dispatch("PrepareHardware")
    /\ UNCHANGED <<config, modules, device, powerState, powerAction>>

BeginD0Entry ==
    /\ callback = "none" /\ device \in {"prepared", "D3"}
    /\ Dispatch("D0Entry")
    /\ powerState' = IF device = "D3" THEN "D3" ELSE "D3Final"
    /\ powerAction' \in {powerAction, "None"}
    /\ UNCHANGED <<config, modules, device>>

BeginD0Exit ==
    /\ callback = "none"
    /\ \/ /\ device = "D0"
          /\ driver = "PnP"
          /\ powerState' \in {"D3", "D3Final"}
       \/ /\ device \in {"D0", "failed"}
          /\ driver = "invoking"
          /\ powerState' = "D3Final"
    /\ Dispatch("D0Exit")
    /\ powerAction' \in IF powerState' = "D3" THEN {"None", "Sleep", "Hibernate"}
                                              ELSE {"None"}
    /\ UNCHANGED <<config, modules, device>>

\* After the D0Exit, or after a failed start; a device that is taken away in D3
\* has had the D0Exit to D3 only.
BeginReleaseHardware ==
    /\ callback = "none"
    /\ \/ device \in {"exited", "failing"} /\ UNCHANGED mishap
       \/ device = "D3" /\ mishap' = "removedInD3"
    /\ Dispatch("ReleaseHardware")
    /\ UNCHANGED <<driver, openOption, modules, device, powerState, powerAction>>

\* ManualDestroyCallbackIsPending: what PrepareHardware began was not undone.
ManualDestroyIsPending == driver # "PnP" /\ device \in {"D0", "failed"}

\* DMF_ModuleCollectionDestroy. It first undoes what a non-PnP Client has not,
\* with D0 as the state to exit to.
BeginDestroy ==
    /\ callback = "none"
    /\ IF ManualDestroyIsPending
          THEN /\ driver = "leaving" /\ Dispatch("D0Exit") /\ powerState' = "D0"
               /\ mishap' = "exitedToD0"
          ELSE /\ device \in {"created", "released", "removed"}
               /\ Dispatch("CloseOnDestroy")
               /\ UNCHANGED <<powerState, mishap>>
    /\ UNCHANGED <<driver, openOption, modules, device, powerAction>>

-----------------------------------------------------------------------------
(* The handlers of one Module: DMF_Generic_ModulePrepareHardware, D0Entry,  *)
(* D0Exit, ReleaseHardware and the OnCreate and OnDestroy dispatchers.      *)

PowersUp_Reported(m) ==                         \* mutant: trusts the power action
    powerState = "D3Final" \/ (powerState = "D3" /\ powerAction = "Hibernate")

PowersUp_Always(m) == TRUE                      \* mutant: every D0Entry

PowersUp(m) == \/ powerState = "D3Final"
               \/ /\ powerState = "D3"
                  /\ powerAction = "Hibernate" \/ moduleState[m] = "Closed"

PowersDown == powerState = "D3Final" \/ (powerState = "D3" /\ powerAction = "Hibernate")

OpenedHere == [PostCreate |-> "OPEN_Create",
               PrepareHardware |-> "OPEN_PrepareHardware",
               D0Entry |-> "OPEN_D0Entry"]
RegisteredHere == [PostCreate |-> "NOTIFY_Create",
                   PrepareHardware |-> "NOTIFY_PrepareHardware",
                   D0Entry |-> "NOTIFY_D0Entry"]

Opens(m) ==
    \/ openOption[m] = OpenedHere[callback]
    \/ callback = "D0Entry" /\ openOption[m] = "OPEN_D0EntrySystemPowerUp" /\ PowersUp(m)

Registers(m) == openOption[m] = RegisteredHere[callback]

DuringNow_Callback(m) == callback               \* mutant: one name for both

\* What the code records when it has opened or registered a Module.
DuringNow(m) == IF callback = "PostCreate" THEN "Create"
                ELSE IF openOption[m] = "OPEN_D0EntrySystemPowerUp"
                THEN "D0EntrySystemPowerUp" ELSE callback

Compatible_Any(m) == TRUE                       \* mutant: no check

\* A Parent that is opened is not opened before its Children.
Compatible(m) ==
    \A c \in ToSet(Children[m]) :
        openOption[m] \in OpenTypes /\ openOption[c] \in OpenTypes
            => OptionOrder(c) <= OptionOrder(m)

Start ==
    /\ callback \in Starts /\ pending # <<>>
    /\ LET m == Head(pending) IN
       /\ callback = "PostCreate" => Compatible(m)
       /\ IF Opens(m)
             THEN /\ moduleState' = [moduleState EXCEPT ![m] = "Opened"]
                  /\ openedDuring' = [openedDuring EXCEPT ![m] = DuringNow(m)]
             ELSE UNCHANGED <<moduleState, openedDuring>>
       /\ IF Registers(m)
             THEN /\ registered' = registered \cup {m}
                  /\ registeredDuring' = [registeredDuring EXCEPT ![m] =
                         IF callback = "PostCreate" THEN @ ELSE callback]
             ELSE UNCHANGED <<registered, registeredDuring>>
    /\ pending' = Tail(pending)
    /\ UNCHANGED <<config, device, callback, powerState, powerAction>>

\* The handler of a Module fails: the callback ends with its clean up.
StartFails ==
    /\ callback \in Starts /\ pending # <<>>
    /\ LET m == Head(pending) IN
       /\ \/ callback = "PostCreate" /\ ~Compatible(m)
          \/ callback \in Failing[driver] /\ (Opens(m) \/ Registers(m))
       /\ moduleState' = IF Opens(m) THEN [moduleState EXCEPT ![m] = "Created"]
                                     ELSE moduleState
    /\ CASE callback = "PostCreate" ->
              device' = "removed" /\ callback' = "none" /\ pending' = <<>>
         [] callback = "PrepareHardware" ->
              device' = "failing" /\ Dispatch("CleanupPrepareHardware")
         [] callback = "D0Entry" ->
              device' = "failing" /\ Dispatch("CleanupSystemPowerUp")
    /\ mishap' = IF callback = "D0Entry" /\ driver = "PnP" THEN "D0EntryFailed" ELSE mishap
    /\ UNCHANGED <<driver, openOption, openedDuring, registeredDuring, registered,
                   powerState, powerAction>>

\* DMF_Internal_Close of those that are open.
CloseAll(ms) ==
    LET open == {m \in ms : moduleState[m] = "Opened"} IN
    /\ moduleState' = [m \in Modules |-> IF m \in open THEN "Closed" ELSE moduleState[m]]
    /\ openedDuring' = [m \in Modules |-> IF m \in open THEN "Invalid" ELSE openedDuring[m]]

Closes(m) ==
    CASE callback = "D0Exit" ->
           \/ openOption[m] = "OPEN_D0Entry"
           \/ openOption[m] = "OPEN_D0EntrySystemPowerUp" /\ PowersDown
      [] callback = "ReleaseHardware" -> openedDuring[m] = "PrepareHardware"
      [] callback = "CloseOnDestroy" -> openedDuring[m] = "Create"

Unregisters_NotOnCreate(m) ==                   \* mutant: forgets NOTIFY_Create
    callback # "CloseOnDestroy" /\
    openOption[m] = IF callback = "D0Exit" THEN "NOTIFY_D0Entry" ELSE "NOTIFY_PrepareHardware"

Unregisters(m) ==
    openOption[m] = CASE callback = "D0Exit" -> "NOTIFY_D0Entry"
                      [] callback = "ReleaseHardware" -> "NOTIFY_PrepareHardware"
                      [] callback = "CloseOnDestroy" -> "NOTIFY_Create"

Stop ==
    /\ callback \in {"D0Exit", "ReleaseHardware", "CloseOnDestroy"} /\ pending # <<>>
    /\ LET m == Head(pending) IN
       /\ IF Closes(m) \/ Unregisters(m) THEN CloseAll({m})
                                         ELSE UNCHANGED <<moduleState, openedDuring>>
       /\ registered' = IF Unregisters(m) THEN registered \ {m} ELSE registered
       /\ registeredDuring' = IF Unregisters(m)
                                 THEN [registeredDuring EXCEPT ![m] = "Invalid"]
                                 ELSE registeredDuring
    /\ pending' = Tail(pending)
    /\ UNCHANGED <<config, device, callback, powerState, powerAction>>

-----------------------------------------------------------------------------
(* DMF_ModuleCollectionCleanup looks at the Modules of the collection, not  *)
(* at their Children; DMF_Module_NotificationUnregister takes the Children  *)
(* along.                                                                   *)

CleanedUp == [CleanupPrepareHardware |-> "PrepareHardware",
              CleanupSystemPowerUp |-> "D0EntrySystemPowerUp",
              CleanupD0Entry |-> "D0Entry"]

Cleanup ==
    /\ callback \in Cleanups /\ pending # <<>>
    /\ LET m == Head(pending)
           tree == ToSet(parentFirstBackward[m]) IN
       IF openedDuring[m] = CleanedUp[callback]
          THEN CloseAll({m}) /\ UNCHANGED <<registered, registeredDuring>>
       ELSE IF registeredDuring[m] = CleanedUp[callback]
          THEN /\ CloseAll(tree)
               /\ registered' = registered \ tree
               /\ registeredDuring' = [n \in Modules |-> IF n \in tree THEN "Invalid"
                                                         ELSE registeredDuring[n]]
       ELSE UNCHANGED modules
    /\ pending' = Tail(pending)
    /\ UNCHANGED <<config, device, callback, powerState, powerAction>>

\* DMF_ModuleTreeDestroy.
TreeDestroy ==
    /\ callback = "TreeDestroy" /\ pending # <<>>
    /\ moduleState' = [moduleState EXCEPT ![Head(pending)] = "Destroyed"]
    /\ pending' = Tail(pending)
    /\ UNCHANGED <<config, openedDuring, registeredDuring, registered, device,
                   callback, powerState, powerAction>>

\* A callback returns to WDF, or goes on with what follows it in the code.
CallbackEnds ==
    /\ callback # "none" /\ pending = <<>>
    /\ CASE callback = "PostCreate" -> device' = "created"
         [] callback = "PrepareHardware" -> device' = "prepared"
         [] callback = "D0Entry" -> device' = "D0"
         [] callback = "D0Exit" -> device' = IF powerState = "D3" THEN "D3" ELSE "exited"
         [] callback = "ReleaseHardware" ->
              device' = IF driver = "PnP" /\ device = "exited" THEN "released" ELSE "removed"
         [] callback \in {"CleanupPrepareHardware", "CleanupD0Entry"} ->
              device' = IF driver = "PnP" THEN "failing" ELSE "failed"
         [] callback = "TreeDestroy" -> device' = "destroyed"
         [] OTHER -> UNCHANGED device
    /\ CASE callback = "CleanupSystemPowerUp" -> Dispatch("CleanupD0Entry")
         [] callback = "CloseOnDestroy" -> Dispatch("TreeDestroy")
         [] OTHER -> callback' = "none" /\ UNCHANGED pending
    /\ UNCHANGED <<config, modules, powerState, powerAction>>

-----------------------------------------------------------------------------
(* PnP notifies a Module that is registered: its callbacks call             *)
(* DMF_ModuleOpen and DMF_ModuleClose. What a notification of a Module that *)
(* was destroyed would do is left out: ClosedWhenDestroyed is about it.     *)

Arrival(m) ==
    /\ m \in registered /\ moduleState[m] \notin {"Opened", "Destroyed"}
    /\ moduleState' = [moduleState EXCEPT ![m] = "Opened"]
    /\ openedDuring' = [openedDuring EXCEPT ![m] = "Manual"]
    /\ UNCHANGED <<config, registeredDuring, registered, device, callback,
                   pending, powerState, powerAction>>

Removal(m) ==
    /\ m \in registered /\ moduleState[m] = "Opened"
    /\ CloseAll({m})
    /\ UNCHANGED <<config, registeredDuring, registered, device, callback,
                   pending, powerState, powerAction>>

-----------------------------------------------------------------------------
DeviceNext ==
    \/ BeginPostCreate \/ BeginPrepareHardware \/ BeginD0Entry
    \/ BeginD0Exit \/ BeginReleaseHardware \/ BeginDestroy
    \/ Start \/ StartFails \/ Stop \/ Cleanup \/ TreeDestroy \/ CallbackEnds
    \/ \E m \in Modules : Arrival(m) \/ Removal(m)

DeviceSpec == DeviceInit /\ [][DeviceNext]_deviceVars

-----------------------------------------------------------------------------
(* Properties.                                                              *)

\* The Modules that the code leaves open: what a failed D0Entry of a PnP driver
\* opened or registered below the collection's own Modules, which alone are
\* cleaned up (a driver that is not PnP gets a D0Exit afterwards); and, where a
\* device goes away without a D0Exit to D3Final, what opens on system power up.
ForgottenIn == [D0EntryFailed |-> {"OPEN_D0EntrySystemPowerUp", "OPEN_D0Entry",
                                   "NOTIFY_D0Entry"},
                removedInD3 |-> {"OPEN_D0EntrySystemPowerUp"},
                exitedToD0 |-> {"OPEN_D0EntrySystemPowerUp"}]

Forgotten(m) ==
    /\ mishap # "none" /\ openOption[m] \in ForgottenIn[mishap]
    /\ mishap = "D0EntryFailed" => m \notin ToSet(Roots)

\* "When Parent Module opens it is guaranteed to have all its children open"
\* (DmfCall.c:704), at every moment and for all that the framework opens, but
\* for the Children that are closed under a Parent that is left open.
OpenOverOpenChildren ==
    \A m \in Modules :
        openOption[m] \in OpenTypes /\ moduleState[m] = "Opened" /\ ~Forgotten(m) =>
            \A c \in ToSet(Children[m]) :
                openOption[c] \in OpenTypes => moduleState[c] = "Opened"

\* In D0 every Module that the framework opens is open, however the device
\* got there: first start, idle, sleep, hibernation that is reported or not.
OpenInD0 ==
    device = "D0" /\ callback = "none" =>
        \A m \in Modules : openOption[m] \in OpenTypes => moduleState[m] = "Opened"

\* The options whose Modules have no business in each state of the device.
OfHardware == ToSet(OpenOptions) \ {"OPEN_Create", "NOTIFY_Create"}
ClosedIn == [D3 |-> {"OPEN_D0Entry", "NOTIFY_D0Entry"},
             exited |-> {"OPEN_D0Entry", "NOTIFY_D0Entry", "OPEN_D0EntrySystemPowerUp"},
             released |-> OfHardware,
             removed |-> OfHardware]

\* A device without power or hardware has nothing open, and nothing
\* registered, that belongs to what it has lost, but for what is forgotten.
ClosedWithoutHardware ==
    callback = "none" /\ device \in DOMAIN ClosedIn =>
        \A m \in Modules : openOption[m] \in ClosedIn[device] /\ ~Forgotten(m) =>
            moduleState[m] # "Opened" /\ m \notin registered

\* The asserts of DMF_Internal_Open and of the generic handlers: nothing is
\* opened or registered twice, and a Module has a record of how it was opened
\* exactly while it is open.
StartAsserts ==
    /\ callback \in Starts /\ pending # <<>> =>
          LET m == Head(pending) IN
          /\ Opens(m) => moduleState[m] \in {"Created", "Closed"} /\ openedDuring[m] = "Invalid"
          /\ Registers(m) => registeredDuring[m] = "Invalid"
    /\ \A m \in Modules : moduleState[m] # "Destroyed" =>
          (moduleState[m] = "Opened" <=> openedDuring[m] # "Invalid")

\* DmfValidate.c:283: a Module that is destroyed is not open, and no
\* notification can reach it. The code's own assertion has no exception: it
\* fails for the Modules that are forgotten.
ClosedWhenDestroyed ==
    callback = "TreeDestroy" /\ pending # <<>> /\ ~Forgotten(Head(pending)) =>
        /\ moduleState[Head(pending)] \in {"Closed", "Created"}
        /\ Head(pending) \notin registered

\* A start opens each Module once, the Children before their Parent.
OpensInOrder == OpenOverOpenChildren /\ StartAsserts

\* What a state of the device does not allow is closed when it gets there; after
\* a start that fails, after the removal of a device that sleeps and after a
\* destruction that the framework has to prepare, all but what the code forgets.
ClosedInTime == ClosedWithoutHardware /\ ClosedWhenDestroyed
=============================================================================
