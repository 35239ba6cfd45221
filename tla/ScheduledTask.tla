----------------------------- MODULE ScheduledTask -----------------------------
(***************************************************************************)
(* DMF_ScheduledTask: a callback of the Client that is run when the device *)
(* enters D0 (or prepares its hardware), again after a while when it asks  *)
(* for it, and on demand (Modules.Library/Dmf_ScheduledTask.c).            *)
(*                                                                         *)
(* Three threads run the callback: the handler of the WDFTIMER, the        *)
(* handler of the WDFWORKITEM and, in immediate mode, the power callback.  *)
(* WDF runs the handler of the timer one at a time; a timer that expires   *)
(* meanwhile has its handler run afterwards. The Client calls Cancel,      *)
(* Restart and Close from one thread and not during a power callback, as   *)
(* it does from its own PnP and power callbacks; any number of callers     *)
(* make deferred calls at any time, while it cancels too.                  *)
(***************************************************************************)
EXTENDS Rundown, FiniteSets

CONSTANTS Callers,              \* threads that make deferred calls
          ExecutionModes,       \* the values ExecutionMode may have
          MaxPendingCalls       \* bound: calls that are pending at a time

ASSUME TaskAssumption ==
    /\ ExecutionModes \subseteq {"Deferred", "Immediate"}
    /\ MaxPendingCalls \in Nat
ASSUME CallersAssumption == IsFiniteSet(Callers)

VARIABLES
    ExecutionMode,              \* of the Module's configuration
    TimerIsStarted, WorkIsCompleted, DisableRetries,
    NumberOfPendingCalls,
    OnDemandCallbackContext,    \* whether it is not NULL
    timer,                      \* the timer is in the system's queue
    due,                        \* it has expired, its handler is to run
    workItem,                   \* the work item is in the system's queue
    pc,                         \* where each thread that runs the callback is
    call,                       \* where each caller is
    stranded,                   \* history: a call was left to nobody
    power,                      \* the power callbacks
    client,                     \* what the Client's thread does
    closing,                    \* it cancels because it closes
    resumed                     \* history: D0 was entered since Cancel returned

flags == <<ExecutionMode, TimerIsStarted, WorkIsCompleted, DisableRetries>>
calls == <<NumberOfPendingCalls, OnDemandCallbackContext, workItem, call, stranded>>
timerVars == <<timer, due>>
clientVars == <<client, closing, resumed>>
vars == <<rundownVars, flags, calls, timerVars, pc, power, clientVars>>

Workers == {"timer", "workItem", "power"}
Results == {"Success", "SuccessButTryAgain", "Fail", "FailButTryAgain"}
Succeeded == {"Success", "SuccessButTryAgain"}

TypeOK ==
    /\ ExecutionMode \in ExecutionModes
    /\ RundownTypeOK
    /\ {TimerIsStarted, WorkIsCompleted, DisableRetries,
        OnDemandCallbackContext, timer, due, workItem, closing, resumed} \subseteq BOOLEAN
    /\ NumberOfPendingCalls \in Nat
    /\ pc \in [Workers -> {"idle", "take", "onDemand", "work", "calling", "retry",
                           "reference", "start", "started", "return", "count"}]
    /\ call \in [Callers -> {"idle", "first", "refused", "admitted", "enqueued"}]
    /\ stranded \in BOOLEAN
    /\ power \in {"off", "entering", "starting", "on", "exiting"}
    /\ client \in {"running", "ending", "flushing", "flushed", "stopping", "cancelled",
                  "closed"}

\* DMF_ScheduledTask_Open.
Init ==
    /\ ExecutionMode \in ExecutionModes
    /\ RundownInit
    /\ TimerIsStarted = FALSE /\ WorkIsCompleted = FALSE /\ DisableRetries = FALSE
    /\ NumberOfPendingCalls = 0
    /\ OnDemandCallbackContext = FALSE
    /\ timer = FALSE /\ due = FALSE /\ workItem = FALSE
    /\ pc = [w \in Workers |-> "idle"]
    /\ call = [c \in Callers |-> "idle"]
    /\ stranded = FALSE
    /\ power = "off"
    /\ client = "running" /\ closing = FALSE /\ resumed = FALSE

Goto(w, place) == pc' = [pc EXCEPT ![w] = place]

-----------------------------------------------------------------------------
(* ScheduledTask_ClientWorkDo and ScheduledTask_TimerRestart on thread w.   *)

ClientWorkDo(w) ==
    /\ pc[w] = "work"
    /\ Goto(w, IF WorkIsCompleted THEN "return" ELSE "calling")
    /\ power' = IF w = "power" /\ WorkIsCompleted THEN "on" ELSE power
    /\ UNCHANGED <<rundownVars, flags, calls, timerVars, clientVars>>

\* The Client's callback returns. A failure in immediate mode fails D0Entry,
\* and WDF does not call D0Exit.
ClientReturns(w, result) ==
    /\ pc[w] = "calling"
    /\ WorkIsCompleted' = (WorkIsCompleted \/ result = "Success")
    /\ Goto(w, IF result \in {"SuccessButTryAgain", "FailButTryAgain"}
                  THEN "retry" ELSE "return")
    /\ power' = IF w # "power" THEN power
                ELSE IF result \in Succeeded THEN "on" ELSE "off"
    /\ UNCHANGED <<rundownVars, ExecutionMode, TimerIsStarted, DisableRetries, calls, timerVars, clientVars>>

RetryIsAllowed(w) ==
    /\ pc[w] = "retry"
    /\ Goto(w, IF DisableRetries THEN "return" ELSE "reference")
    /\ UNCHANGED <<rundownVars, flags, calls, timerVars, power, clientVars>>

\* Mutant: a retry does not ask the rundown.
RetryReferences_Always(w) ==
    /\ pc[w] = "reference"
    /\ ReferenceCount' = ReferenceCount + 1
    /\ TimerIsStarted' = TRUE
    /\ Goto(w, "start")
    /\ UNCHANGED <<WaitingForRundown, polled, ExecutionMode, WorkIsCompleted, DisableRetries, calls,
                   timerVars, power, clientVars>>

RetryReferences(w) ==
    /\ pc[w] = "reference"
    /\ \/ /\ Reference
          /\ TimerIsStarted' = TRUE
          /\ Goto(w, "start")
       \/ /\ ~CanReference
          /\ Goto(w, "return")
          /\ UNCHANGED <<rundownVars, TimerIsStarted>>
    /\ UNCHANGED <<ExecutionMode, WorkIsCompleted, DisableRetries, calls, timerVars, power, clientVars>>

RetryStartsTimer(w) ==
    /\ pc[w] = "start"
    /\ timer' = TRUE
    /\ Goto(w, "started")
    /\ UNCHANGED <<rundownVars, flags, calls, due, power, clientVars>>

\* Mutant: the reference is kept.
RetryDereferences_Leaks(w) ==
    /\ pc[w] = "started"
    /\ Goto(w, "return")
    /\ UNCHANGED <<rundownVars, flags, calls, timerVars, power, clientVars>>

RetryDereferences(w) ==
    /\ pc[w] = "started"
    /\ Dereference
    /\ Goto(w, "return")
    /\ UNCHANGED <<flags, calls, timerVars, power, clientVars>>

Work(w) ==
    \/ ClientWorkDo(w) \/ (\E result \in Results : ClientReturns(w, result))
    \/ RetryIsAllowed(w) \/ RetryReferences(w) \/ RetryStartsTimer(w)
    \/ RetryDereferences(w)

-----------------------------------------------------------------------------
(* The timer.                                                               *)

TimerExpires ==
    /\ timer
    /\ timer' = FALSE
    /\ due' = TRUE
    /\ UNCHANGED <<rundownVars, flags, calls, pc, power, clientVars>>

TimerHandler ==
    /\ due
    /\ pc["timer"] = "idle"
    /\ due' = FALSE
    /\ TimerIsStarted' = FALSE
    /\ Goto("timer", "work")
    /\ UNCHANGED <<rundownVars, ExecutionMode, WorkIsCompleted, DisableRetries, calls, timer, power,
                   clientVars>>

\* The timer's handler and the power callback return.
WorkReturns(w) ==
    /\ w \in {"timer", "power"}
    /\ pc[w] = "return"
    /\ Goto(w, "idle")
    /\ UNCHANGED <<rundownVars, flags, calls, timerVars, power, clientVars>>

-----------------------------------------------------------------------------
(* The calls on demand and ScheduledTask_DeferredHandlerOnDemand.           *)

\* The increment of NumberOfPendingCalls: only the first caller goes on.
CallBegins(c) ==
    /\ call[c] = "idle"
    /\ client # "closed"
    /\ NumberOfPendingCalls < MaxPendingCalls
    /\ NumberOfPendingCalls' = NumberOfPendingCalls + 1
    /\ call' = [call EXCEPT ![c] = IF NumberOfPendingCalls = 0 THEN "first" ELSE "idle"]
    /\ UNCHANGED <<rundownVars, flags, OnDemandCallbackContext, workItem, stranded, timerVars,
                   pc, power, clientVars>>

CallReferences(c) ==
    /\ call[c] = "first"
    /\ \/ Reference /\ call' = [call EXCEPT ![c] = "admitted"]
       \/ ~CanReference /\ call' = [call EXCEPT ![c] = "refused"] /\ UNCHANGED rundownVars
    /\ UNCHANGED <<flags, NumberOfPendingCalls, OnDemandCallbackContext, workItem, stranded,
                   timerVars, pc, power, clientVars>>

\* The rundown has turned the first caller away. Whoever has called since has
\* been told that the work item is enqueued.
CallTakesBack(c) ==
    /\ call[c] = "refused"
    /\ NumberOfPendingCalls' = NumberOfPendingCalls - 1
    /\ stranded' = (stranded \/ NumberOfPendingCalls' > 0)
    /\ call' = [call EXCEPT ![c] = "idle"]
    /\ UNCHANGED <<rundownVars, flags, OnDemandCallbackContext, workItem, timerVars, pc,
                   power, clientVars>>

\* DMF_ScheduledTask_ExecuteNowDeferred passes a context, or NULL as
\* DMF_ScheduledTask_ExecuteNowDeferredEx does.
CallEnqueues(c, context) ==
    /\ call[c] = "admitted"
    /\ OnDemandCallbackContext' = context
    /\ workItem' = TRUE
    /\ call' = [call EXCEPT ![c] = "enqueued"]
    /\ UNCHANGED <<rundownVars, flags, NumberOfPendingCalls, stranded, timerVars, pc, power,
                   clientVars>>

CallReturns(c) ==
    /\ call[c] = "enqueued"
    /\ Dereference
    /\ call' = [call EXCEPT ![c] = "idle"]
    /\ UNCHANGED <<flags, NumberOfPendingCalls, OnDemandCallbackContext, workItem, stranded, timerVars,
                   pc, power, clientVars>>

WorkItemStarts ==
    /\ workItem
    /\ pc["workItem"] = "idle"
    /\ workItem' = FALSE
    /\ Goto("workItem", "take")
    /\ UNCHANGED <<rundownVars, flags, NumberOfPendingCalls, OnDemandCallbackContext, call,
                   stranded, timerVars, power, clientVars>>

\* With a context the Client is called whatever the state of the work is, and
\* its result is ignored.
WorkItemReferences ==
    /\ pc["workItem"] = "take"
    /\ \/ Reference /\ Goto("workItem", IF OnDemandCallbackContext THEN "onDemand" ELSE "work")
       \/ ~CanReference /\ Goto("workItem", "count") /\ UNCHANGED rundownVars
    /\ UNCHANGED <<flags, calls, timerVars, power, clientVars>>

WorkItemDereferences ==
    /\ pc["workItem"] \in {"onDemand", "return"}
    /\ Dereference
    /\ Goto("workItem", "count")
    /\ UNCHANGED <<flags, calls, timerVars, power, clientVars>>

\* Mutant: the handler serves one call each time.
WorkItemCounts_Once ==
    /\ pc["workItem"] = "count"
    /\ NumberOfPendingCalls' = NumberOfPendingCalls - 1
    /\ Goto("workItem", "idle")
    /\ UNCHANGED <<rundownVars, flags, OnDemandCallbackContext, workItem, call, stranded, timerVars,
                   power, clientVars>>

WorkItemCounts ==
    /\ pc["workItem"] = "count"
    /\ NumberOfPendingCalls' = NumberOfPendingCalls - 1
    /\ Goto("workItem", IF NumberOfPendingCalls' > 0 THEN "take" ELSE "idle")
    /\ UNCHANGED <<rundownVars, flags, OnDemandCallbackContext, workItem, call, stranded, timerVars,
                   power, clientVars>>

-----------------------------------------------------------------------------
(* The power callbacks (those of PrepareHardware and ReleaseHardware are    *)
(* the same statements, for ExecuteWhen_PrepareHardware).                   *)

D0Entry ==
    /\ power = "off" /\ pc["power"] = "idle"
    /\ client \in {"running", "cancelled"} /\ ~closing
    /\ DisableRetries' = FALSE
    /\ power' = "entering"
    /\ resumed' = (client = "cancelled")
    /\ IF ExecutionMode = "Deferred" THEN UNCHANGED pc ELSE Goto("power", "work")
    /\ UNCHANGED <<rundownVars, ExecutionMode, TimerIsStarted, WorkIsCompleted, calls, timerVars, client,
                   closing>>

D0EntryTests ==
    /\ ExecutionMode = "Deferred"
    /\ power = "entering"
    /\ TimerIsStarted' = TRUE
    /\ power' = IF TimerIsStarted THEN "on" ELSE "starting"
    /\ UNCHANGED <<rundownVars, ExecutionMode, WorkIsCompleted, DisableRetries, calls, timerVars, pc,
                   clientVars>>

D0EntryStartsTimer ==
    /\ power = "starting"
    /\ timer' = TRUE
    /\ power' = "on"
    /\ UNCHANGED <<rundownVars, flags, calls, due, pc, clientVars>>

\* WdfTimerStop(FALSE).
D0Exit ==
    /\ power = "on" /\ pc["power"] = "idle"
    /\ client \in {"running", "cancelled"}
    /\ timer' = FALSE
    /\ power' = "exiting"
    /\ UNCHANGED <<rundownVars, flags, calls, due, pc, clientVars>>

D0ExitDisablesRetries ==
    /\ power = "exiting"
    /\ DisableRetries' = TRUE
    /\ power' = "off"
    /\ UNCHANGED <<rundownVars, ExecutionMode, TimerIsStarted, WorkIsCompleted, calls, timerVars, pc,
                   clientVars>>

-----------------------------------------------------------------------------
(* The Client's thread: Cancel, Restart and Close, which cancels.           *)

InPowerCallback == power \notin {"off", "on"} \/ pc["power"] # "idle"

CancelBegins ==
    /\ client \in {"running", "cancelled"} /\ ~closing
    /\ ~InPowerCallback
    /\ EndBegins
    /\ client' = "ending"
    /\ closing' \in {FALSE, power = "off"}          \* Close comes after D0Exit
    /\ resumed' = FALSE
    /\ UNCHANGED <<flags, NumberOfPendingCalls, OnDemandCallbackContext, workItem, call, stranded, timerVars,
                   pc, power>>

CancelWaits ==
    /\ client = "ending"
    /\ IF EndIsOver THEN client' = "flushing" /\ UNCHANGED rundownVars
                    ELSE EndPolls /\ UNCHANGED client
    /\ UNCHANGED <<flags, calls, timerVars, pc, power, closing, resumed>>

\* WdfWorkItemFlush.
CancelFlushes ==
    /\ client = "flushing"
    /\ ~workItem /\ pc["workItem"] = "idle"
    /\ client' = "flushed"
    /\ UNCHANGED <<rundownVars, flags, calls, timerVars, pc, power, closing, resumed>>

CancelStopsTimer ==
    /\ client = "flushed"
    /\ timer' = FALSE
    /\ client' = "stopping"
    /\ UNCHANGED <<rundownVars, flags, calls, due, pc, power, closing, resumed>>

\* WdfTimerStop(TRUE) has removed the timer and now waits for its handler.
HandlerHasReturned_NotAwaited == TRUE           \* mutant: WdfTimerStop(FALSE)
HandlerHasReturned == ~due /\ pc["timer"] = "idle"

CancelEnds ==
    /\ client = "stopping"
    /\ HandlerHasReturned
    /\ TimerIsStarted' = FALSE
    /\ client' = IF closing THEN "closed" ELSE "cancelled"
    /\ UNCHANGED <<rundownVars, ExecutionMode, WorkIsCompleted, DisableRetries, calls, timerVars, pc,
                   power, closing, resumed>>

Restart ==
    /\ client = "cancelled"
    /\ Start
    /\ client' = "running"
    /\ resumed' = FALSE
    /\ UNCHANGED <<flags, calls, timerVars, pc, power, closing>>

-----------------------------------------------------------------------------

WorkerStep(w) == Work(w) \/ WorkReturns(w)
WorkItemStep == WorkItemStarts \/ WorkItemReferences \/ WorkItemDereferences \/ WorkItemCounts
CallStep(c) == \/ CallReferences(c) \/ CallTakesBack(c) \/ CallReturns(c)
               \/ \E context \in BOOLEAN : CallEnqueues(c, context)
PowerStep == D0EntryTests \/ D0EntryStartsTimer \/ D0ExitDisablesRetries
CancelStep == CancelWaits \/ CancelFlushes \/ CancelStopsTimer \/ CancelEnds

Next ==
    \/ \E w \in Workers : WorkerStep(w)
    \/ TimerExpires \/ TimerHandler
    \/ WorkItemStep
    \/ \E c \in Callers : CallBegins(c) \/ CallStep(c)
    \/ D0Entry \/ D0Exit \/ PowerStep
    \/ CancelBegins \/ CancelStep \/ Restart

\* Timers expire, threads that have something to do run, and the callback of
\* the Client returns. Nobody has to call, cancel or change power.
Fairness ==
    /\ \A w \in Workers : WF_vars(WorkerStep(w))
    /\ WF_vars(TimerExpires) /\ WF_vars(TimerHandler)
    /\ WF_vars(WorkItemStep)
    /\ \A c \in Callers : WF_vars(CallStep(c))
    /\ WF_vars(PowerStep)
    /\ WF_vars(CancelStep)

Spec == Init /\ [][Next]_vars /\ Fairness

-----------------------------------------------------------------------------

\* What Cancel is for: once it has returned, and until Restart or the next
\* D0Entry, the Client's callback does not run on another thread and nothing
\* is left that could run it (it may be called right before the Module is
\* deleted, ScheduledTask.md: "Call DMF_ScheduledTask_Cancel() before calling
\* WdfObjectDelete()").
CancelledIsQuiet ==
    client = "closed" \/ (client = "cancelled" /\ ~resumed) =>
        /\ ~timer /\ ~due /\ ~workItem
        /\ pc["timer"] = "idle" /\ pc["workItem"] = "idle"

\* A call that found another one pending relies on it ("There is already a
\* workitem enqueued. The routine will execute."). One thing only can leave it
\* to nobody: that the rundown has turned that other caller away. Otherwise the
\* work item is queued or running, or the first caller is on its way, as long as
\* calls are pending; afterwards nobody ever serves a call again.
PendingCallsHaveServer ==
    NumberOfPendingCalls > 0 =>
        (stranded <=> /\ ~workItem
                      /\ pc["workItem"] = "idle"
                      /\ \A c \in Callers : call[c] \notin {"first", "refused", "admitted"})

\* What the comment promises (Dmf_ScheduledTask.c:1311).
PendingCallsExecute == ~stranded

\* "DmfAssert(0 == moduleContext->NumberOfPendingCalls)", when Cancel has
\* flushed the work item and when the Module has closed.
NoCallsAfterCancel == client \in {"flushed", "closed"} => NumberOfPendingCalls = 0

\* A handler that is still serving calls finds another one.
HandlerIsFed == pc["workItem"] # "idle" /\ \E c \in Callers : CallBegins(c)

\* Cancel returns although calls keep coming: whoever it waits for leaves and
\* nobody new is let in, unless the handler it waits for is given new calls for
\* ever before it has served the last one.
CancelReturns ==
    \/ []<><<HandlerIsFed>>_vars
    \/ client = "ending" ~> client \in {"cancelled", "closed"}

\* A timer that counts as started expires sooner or later, unless the device
\* leaves D0 or the Client cancels (the comments in TimerRestart and
\* D0Entry: "It will restart during resume", "Only start the timer if the
\* timer has not started").
StartedTimerRuns ==
    TimerIsStarted /\ power = "on" /\ client = "running"
        ~> ~TimerIsStarted \/ power # "on" \/ client # "running"
=============================================================================
