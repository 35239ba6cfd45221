------------------------- MODULE ScheduledTask_proofs -------------------------
(***************************************************************************)
(* After Cancel the callback of the Client neither runs nor will, whatever *)
(* the number of threads that make deferred calls meanwhile.               *)
(***************************************************************************)
EXTENDS ScheduledTask, FiniteSetTheorems, TLAPS

One(b) == IF b THEN 1 ELSE 0

\* The places in which the work item, and those in which any thread that
\* restarts the timer, has a reference of the rundown.
Referenced == {"onDemand", "work", "calling", "retry", "reference", "start", "started", "return"}
Restarting == {"start", "started"}
Admitted == {c \in Callers : call[c] \in {"admitted", "enqueued"}}

Held == Cardinality(Admitted)
        + One(pc["workItem"] \in Referenced) + One(pc["workItem"] \in Restarting)
        + One(pc["timer"] \in Restarting) + One(pc["power"] \in Restarting)

\* The owner's own reference is there.
Started == client = "running" \/ (client = "ending" /\ polled > 0)

PlacesOK ==
    /\ pc \in [Workers -> {"idle", "take", "onDemand", "work", "calling", "retry",
                           "reference", "start", "started", "return", "count"}]
    /\ call \in [Callers -> {"idle", "first", "refused", "admitted", "enqueued"}]
    /\ power \in {"off", "entering", "starting", "on", "exiting"}
    /\ client \in {"running", "ending", "flushing", "flushed", "stopping", "cancelled", "closed"}
    /\ ReferenceCount \in Nat /\ polled \in Nat

\* The count is right, and zero once Cancel has waited: nobody has a reference.
CountInv ==
    /\ ReferenceCount = One(Started) + Held
    /\ ~Started => ReferenceCount = 0

\* What Cancel has polled may be out of date, but only too high.
PollInv ==
    /\ client = "running" => ~WaitingForRundown
    /\ client = "ending" /\ polled > 0 => WaitingForRundown /\ ReferenceCount <= polled

\* Cancel and Close are not called during a power callback.
PowerInv ==
    /\ client \in {"ending", "flushing", "flushed", "stopping", "closed"} =>
         power \in {"off", "on"} /\ pc["power"] = "idle"
    /\ closing => client \in {"ending", "flushing", "flushed", "stopping", "closed"} /\ power = "off"
    /\ client = "closed" => closing
    /\ client = "cancelled" /\ ~resumed =>
         power \in {"off", "on", "exiting"} /\ pc["power"] = "idle"

Quiet == client = "closed" \/ (client = "cancelled" /\ ~resumed)

\* What each part of Cancel has put an end to stays so.
QuietInv ==
    /\ client \in {"flushed", "stopping"} \/ Quiet => ~workItem /\ pc["workItem"] = "idle"
    /\ client = "stopping" \/ Quiet => ~timer
    /\ Quiet => ~due /\ pc["timer"] = "idle"

Inv == PlacesOK /\ CountInv /\ PollInv /\ PowerInv /\ QuietInv
-----------------------------------------------------------------------------
LEMMA AdmittedIsFinite == IsFiniteSet(Admitted) /\ Cardinality(Admitted) \in Nat
<1>1. IsFiniteSet(Admitted)
  BY CallersAssumption, FS_Subset DEF Admitted
<1> QED
  BY <1>1, FS_CardinalityType

-----------------------------------------------------------------------------
(* A thread runs the callback of the Client and restarts the timer.        *)

\* A retry has a reference from the rundown, so after the wait there is none.
LEMMA WorkPreserves ==
    ASSUME Inv, NEW w \in Workers, Work(w) \/ WorkReturns(w)
    PROVE  Inv'
<1> USE AdmittedIsFinite DEF Inv, rundownVars, clientVars, flags, calls, timerVars
<1>1. CASE ClientWorkDo(w)
  <2> USE <1>1
  <2>1. Admitted' = Admitted
    BY DEF ClientWorkDo, Admitted
  <2>2. PlacesOK' /\ PollInv' /\ PowerInv' /\ QuietInv'
    BY DEF ClientWorkDo, PlacesOK, PollInv, PowerInv, QuietInv, Goto, Quiet
  <2>3. CountInv'
    BY <2>1 DEF ClientWorkDo, CountInv, Started, Held, Referenced, Restarting, Goto
  <2> QED
    BY <2>2, <2>3
<1>2. ASSUME NEW result \in Results, ClientReturns(w, result) PROVE Inv'
  <2> USE <1>2
  <2>1. Admitted' = Admitted
    BY DEF ClientReturns, Admitted
  <2>2. PlacesOK' /\ PollInv' /\ PowerInv' /\ QuietInv'
    BY DEF ClientReturns, PlacesOK, PollInv, PowerInv, QuietInv, Goto, Quiet
  <2>3. CountInv'
    BY <2>1 DEF ClientReturns, CountInv, Started, Held, Referenced, Restarting, Goto
  <2> QED
    BY <2>2, <2>3
<1>3. CASE RetryIsAllowed(w)
  <2> USE <1>3
  <2>1. Admitted' = Admitted
    BY DEF RetryIsAllowed, Admitted
  <2>2. PlacesOK' /\ PollInv' /\ PowerInv' /\ QuietInv'
    BY DEF RetryIsAllowed, PlacesOK, PollInv, PowerInv, QuietInv, Goto, Quiet
  <2>3. CountInv'
    BY <2>1 DEF RetryIsAllowed, CountInv, Started, Held, Referenced, Restarting, Goto
  <2> QED
    BY <2>2, <2>3
<1>4. CASE RetryReferences(w)
  <2> USE <1>4
  <2>1. Admitted' = Admitted
    BY DEF RetryReferences, Admitted
  <2>2. PlacesOK' /\ PollInv'
    BY DEF RetryReferences, PlacesOK, PollInv, Reference, Goto, CanReference
  <2>3. CountInv'
    BY <2>1 DEF RetryReferences, PlacesOK, CountInv, Workers, Started, Held, One,
           Referenced, Restarting, Reference, CanReference, Goto
  <2>4. PowerInv'
    BY DEF RetryReferences, PlacesOK, PowerInv, Workers, Goto
  <2>5. QuietInv'
    BY DEF RetryReferences, PlacesOK, QuietInv, Workers, Quiet, Goto
  <2> QED
    BY <2>2, <2>3, <2>4, <2>5
<1>5. CASE RetryStartsTimer(w)
  <2> USE <1>5
  <2>1. Admitted' = Admitted
    BY DEF RetryStartsTimer, Admitted
  <2>2. PlacesOK' /\ PollInv' /\ PowerInv'
    BY DEF RetryStartsTimer, PlacesOK, PollInv, PowerInv, Goto
  <2>3. CountInv'
    BY <2>1 DEF RetryStartsTimer, CountInv, Started, Held, Referenced, Restarting, Goto
  <2>4. QuietInv'
    BY <2>1 DEF RetryStartsTimer, CountInv, QuietInv, Workers, Quiet, Started, Held, One,
           Restarting
  <2> QED
    BY <2>2, <2>3, <2>4
<1>6. CASE RetryDereferences(w)
  <2> USE <1>6
  <2>1. Admitted' = Admitted
    BY DEF RetryDereferences, Admitted
  <2>2. PowerInv'
    BY DEF RetryDereferences, PowerInv, Goto
  <2>3. PlacesOK'
    BY <2>1 DEF RetryDereferences, PlacesOK, CountInv, Workers, Held, One, Restarting,
           Dereference, Goto
  <2>4. CountInv'
    BY <2>1 DEF RetryDereferences, PlacesOK, CountInv, Workers, Started, Held, One,
           Referenced, Restarting, Dereference, Goto
  <2>5. PollInv'
    BY DEF RetryDereferences, PlacesOK, PollInv, Dereference
  <2>6. QuietInv'
    BY <2>1 DEF RetryDereferences, CountInv, QuietInv, Workers, Quiet, Started, Held, One,
           Restarting
  <2> QED
    BY <2>2, <2>3, <2>4, <2>5, <2>6
<1>7. CASE WorkReturns(w)
  <2> USE <1>7
  <2>1. Admitted' = Admitted
    BY DEF WorkReturns, Admitted
  <2>2. PlacesOK' /\ PollInv' /\ PowerInv' /\ QuietInv'
    BY DEF WorkReturns, PlacesOK, PollInv, PowerInv, QuietInv, Goto, Quiet
  <2>3. CountInv'
    BY <2>1 DEF WorkReturns, CountInv, Started, Held, Restarting, Goto
  <2> QED
    BY <2>2, <2>3
<1> QED
  BY <1>1, <1>2, <1>3, <1>4, <1>5, <1>6, <1>7 DEF Work

-----------------------------------------------------------------------------
(* The timer.                                                               *)

\* A timer that is in no queue does not expire.
LEMMA TimerPreserves ==
    ASSUME Inv, TimerExpires \/ TimerHandler
    PROVE  Inv'
<1> USE AdmittedIsFinite DEF Inv, rundownVars, clientVars, flags, calls, timerVars
<1>1. CASE TimerExpires
  <2> USE <1>1
  <2>1. Admitted' = Admitted
    BY DEF TimerExpires, Admitted
  <2>2. PlacesOK' /\ PollInv' /\ PowerInv' /\ QuietInv'
    BY DEF TimerExpires, PlacesOK, PollInv, PowerInv, QuietInv, Quiet
  <2>3. CountInv'
    BY <2>1 DEF TimerExpires, CountInv, Started, Held
  <2> QED
    BY <2>2, <2>3
<1>2. CASE TimerHandler
  <2> USE <1>2
  <2>1. Admitted' = Admitted
    BY DEF TimerHandler, Admitted
  <2>2. PlacesOK' /\ PollInv' /\ PowerInv' /\ QuietInv'
    BY DEF TimerHandler, PlacesOK, PollInv, PowerInv, QuietInv, Workers, Goto, Quiet
  <2>3. CountInv'
    BY <2>1 DEF TimerHandler, CountInv, Started, Held, Restarting, Goto
  <2> QED
    BY <2>2, <2>3
<1> QED
  BY <1>1, <1>2

-----------------------------------------------------------------------------
(* A caller makes a deferred call.                                          *)

\* The caller that enqueues the work item has a reference.
LEMMA CallPreserves ==
    ASSUME Inv, NEW c \in Callers, CallBegins(c) \/ CallStep(c)
    PROVE  Inv'
<1> USE AdmittedIsFinite DEF Inv, rundownVars, clientVars, flags, calls, timerVars
<1>1. CASE CallBegins(c)
  <2> USE <1>1
  <2>1. Admitted' = Admitted
    BY DEF CallBegins, Admitted, PlacesOK
  <2>2. PlacesOK' /\ PollInv' /\ PowerInv' /\ QuietInv'
    BY DEF CallBegins, PlacesOK, PollInv, PowerInv, QuietInv, Quiet
  <2>3. CountInv'
    BY <2>1 DEF CallBegins, CountInv, Started, Held
  <2> QED
    BY <2>2, <2>3
<1>2. CASE CallReferences(c)
  <2> USE <1>2
  <2>1. \/ /\ Reference /\ call'[c] = "admitted"
           /\ Cardinality(Admitted') = Cardinality(Admitted) + 1
        \/ UNCHANGED rundownVars /\ Admitted' = Admitted
    <3>1. CASE Reference /\ call' = [call EXCEPT ![c] = "admitted"]
      <4>1. Admitted' = Admitted \cup {c} /\ c \notin Admitted
        BY <3>1 DEF CallReferences, PlacesOK, Admitted
      <4> QED
        BY <3>1, <4>1, AdmittedIsFinite, FS_AddElement DEF PlacesOK
    <3>2. CASE UNCHANGED rundownVars /\ call' = [call EXCEPT ![c] = "refused"]
      BY <3>2 DEF CallReferences, PlacesOK, Admitted
    <3> QED
      BY <3>1, <3>2 DEF CallReferences
  <2>2. PlacesOK' /\ PollInv' /\ PowerInv' /\ QuietInv'
    BY <2>1 DEF CallReferences, PlacesOK, PollInv, PowerInv, QuietInv, Reference,
           CanReference, Quiet
  <2>3. CountInv'
    BY <2>1 DEF CallReferences, CountInv, Started, Held, One, Reference, CanReference
  <2> QED
    BY <2>2, <2>3
<1>3. ASSUME NEW context \in BOOLEAN, CallEnqueues(c, context) PROVE Inv'
  <2> USE <1>3
  <2>1. Admitted' = Admitted
    BY DEF CallEnqueues, Admitted, PlacesOK
  <2>2. PlacesOK' /\ PollInv' /\ PowerInv'
    BY DEF CallEnqueues, PlacesOK, PollInv, PowerInv
  <2>3. CountInv'
    BY <2>1 DEF CallEnqueues, CountInv, Started, Held
  <2>4. QuietInv'
    <3>1. Cardinality(Admitted) > 0
      <4>1. c \in Admitted
        BY DEF CallEnqueues, Admitted
      <4> QED
        BY <4>1, FS_EmptySet
    <3>2. ReferenceCount > 0
      BY <3>1 DEF CountInv, Held, One
    <3> QED
      BY <3>2 DEF CallEnqueues, QuietInv, Quiet, CountInv, Started
  <2> QED
    BY <2>2, <2>3, <2>4
<1>4. CASE CallReturns(c)
  <2> USE <1>4
  <2>1. Cardinality(Admitted') = Cardinality(Admitted) - 1 /\ Cardinality(Admitted') \in Nat
    <3>1. Admitted' = Admitted \ {c} /\ c \in Admitted
      BY DEF CallReturns, PlacesOK, Admitted
    <3>2. IsFiniteSet(Admitted \ {c}) /\ Cardinality(Admitted \ {c}) = Cardinality(Admitted) - 1
      BY <3>1, AdmittedIsFinite, FS_RemoveElement
    <3> QED
      BY <3>1, <3>2, FS_CardinalityType
  <2>2. PowerInv'
    BY <2>1 DEF CallReturns, PowerInv
  <2>3. PlacesOK'
    BY <2>1 DEF CallReturns, PlacesOK, CountInv, Held, One, Dereference
  <2>4. CountInv'
    BY <2>1 DEF CallReturns, CountInv, Started, Held, One, Dereference
  <2>5. PollInv'
    BY <2>1 DEF CallReturns, PlacesOK, PollInv, Dereference
  <2>6. QuietInv'
    BY <2>1 DEF CallReturns, CountInv, QuietInv, Quiet, Started, Held, One
  <2> QED
    BY <2>2, <2>3, <2>4, <2>5, <2>6
<1>5. CASE CallTakesBack(c)
  <2> USE <1>5
  <2>1. Admitted' = Admitted
    BY DEF CallTakesBack, Admitted, PlacesOK
  <2>2. PlacesOK' /\ PollInv' /\ PowerInv' /\ QuietInv'
    BY DEF CallTakesBack, PlacesOK, PollInv, PowerInv, QuietInv, Quiet
  <2>3. CountInv'
    BY <2>1 DEF CallTakesBack, CountInv, Started, Held
  <2> QED
    BY <2>2, <2>3
<1> QED
  BY <1>1, <1>2, <1>3, <1>4, <1>5 DEF CallStep

-----------------------------------------------------------------------------
(* The work item.                                                           *)

\* It has a reference while it calls the Client.
LEMMA WorkItemPreserves ==
    ASSUME Inv, WorkItemStep
    PROVE  Inv'
<1> USE AdmittedIsFinite DEF Inv, rundownVars, clientVars, flags, calls, timerVars
<1>1. CASE WorkItemStarts
  <2> USE <1>1
  <2>1. Admitted' = Admitted
    BY DEF WorkItemStarts, Admitted
  <2>2. PlacesOK' /\ PollInv' /\ PowerInv' /\ QuietInv'
    BY DEF WorkItemStarts, PlacesOK, PollInv, PowerInv, QuietInv, Workers, Goto, Quiet
  <2>3. CountInv'
    BY <2>1 DEF WorkItemStarts, CountInv, Started, Held, Referenced, Restarting, Goto
  <2> QED
    BY <2>2, <2>3
<1>2. CASE WorkItemReferences
  <2> USE <1>2
  <2>1. Admitted' = Admitted
    BY DEF WorkItemReferences, Admitted
  <2>2. PlacesOK' /\ PollInv' /\ QuietInv'
    BY DEF WorkItemReferences, PlacesOK, PollInv, QuietInv, Reference, Goto, CanReference,
           Quiet
  <2>3. CountInv'
    BY <2>1 DEF WorkItemReferences, PlacesOK, CountInv, Workers, Started, Held, One,
           Referenced, Restarting, Reference, CanReference, Goto
  <2>4. PowerInv'
    BY DEF WorkItemReferences, PlacesOK, PowerInv, Workers, Goto
  <2> QED
    BY <2>2, <2>3, <2>4
<1>3. CASE WorkItemDereferences
  <2> USE <1>3
  <2>1. Admitted' = Admitted
    BY DEF WorkItemDereferences, Admitted
  <2>2. PowerInv' /\ QuietInv'
    BY DEF WorkItemDereferences, PowerInv, QuietInv, Goto, Quiet
  <2>3. PlacesOK'
    BY <2>1 DEF WorkItemDereferences, PlacesOK, CountInv, Workers, Held, One, Referenced,
           Dereference, Goto
  <2>4. CountInv'
    BY <2>1 DEF WorkItemDereferences, PlacesOK, CountInv, Workers, Started, Held, One,
           Referenced, Restarting, Dereference, Goto
  <2>5. PollInv'
    BY DEF WorkItemDereferences, PlacesOK, PollInv, Dereference
  <2> QED
    BY <2>2, <2>3, <2>4, <2>5
<1>4. CASE WorkItemCounts
  <2> USE <1>4
  <2>1. Admitted' = Admitted
    BY DEF WorkItemCounts, Admitted
  <2>2. PlacesOK' /\ PollInv' /\ PowerInv' /\ QuietInv'
    BY DEF WorkItemCounts, PlacesOK, PollInv, PowerInv, QuietInv, Workers, Goto, Quiet
  <2>3. CountInv'
    BY <2>1 DEF WorkItemCounts, CountInv, Started, Held, Referenced, Restarting, Goto
  <2> QED
    BY <2>2, <2>3
<1> QED
  BY <1>1, <1>2, <1>3, <1>4 DEF WorkItemStep

-----------------------------------------------------------------------------
(* The power callbacks.                                                     *)

\* They do not run while the Client cancels.
LEMMA PowerPreserves ==
    ASSUME Inv, D0Entry \/ D0Exit \/ PowerStep
    PROVE  Inv'
<1> USE AdmittedIsFinite DEF Inv, rundownVars, clientVars, flags, calls, timerVars
<1>1. CASE D0Entry
  <2> USE <1>1
  <2>1. Admitted' = Admitted
    BY DEF D0Entry, Admitted
  <2>2. PlacesOK' /\ PollInv' /\ PowerInv' /\ QuietInv'
    BY DEF D0Entry, PlacesOK, PollInv, PowerInv, QuietInv, Goto, Quiet
  <2>3. CountInv'
    BY <2>1 DEF D0Entry, PlacesOK, CountInv, Workers, Started, Held, Restarting, Goto
  <2> QED
    BY <2>2, <2>3
<1>2. CASE D0EntryTests
  <2> USE <1>2
  <2>1. Admitted' = Admitted
    BY DEF D0EntryTests, Admitted
  <2>2. PlacesOK' /\ PollInv' /\ PowerInv'
    BY DEF D0EntryTests, PlacesOK, PollInv, PowerInv
  <2>3. CountInv'
    BY <2>1 DEF D0EntryTests, CountInv, Started, Held
  <2>4. QuietInv'
    BY DEF D0EntryTests, PowerInv, QuietInv, Quiet
  <2> QED
    BY <2>2, <2>3, <2>4
<1>3. CASE D0EntryStartsTimer
  <2> USE <1>3
  <2>1. Admitted' = Admitted
    BY DEF D0EntryStartsTimer, Admitted
  <2>2. PlacesOK' /\ PollInv' /\ PowerInv'
    BY DEF D0EntryStartsTimer, PlacesOK, PollInv, PowerInv
  <2>3. CountInv'
    BY <2>1 DEF D0EntryStartsTimer, CountInv, Started, Held
  <2>4. QuietInv'
    BY DEF D0EntryStartsTimer, PowerInv, QuietInv, Quiet
  <2> QED
    BY <2>2, <2>3, <2>4
<1>4. CASE D0Exit
  <2> USE <1>4
  <2>1. Admitted' = Admitted
    BY DEF D0Exit, Admitted
  <2>2. PlacesOK' /\ PollInv' /\ PowerInv' /\ QuietInv'
    BY DEF D0Exit, PlacesOK, PollInv, PowerInv, QuietInv, Quiet
  <2>3. CountInv'
    BY <2>1 DEF D0Exit, CountInv, Started, Held
  <2> QED
    BY <2>2, <2>3
<1>5. CASE D0ExitDisablesRetries
  <2> USE <1>5
  <2>1. Admitted' = Admitted
    BY DEF D0ExitDisablesRetries, Admitted
  <2>2. PlacesOK' /\ PollInv' /\ PowerInv' /\ QuietInv'
    BY DEF D0ExitDisablesRetries, PlacesOK, PollInv, PowerInv, QuietInv, Quiet
  <2>3. CountInv'
    BY <2>1 DEF D0ExitDisablesRetries, CountInv, Started, Held
  <2> QED
    BY <2>2, <2>3
<1> QED
  BY <1>1, <1>2, <1>3, <1>4, <1>5 DEF PowerStep

-----------------------------------------------------------------------------
(* The Client cancels and restarts.                                         *)

\* Each part of Cancel finds what the next one relies on.
LEMMA CancelPreserves ==
    ASSUME Inv, CancelBegins \/ CancelStep \/ Restart
    PROVE  Inv'
<1> USE AdmittedIsFinite DEF Inv, rundownVars, clientVars, flags, calls, timerVars
<1>1. CASE CancelBegins
  <2> USE <1>1
  <2>1. Admitted' = Admitted
    BY DEF CancelBegins, Admitted
  <2>2. PlacesOK' /\ QuietInv'
    BY DEF CancelBegins, PlacesOK, QuietInv, EndBegins, Quiet
  <2>3. CountInv'
    BY <2>1 DEF CancelBegins, CountInv, Started, Held, One, EndBegins
  <2>4. PollInv'
    BY DEF CancelBegins, CountInv, PollInv, EndBegins
  <2>5. PowerInv'
    <3>1. closing' => power = "off"
      BY Zenon DEF CancelBegins
    <3> QED
      BY <3>1 DEF CancelBegins, PowerInv, InPowerCallback, PlacesOK
  <2> QED
    BY <2>2, <2>3, <2>4, <2>5
<1>2. CASE CancelWaits
  <2> USE <1>2
  <2>1. Admitted' = Admitted
    BY DEF CancelWaits, Admitted
  <2>2. PlacesOK' /\ PowerInv' /\ QuietInv'
    BY DEF CancelWaits, PlacesOK, PowerInv, QuietInv, EndPolls, Quiet
  <2>3. CountInv'
    BY <2>1 DEF CancelWaits, CountInv, PollInv, Started, Held, One, EndPolls, EndIsOver
  <2>4. PollInv'
    <3>1. CASE EndIsOver
      BY <3>1 DEF CancelWaits, PollInv
    <3>2. CASE ~EndIsOver /\ polled = 1
      BY <3>2 DEF CancelWaits, EndPolls, PollInv
    <3>3. CASE ~EndIsOver /\ polled # 1
      <4>1. WaitingForRundown
        BY <3>3 DEF CancelWaits, EndPolls, PollInv
      <4>2. WaitingForRundown' = (WaitingForRundown /\ polled # 1)
        BY <3>3 DEF CancelWaits, EndPolls
      <4>3. WaitingForRundown'
        BY <4>1, <4>2, <3>3, Zenon
      <4>4. polled' = ReferenceCount' /\ ReferenceCount' = ReferenceCount /\ client' = client
        BY <3>3 DEF CancelWaits, EndPolls
      <4> QED
        BY <4>3, <4>4, <3>3 DEF CancelWaits, PollInv, PlacesOK
    <3> QED
      BY <3>1, <3>2, <3>3
  <2> QED
    BY <2>2, <2>3, <2>4
<1>3. CASE CancelFlushes
  <2> USE <1>3
  <2>1. Admitted' = Admitted
    BY DEF CancelFlushes, Admitted
  <2>2. PlacesOK' /\ PollInv' /\ PowerInv' /\ QuietInv'
    BY DEF CancelFlushes, PlacesOK, PollInv, PowerInv, QuietInv, Quiet
  <2>3. CountInv'
    BY <2>1 DEF CancelFlushes, CountInv, Started, Held
  <2> QED
    BY <2>2, <2>3
<1>4. CASE CancelEnds
  <2> USE <1>4
  <2>1. Admitted' = Admitted
    BY DEF CancelEnds, HandlerHasReturned, Admitted
  <2>2. PlacesOK' /\ PollInv' /\ PowerInv' /\ QuietInv'
    BY DEF CancelEnds, HandlerHasReturned, PlacesOK, PollInv, PowerInv, QuietInv
  <2>3. CountInv'
    BY <2>1 DEF CancelEnds, HandlerHasReturned, CountInv, Started, Held
  <2> QED
    BY <2>2, <2>3
<1>5. CASE CancelStopsTimer
  <2> USE <1>5
  <2>1. Admitted' = Admitted
    BY DEF CancelStopsTimer, Admitted
  <2>2. PlacesOK' /\ PollInv' /\ PowerInv' /\ QuietInv'
    BY DEF CancelStopsTimer, PlacesOK, PollInv, PowerInv, QuietInv, Quiet
  <2>3. CountInv'
    BY <2>1 DEF CancelStopsTimer, CountInv, Started, Held
  <2> QED
    BY <2>2, <2>3
<1>6. CASE Restart
  <2> USE <1>6
  <2>1. Admitted' = Admitted
    BY DEF Restart, Admitted
  <2>2. PlacesOK' /\ PollInv' /\ PowerInv' /\ QuietInv'
    BY DEF Restart, PlacesOK, PollInv, PowerInv, QuietInv, Start, Quiet
  <2>3. CountInv'
    BY <2>1 DEF Restart, CountInv, Started, Held, One, Start
  <2> QED
    BY <2>2, <2>3
<1> QED
  BY <1>1, <1>2, <1>3, <1>4, <1>5, <1>6 DEF CancelStep

-----------------------------------------------------------------------------
LEMMA InitEstablishes == Init => Inv
<1> SUFFICES ASSUME Init PROVE Inv
  OBVIOUS
<1>1. Admitted = {}
  BY DEF Init, Admitted
<1>2. CountInv
  BY <1>1, FS_EmptySet DEF Init, RundownInit, CountInv, Started, Held, One, Workers, Referenced,
     Restarting
<1>3. PlacesOK /\ PollInv /\ PowerInv /\ QuietInv
  BY DEF Init, RundownInit, PlacesOK, PollInv, PowerInv, QuietInv, Quiet
<1> QED
  BY <1>2, <1>3 DEF Inv

LEMMA NextPreserves == Inv /\ [Next]_vars => Inv'
<1> SUFFICES ASSUME Inv, [Next]_vars PROVE Inv'
  OBVIOUS
<1>1. CASE Next
  BY <1>1, WorkPreserves, TimerPreserves, CallPreserves, WorkItemPreserves, PowerPreserves,
     CancelPreserves DEF Next, WorkerStep
<1>2. CASE UNCHANGED vars
  <2> USE <1>2 DEF vars, Inv, rundownVars, clientVars, flags, calls, timerVars
  <2>1. PlacesOK' /\ PollInv' /\ PowerInv' /\ QuietInv'
    BY DEF PlacesOK, PollInv, PowerInv, QuietInv, Quiet
  <2>2. Admitted' = Admitted
    BY DEF Admitted
  <2>3. CountInv'
    BY <2>2 DEF CountInv, Started, Held
  <2> QED
    BY <2>1, <2>3
<1> QED
  BY <1>1, <1>2

\* DMF_ScheduledTask_Cancel: when it has returned the callback of the Client
\* does not run and nothing is left that would run it, until the Module is
\* restarted or D0 is entered.
THEOREM CancelSilences == Spec => []CancelledIsQuiet
<1>1. Inv => CancelledIsQuiet
  BY DEF Inv, QuietInv, Quiet, CancelledIsQuiet
<1>2. Spec => Init /\ [][Next]_vars
  BY DEF Spec
<1> QED
  BY <1>1, <1>2, InitEstablishes, NextPreserves, PTL

-----------------------------------------------------------------------------
(* The server of the pending calls.                                        *)

Handling == pc["workItem"] # "idle"
Calling == {c \in Callers : call[c] \in {"first", "refused", "admitted"}}

\* The first caller, the queued work item and its handler take turns at
\* serving the calls, and a server is there exactly while calls are pending,
\* until a first caller is turned away that others rely on: then none is there
\* and calls stay pending.
ServerInv ==
    /\ NumberOfPendingCalls \in Nat
    /\ \A c, d \in Calling : c = d
    /\ Calling # {} => ~workItem /\ ~Handling
    /\ workItem => ~Handling
    /\ Calling # {} \/ workItem \/ Handling => NumberOfPendingCalls > 0
    /\ NumberOfPendingCalls > 0 =>
         (stranded <=> Calling = {} /\ ~workItem /\ ~Handling)
    /\ stranded => NumberOfPendingCalls > 0

\* A step that does not touch the calls leaves their server alone.
LEMMA ServerStays ==
    ASSUME ServerInv, UNCHANGED <<NumberOfPendingCalls, workItem, call, stranded>>, Handling' = Handling
    PROVE  ServerInv'
BY DEF ServerInv, Calling

\* The work item goes on, restarts the timer and calls the Client without
\* becoming idle; the other threads do not serve the calls.
LEMMA OthersKeepServer ==
    ASSUME PlacesOK, ServerInv,
           \/ \E w \in Workers : WorkerStep(w)
           \/ TimerExpires \/ TimerHandler
           \/ D0Entry \/ D0Exit \/ PowerStep
           \/ CancelBegins \/ CancelStep \/ Restart
    PROVE  ServerInv'
<1> USE DEF PlacesOK, Handling, Workers, calls, Goto
<1>1. ASSUME NEW w \in Workers, WorkerStep(w) PROVE ServerInv'
  <2>1. UNCHANGED <<NumberOfPendingCalls, workItem, call, stranded>>
    BY <1>1 DEF WorkerStep, Work, ClientWorkDo, ClientReturns, RetryIsAllowed,
       RetryReferences, RetryStartsTimer, RetryDereferences, WorkReturns
  <2>2. Handling' = Handling
    BY <1>1 DEF WorkerStep, Work, ClientWorkDo, ClientReturns, RetryIsAllowed,
       RetryReferences, RetryStartsTimer, RetryDereferences, WorkReturns
  <2> QED
    BY <2>1, <2>2, ServerStays
<1>2. CASE TimerExpires \/ TimerHandler
  BY <1>2, ServerStays DEF TimerExpires, TimerHandler
<1>3. CASE D0Entry \/ D0Exit \/ PowerStep
  BY <1>3, ServerStays DEF D0Entry, D0Exit, PowerStep, D0EntryTests, D0EntryStartsTimer,
     D0ExitDisablesRetries
<1>4. CASE CancelBegins \/ CancelStep \/ Restart
  BY <1>4, ServerStays DEF CancelBegins, CancelStep, CancelWaits, CancelFlushes,
     CancelStopsTimer, CancelEnds, Restart
<1> QED
  BY <1>1, <1>2, <1>3, <1>4

\* The handler takes over from the queued work item and leaves when it has
\* counted the last call down.
LEMMA WorkItemServes ==
    ASSUME PlacesOK, ServerInv, WorkItemStep
    PROVE  ServerInv'
<1> USE DEF PlacesOK, Handling, Workers, calls, Goto, ServerInv
<1>1. CASE WorkItemStarts
  BY <1>1 DEF WorkItemStarts, Calling
<1>2. CASE WorkItemReferences
  BY <1>2, ServerStays DEF WorkItemReferences
<1>3. CASE WorkItemDereferences
  BY <1>3, ServerStays DEF WorkItemDereferences
<1>4. CASE WorkItemCounts
  <2>1. Calling' = Calling /\ UNCHANGED <<workItem, stranded>>
    BY <1>4 DEF WorkItemCounts, Calling
  <2>2. /\ Handling /\ NumberOfPendingCalls' = NumberOfPendingCalls - 1
        /\ Handling' <=> NumberOfPendingCalls' > 0
    BY <1>4 DEF WorkItemCounts
  <2> QED
    BY <2>1, <2>2
<1> QED
  BY <1>1, <1>2, <1>3, <1>4 DEF WorkItemStep

\* The caller that finds no call pending is the only one on its way; when it is
\* turned away, the calls that have come since are stranded.
LEMMA CallerServes ==
    ASSUME PlacesOK, ServerInv, NEW c \in Callers, CallBegins(c) \/ CallStep(c)
    PROVE  ServerInv'
<1>1. CASE CallBegins(c)
  <2>1. \A d \in Callers : d # c => call'[d] = call[d]
    BY <1>1 DEF CallBegins, PlacesOK
  <2>2. CASE NumberOfPendingCalls = 0
    <3>1. Calling = {} /\ Calling' = {c}
      BY <1>1, <2>1, <2>2 DEF CallBegins, ServerInv, Calling, PlacesOK
    <3> QED
      BY <1>1, <2>2, <3>1 DEF CallBegins, ServerInv, Handling
  <2>3. CASE NumberOfPendingCalls # 0
    <3>1. Calling' = Calling
      BY <1>1, <2>1, <2>3 DEF CallBegins, Calling, PlacesOK
    <3> QED
      BY <1>1, <2>3, <3>1 DEF CallBegins, ServerInv, Handling
  <2> QED
    BY <2>2, <2>3
<1>2. CASE CallReferences(c)
  <2>1. Calling' = Calling
    BY <1>2 DEF CallReferences, Calling, PlacesOK
  <2> QED
    BY <1>2, <2>1 DEF CallReferences, ServerInv, Handling
<1>3. ASSUME NEW context \in BOOLEAN, CallEnqueues(c, context) PROVE ServerInv'
  <2>1. Calling = {c} /\ Calling' = {}
    BY <1>3 DEF CallEnqueues, ServerInv, Calling, PlacesOK
  <2> QED
    BY <1>3, <2>1 DEF CallEnqueues, ServerInv, Handling
<1>4. CASE CallReturns(c)
  <2>1. Calling' = Calling
    BY <1>4 DEF CallReturns, Calling, PlacesOK
  <2> QED
    BY <1>4, <2>1 DEF CallReturns, ServerInv, Handling
<1>5. CASE CallTakesBack(c)
  <2>1. Calling = {c} /\ Calling' = {}
    BY <1>5 DEF CallTakesBack, ServerInv, Calling, PlacesOK
  <2>2. ~stranded /\ ~workItem /\ ~Handling
    BY <2>1 DEF ServerInv
  <2>3. stranded' <=> NumberOfPendingCalls' > 0
    BY <1>5, <2>2, Zenon DEF CallTakesBack
  <2>4. NumberOfPendingCalls' \in Nat
    BY <1>5, <2>1 DEF CallTakesBack, ServerInv
  <2>5. workItem' = workItem /\ Handling' = Handling
    BY <1>5 DEF CallTakesBack, Handling
  <2> QED
    BY <2>1, <2>2, <2>3, <2>4, <2>5 DEF ServerInv
<1> QED
  BY <1>1, <1>2, <1>3, <1>4, <1>5 DEF CallStep

\* ScheduledTask_DeferredHandlerOnDemand and DMF_ScheduledTask_ExecuteNowDeferred:
\* however many threads make deferred calls, and whatever Cancel, Restart and the
\* power callbacks do meanwhile, a call that relies on the one before it is left
\* to nobody only when the rundown turns that one away, and then for good.
THEOREM CallsAreServed == Spec => []PendingCallsHaveServer
<1>1. Init => Inv /\ ServerInv
  BY InitEstablishes DEF Init, ServerInv, Calling, Handling, Workers
<1>2. Inv /\ ServerInv /\ [Next]_vars => (Inv /\ ServerInv)'
  <2> SUFFICES ASSUME Inv, ServerInv, [Next]_vars PROVE ServerInv'
    BY NextPreserves
  <2>1. PlacesOK
    BY DEF Inv
  <2>2. CASE UNCHANGED vars
    BY <2>2, ServerStays DEF vars, calls, Handling
  <2>3. CASE Next
    BY <2>1, <2>3, OthersKeepServer, WorkItemServes, CallerServes DEF Next
  <2> QED
    BY <2>2, <2>3
<1>3. ServerInv => PendingCallsHaveServer
  BY DEF ServerInv, Calling, Handling, PendingCallsHaveServer
<1>4. Spec => Init /\ [][Next]_vars
  BY DEF Spec
<1> QED
  BY <1>1, <1>2, <1>3, <1>4, PTL
===============================================================================
