# DMF: a verification project

The Driver Module Framework (DMF) is a C framework for Windows drivers. A driver is a
tree of *Modules*; the framework creates them, opens and closes them as WDF calls the
device's callbacks, lets threads call their *Methods*, and destroys them. This directory
holds TLA+ models of the framework's own protocols and of the library Modules whose
threads interact, TLC configurations that check them, and TLAPS proofs.

Paths below are relative to `src/Dmf/`; `FW` is `Framework/`, `LIB` is `Modules.Library/`.

    tlc -workers 2 -config BufferQueue.cfg MCBufferQueue     # one run
    tlapm ModuleLifecycle_proofs.tla                         # the proofs of one module

## 1. The system

### 1.1 Framework

| Component | State | Operations | Works with |
|---|---|---|---|
| Module lifecycle (`FW/DmfInternal.c`, `DmfCall.c`, `DmfCore.c`, `DmfValidate.c`) | `ModuleState`, `ReferenceCount`, `IsClosePending`, `ModuleClosed`, `NeedToCallPreClose`, `ModuleOpenedDuring`, `ModuleCanBeDeletedEvent` | create, open, close, `DMF_ModuleReference` / `Dereference`, unregister, destroy | everything |
| Collection and PnP/power dispatch (`FW/DmfModuleCollection.c`, `DmfGeneric.c`, `DmfContainer.c`) | the tree, and each Module's open option, state, and during which callback it was opened or registered | PostCreate, PrepareHardware, D0Entry, D0Exit, ReleaseHardware, clean up, destroy, `DMF_Invoke_*` for non-PnP drivers | WDF, lifecycle |
| Interfaces (`FW/DmfInterfaceInternal.c`) | `DMF_INTERFACE_OBJECT` (state, count), a collection of bindings per Module | bind, Interface Methods, unbind, unbind on destruction | lifecycle, Modules |
| Device initialisation, filter, portable layer, helpers | callback tables, none | set up, forward | WDF |
| Bridge, BranchTrack, LiveKernelDump (`FW/Modules.Core/`) | diagnostic tables | forward, count, dump | collection |

### 1.2 Library Modules

| Component | State | Operations | Hard part |
|---|---|---|---|
| `BufferPool` | a list of buffers, a WDFTIMER per buffer, lookaside count | get, put, put with timer, enumerate, timer handler, close | timers against everything else |
| `BufferQueue` | a producer and a consumer `BufferPool` | fetch, enqueue (with timer), dequeue, enumerate, reuse, flush | close against timers |
| `Thread` | five events, `IsStopped` | start, stop, work ready, destroy | events that outlive a run |
| `ThreadedBufferQueue` | a `BufferQueue`, a `Thread`, an event and a status on the stack of each waiting caller | enqueue, enqueue and wait, fetch, reuse, flush, complete, start, stop | stack pointers, lost wake-ups |
| `DeviceInterfaceTarget` | the WDFIOTARGET, the symbolic link, a close reason | arrival, removal, QueryRemove, RemoveCancel, RemoveComplete, register, unregister, Methods | three threads that close |
| `DeviceInterfaceMultipleTarget` | a list of such targets | the same, per target | the same |
| `RequestTarget` | requests that can be cancelled, requests that are sent again, a number per send | send, reuse, cancel, completion | cancel against completion and handle reuse |
| `ContinuousRequestTarget` | `Stopping`, a rundown, an event, two counts, a collection | start, stop, send, completion, cancel | completion against stop, a Start that fails half way |
| `ScheduledTask`, `Rundown` | a timer, a work item, a count of pending calls, a reference count | deferred calls, retries, cancel, restart, power callbacks | cancel against deferred calls and retries |
| `NotifyUserWithRequest` | pending requests, pending data, a count | request arrives, data arrives, cancel, return all | pairing requests with data |
| `NotifyUserWithRequestMultiple` | lists of clients that come, go and are served, data in a queue, a ring of past data | file create and close, request, broadcast, the callback that does the rest | what each client must get, who owns its context |
| `Doorbell` | two flags, a work item | ring, run | lost rings, two work items at once |
| `RingBuffer` | an array, two pointers, a count | write, read, read all, enumerate, reorder | full against empty, wrap-around, overwriting |
| `AlertableSleep`, `QueuedWorkItem` | an event or a pool with a work item | sleep, abort, enqueue | lost wake-ups |
| `HashTable` | buckets, entries chained by index | read, write, find or add, enumerate | chains, a search that ends early |
| `PingPongBuffer` | two buffers, an index, two write offsets | write, consume, shift, reset | a packet that stays in place while data is collected |
| `Stack` | a `BufferQueue` | push, pop | none of its own |
| HID, ACPI, firmware update, bus targets, registry, UEFI, crash dump, USB, sensors | mostly hardware and formats | I/O | outside a model checker's reach |

`PROJECT.json` lists every component with its status; for one that is not modelled the
note there says why.

### 1.3 What makes each modelled component correct

* **Lifecycle**: DeviceClose never overlaps a Method; of any number of threads that close
  one does; the deletion event means that nobody touches the Module; a close that has
  begun ends whatever Methods keep being called.
* **Collection**: whatever the open options, a parent opens over open children; in D0
  everything the framework opens is open; without hardware, and when it is destroyed,
  nothing is, but for the Modules that the code forgets on three paths.
* **Interfaces**: a binding is at both ends or at neither, is unbound once, and is freed
  after its Methods have left, also when both ends are destroyed together.
* **DeviceInterfaceTarget**: one of the three closers closes the target, once; none is
  left behind; Methods always send to an open target, until an arrival fails, or a
  callback of the target comes at a moment the code is not written for.
* **BufferPool, BufferQueue**: a buffer has one owner; a timer belongs to the use it was
  started for; a buffer whose timer expires reaches the Client; the source accounts for
  all buffers.
* **Thread, ThreadedBufferQueue**: a completion writes to the stack of a caller that still
  waits for that very buffer; a caller learns what became of its own work; work that is
  enqueued while the thread runs is done.
* **ScheduledTask**: after Cancel nothing runs; a call that found another one pending is
  served with it; Cancel returns.
* **RequestTarget**: whoever comes to a request finds its memory; a request that is sent
  again has one user; Close finds nothing outstanding.
* **ContinuousRequestTarget**: after StopAndWait nothing is out; the event is set by the
  last stream, whatever failed; StopAndWait and Close return.
* **NotifyUserWithRequest**: data reaches one request; neither is held without need; the
  limit counts what is held.
* **NotifyUserWithRequestMultiple**: every client gets every datum from its arrival on, in
  order, once; a context outlives whoever mentions it; nothing waits for a lost ring.
* **HashTable**: whatever was added is found; no key has two entries.
* **PingPongBuffer**: no byte is lost between the two buffers; collecting never touches the
  packet that the Client has.

## 2. The modules

    ModuleAccess <--(implements)-- ModuleLifecycle <-- MCModuleLifecycle
         ^                              ^------------- ModuleLifecycle_proofs
         |(INSTANCE: open and close of the Module)
    DeviceInterfaceTarget <-- MCDeviceInterfaceTarget, Targets_proofs
    InterfaceBinding <-- MCInterfaceBinding
    DeviceCollection <-- MCDeviceCollection
         ^----- Framework_proofs (both)
    BufferPool <-- BufferQueue <-- MCBufferQueue
    BufferPool, Thread <-- ThreadedBufferQueue <-- MCThreadedBufferQueue
         ^----- BufferPool_proofs (both queues)
    BufferPool <-- NotifyUserWithRequest <-- MCNotifyUserWithRequest
                        ^----- NotifyUserWithRequest_proofs --(INSTANCE)--> BufferPool_proofs
    Rundown <-- ScheduledTask <-- MCScheduledTask
                     ^----- ScheduledTask_proofs
    RequestTarget <-- MCRequestTarget
    ContinuousRequestTarget <-- MCContinuousRequestTarget
         ^----- Targets_proofs (both, and DeviceInterfaceTarget)
    Doorbell, RingBuffer <-- NotifyUserWithRequestMultiple <-- MCNotifyUserWithRequestMultiple
                                    ^----- NotifyUserWithRequestMultiple_proofs
                                                --(INSTANCE)--> DataStructures_proofs
    RingBuffer <-- RingBufferMethods --(implements)--> ItemQueue
    HashTable --(implements)--> KeyValueTable
    PingPongBuffer --(implements)--> PacketStream
         ^----- DataStructures_proofs (all three)

`MC*` modules only name the model values of a run. A definition whose comment says
*mutant* is a plausible bug in the operation that follows it; no specification uses it.
A module may state a property that the code does not keep (section 6 lists them); no
run has it among the properties that hold.

### 2.1 ModuleAccess and ModuleLifecycle

`ModuleAccess` is what a Module promises: Methods enter while it is open, nobody enters
once a close has begun, resources go after every Method has left, and the close ends.

`ModuleLifecycle` is the code. The variables are the fields of `DMF_OBJECT`, and a program
counter for each thread: `opener` in `DMF_Internal_Open`, `closer[c]` in
`DMF_Internal_Close`, `caller[c]` inside a Method. Each section under `ReferenceCountLock`
is one step (`ModuleReference`, `ModuleDereference`, `RundownPoll`, `OpenAdmit`,
`ModuleIsClosed`), every other access to shared state a step of its own. The polling loop
of `DMF_ModuleWaitForReferenceCountToClear` keeps its stale copy of the count (`sampled`):
the decision to clear the count is taken on the copy of the previous turn. The Module is
the kind a notification opens; `Removers` run removal callbacks, the `Destroyer`
unregisters (which waits for a callback in progress, `CallbackDrained`), closes and
destroys. Assumed, because `DMF_HandleValidate_Open` asserts it: an open begins only while
the notification is registered and no close executes.

The refinement mapping `Phase` reads the abstract phase off the counter and the flags.

### 2.2 InterfaceBinding

`DMF_ModuleInterfaceBind` (with its rollback when the second `WdfCollectionAdd` fails, and
its unbind when the Protocol's Bind fails), `DMF_ModuleInterfaceUnbind`, the reference
count of Interface Methods, and `DMF_ModuleInterfacesUnbind`, which the thread that
destroys a Module runs. `at[th]` is where each thread is, `held[th]` its local
`dmfInterfaceObject`. Each section under `InterfaceBindingsLock` or `InterfaceLock` is one
step; an unbind takes the interface out of the Transport's collection first and then out of
the Protocol's, so which thread wins is decided at the Transport (`FindInTransport`), and the
second find must give the same interface (`FindsTheSame`, the assertion at
`FW/DmfInterfaceInternal.c:1058`).

### 2.3 DeviceCollection

A tree of Modules, each with any of the seven open options. A WDF callback fills `pending`
with the Modules in dispatch order (children first on the way up, parents first on the way
down, backwards where the code goes backwards), and each dispatch is a step: `Start`,
`StartFails` (which queues the clean up that the code runs), `Stop`, `TreeDestroy`.
Notifications open and close registered Modules between any two steps. `device` is WDF's
side: what it has called and so what it may call. Drivers are PnP drivers or drivers that
call `DMF_Invoke_DeviceCallbacksCreate` and then `Destroy`, or leave the second call to the
framework ("leaving").

On three paths the code closes less than it has opened. `mishap` remembers which one the
device has taken, and `Forgotten(m)` says whether Module m is one of those left open:

| `mishap` | Left open | Code |
|---|---|---|
| `"D0EntryFailed"`: a D0Entry of a PnP driver fails | what D0Entry opened or registered below the collection's own Modules | the clean up goes over the collection only (`FW/DmfModuleCollection.c:480`), and no D0Exit follows |
| `"removedInD3"`: a device is taken away while it sleeps | Modules of `OPEN_D0EntrySystemPowerUp` | the D0Exit was one to D3 (`FW/DmfGeneric.c:805`), and ReleaseHardware closes those of PrepareHardware only |
| `"exitedToD0"`: the framework undoes what a "leaving" driver did not | the same Modules | its D0Exit is one to D0 (`FW/DmfModuleCollection.c:562`) |

`OpensInOrder` and `ClosedInTime` make an exception for these Modules and no other, and for
none without need: when any one entry of `ForgottenIn` is removed, TLC finds a violation.

### 2.4 DeviceInterfaceTarget

Three threads close the Module: `interface` (the PnP interface notification), `target`
(the QueryRemove, RemoveCancel and RemoveComplete callbacks of the WDFIOTARGET) and
`driver` (register, unregister). `closeReason` is `ModuleCloseReason`, set first-come by
`ReasonSet`. The Module's open, close and Methods are those of `ModuleAccess`, which
`ModuleLifecycle` implements. `sink` is the target to which Methods send, which differs
from `IoTarget` while a target is being replaced.

Everything that can happen to the Module is in the model, and three things break what the
Module promises. `strayed` remembers which of them have happened:

* `"refused"`: the Client vetoes a new target (`ArrivalVetoed`, `:2013`), or `DMF_ModuleOpen`
  fails (`ArrivalOpenFails`, `:2420`). Both leave the target open in `IoTarget`.
* `"overtaken"`: the code asks for interfaces that exist already (`:2742`). Their arrival
  runs on the registering thread, and a callback of a target runs beside it.
* `"cancelled"`: a RemoveCancel for a query that came second to another closer, whose close
  reason it then overwrites (`:1776`).

The properties promise nothing from then on, and everything before: an existing interface
that nothing overtakes, a RemoveCancel that answers its own query, a closer that comes
during it. Section 6 has what TLC finds after each of the three.

### 2.5 BufferPool and BufferQueue

`BufferPool` has the operations of a source and of a sink. Each Method holds the lock of
its pool for all it does, so it is one action. A timer handler is three steps: on its way
(`due`), under the lock (`HandlerRemoves`) and in the Client's callback (`HandlerCalls`,
`HandlerReturns`). `WdfTimerStop(FALSE)` succeeds as long as the timer is in the system's
queue (`CanStop`); `WdfTimerStop(TRUE)` also waits for the handler (`HandlerIsOver`).
Buffers in the source are zeroed and alike, so it is a set; the sink is a sequence.

`BufferQueue` puts them together: its Methods, the Client's Flush, and Close followed by
the close of the consumer pool. Client threads act on any buffer they hold (`held`), also
inside their timer callbacks. Flush is a loop of steps of its own (`FlushGets`,
`FlushReuses`, `FlushEnd`), because anything may come between two of them. `attached` is
history: buffers to which the Client has attached resources that its cleanup callback
frees.

### 2.6 Thread and ThreadedBufferQueue

`Thread` is `DMF_Thread` with `ThreadControlType_DmfControl`: the set of signalled events
and where the thread is. `ThreadedBufferQueue` adds callers, the work callback, work left
pending, and one controlling thread of the Client that starts, stops, flushes and closes.
`wakes[b]` is the pair of stack pointers (`Event`, `NtStatus`) in a work buffer;
`event[c]` and `status[c]` are what they point to; `step[b]` is how far
`ThreadedBufferQueue_WorkCompleted` has got with the buffer: status, event, reuse, each a
step. The controller closes the Module only when no caller is inside a Method other than
to wait, as the framework requires of a Client.

### 2.7 Rundown and ScheduledTask

`Rundown` is the reference count of `DMF_Rundown` under its lock; `EndAndWait` polls, with
the copy of the last turn (`polled`).

`ScheduledTask` has the three threads that run the Client's callback (`pc["timer"]`,
`pc["workItem"]`, `pc["power"]`), callers of the deferred Methods, the power callbacks and
the Client's thread that cancels, restarts and closes. Every access to a flag that another
thread uses is a step of its own: `DisableRetries` is tested, the rundown referenced, the
timer started and the rundown dereferenced in four steps, and so are the increment of
`NumberOfPendingCalls`, the reference, the enqueue and the dereference of a deferred call,
or the decrement of one that the rundown turns away. `stranded` is history: calls relied on
one that was turned away.
D0Entry and D0Exit stand for PrepareHardware and ReleaseHardware too, which have the same
statements for `ExecuteWhen_PrepareHardware`. Assumed: the Client cancels from its own PnP
and power callbacks, not in parallel with those of the Module.

### 2.8 RequestTarget

`object[r]` is the WDFREQUEST behind handle `r`: live, deleted but referenced, or gone, in
which case a new request may get the same handle. A send has a number (`send[n]`), which
is also what `UniqueRequestIdCancel` holds; `thread[t]` is the sender, the canceller or
the deleter. The three ways to send are one set of actions with a `kind`, since
`RequestTarget_RequestSendReuse` and `RequestTarget_RequestCreateAndSend` take the same
steps; the completion is `RequestTarget_ProcessAsynchronousRequestRoot` in its three parts
(out of the list, free for the next send, callback returned). A send that fails leaves in
three steps, since neither `RequestInUse` (`:1326`) nor what follows is under the lock: it
deletes the request or gives it back, deletes its memory objects (`:1328`), and drops its
reference (`:2422`); other threads may take the request, or delete it, in between. `orphans`
are the threads whose memory objects went with a request that was deleted then.

### 2.9 ContinuousRequestTarget

`request[r]` is where each streaming request is, from the send (reference, rundown, target)
through the completion (test of `Stopping`, the Client's callback, the next send or the end
of the stream). What a completion routine has left to do after it has given its request
away (release of the rundown, removal from the collection, the Module's dereference) is
counted, because the request may already be in its next round. The end of the last stream is
two such steps: the decrement of `StreamingRequestCount` (`:513`) and, when it has found zero,
the event (`:523`), which is `setting[r]` until `StreamSetsEvent`. The Client starts, stops and
closes on one thread, whose Start may fail at any request; it then gives up the rest one by
one (`StartReduces`) before it cancels. `early` is history: since the last Start the event was
set while a stream was left.

### 2.10 NotifyUserWithRequest

The data is in `BufferPool`'s two lists, the requests in a manual queue from which WDF takes
one that is cancelled. The Module lock is held over `DataProcess` and over the search for
data, but not while the data is handed over, so `Retrieves`, `Counts`, `Answers`, `PutsBack`
and `Reuses` are steps of their own. `raced` is history: a thread with data in its hands
found no request; so is `leaked`, how often the addition of a request failed after the
request was counted. `DataIsRefused` is the branch of `DataProcess` that the code holds
impossible (`LIB/Dmf_NotifyUserWithRequest.c:880`): the thread leaves with the lock, which
`RefusedUnlocks` releases after the reference is gone, as the code does.

### 2.11 NotifyUserWithRequestMultiple, Doorbell and RingBuffer

WDF's file callbacks and the Methods only put things into lists and ring; the callback of
the `Doorbell` does everything else, one client or datum per step: it takes the lists over,
adds clients (with a replay of the `RingBuffer` in that mode), removes those that have left,
and gives out the data. `handler[h]` and `local[h]` are one run of the work item; there are
two, because what the Doorbell has to prevent is that two of them run. `file[f]` is what an
application does with its file object, `given[f]` what its `NotifyUserWithRequest` was
given.

`EarlyUse` says whether a client that `EvtClientArrivalCallback` will refuse uses or closes
its file before the callback of the doorbell has refused it. It can, since the arrival is
asynchronous: that is the finding of section 6. With FALSE everything else is checked.

`RingBuffer` has one action per Method, all under the Module lock. `RingBufferMethods`
calls them in any order; `ItemQueue` is the abstract queue that they implement.

### 2.12 HashTable and PingPongBuffer

Both are sequential: a Method holds the Module lock from beginning to end. `HashTable`
still has a step for each entry that a search or an enumeration passes (`entryIndex`,
`currentEntry` are the variables of the loop), because what has to be shown is that the
loop overlooks nothing; `method` says who holds the lock. `DataTable` is the sequence of
the entries allocated, so that its length is `DataEntriesAllocated` and indices count from
one. The hash is any function of the key. `KeyValueTable` is the table that results.

`PingPongBuffer` has one action per Method. `packet` is where the Client finds what
`Consume` returned last; `PacketStream` says that it finds the same there until the next
`Consume` or `Shift`. The Client consumes and shifts no more than was collected, as
`Dmf_Tests_PingPongBuffer.c:234` does: `Consume` itself asserts only the size of the buffer
(`LIB/Dmf_PingPongBuffer.c:470`).

No run is about these two modules: the theorems of 5.7 and 5.8 cover everything that they
state, for every size.

## 3. Runs and bounds

| Run | Instance | What it shows |
|---|---|---|
| `ModuleLifecycle` | 3 callers of Methods, 2 removal callbacks, the destroyer | No Method overlaps DeviceClose, one thread closes, the count is exact, the deletion event means quiet, the asserts hold, an unload gets through, and the code implements `ModuleAccess` (its liveness too: a close ends although Methods keep being called) |
| `InterfaceBinding` | 2 Protocols, 1 Transport, 2 interfaces, 1 user, a Client that binds and unbinds | One thread unbinds each pair, no Interface Method runs in an unbound interface, both collections agree, nothing is left behind, every destruction ends |
| `DeviceCollection` | a tree of 3 Modules (a parent with a child, and a sibling), every combination of open options, 3 kinds of driver | A parent opens over open children, D0 has everything open, the handlers' assertions hold, nothing is open without its hardware or when it is destroyed |
| `DeviceInterfaceTarget` | 2 targets, one after the other, 3 registrations, 1 caller of Methods | Until something strays: a target is closed once, none is left behind, Methods send to an open target, an unregistration ends with the Module closed |
| `BufferQueue` | 3 buffers, 1 of them the producer's own and 2 from the lookaside list, any number of uses | One owner per buffer, timers stay with the use they were started for, an expired buffer is delivered, Close ends |
| `ThreadedBufferQueue` | 2 buffers, 2 callers that enqueue for ever, Start and Stop in turn | Completions write only to the stack of a caller that waits, each caller gets the status of its own work, nobody waits for ever while the thread runs, Close ends |
| `ScheduledTask` | 2 callers that never stop calling, both modes, any number of entries of D0, Cancels and Restarts | After Cancel nothing runs, calls that wait have somebody who serves them unless the rundown turned the first of them away, Cancel returns unless the handler it waits for is fed for ever |
| `RequestTarget` | 2 handles, 2 threads, 2 sends of any kind, both IRQLs, failures of each step | Nobody touches a request that is gone, one user at a time, also while a failing send leaves; Close finds nothing outstanding and returns |
| `ContinuousRequestTarget` | 2 streams, all modes, any number of Starts and Stops, 2 routines with something left to do | After StopAndWait nothing is out, unless a routine of an earlier Start has set the event too early; the counts are exact, StopAndWait and Close return |
| `NotifyUserWithRequest` | 2 buffers, 2 requests of which 1 may wait, 3 threads, 3 data | The count is what is held and what failed additions leaked, data has one fate, data and requests wait side by side only after a race |
| `NotifyUserWithRequestMultiple` | 2 applications, 1 producer of 3 data, a ring for 2, 2 runs of the work item | Contexts outlive their use, each client gets what it must in order, nothing waits for a lost ring |
| `NotifyUserWithRequestMultiple_refused` | the same, a refused client may close early | One callback deletes a client's context twice, see section 6 |

Where a property is a conjunction its parts are named and commented apart in the module
(`BuffersHavePlaces` is `OneOwner` and `BuffersAreAccountedFor`, and so on).

Why the bounds are enough:

* *Lifecycle*. Two removal callbacks and the destroyer meet at the selection of the closer
  in every order; three callers allow one that runs, one that is refused and one that
  enters between two polls. The safety part is proved for any number (section 5).
* *Interfaces*. A Protocol bound to the Transport twice over (two interfaces) and two
  Protocols at the same Transport are the smallest cases in which the two collections of
  a pair can disagree, and in which the loop of a destruction has something left to do.
* *Collection*. Each kind of driver may have Modules of any options, and each start may
  fail at any Module. The dispatch orders differ from one another only with a child *and* a
  sibling. Nothing counts, so nothing is bounded: the device sleeps, hibernates and is
  rebalanced any number of times. Deeper trees are left to the proof (section 5.4).
* *DeviceInterfaceTarget*. `MaxTargets` and `MaxRegistrations` cap the only counters.
  Two targets give a target and one that arrives after it is gone or refused; the second
  registration starts from what the first has left, the third from a close reason that
  both have left. The safety part is proved for any number (section 5).
* *Buffers*. The timers of one buffer against one another's handlers need two; the third
  makes the lookaside list both fill and drain. Uses are not counted.
* *ThreadedBufferQueue*. A caller needs a second one to overtake it, and two buffers are
  what the thread and a caller can have in hand at once; a third adds no step that two of
  them cannot take. Callers never stop, so every later round is in the graph.
* *ScheduledTask*. Two callers are what it takes for one call to rely on another; each makes
  any number. `MaxPendingCalls` caps `NumberOfPendingCalls`, the only counter that is not
  bounded by the threads: two are the first call and one that relies on it.
* *RequestTarget*. A second send is what meets the leftovers of the first: the same handle,
  the same request sent again, a number that is out of date. Failures are per step, and
  `timerOfListed` is left out (section 6).
* *ContinuousRequestTarget*. Two streams make a Start that fails half way and a stream that
  ends before another. `MaxRoutines` caps how many completion routines are in their last
  statements; with two, one may be a full round behind. A Start that follows a StopAndWait
  which returned early (section 6) is left out: it would send a request that is out.
* *NotifyUserWithRequest*. With both buffers in the hands of two threads the third finds
  the pool dry, and comes between the two halves of the others' work; the second request is
  the one that finds the limit reached, or that comes while the first is cancelled.
* *NotifyUserWithRequestMultiple*. One client that comes while another is served; three data
  go once round a ring of two, so a replay starts at a moved pointer.

Every run has `CHECK_DEADLOCK FALSE`, since each of these systems really stops: a
destroyed Module, a device that is gone, a closed queue. That they do not stop too early
is what the liveness properties say.

## 4. Fairness

Steps that a caller outside the Module chooses (calling a Method, opening, arriving,
failing, destroying) never have fairness; nobody is obliged to come. What has it is weak
fairness of a thread that is already inside: threads are scheduled, and no lock is held
while a thread waits in the code that is modelled.

* `ModuleLifecycle`: opens, closes and Methods in progress go on, and a driver that has
  begun to unload goes through unregister, close and destroy. The Client's DeviceOpen, DeviceClose
  and Methods return. Nothing is assumed of new Methods: that `IsClosePending` stops them
  is what makes a close end, and without it TLC shows a caller that keeps the count up.
* `InterfaceBinding`: the threads inside bind, unbind, destruction and Interface Methods.
* `DeviceInterfaceTarget`: the callbacks of PnP and of the target in progress, the driver's
  call in progress, a Method (its request completes once the target is gone), and the
  system's answer to a QueryRemove (it comes as RemoveCancel or RemoveComplete).
* `BufferQueue`: a timer in the system's queue expires and its handler runs; the closing
  thread goes on.
* `ThreadedBufferQueue`: a caller that is inside a Method goes on (one that has fetched a
  buffer need not do anything with it),
  the thread runs, the controller finishes what it began, and the Client completes what it
  left pending. `WaiterIsServed` has the exceptions that the code
  has: the thread is stopped, others go on enqueueing at the head for ever, or the Client
  has left work pending (section 6).
* `ScheduledTask`: timers expire, WDF runs the handlers, the Client's callback returns, a
  caller inside a Method goes on. Nobody has to call, cancel or change power.
  `CancelReturns` has one exception, a handler that is given new calls for ever while it
  serves the last ones (section 6); calls at any other moment do not delay Cancel.
* `RequestTarget`: the target completes what it was sent, threads inside the Module go on,
  and a Client that closes deletes the requests it created.
* `ContinuousRequestTarget`: only a request that was *cancelled* must complete; one that was
  not may stay with the target for ever, so `StopAndCloseReturn` needs every request to be
  cancelled after its last send.
* `NotifyUserWithRequestMultiple`: WDF runs the work item, and threads inside callbacks and
  Methods go on. No application need open or close a file.
* `DeviceCollection` and `NotifyUserWithRequest` have none: what WDF calls next is WDF's,
  and in the latter every Method ends by itself.

## 5. Proofs

### 5.1 `ModuleLifecycle_proofs`

For any finite set of callers, any set of removers and a destroyer that is not one of them
(`CallersAssumption`, `DestroyerAssumption`; counting the Methods that run needs a finite
set):

* `MethodSafety`, `SingleClose`, `ExactCount`, `Admission`, `DeleteSafety`,
  `PreCloseOnce`, `Asserts`: the safety invariants, the checked ones and two more;
* `Refinement`: every behaviour is a behaviour of the safety part of `ModuleAccess`.

None of these is inductive alone. The inductive invariant `IInv` is

| Part | Says | Needed because |
|---|---|---|
| `TypeOK` | types | |
| `OpenerInv` | what the flags are at each place of the opening thread | an open that fails has to leave what it found |
| `CloserInv` | at most one owner of the close, and what it has done at each place; in the polling loop, that its stale copy of the count is an upper bound of it | a second closer decides on `ModuleClosed` alone; the loop clears the count when its *copy* is one, which is right only because `IsClosePending` stops increments |
| `RestInv` | the flags when nobody opens or closes | it is where the next open or close starts |
| `DestroyerInv` | the deletion event and what it stands for | |
| `CountInv` | the count is the Methods that run plus one, or zero with none running | ties the counter to the callers |

`InitEstablishes` and `NextPreserves` show it inductive: one lemma per thread (opening,
closing, calling, destroying) and in each one step per action. The theorems above follow
from `IInv`, and `Refinement` maps each action to a step of `ModuleAccess` or a stutter.

### 5.2 `DataStructures_proofs`

The ring buffer, for any `ItemCount` above zero, any set of values and either mode (the
assumption of `RingBuffer`):

* `PointersAlwaysAgree`: the write pointer is where the count says, counted from the read
  pointer round the ring. It is inductive with the types; what makes it work is a few facts
  about `After`, which counts round the ring without division: that it stays in the ring,
  that it is one-to-one on one turn, and that it shifts by one when the read pointer moves.
* `RingBufferIsQueue`: with that invariant each Method maps to a step of `ItemQueue`, with
  the queue read off the array from the read pointer on. A write changes a place that no
  item present has; a write over the oldest item moves both pointers and is an append to
  the tail; a reorder is a stutter.

The hash table, for any keys, any hash function and any table of at least one entry
(`TableAssumption`):

* `TableIsSound`: `ChainsAreComplete` (a bucket leads to the first entry with its hash, an
  entry to the next one), `SearchMissesNothing` (no entry before the one that a search has
  come to has its key; at the end of the chain the search knows the last entry) and
  `KeysAreUnique`. The three need each other: a search misses nothing because chains are
  complete and in the order of the entries, a new entry completes its chain because the
  search has kept the last one, and its key is new because the search missed nothing.
* `HashTableIsTable`: the last step of a Method maps to a step of `KeyValueTable`, the
  steps of its search to stutters.

The ping-pong buffer, for buffers of any size above zero (`SizeAssumption`):

* `OffsetsAlwaysInside`: the write offset of the buffer that collects is inside it, and the
  packet is in the other buffer.
* `PingPongIsStream`: each Method maps to a step of `PacketStream`. `CopyKeepsPing` says what
  a copy leaves in the two buffers, `RestIsCollected` that after the change of buffers the
  rest of the stream is what is collected.

### 5.3 `NotifyUserWithRequestMultiple_proofs`

For any sets of files, producers and runs of the work item and any number of data:

* `SerialCallback`: one callback runs at a time, which is the first conjunct of
  `ClientsAreGivenAll` and the reason why the code uses the list of clients without a lock.
  The invariant behind it is the Doorbell's `OneErrand`: while `WorkItemScheduled` is set
  exactly one of the ringing thread that is to enqueue, WDF's queue and a handler has the
  errand, otherwise none has.
* `LiveContexts`: `ContextsAreLive`, from `PlaceInv`: where the context of a file is.
  It waits (in `PendingAdd` or the batch being added), or is listed, never both, until the
  callback deletes it; it leaves (in `PendingRemove` or the batch being removed) only once
  its file has closed; and a file object whose context exists is kept. The batches are
  those of the one handler in the callback, for which `OneErrand` is needed.
* `AllIsGiven`: `ClientsAreGivenAll`, from `PlaceInv` and `DataInv`: the queue holds the data
  that have been broadcast and not taken, in order and with no gap, the ring buffer the
  last `ItemCount` taken, and a client in the list has been given the stretch from its
  arrival (or from the oldest datum of the ring, with replay) up to the datum being given.
  That replaying the ring appends just its contents is `RingBufferIsQueue`'s invariant
  again, taken from `DataStructures_proofs`; that module is instanced, not extended, because
  the ring's theorems are for either mode and any values, while here the mode is the one
  that overwrites and the values are the data.

`LiveContexts` and `AllIsGiven` assume `EarlyUse = FALSE`: no application uses or closes its
file before the callback has accepted it. With `EarlyUse` the code is wrong for a client
that is refused (the run that ends in a violation, section 6); the theorems are about all
other clients. `SerialCallback` needs no such assumption.

### 5.4 `Framework_proofs`

`InterfaceBinding`. For any sets of Protocols, Transports and interfaces and any finite set
of threads that run Interface Methods (`ModulesAssumption`, `UsersAssumption`), the three
safety invariants of the run: `UnbindsOnce`, `MethodsAreSafe` and `BindsMutually`. The code
has no lock that covers both collections, so the argument is about who owns an interface. The
inductive invariant `Inv` is

| Part | Says | Needed because |
|---|---|---|
| `TypeOK`, `PlacesInv`, `EndsInv` | types; only the Client binds; an interface has ends once allocated | |
| `ListsInv`, `MutualInv` | what a collection may hold; that the other collection holds it too, or one thread is between the two | what is found at one end must be there at the other |
| `UniqueInv` | a pair has one listed interface | the second find must give the interface of the first (`FindsTheSame`) |
| `OwnerInv` | one thread at a time takes an interface through its states | one that closes it must not meet another |
| `ClientInv`, `CreatedInv` | nobody destroys a Module the Client is using; an interface that was never opened is listed only while the Client binds it | an interface must not be unbound while it is being bound: this is the contract with the Client, without which the code is not safe |
| `PairInv`, `HandInv`, `CloseInv` | what a thread that unbinds has in hand, from which collections it has taken it and what state it has reached | a thread that took the interface from both is alone with it |
| `OpenInv` | an open interface is listed, or somebody is unbinding it | a destroyed Module must not leave it behind |
| `CountInv` | the count is the number of Methods that run, and is zero unless the interface is open or closing | ties the count to the threads |

There is one lemma per action, with one step per group of conjuncts. The hardest is
`FindInTransportPreserves`: between the two finds the interface is in one collection only,
and nothing but `HandInv` and the Client's contract keeps every other thread away from it.

`DeviceCollection`, for any finite trees of Modules (`TreeAssumption`: each Module is in the
collection or is the Child of one Module, and there is no cycle, which is how
`ParentModule` and `ChildObjectList` are made), any kinds of driver and any open options
(`DriverAssumption`): `ChildrenOpenFirst` (`OpensInOrder`), `AllOpenInD0` (`OpenInD0`) and
`AllClosedInTime` (`ClosedInTime`). They assume nothing else: any start may fail at any
Module, and what is left open then is what `Forgotten` names (section 2.3), in trees of any
depth.

The first part is about the walks. `childrenFirst`, `parentFirst` and `parentFirstBackward`
are recursive functions over a tree of any depth, and no prover here takes an induction
rule with an operator for its parameter. `Counting` is an induction rule over *sets* of
numbers, which has none: a set that has 0 and the successor of each of its numbers is all of
`Nat`, or else adding 1 would map a finite set one to one into a smaller one. From it come
`LeastNumber` and the facts about walks, by induction on the height of a Module (the set of
the heights for which they hold). `Orders` is the result: a start dispatches to each Module
once, Children before Parents; a stop once, Parents before Children, whichever of the two
walks it takes; and a clean up to the collection only.

The second part is the invariant `DeviceInv`:

| Part | Says | Needed because |
|---|---|---|
| `PlaceInv` | which states of the device, of the power state and of the driver each callback is for | what a callback may find open depends on what the device has gone through |
| `OrderInv` | the rest of a walk is a walk (`UpList`, `DownList`): what has been dispatched to is closed under Children, or under Parents | a Parent that opens finds its Children done |
| `RecordInv` | a Module is open exactly when the record says how, and the record is that of its option | ReleaseHardware and the destruction close by the record, not by the option |
| `CreateInv`, `HardwareInv`, `PowerInv`, `SystemInv` | when a Module of each option may be open or registered | `ClosedInTime`, and that nothing is opened twice |
| `InCleanup`, in the last two | a Module of the collection that a failed D0Entry has opened is before the pass that closes it | what the clean up leaves is below the collection, so `Forgotten` |
| `MustCreate`, `MustHardware`, `MustPower` | when it must be open | `OpenInD0`, and that the Children of a Parent that opens are open |
| `MustSystem` | a Module of system power up has been opened once before the device idles | D0Entry reopens it by its state: `PowersUp` looks for `Closed` |
| `CompatInv` | a Module whose option comes before that of a Child is never opened | the order of the options is what makes a Child open before its Parent's callback |

Each action is first reduced to one of eight kinds of step (`DeviceStep`: a callback begins or
ends, a Module is started, fails, is stopped, is destroyed or is notified, a clean up closes
a set), which says what it does to each Module; `StepsAre` uses the walks once, and the parts
of the invariant are then proved for these steps alone. `OpenOverHolds` is the hard one: it
needs nearly all the other parts, since a Child may be opened in an earlier callback than its
Parent and must not have been closed since.

### 5.5 `ScheduledTask_proofs`

`CancelSilences`: for any finite set of threads that make deferred calls
(`CallersAssumption`; references are counted), `CancelledIsQuiet`. Cancel stops four
things one after the other, the rundown, the work item, the timer and the flag, while the
others go on, so the inductive invariant says what each step has put an end to:

| Part | Says | Needed because |
|---|---|---|
| `PlacesOK` | types and the places of the threads | |
| `CountInv` | the rundown's count is the owner's reference plus those of the deferred calls, the work item and the threads that restart the timer; it is zero once Cancel has waited | only then is the wait an end of everything that holds a reference |
| `PollInv` | the count that Cancel has read in its loop is an upper bound, and rundown is in progress | it leaves the loop on a copy |
| `PowerInv` | the Client does not call Cancel or Close during a power callback of its own | D0Entry restarts the timer with no reference |
| `QuietInv` | what is quiet after each part of Cancel | the flush and the stop are separate steps |

`CallsAreServed`: `PendingCallsHaveServer`, for any threads that make deferred calls. Its
invariant `ServerInv` says that the first caller, the queued work item and its handler take
turns at being the server, that there is one exactly while calls are pending, and that the
handler leaves only when it has counted the last call down; and what becomes of all this when
the rundown turns the first caller away after another has relied on it: from then on calls
stay pending and there is no server (section 6).

### 5.6 `Targets_proofs`

`RequestTarget`. For any set of requests, any finite set of threads, any number of sends and
any kinds of sends (`RequestAssumption`, `ThreadsAssumption`): `HasOneUser`, whatever fails,
and `StaysAlive`, unless the allocation of a timer fails for a request that is listed
(section 6 says what happens then). A request passes from the thread that finds or creates it
to the send, and from there to the completion routine, without a lock that covers the
passage; the invariant says who has it at each place:

| Part | Says | Needed because |
|---|---|---|
| `ShapesOK`, `IdInv` | types; each thread sends under a number of its own, and a send begins when the thread has sent | what the target has and what the thread has must not be confused |
| `SynchronousInv` | a synchronous send is with the target exactly while a thread waits for it | the waiting thread, not a completion routine, deletes the request |
| `ReuseInv`, `ThreadUserInv`, `SendUserInv` | what is used is alive; it is in the collection of reused requests, and marked, exactly if it is sent again | the mark is all that keeps a second sender, or `ReuseDelete`, away |
| `OneUserInv` | no two threads, no two sends, and no thread and send use the same request | the theorem, and the reason why a deletion hits nobody else |
| `ListInv`, `CancelInv` | the list has a request at most once, and only while it is being sent or is out before its removal; a thread that cancels has found it there | Close asserts an empty list; a removal takes out one entry only, which is enough because there is one |
| `CountInv` | the references to the Module are the threads in a Method and the sends whose callback has not returned | ties the count to the requests |

A send that fails is no user of its request from the step that gives it back on, and holds
its reference until it leaves. `RemoveFirst` on a list without duplicates is a lemma
(`RemoveFirstOfDistinct`).

`ContinuousRequestTarget`, for any number of streams, any choice of modes, and any bounds on
the routines beside them and on the buffers the Client keeps (`StreamAssumption`):
`StopLeavesNothingOut` (`StoppedIsQuiet`), `StreamCountsAreRight` (`StreamsAreCounted`) and
`StreamTypesHold` (no counter becomes negative). Every counter of the Module counts something
else that is spread over the senders, the target and the completion routines; the invariant
`StreamsInv` says what:

| Part | Says | Needed because |
|---|---|---|
| `StreamShapes` | types, with integers for the counters | that they are natural follows from the rest |
| `LoopInv` | Start has one request in hand, those it has not reached are idle, and no other request that is being sent is Start's | the send itself is the same code for Start and for a completion |
| `ClientInv` | while the Module closes the Client is out of every Method; after StopAndWait nothing is out unless the event was set early, and when the Module is closed in any case | the property |
| `RundownInv` | the rundown's count is the sends that have it plus those that have yet to release it; from the end of the rundown to the next Start it is run down and zero | in kernel mode StopAndWait waits for the event only: that nobody has yet to release the rundown was settled before |
| `StreamBuffersInv` | the buffers out of the pool are the Client's plus one for each request that has one | |
| `StreamCountInv` | `StreamingRequestCount` is the streams that have not ended plus those that Start has yet to begin or to give up; when it is zero the event is set or somebody is about to set it, and the event is set otherwise only if it was set early | it is what StopAndWait and Close wait for |
| `TransientInv` | the collection has a request while it is out, and once more for each routine that has yet to remove it, or to set the event first | a request may be sent again before the routine of its last completion has removed it |
| `PendingInv` | each reference belongs to a send, a request in flight, a routine or the Client's thread; a request that is sent again has two | in user mode StopAndWait polls this count, and Close waits for it in every mode |

Routines that have yet to remove a request are anonymous: they are counted as pairs of a
request and a number (`Removing`), so that a sum is the size of a set. Each action is then a
matter of which of these sets its request enters and leaves (`RequestMoves`).

`DeviceInterfaceTarget`, for any number of targets and registrations and any set of callers
(`BoundAssumption`), as long as none of the three things in 2.4 has happened, which the
properties say themselves (section 6 says what follows when it has): `MethodsFindTheirTarget`
(`UsesOpenTarget`) and `TargetsAreOwned` (`TargetsHaveOwners`). No lock is held from the
choice of a closer to the end of its close; what excludes the others is the reason that was
stored first. The invariant `TargetInv` says, for each reason, how far the thread that set it
can be and what the target is then:

| Part | Says | Needed because |
|---|---|---|
| `RegisteredInv` | a notification of the interface that nothing has overtaken runs neither beside a callback of the target nor after the driver has unregistered | only the target's callbacks and the driver compete |
| `KeptInv` | one target at most exists, and the stored name is that of its interface | an arrival is refused by the name, not by the target |
| `PhaseInv`, `ClosingInv` | the Module's phase is the step of the thread that closes it; while it is open or drains, its target is open | `ModuleAccess` does not say who closes |
| `ArrivalInv` | between the creation of a target and the open the Module is closed; the reason of the last close is still set at first | the reason is reset after the target exists |
| `CallbackInv` | what each callback of the target finds, by its step | |
| `NotSetInv`, `RemovedInv`, `UnregisteredInv`, `DriverInv` | with no reason nobody closes and the target is the Module's; with a removal or an unregistration its thread is closing, or the close is over and no target is left | the first reason decides |
| `QueryRemoveInv`, `QueryClosedInv` | a query's reason stays until its answer: the Module is open and vetoed, or closed with the target closed for the query | the reason outlives the callback that set it |

### 5.7 `BufferPool_proofs`

For any set of buffers and any number of preallocated and additional ones
(`SourceAssumption`). The two pools are the same code in three Modules, so what each
operation does to them is proved once:

* `PoolInv`: `OneOwner` pair by pair with a list without duplicates (`Apart`), and that only a
  buffer that is or was in the sink has a timer (`TimersInv`). One lemma per operation says
  that it keeps `PoolInv` and how it moves its buffer.
* `BuffersStayInPlace` (`BuffersHavePlaces`) and `TimersFindTheirUse` (`TimersServeTheirUse`)
  of `BufferQueue`: `QueueInv` adds that what was allocated is the sum of the places while the
  queue is open (`ExactInv`), and that a buffer that may expire has the callback its handler
  will look for (`CallbackInv`).
* `WorkStaysWithOne` (`WorkHasOneOwner`) and `AnswersReachCallers`
  (`AnswersReachTheirCaller`) of `ThreadedBufferQueue`, for any callers
  (`CallersAssumption`): `ThreadedInv` adds who has each buffer that is out of the pools
  (`HandsInv`), where the thread is while the controller starts, stops and closes it, with at
  most one of Stop, the work after it and its completion under way (`ThreadInv`), that a
  buffer is on its way to completion exactly while somebody completes it (`WorkInv`), and
  that a caller whose buffer is in the queue or on that way still waits, with its event not
  yet set (`WaitInv`). The last one is why the answer is not written to the stack of a caller
  that has gone.

### 5.8 `NotifyUserWithRequest_proofs`

For any applications, producers and requests, any limit and any two pools
(`NotifyAssumption`, `SourceAssumption`). What is proved of the pools in 5.7 is instanced. The
threads share no lock that covers both a request and its count, or a datum and its
request, so the invariant `NotifyInv` follows both through the hands of the threads:

| Part | Says | Needed because |
|---|---|---|
| `ThreadsInv` | what a thread has at each place | |
| `PoolsInv`, `HandsInv` | the pools are sound; a thread that has a buffer is alone with it | a datum must not be in two hands |
| `DataInv` | each datum produced waits in one buffer or has gone one way, never both | `DataIsNeverLost` (`DataIsDeliveredOnce`) |
| `QueueInv`, `HoldersInv` | WDF's queue has each request that is queued once; a thread that has a request is alone with it | a request must not be completed twice |
| `CountInv` | `EventCountHeld` is the requests not yet uncounted (`Counted`) and those that `leaked`; those that are queued or will be (`Forwarded`) are within the limit | the count is taken before the request is queued and given back after it has been retrieved, so the limit holds for another, smaller set than the one that is counted: `CountsAreKept` (`RequestsAreCounted`) |
| `ActiveInv` | the references are the threads in a Method | the close starts when there are none |
| `CloserInv` | the thread that closes is to return at least as many requests as are queued | it decides how many from a count it has read once |
| `PairInv` | unless data was put back, each queued request has a thread coming that has data or will look for both, or each datum has one that will look for both | `DataMeetsRequests` (`PairsMeet`): it is not enough that one thread comes, there may be several requests |

### 5.9 Only model-checked

* All liveness (`UnloadEnds`, `PendingWorkIsDone`, `StopAndCloseReturn`, the fairness part of
  `ImplementsAccess`, and so on): neither fairness under `ENABLED` nor liveness can be proved
  with these provers.
* Action properties other than those that follow from the refinements above.

## 6. Findings and observations

One run ends in a violation (`PROJECT.json` quotes the line):

* `NotifyUserWithRequestMultiple_refused`: a client that is refused after it has closed its
  file is in both lists that one callback works through. The first deletes its Module and
  stores NULL for the handle (`LIB/Dmf_NotifyUserWithRequestMultiple.c:617`, `:381`), the
  second calls `WdfObjectDelete` with that NULL (`:688`, `:380`); the search for the context,
  and the assertion that it is found (`:398`), are not reached any more. The same delay lets a request of
  that client use a Module that the refusal deletes (`:1281`, `:1292`).

Properties that a module states and the code does not keep. Each can be reproduced with
the run of its module and the change named here:

* `InterfaceBinding!ReadsLiveInterface` (add it): of two bound Modules destroyed at once
  one evaluates the assertion at `FW/DmfInterfaceInternal.c:1142` on an interface that the
  other has deleted.
* `DeviceCollection!ClosedInTime` without an entry of `ForgottenIn`: on each of the three
  paths of section 2.3 a Module is destroyed open, and after a failed D0Entry also one that
  is still notified, against the assertion at `FW/DmfValidate.c:283`. The second and the
  third also have a Parent open over closed Children (`OpensInOrder`), against
  `FW/DmfCall.c:704`.
* `DeviceInterfaceTarget`, all five properties, each with `strayed \subseteq {kind}` in place
  of `strayed = {}`, for each kind:
  - `"cancelled"`: a RemoveCancel while `NotificationUnregister` closes resets its close reason
    (`:1776`), against the comment at `:150`: `MethodsUseOpenTarget`, when a RemoveComplete then
    deletes the target under a Method, `NoTargetIsLeaked` and `UnregisterCloses`, when the
    close finds no reason (`:2996`) and leaves the target open.
  - `"overtaken"`: a device that goes away while its arrival is handled on the registering
    thread: the reset of the close reason (`:2417`) loses the removal, and the Module opens
    over a deleted target, against the comment at `:161`.
  - `"refused"`: the vetoed target stays open in `IoTarget`, where the next arrival overwrites
    it, against the assertion at `:1955`; its callbacks go on, and act on the target of the next
    arrival.
* `BufferQueue!CleanedUpBeforeDeleted` (add it, `BufferCount` 2 and no lookaside list):
  Close's Flush gives up at a buffer that is about to expire (`LIB/Dmf_BufferPool.c:351`), and
  the cleanup callback of `LIB/Dmf_BufferQueue.c:298` is never called for it.
* `ThreadedBufferQueue!WaiterIsServedAfterPending` (add it): a caller queued behind work left
  pending waits for ever, against the comment at `:323`.
* `ScheduledTask!PendingCallsExecute` (add it): a deferred call that the rundown turns away
  takes its increment back (`:1306`, `:1367`) after a second caller has been told that the
  work item is enqueued; that call, and all later ones, are left to nobody, against the
  comment at `:1311`. `PendingCallsHaveServer` says that calls are lost in no other way.
* `ScheduledTask!NoCallsAfterCancel` (add it): the assertions at `:989` and `:1193`. A caller
  that the rundown is about to turn away has incremented the count when Cancel asserts that
  it is zero, and stranded calls are in it for good.
* `ScheduledTask!StartedTimerRuns` (add it): D0Exit (`:832`) and ReleaseHardware (`:666`) stop
  the timer and leave `TimerIsStarted` set, so the next D0Entry (`:739`) or PrepareHardware
  (`:571`) does not start it, against the comment at `:141`.
* `RequestTarget!CancelsItsOwnSend` (add it): a request that is sent again may be completed
  and sent once more between the search (`:2051`) and the cancellation (`:2059`), and the
  wrong send is cancelled, against the comment at `:1306`.
* `RequestTarget!FailingSendsFindTheirMemory` (add it): a failing ReuseSend gives its request
  back (`:1326`) before it deletes the memory objects it has made (`:1328`), which are
  children of the request. A ReuseDelete that finds the request free in between (`:2315`)
  deletes them with it, and the send deletes them a second time, so the comment at `:1319`
  ("Undo everything this call did") undoes more than the call still owns. The request itself
  stays safe (`RequestsAreAlive`, `RequestHasOneUser`): the send no longer touches it.
* `NotifyUserWithRequest!PutBackDataIsCompleted` (add it): data that is put back meets a
  request that came while it was out, and both wait until something else happens, against
  the comment at `:418`. `PairsMeet` is what remains true.
* `NotifyUserWithRequest!CountIsOfHeldRequests` (add it): a request whose context or whose
  forwarding fails (`:1006`, `:1015`) goes back to its sender but stays in `EventCountHeld`
  for good, against the comment at `:48` ("Number of event requests held") and at the cost
  of the limit. `RequestsAreCounted` says that the count goes wrong in no other way.
* `NotifyUserWithRequest!BufferIsAlwaysFound` (add it): with more threads than buffers, all
  buffers may be in the hands of threads that complete requests outside the lock, and
  `DataProcess` finds none, against the comments at `:858` ("This call should always
  succeed") and `:880` ("This should never happen") and the assertion below it. That data is
  lost; `DataIsDeliveredOnce` says that no other is.

* `ContinuousRequestTarget!AllRequestsHaveReturned` (add it): the routine that ends the last
  stream is between its decrement (`:513`) and the event (`:523`) when StopAndWait, which sees
  the count at zero (`:2583`), sets the event itself and returns. The next Start resets the
  event (`:4126`), the routine sets it, and the StopAndWait after that returns at once with
  requests out, against the description at `:2602` ("waits for all pending requests to
  return"). `StoppedIsQuiet` says that it returns early for no other reason.

Seen while translating:

* Collection: a failed PrepareHardware leaves children to ReleaseHardware
  (`FW/DmfModuleCollection.c:807`), which comes. Clean up of a NOTIFY Module asserts for its children
  (`DmfCall.c:2562`). BranchTrack starts after `OPEN_Create` Modules have opened
  (`DmfModuleCollection.c:3782`, `:3759`).
* Interfaces: when the Protocol's Bind fails, unbind runs from a state in which
  `DmfInterfaceInternal.c:643` asserts (`:958`, `:1060`). The second of two destroying
  threads may return before the first has finished Unbind (`:1040`, `:1125`).
* Lifecycle: a Method that closes its own Module waits for itself. A dynamic Module's
  destroyer waits only for a Module that is closed (`DmfCall.c:3107`).
* DeviceInterfaceTarget: Close clears the link before the target (`:2964`, `:3013`).
* BufferPool: a Client's timer callback may still run when the Module has been closed
  (`:823`, `:1442`); the inserted-list handle is read before the lock (`:762`).
* Thread: two threads in Stop at once may wait for one event (`:458`); Stop from the work
  callback waits for itself. ThreadedBufferQueue: Stop does not return while Clients go
  on enqueueing (`Dmf_ThreadedBufferQueue.c:283`, `Dmf_Thread.c:133`); a waiter wakes
  before its buffer is back in the pool (`:173`, `:178`).
* ScheduledTask: calls without end keep the handler of the work item, and so Cancel, going
  (`:495`). A timer started before the handler of the last one has run
  makes the assertion at `:396` fail. A D0Entry after Cancel starts the timer again.
* RequestTarget: when the timer cannot be allocated (`:1263`, `:1572`) the request is deleted
  or given back but stays in the list, and a failing send keeps its context buffer; Close
  then waits for the list for ever (`timerOfListed`). A full QueuedWorkItem loses a
  completion (`:832`, `:893`).
* ContinuousRequestTarget: a second Start after one that failed, without StopAndWait between
  them, breaks the count (`:514`). In User-mode a Start that fails may leave a request that
  nobody cancels.
* NotifyUserWithRequest: two threads may deliver data in the other order (`:403`, `:409`); a
  limit that is overshot for a moment refuses a request that would fit (`:983`).
* RingBuffer: a write of the wrong size into a full ring throws the oldest item away
  (`:375`) before the size is checked (`:392`); DMF_RingBuffer_Write asserts only that it is
  not larger (`:1446`).

* HashTable: for a buffer that is too short, DMF_HashTable_Read fails without telling the
  length that it needs (`LIB/Dmf_HashTable.c:1149`), against the comment at `:1119`. The
  callbacks of Find and Enumerate run under the Module lock, so they may call no Method.

## 7. What is not modelled, and the plan

Not modelled at all: hardware, HID, ACPI, registry, UEFI, USB, crash dump and sensor
Modules (I/O and formats); tracing, memory allocation, the memory, locking and string helpers
(no state of their own); device initialisation and the callback tables it fills; templates
and samples. `PROJECT.json` has each with its reason.

Abstracted inside the models: buffer contents (a buffer is a model value), IRQL and the
kind of lock (a section under a lock is one step), allocation failures other than those
that change what a caller sees, in-flight recording (`InFlightRecorder`), Live Kernel Dump,
the persistent mode of ScheduledTask (registry), the formatting of requests.

What comes next, in this order:

1. State an abstract specification of `BufferQueue` (a bag of owners) and of
   `ThreadedBufferQueue` (work that is done once), and show that the modules implement it.
2. Compose `DeviceInterfaceTarget` with `ContinuousRequestTarget` (streams that the close of
   the target stops), then `DeviceInterfaceMultipleTarget`.
