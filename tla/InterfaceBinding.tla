-------------------------- MODULE InterfaceBinding --------------------------
(***************************************************************************)
(* Interfaces between Modules: a Protocol Module and a Transport Module    *)
(* are bound by a DMFINTERFACE that both keep in their collection of       *)
(* bindings. Interface Methods run under a reference of the DMFINTERFACE.  *)
(* The Client binds and unbinds, and a Module that is destroyed unbinds    *)
(* what is still bound (Framework/DmfInterfaceInternal.c).                 *)
(*                                                                         *)
(* Each section under InterfaceBindingsLock or InterfaceLock is one step.  *)
(* Each Module has a thread that destroys it; its name stands for both.    *)
(*                                                                         *)
(* Assumed of the Client: it uses one thread to bind and unbind, binds no  *)
(* pair that is bound (the code asserts so), and neither uses a Module     *)
(* that is being destroyed nor destroys one that it is using.              *)
(***************************************************************************)
EXTENDS Naturals, FiniteSets

CONSTANTS Protocols, Transports,    \* Modules of each kind
          Interfaces,               \* DMF_INTERFACE_OBJECTs that can be allocated
          Users,                    \* threads that call Interface Methods
          Client,                   \* the thread that binds and unbinds
          None

InterfaceModules == Protocols \cup Transports
Threads == InterfaceModules \cup {Client}

ASSUME ModulesAssumption == /\ Protocols \cap Transports = {}
                            /\ Client \notin InterfaceModules
                            /\ None \notin InterfaceModules \cup Interfaces
                                        \cup (Protocols \X Transports)
ASSUME UsersAssumption == IsFiniteSet(Users)

VARIABLES
    interfaceState,     \* InterfaceState, "unallocated" before and "freed" after
    referenceCount,     \* ReferenceCount of each interface
    ends,               \* ProtocolModule and TransportModule of each interface
    bindings,           \* InterfaceBindings of each Module
    at,                 \* where each thread is
    pair,               \* the Protocol and the Transport it binds or unbinds
    held,               \* the interface its local dmfInterfaceObject points to
    using               \* the interface whose Method each user runs

vars == <<interfaceState, referenceCount, ends, bindings, at, pair, held, using>>

InterfaceStates == {"unallocated", "Created", "Opening", "Opened", "Closing", "Closed", "freed"}

At == {"idle", "addProtocol", "addTransport", "rollback", "setOpening", "bind",
       "setOpened", "findTransport", "findProtocol", "preUnbind", "rundown",
       "unbind", "close", "delete", "first", "read", "destroyed"}

Pairs == Protocols \X Transports

TypeOK ==
    /\ interfaceState \in [Interfaces -> InterfaceStates]
    /\ referenceCount \in [Interfaces -> Nat]
    /\ ends \in [Interfaces -> Pairs \cup {None}]
    /\ bindings \in [InterfaceModules -> SUBSET Interfaces]
    /\ at \in [Threads -> At]
    /\ pair \in [Threads -> Pairs \cup {None}]
    /\ held \in [Threads -> Interfaces \cup {None}]
    /\ using \in [Users -> Interfaces \cup {None}]

Init ==
    /\ interfaceState = [i \in Interfaces |-> "unallocated"]
    /\ referenceCount = [i \in Interfaces |-> 0]
    /\ ends = [i \in Interfaces |-> None]
    /\ bindings = [m \in InterfaceModules |-> {}]
    /\ at = [th \in Threads |-> "idle"]
    /\ pair = [th \in Threads |-> None]
    /\ held = [th \in Threads |-> None]
    /\ using = [u \in Users |-> None]

Alive(m) == at[m] = "idle"

\* DMF_ModuleInterfaceFind: the bindings of a Module with the other end.
Found(m, pr) == {i \in bindings[m] : ends[i] = pr}

Goto(th, label) == at' = [at EXCEPT ![th] = label]

SetState(i, s) == interfaceState' = [interfaceState EXCEPT ![i] = s]

-----------------------------------------------------------------------------
(* DMF_ModuleInterfaceBind. A failure to allocate leaves no trace.          *)

BindBegin(pr, i) ==
    /\ at[Client] = "idle"
    /\ Alive(pr[1]) /\ Alive(pr[2])
    /\ Found(pr[1], pr) = {} /\ Found(pr[2], pr) = {}
    /\ interfaceState[i] = "unallocated"
    /\ SetState(i, "Created")
    /\ ends' = [ends EXCEPT ![i] = pr]
    /\ Goto(Client, "addProtocol")
    /\ pair' = [pair EXCEPT ![Client] = pr]
    /\ held' = [held EXCEPT ![Client] = i]
    /\ UNCHANGED <<referenceCount, bindings, using>>

AddToProtocol ==
    /\ at[Client] = "addProtocol"
    /\ \/ /\ bindings' = [bindings EXCEPT ![pair[Client][1]] = @ \cup {held[Client]}]
          /\ Goto(Client, "addTransport")
       \/ /\ Goto(Client, "idle")
          /\ UNCHANGED bindings
    /\ UNCHANGED <<interfaceState, referenceCount, ends, pair, held, using>>

AddToTransport ==
    /\ at[Client] = "addTransport"
    /\ \/ /\ bindings' = [bindings EXCEPT ![pair[Client][2]] = @ \cup {held[Client]}]
          /\ Goto(Client, "setOpening")
       \/ /\ Goto(Client, "rollback")
          /\ UNCHANGED bindings
    /\ UNCHANGED <<interfaceState, referenceCount, ends, pair, held, using>>

Rollback_Skipped ==                             \* mutant: leaves the half binding
    /\ at[Client] = "rollback"
    /\ Goto(Client, "idle")
    /\ UNCHANGED <<interfaceState, referenceCount, ends, bindings, pair, held, using>>

Rollback ==
    /\ at[Client] = "rollback"
    /\ bindings' = [bindings EXCEPT ![pair[Client][1]] = @ \ {held[Client]}]
    /\ Goto(Client, "idle")
    /\ UNCHANGED <<interfaceState, referenceCount, ends, pair, held, using>>

SetOpening ==
    /\ at[Client] = "setOpening"
    /\ SetState(held[Client], "Opening")
    /\ Goto(Client, "bind")
    /\ UNCHANGED <<referenceCount, ends, bindings, pair, held, using>>

\* The Protocol's Bind callback; when it fails the pair is unbound.
ProtocolBind ==
    /\ at[Client] = "bind"
    /\ \/ Goto(Client, "setOpened")
       \/ Goto(Client, "findTransport")
    /\ UNCHANGED <<interfaceState, referenceCount, ends, bindings, pair, held, using>>

\* The PostBind callbacks follow.
SetOpened ==
    /\ at[Client] = "setOpened"
    /\ SetState(held[Client], "Opened")
    /\ Goto(Client, "idle")
    /\ UNCHANGED <<referenceCount, ends, bindings, pair, held, using>>

Bind == \/ \E pr \in Pairs, i \in Interfaces : BindBegin(pr, i)
        \/ AddToProtocol \/ AddToTransport \/ Rollback \/ SetOpening
        \/ ProtocolBind \/ SetOpened

-----------------------------------------------------------------------------
(* DMF_InterfaceReference and DMF_InterfaceDereference. A user has the      *)
(* handle from the Bind callback until the Unbind callback has returned.    *)

Admits(i) == interfaceState[i] = "Opened"

InterfaceReference(u, i) ==
    /\ using[u] = None
    /\ Admits(i)
    /\ referenceCount' = [referenceCount EXCEPT ![i] = @ + 1]
    /\ using' = [using EXCEPT ![u] = i]
    /\ UNCHANGED <<interfaceState, ends, bindings, at, pair, held>>

InterfaceDereference_Twice(u) ==                \* mutant: may run again
    /\ using[u] # None
    /\ referenceCount' = [referenceCount EXCEPT ![using[u]] = @ - 1]
    /\ UNCHANGED <<interfaceState, ends, bindings, at, pair, held, using>>

InterfaceDereference(u) ==
    /\ using[u] # None
    /\ referenceCount' = [referenceCount EXCEPT ![using[u]] = @ - 1]
    /\ using' = [using EXCEPT ![u] = None]
    /\ UNCHANGED <<interfaceState, ends, bindings, at, pair, held>>

-----------------------------------------------------------------------------
(* DMF_ModuleInterfaceUnbind, run by the Client, by a Bind that fails and   *)
(* by a Module that is destroyed.                                           *)

Return_Once(th) == IF th = Client THEN "idle" ELSE "destroyed"      \* mutant: no loop

\* Where a thread returns to.
Return(th) == IF th = Client THEN "idle" ELSE "first"

ClientUnbind(pr) ==
    /\ at[Client] = "idle"
    /\ Alive(pr[1]) /\ Alive(pr[2])
    /\ pair' = [pair EXCEPT ![Client] = pr]
    /\ Goto(Client, "findTransport")
    /\ UNCHANGED <<interfaceState, referenceCount, ends, bindings, held, using>>

FindAndRemove_FindsOnly(th, m, i) ==            \* mutant: finds without removing
    i \in Found(m, pair[th]) /\ UNCHANGED bindings

\* DMF_ModuleInterfaceFindAndRemove finds an interface of the pair in m.
FindAndRemove(th, m, i) ==
    /\ i \in Found(m, pair[th])
    /\ bindings' = [bindings EXCEPT ![m] = @ \ {i}]

\* It finds none, when the other end's thread was here first.
FindsNone(th, m) ==
    /\ Found(m, pair[th]) = {}
    /\ Goto(th, Return(th))
    /\ UNCHANGED <<bindings, held>>

FindInTransport(th) ==
    /\ at[th] = "findTransport"
    /\ \/ \E i \in Interfaces : /\ FindAndRemove(th, pair[th][2], i)
                                /\ held' = [held EXCEPT ![th] = i]
                                /\ Goto(th, "findProtocol")
       \/ FindsNone(th, pair[th][2])
    /\ UNCHANGED <<interfaceState, referenceCount, ends, pair, using>>

FindInProtocol_Forgets(th) ==                   \* mutant: leaves the Protocol's entry
    /\ at[th] = "findProtocol"
    /\ Goto(th, "preUnbind")
    /\ UNCHANGED <<interfaceState, referenceCount, ends, bindings, pair, held, using>>

\* What it finds here is dmfInterfaceObjectTemp, and not used further.
FindInProtocol(th) ==
    /\ at[th] = "findProtocol"
    /\ \/ \E i \in Interfaces : /\ FindAndRemove(th, pair[th][1], i)
                                /\ Goto(th, "preUnbind")
                                /\ UNCHANGED held
       \/ FindsNone(th, pair[th][1])
    /\ UNCHANGED <<interfaceState, referenceCount, ends, pair, using>>

\* The PreUnbind callbacks, then the first section of
\* DMF_ModuleInterfaceWaitToClose.
BeginClosing(th) ==
    /\ at[th] = "preUnbind"
    /\ SetState(held[th], "Closing")
    /\ Goto(th, "rundown")
    /\ UNCHANGED <<referenceCount, ends, bindings, pair, held, using>>

IsRundown_OffByOne(i) == referenceCount[i] <= 1                     \* mutant

IsRundown(i) == referenceCount[i] = 0

\* Its polling loop ends.
Rundown(th) ==
    /\ at[th] = "rundown"
    /\ IsRundown(held[th])
    /\ Goto(th, "unbind")
    /\ UNCHANGED <<interfaceState, referenceCount, ends, bindings, pair, held, using>>

\* The Protocol's Unbind callback.
ProtocolUnbind(th) ==
    /\ at[th] = "unbind"
    /\ Goto(th, "close")
    /\ UNCHANGED <<interfaceState, referenceCount, ends, bindings, pair, held, using>>

\* DMF_ModuleInterfaceDestroy.
CloseInterface(th) ==
    /\ at[th] = "close"
    /\ SetState(held[th], "Closed")
    /\ Goto(th, "delete")
    /\ UNCHANGED <<referenceCount, ends, bindings, pair, held, using>>

DeleteInterface(th) ==
    /\ at[th] = "delete"
    /\ SetState(held[th], "freed")
    /\ Goto(th, Return(th))
    /\ UNCHANGED <<referenceCount, ends, bindings, pair, held, using>>

Unbind(th) == \/ FindInTransport(th) \/ FindInProtocol(th) \/ BeginClosing(th)
              \/ Rundown(th) \/ ProtocolUnbind(th) \/ CloseInterface(th)
              \/ DeleteInterface(th)

-----------------------------------------------------------------------------
(* DMF_ModuleInterfacesUnbind at the start of DMF_ModuleDestroy.            *)

DestroyBegin(m) ==
    /\ Alive(m)
    /\ at[Client] # "idle" => m \notin {pair[Client][1], pair[Client][2]}
    /\ Goto(m, "first")
    /\ UNCHANGED <<interfaceState, referenceCount, ends, bindings, pair, held, using>>

\* The first interface of the collection, in the order of no concern here.
TakeFirst(m) ==
    /\ at[m] = "first"
    /\ \/ \E i \in bindings[m] : /\ held' = [held EXCEPT ![m] = i]
                                 /\ Goto(m, "read")
       \/ /\ bindings[m] = {}
          /\ Goto(m, "destroyed")
          /\ UNCHANGED held
    /\ UNCHANGED <<interfaceState, referenceCount, ends, bindings, pair, using>>

\* The lock has been released: ProtocolModule and TransportModule are read
\* from the interface as it is now.
ReadEnds(m) ==
    /\ at[m] = "read"
    /\ pair' = [pair EXCEPT ![m] = ends[held[m]]]
    /\ Goto(m, "findTransport")
    /\ UNCHANGED <<interfaceState, referenceCount, ends, bindings, held, using>>

InterfacesUnbind(m) == DestroyBegin(m) \/ TakeFirst(m) \/ ReadEnds(m)

-----------------------------------------------------------------------------
Next == \/ Bind
        \/ \E pr \in Pairs : ClientUnbind(pr)
        \/ \E u \in Users, i \in Interfaces : InterfaceReference(u, i)
        \/ \E u \in Users : InterfaceDereference(u)
        \/ \E th \in Threads : Unbind(th)
        \/ \E m \in InterfaceModules : InterfacesUnbind(m)

SafeSpec == Init /\ [][Next]_vars

\* Callbacks and Methods return and threads in the framework keep running.
Fairness == /\ WF_vars(Bind /\ at[Client] # "idle")
            /\ \A u \in Users : WF_vars(InterfaceDereference(u))
            /\ \A th \in Threads : WF_vars(Unbind(th))
            /\ \A m \in InterfaceModules : WF_vars(TakeFirst(m) \/ ReadEnds(m))

Spec == SafeSpec /\ Fairness

-----------------------------------------------------------------------------
(* Properties.                                                              *)

Unbinding == {"preUnbind", "rundown", "unbind", "close", "delete"}

\* Whoever races to unbind a pair, one thread calls PreUnbind and Unbind of an
\* interface and frees it.
UnbindOnce ==
    \A i \in Interfaces :
        Cardinality({th \in Threads : at[th] \in Unbinding /\ held[th] = i}) <= 1

\* While an Interface Method runs, its interface is neither unbound nor freed,
\* and the count stands for exactly the Methods that run.
MethodsAreProtected ==
    \A i \in Interfaces :
        /\ referenceCount[i] = Cardinality({u \in Users : using[u] = i})
        /\ referenceCount[i] > 0 => interfaceState[i] \in {"Opened", "Closing"}
        /\ \A th \in Threads : at[th] \in {"unbind", "close", "delete"} /\ held[th] = i
                                  => referenceCount[i] = 0

\* An interface is in the collections of both its ends or of neither, but for
\* the moment in which one thread is between the two, and while it is in one
\* no other thread is on its way to free it: it can still be unbound.
BoundAtBothEnds ==
    /\ \A i \in Interfaces : ends[i] # None =>
          \/ i \in bindings[ends[i][1]] <=> i \in bindings[ends[i][2]]
          \/ \E th \in Threads : /\ held[th] = i
                                 /\ at[th] \in {"addTransport", "rollback", "findProtocol"}
    /\ \A m \in InterfaceModules : \A i \in bindings[m] :
          /\ ends[i] # None /\ m \in {ends[i][1], ends[i][2]}
          /\ interfaceState[i] \in {"Created", "Opening", "Opened"}

\* "Unbind all interface bindings of this Module"
\* (DmfInterfaceInternal.c:1125): when a Module is destroyed, its interfaces
\* are unbound, or the Module on the other end, which is being destroyed at
\* the same time, has taken that over.
DestroyedIsUnbound ==
    \A m \in InterfaceModules : at[m] = "destroyed" =>
        \A i \in Interfaces : ends[i] # None /\ m \in {ends[i][1], ends[i][2]} =>
            \/ interfaceState[i] \in {"Created", "Closed", "freed"}
            \/ \E n \in InterfaceModules : at[n] \in Unbinding \cup {"findProtocol"} /\ held[n] = i

\* DmfAssert(dmfInterfaceObject == dmfInterfaceObjectTemp)
\* (DmfInterfaceInternal.c:1058): the second search finds what the first did.
FindsTheSame ==
    \A th \in Threads : at[th] = "findProtocol" =>
        Found(pair[th][1], pair[th]) \subseteq {held[th]}

\* A binding is made and undone at both of its ends.
BindingsAreMutual == BoundAtBothEnds /\ DestroyedIsUnbound /\ FindsTheSame

\* The DmfAssert of DmfInterfaceInternal.c:1142 reads the interface that
\* the thread took from the collection: it exists.
ReadsLiveInterface ==
    \A m \in InterfaceModules : at[m] = "read" => interfaceState[held[m]] # "freed"

\* Destroying a Module ends, whatever else is destroyed at the same time.
DestroyEnds == \A m \in InterfaceModules : at[m] = "first" ~> at[m] = "destroyed"
=============================================================================
