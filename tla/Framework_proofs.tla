-------------------------- MODULE Framework_proofs --------------------------
(***************************************************************************)
(* The framework around the Modules.                                       *)
(*                                                                         *)
(* First the interfaces between Modules: one is bound at both ends,        *)
(* protected by its count and unbound once, however many Modules are bound *)
(* to one another and destroyed at the same time.                          *)
(*                                                                         *)
(* Then the collection of a device: whatever the trees of its Modules and  *)
(* their open options, and in whatever order WDF's callbacks come, what is *)
(* open is what the state of the device allows and needs, and a Parent is  *)
(* open over open Children.                                                *)
(***************************************************************************)
EXTENDS InterfaceBinding, DeviceCollection, FiniteSetTheorems, SequenceTheorems, TLAPS

Making == {"addProtocol", "addTransport", "rollback", "setOpening", "bind", "setOpened"}
Finding == {"findTransport", "findProtocol"}

\* The thread that takes the interface through one of its transitions.
Owns(th, i) == held[th] = i /\ at[th] \in Making \cup {"findProtocol"} \cup Unbinding

\* Some collection has the interface.
Listed(i) == i \in bindings[ends[i][1]] \/ i \in bindings[ends[i][2]]

PlacesInv ==
    /\ \A th \in Threads : at[th] \in Making => th = Client
    /\ at[Client] \notin {"first", "read", "destroyed"}

\* A collection has interfaces of its own Module that are not being closed.
ListsInv ==
    \A m \in InterfaceModules : \A i \in bindings[m] :
        /\ ends[i] # None /\ m \in {ends[i][1], ends[i][2]}
        /\ interfaceState[i] \in {"Created", "Opening", "Opened"}

EndsInv == \A i \in Interfaces : ends[i] = None <=> interfaceState[i] = "unallocated"

MutualInv ==
    \A i \in Interfaces : ends[i] # None =>
        \/ i \in bindings[ends[i][1]] <=> i \in bindings[ends[i][2]]
        \/ \E th \in Threads : /\ held[th] = i
                               /\ at[th] \in {"addTransport", "rollback", "findProtocol"}

\* A pair is bound once, so that what is found by its ends is what was meant.
UniqueInv ==
    \A i, j \in Interfaces :
        ends[i] # None /\ ends[i] = ends[j] /\ Listed(i) /\ Listed(j) => i = j

OwnerInv ==
    \A th1, th2 \in Threads : \A i \in Interfaces : Owns(th1, i) /\ Owns(th2, i) => th1 = th2

\* Nobody destroys a Module that the Client is using.
ClientInv ==
    /\ at[Client] # "idle" =>
         /\ pair[Client] \in Pairs
         /\ Alive(pair[Client][1]) /\ Alive(pair[Client][2])
    /\ at[Client] \in Making => held[Client] \in Interfaces /\ ends[held[Client]] = pair[Client]
    /\ at[Client] = "addProtocol" =>
         /\ interfaceState[held[Client]] = "Created"
         /\ \A j \in Interfaces : ends[j] = pair[Client] => ~Listed(j)
    /\ at[Client] \in {"addTransport", "rollback"} =>
         /\ interfaceState[held[Client]] = "Created"
         /\ held[Client] \in bindings[pair[Client][1]]
         /\ held[Client] \notin bindings[pair[Client][2]]
    /\ at[Client] \in {"setOpening", "bind", "setOpened"} =>
         /\ interfaceState[held[Client]] =
               IF at[Client] = "setOpening" THEN "Created" ELSE "Opening"
         /\ held[Client] \in bindings[pair[Client][1]]
         /\ held[Client] \in bindings[pair[Client][2]]

\* An interface that was never opened is listed only while the Client binds it.
CreatedInv ==
    \A i \in Interfaces : interfaceState[i] = "Created" /\ ends[i] # None /\ Listed(i) =>
        held[Client] = i /\ at[Client] \in {"addTransport", "rollback", "setOpening"}

\* A thread unbinds a pair that it is part of, and reads ends of its own.
PairInv ==
    \A th \in Threads :
        /\ at[th] \in Finding \cup Unbinding => pair[th] \in Pairs
        /\ th # Client /\ at[th] \in Finding \cup Unbinding => th \in {pair[th][1], pair[th][2]}
        /\ at[th] = "read" =>
             /\ held[th] \in Interfaces /\ ends[held[th]] # None
             /\ th \in {ends[held[th]][1], ends[held[th]][2]}

\* It has the pair's interface in hand, taken from one collection, then from both.
HandInv ==
    \A th \in Threads :
        /\ at[th] \in {"findProtocol"} \cup Unbinding =>
             /\ held[th] \in Interfaces /\ ends[held[th]] = pair[th]
             /\ held[th] \notin bindings[pair[th][2]]
             /\ (held[th] \in bindings[pair[th][1]]) <=> (at[th] = "findProtocol")
        /\ at[th] = "destroyed" => bindings[th] = {}

\* What has become of the interface at each place.
CloseInv ==
    \A th \in Threads :
        /\ at[th] \in {"findProtocol", "preUnbind"} =>
             interfaceState[held[th]] \in {"Opening", "Opened"}
        /\ at[th] \in {"rundown", "unbind", "close"} => interfaceState[held[th]] = "Closing"
        /\ at[th] = "delete" => interfaceState[held[th]] = "Closed"
        /\ at[th] \in {"unbind", "close", "delete"} => referenceCount[held[th]] = 0

\* An interface that is open is listed, or somebody is unbinding it.
OpenInv ==
    \A i \in Interfaces :
        /\ interfaceState[i] \in {"Opening", "Opened"} =>
             Listed(i) \/ \E th \in Threads : held[th] = i /\ at[th] = "preUnbind"
        /\ interfaceState[i] = "Closing" =>
             \E th \in Threads : held[th] = i /\ at[th] \in {"rundown", "unbind", "close"}

CountInv ==
    \A i \in Interfaces :
        /\ referenceCount[i] = Cardinality({u \in Users : using[u] = i})
        /\ referenceCount[i] > 0 => interfaceState[i] \in {"Opened", "Closing"}

Inv == /\ TypeOK /\ PlacesInv /\ ListsInv /\ EndsInv /\ MutualInv /\ UniqueInv /\ OwnerInv
       /\ ClientInv /\ CreatedInv /\ PairInv /\ HandInv /\ CloseInv /\ OpenInv /\ CountInv
-----------------------------------------------------------------------------
\* The users that run a Method of an interface.
UsersOf(i) == {u \in Users : using[u] = i}

-----------------------------------------------------------------------------
\* An end of a pair is a Module, and the ends differ.
LEMMA ThreadsAndPairs ==
    /\ Threads = InterfaceModules \cup {Client} /\ Client \notin InterfaceModules
    /\ \A pr \in Pairs : /\ pr # None /\ pr[1] \in InterfaceModules /\ pr[2] \in InterfaceModules
                        /\ pr[1] # pr[2]
BY ModulesAssumption DEF InterfaceModules, Threads, Pairs

\* Nothing is bound, in use or held at first.
LEMMA InitEstablishes == Init => Inv
<1> SUFFICES ASSUME Init PROVE Inv
  OBVIOUS
<1> USE ThreadsAndPairs DEF Init
<1>1. TypeOK
  BY DEF TypeOK, InterfaceStates, At
<1>2. CountInv
  <2>1. \A i \in Interfaces : UsersOf(i) = {}
    BY ModulesAssumption DEF UsersOf
  <2>2. \A i \in Interfaces : Cardinality(UsersOf(i)) = 0
    BY <2>1, FS_EmptySet
  <2> QED
    BY <2>2 DEF CountInv, UsersOf
<1>3. ListsInv /\ EndsInv /\ MutualInv /\ UniqueInv /\ CreatedInv /\ OpenInv
  BY DEF ListsInv, EndsInv, MutualInv, UniqueInv, CreatedInv, OpenInv
<1>4. PlacesInv /\ OwnerInv /\ ClientInv /\ PairInv /\ HandInv /\ CloseInv
  BY DEF PlacesInv, OwnerInv, Owns, ClientInv, PairInv, HandInv, CloseInv, Making, Finding,
         Unbinding
<1> QED
  BY <1>1, <1>2, <1>3, <1>4 DEF Inv

-----------------------------------------------------------------------------
(* The Client binds.                                                        *)

\* A fresh interface has no owner and is in no collection; the Client has
\* checked that the pair has no other.
LEMMA BindBeginPreserves ==
    ASSUME Inv, NEW pr \in Pairs, NEW i \in Interfaces, BindBegin(pr, i)
    PROVE  Inv'
<1> USE ThreadsAndPairs DEF Inv, Goto, SetState
<1>1. TypeOK'
  BY DEF BindBegin, TypeOK, InterfaceStates, At
<1>2. ListsInv' /\ EndsInv' /\ UniqueInv'
  BY DEF BindBegin, Found, ListsInv, TypeOK, EndsInv, UniqueInv, Listed
<1>3. MutualInv'
  BY DEF BindBegin, ListsInv, MutualInv
<1>4. OpenInv'
  BY DEF BindBegin, OpenInv, Listed
<1>5. CreatedInv'
  BY DEF BindBegin, TypeOK, ListsInv, CreatedInv, Listed
<1>6. CountInv'
  BY DEF BindBegin, Found, CountInv
<1>7. PlacesInv' /\ CloseInv'
  BY DEF BindBegin, PlacesInv, CloseInv
<1>8. ClientInv'
  BY DEF BindBegin, Found, TypeOK, ListsInv, ClientInv, Alive, Listed
<1>9. PairInv'
  BY DEF BindBegin, EndsInv, PairInv, Finding, Unbinding
<1>10. HandInv'
  BY DEF BindBegin, HandInv, CloseInv, Unbinding
<1>11. OwnerInv'
  BY DEF BindBegin, TypeOK, PlacesInv, OwnerInv, CloseInv, Owns, Unbinding
<1> QED
  BY <1>1, <1>2, <1>3, <1>4, <1>5, <1>6, <1>7, <1>8, <1>9, <1>10, <1>11

\* The Client owns the interface that it puts into the collection, so no
\* thread that unbinds has the same one in hand.
LEMMA AddToProtocolPreserves ==
    ASSUME Inv, AddToProtocol
    PROVE  Inv'
<1> USE ThreadsAndPairs DEF Inv, Goto, SetState
<1>1. TypeOK'
  BY DEF AddToProtocol, TypeOK, ClientInv, At, Making
<1>2. EndsInv' /\ MutualInv'
  BY DEF AddToProtocol, EndsInv, TypeOK, MutualInv
<1>3. ListsInv'
  BY DEF AddToProtocol, TypeOK, ListsInv, ClientInv, Making
<1>4. UniqueInv'
  BY DEF AddToProtocol, TypeOK, UniqueInv, ClientInv, Listed, Making
<1>5. CreatedInv'
  BY DEF AddToProtocol, TypeOK, CreatedInv, Listed
<1>6. OpenInv'
  BY DEF AddToProtocol, TypeOK, EndsInv, OpenInv, Listed
<1>7. CountInv'
  BY DEF AddToProtocol, CountInv
<1>8. PlacesInv' /\ ClientInv' /\ PairInv' /\ CloseInv'
  BY DEF AddToProtocol, TypeOK, PlacesInv, ClientInv, PairInv, CloseInv, Making, Alive,
         Listed, Finding, Unbinding
<1>9. HandInv'
  <2>1. ASSUME NEW th \in Threads, at'[th] \in {"findProtocol"} \cup Unbinding
        PROVE  at'[th] = at[th] /\ held[th] # held[Client]
    BY <2>1 DEF AddToProtocol, TypeOK, OwnerInv, Owns, ClientInv, Making, Unbinding
  <2>2. \A m \in InterfaceModules : \A j \in Interfaces :
          j # held[Client] => (j \in bindings'[m] <=> j \in bindings[m])
    BY DEF AddToProtocol, TypeOK
  <2>3. ASSUME NEW th \in Threads, at'[th] = "destroyed" PROVE bindings'[th] = {}
    <3>1. at[th] = "destroyed" /\ th # Client /\ th # pair[Client][1] /\ th # pair[Client][2]
      BY <2>3 DEF AddToProtocol, TypeOK, PlacesInv, ClientInv, Alive
    <3> QED
      BY <3>1 DEF AddToProtocol, TypeOK, HandInv
  <2>4. ASSUME NEW th \in Threads, at'[th] \in {"findProtocol"} \cup Unbinding
        PROVE  /\ held'[th] \in Interfaces /\ ends'[held'[th]] = pair'[th]
               /\ held'[th] \notin bindings'[pair'[th][2]]
               /\ held'[th] \in bindings'[pair'[th][1]] <=> at'[th] = "findProtocol"
    <3>1. at[th] \in {"findProtocol"} \cup Unbinding /\ at'[th] = at[th] /\ held[th] # held[Client]
      BY <2>1, <2>4
    <3>2. pair[th] \in Pairs
      BY <3>1 DEF PairInv, Finding
    <3> QED
      BY <3>1, <3>2, <2>2 DEF AddToProtocol, HandInv
  <2> QED
    BY <2>3, <2>4 DEF HandInv, Unbinding
<1>10. OwnerInv'
  BY DEF AddToProtocol, TypeOK, OwnerInv, Owns, Making
<1> QED
  BY <1>1, <1>2, <1>3, <1>4, <1>5, <1>6, <1>7, <1>8, <1>9, <1>10

\* The same at the other end.
LEMMA AddToTransportPreserves ==
    ASSUME Inv, AddToTransport
    PROVE  Inv'
<1> USE ThreadsAndPairs DEF Inv, Goto, SetState
<1>1. TypeOK'
  BY DEF AddToTransport, TypeOK, ClientInv, At
<1>2. EndsInv'
  BY DEF AddToTransport, EndsInv
<1>3. ListsInv'
  BY DEF AddToTransport, TypeOK, ListsInv, ClientInv, Making
<1>4. MutualInv'
  BY DEF AddToTransport, TypeOK, MutualInv, ClientInv, Making
<1>5. UniqueInv'
  BY DEF AddToTransport, TypeOK, UniqueInv, ClientInv, Listed, Making
<1>6. CreatedInv'
  BY DEF AddToTransport, TypeOK, CreatedInv, Listed
<1>7. OpenInv'
  BY DEF AddToTransport, TypeOK, EndsInv, OpenInv, Listed
<1>8. CountInv'
  BY DEF AddToTransport, CountInv
<1>9. PlacesInv' /\ ClientInv' /\ PairInv' /\ CloseInv'
  BY DEF AddToTransport, TypeOK, PlacesInv, ClientInv, PairInv, CloseInv, Making, Alive,
         Finding, Unbinding
<1>10. HandInv'
  <2>1. ASSUME NEW th \in Threads, at'[th] \in {"findProtocol"} \cup Unbinding
        PROVE  at'[th] = at[th] /\ held[th] # held[Client]
    BY <2>1 DEF AddToTransport, TypeOK, OwnerInv, Owns, ClientInv, Making, Unbinding
  <2>2. \A m \in InterfaceModules : \A j \in Interfaces :
          j # held[Client] => (j \in bindings'[m] <=> j \in bindings[m])
    BY DEF AddToTransport, TypeOK
  <2>3. ASSUME NEW th \in Threads, at'[th] = "destroyed" PROVE bindings'[th] = {}
    <3>1. at[th] = "destroyed" /\ th # Client /\ th # pair[Client][1] /\ th # pair[Client][2]
      BY <2>3 DEF AddToTransport, TypeOK, PlacesInv, ClientInv, Alive
    <3> QED
      BY <3>1 DEF AddToTransport, TypeOK, HandInv
  <2>4. ASSUME NEW th \in Threads, at'[th] \in {"findProtocol"} \cup Unbinding
        PROVE  /\ held'[th] \in Interfaces /\ ends'[held'[th]] = pair'[th]
               /\ held'[th] \notin bindings'[pair'[th][2]]
               /\ held'[th] \in bindings'[pair'[th][1]] <=> at'[th] = "findProtocol"
    <3>1. at[th] \in {"findProtocol"} \cup Unbinding /\ at'[th] = at[th] /\ held[th] # held[Client]
      BY <2>1, <2>4
    <3>2. pair[th] \in Pairs
      BY <3>1 DEF PairInv, Finding
    <3> QED
      BY <3>1, <3>2, <2>2 DEF AddToTransport, HandInv
  <2> QED
    BY <2>3, <2>4 DEF HandInv, Unbinding
<1>11. OwnerInv'
  BY DEF AddToTransport, TypeOK, OwnerInv, Owns, Making
<1> QED
  BY <1>1, <1>2, <1>3, <1>4, <1>5, <1>6, <1>7, <1>8, <1>9, <1>10, <1>11

\* The half binding is undone before anybody could find it.
LEMMA RollbackPreserves ==
    ASSUME Inv, Rollback
    PROVE  Inv'
<1> USE ThreadsAndPairs DEF Inv, Goto, SetState
<1>1. TypeOK'
  BY DEF Rollback, TypeOK, ClientInv, Alive
<1>2. ListsInv' /\ EndsInv' /\ UniqueInv'
  BY DEF Rollback, ListsInv, EndsInv, UniqueInv, Listed
<1>3. MutualInv'
  BY DEF Rollback, TypeOK, MutualInv, ClientInv, Making
<1>4. CreatedInv'
  BY DEF Rollback, TypeOK, CreatedInv, ClientInv, Listed, Making
<1>5. OpenInv'
  BY DEF Rollback, OpenInv, ClientInv, Listed
<1>6. CountInv'
  BY DEF Rollback, CountInv
<1>7. PlacesInv' /\ ClientInv' /\ PairInv' /\ CloseInv'
  BY DEF Rollback, PlacesInv, TypeOK, ClientInv, PairInv, CloseInv, Making, Finding,
         Unbinding
<1>8. HandInv'
  <2>1. ASSUME NEW th \in Threads, at'[th] \in {"findProtocol"} \cup Unbinding
        PROVE  at'[th] = at[th] /\ held[th] # held[Client]
    BY <2>1 DEF Rollback, TypeOK, OwnerInv, Owns, ClientInv, Making, Unbinding
  <2>2. \A m \in InterfaceModules : \A j \in Interfaces :
          j # held[Client] => (j \in bindings'[m] <=> j \in bindings[m])
    BY DEF Rollback, TypeOK
  <2>3. ASSUME NEW th \in Threads, at'[th] = "destroyed" PROVE bindings'[th] = {}
    BY <2>3 DEF Rollback, TypeOK, HandInv, PlacesInv, ClientInv, Alive
  <2>4. ASSUME NEW th \in Threads, at'[th] \in {"findProtocol"} \cup Unbinding
        PROVE  /\ held'[th] \in Interfaces /\ ends'[held'[th]] = pair'[th]
               /\ held'[th] \notin bindings'[pair'[th][2]]
               /\ held'[th] \in bindings'[pair'[th][1]] <=> at'[th] = "findProtocol"
    <3>1. pair[th] \in Pairs
      BY <2>1, <2>4 DEF PairInv, Finding
    <3> QED
      BY <2>1, <2>2, <2>4, <3>1 DEF Rollback, HandInv
  <2> QED
    BY <2>3, <2>4 DEF HandInv, Unbinding
<1>9. OwnerInv'
  BY DEF Rollback, OwnerInv, Owns, Making
<1> QED
  BY <1>1, <1>2, <1>3, <1>4, <1>5, <1>6, <1>7, <1>8, <1>9

\* Nobody else owns the interface whose state it changes.
LEMMA SetOpeningPreserves ==
    ASSUME Inv, SetOpening
    PROVE  Inv'
<1> USE ThreadsAndPairs DEF Inv, Goto, SetState
<1>1. TypeOK'
  BY DEF SetOpening, TypeOK, ClientInv, InterfaceStates, At
<1>2. ListsInv' /\ MutualInv' /\ UniqueInv'
  BY DEF SetOpening, ListsInv, MutualInv, UniqueInv, Listed
<1>3. EndsInv'
  BY DEF SetOpening, EndsInv, ClientInv
<1>4. CreatedInv'
  BY DEF SetOpening, TypeOK, CreatedInv, Listed
<1>5. OpenInv'
  BY DEF SetOpening, OpenInv, ClientInv, Listed, Making
<1>6. CountInv'
  BY DEF SetOpening, ClientInv, HandInv, OpenInv, CountInv, Listed
<1>7. PlacesInv' /\ ClientInv' /\ PairInv' /\ HandInv'
  BY DEF SetOpening, PlacesInv, TypeOK, ClientInv, PairInv, HandInv, Making, Alive, Finding,
         Unbinding
<1>8. CloseInv'
  BY DEF SetOpening, CloseInv, ClientInv
<1>9. OwnerInv'
  BY DEF SetOpening, OwnerInv, Owns, Making
<1> QED
  BY <1>1, <1>2, <1>3, <1>4, <1>5, <1>6, <1>7, <1>8, <1>9

\* Whether the callback succeeds or not, nothing but the place changes.
LEMMA ProtocolBindPreserves ==
    ASSUME Inv, ProtocolBind
    PROVE  Inv'
<1> USE ThreadsAndPairs DEF Inv, Goto, SetState
<1>1. TypeOK'
  BY DEF ProtocolBind, TypeOK, At
<1>2. ListsInv' /\ EndsInv' /\ MutualInv' /\ UniqueInv'
  BY DEF ProtocolBind, ListsInv, EndsInv, TypeOK, MutualInv, UniqueInv, Listed
<1>3. CreatedInv' /\ OpenInv'
  BY DEF ProtocolBind, CreatedInv, TypeOK, OpenInv, Listed
<1>4. CountInv'
  BY DEF ProtocolBind, CountInv
<1>5. PlacesInv' /\ ClientInv' /\ HandInv' /\ CloseInv'
  BY DEF ProtocolBind, TypeOK, PlacesInv, ClientInv, HandInv, CloseInv, Making, Alive,
         Unbinding
<1>6. PairInv'
  BY DEF ProtocolBind, TypeOK, PairInv, ClientInv
<1>7. OwnerInv'
  BY DEF ProtocolBind, TypeOK, OwnerInv, Owns, Making
<1> QED
  BY <1>1, <1>2, <1>3, <1>4, <1>5, <1>6, <1>7

\* Nobody else owns the interface whose state it changes.
LEMMA SetOpenedPreserves ==
    ASSUME Inv, SetOpened
    PROVE  Inv'
<1> USE ThreadsAndPairs DEF Inv, Goto, SetState
<1>1. TypeOK'
  BY DEF SetOpened, TypeOK, ClientInv, InterfaceStates, Alive
<1>2. ListsInv' /\ MutualInv' /\ UniqueInv'
  BY DEF SetOpened, ListsInv, MutualInv, UniqueInv, Listed
<1>3. EndsInv'
  BY DEF SetOpened, EndsInv, ClientInv
<1>4. CreatedInv'
  BY DEF SetOpened, CreatedInv, Listed
<1>5. OpenInv'
  BY DEF SetOpened, OpenInv, ClientInv, Listed
<1>6. CountInv'
  BY DEF SetOpened, CountInv
<1>7. PlacesInv' /\ ClientInv' /\ PairInv' /\ HandInv'
  BY DEF SetOpened, PlacesInv, TypeOK, ClientInv, PairInv, HandInv, Making, Finding,
         Unbinding
<1>8. CloseInv'
  BY DEF SetOpened, CloseInv, ClientInv
<1>9. OwnerInv'
  BY DEF SetOpened, OwnerInv, Owns, Making
<1> QED
  BY <1>1, <1>2, <1>3, <1>4, <1>5, <1>6, <1>7, <1>8, <1>9

-----------------------------------------------------------------------------
(* Interface Methods run.                                                   *)

\* The users of an interface are a finite set, which one user joins or leaves.
LEMMA InterfaceReferencePreserves ==
    ASSUME Inv, NEW u \in Users, NEW i \in Interfaces, InterfaceReference(u, i)
    PROVE  Inv'
<1> USE ThreadsAndPairs DEF Inv, InterfaceReference, Admits
<1>1. CountInv'
  <2>1. UsersOf(i)' = UsersOf(i) \cup {u} /\ u \notin UsersOf(i)
    BY ModulesAssumption DEF TypeOK, UsersOf
  <2>2. \A j \in Interfaces : j # i => UsersOf(j)' = UsersOf(j)
    BY ModulesAssumption DEF TypeOK, UsersOf
  <2>3. IsFiniteSet(UsersOf(i))
    BY UsersAssumption, FS_Subset DEF UsersOf
  <2>4. Cardinality(UsersOf(i)') = Cardinality(UsersOf(i)) + 1
    BY <2>1, <2>3, FS_AddElement
  <2>5. \A j \in Interfaces : referenceCount[j] = Cardinality(UsersOf(j))
    BY DEF CountInv, UsersOf
  <2>6. \A j \in Interfaces : referenceCount'[j] = Cardinality(UsersOf(j)')
    BY <2>2, <2>4, <2>5 DEF TypeOK
  <2>7. \A j \in Interfaces : referenceCount'[j] > 0 => interfaceState'[j] \in {"Opened", "Closing"}
    BY DEF CountInv, TypeOK
  <2> QED
    BY <2>6, <2>7 DEF CountInv, UsersOf
<1>2. CloseInv'
  BY DEF CloseInv, TypeOK, HandInv, Unbinding
<1>3. TypeOK'
  BY DEF TypeOK
<1> QED
  BY <1>1, <1>2, <1>3 DEF PlacesInv, ListsInv, EndsInv, MutualInv, UniqueInv, OwnerInv,
        ClientInv, CreatedInv, PairInv, HandInv, OpenInv, Owns, Listed, Alive

\* A Method that leaves takes one off the count, and one user off the interface.
LEMMA InterfaceDereferencePreserves ==
    ASSUME Inv, NEW u \in Users, InterfaceDereference(u)
    PROVE  Inv'
<1> USE ThreadsAndPairs DEF Inv, InterfaceDereference
<1>1. PICK i \in Interfaces : using[u] = i
  BY DEF TypeOK
<1>2. UsersOf(i)' = UsersOf(i) \ {u} /\ u \in UsersOf(i)
  BY <1>1, ModulesAssumption DEF TypeOK, UsersOf
<1>3. IsFiniteSet(UsersOf(i))
  BY UsersAssumption, FS_Subset DEF UsersOf
<1>4. \A j \in Interfaces : referenceCount[j] = Cardinality(UsersOf(j))
  BY DEF CountInv, UsersOf
<1>5. Cardinality(UsersOf(i)') = referenceCount[i] - 1 /\ Cardinality(UsersOf(i)') \in Nat
  <2>1. /\ IsFiniteSet(UsersOf(i) \ {u})
        /\ Cardinality(UsersOf(i) \ {u}) = Cardinality(UsersOf(i)) - 1
    BY <1>2, <1>3, FS_RemoveElement
  <2>2. Cardinality(UsersOf(i) \ {u}) \in Nat
    BY <2>1, FS_CardinalityType
  <2> QED
    BY <1>2, <1>4, <2>1, <2>2
<1>6. CountInv'
  <2>1. \A j \in Interfaces : j # i => UsersOf(j)' = UsersOf(j)
    BY <1>1, ModulesAssumption DEF TypeOK, UsersOf
  <2>2. referenceCount[i] \in Nat /\ \A j \in Interfaces : referenceCount'[j] =
            IF j = i THEN referenceCount[i] - 1 ELSE referenceCount[j]
    BY <1>1 DEF TypeOK
  <2>3. \A j \in Interfaces : referenceCount'[j] = Cardinality(UsersOf(j)')
    BY <1>4, <1>5, <2>1, <2>2
  <2>4. \A j \in Interfaces : referenceCount[j] > 0 => interfaceState[j] \in {"Opened", "Closing"}
    BY DEF CountInv
  <2>5. \A j \in Interfaces : referenceCount'[j] > 0 => referenceCount[j] > 0
    BY <2>2
  <2> QED
    BY <2>3, <2>4, <2>5 DEF CountInv, UsersOf
<1>7. CloseInv'
  BY <1>1, <1>4, <1>5 DEF CloseInv, TypeOK, HandInv, Unbinding
<1>8. TypeOK'
  BY <1>1, <1>4, <1>5 DEF TypeOK
<1> QED
  BY <1>6, <1>7, <1>8 DEF PlacesInv, ListsInv, EndsInv, MutualInv, UniqueInv, OwnerInv,
        ClientInv, CreatedInv, PairInv, HandInv, OpenInv, Owns, Listed, Alive

-----------------------------------------------------------------------------
(* A thread unbinds a pair.                                                 *)

\* The Client starts with Modules that nobody destroys.
LEMMA ClientUnbindPreserves ==
    ASSUME Inv, NEW pr \in Pairs, ClientUnbind(pr)
    PROVE  Inv'
<1> USE ThreadsAndPairs DEF Inv, Goto, SetState
<1>1. TypeOK'
  BY DEF ClientUnbind, TypeOK, At
<1>2. ListsInv' /\ EndsInv' /\ MutualInv' /\ UniqueInv'
  BY DEF ClientUnbind, ListsInv, EndsInv, MutualInv, UniqueInv, Listed
<1>3. CreatedInv' /\ OpenInv'
  BY DEF ClientUnbind, CreatedInv, OpenInv, Listed
<1>4. CountInv'
  BY DEF ClientUnbind, CountInv
<1>5. PlacesInv' /\ ClientInv' /\ PairInv' /\ HandInv' /\ CloseInv'
  BY DEF ClientUnbind, PlacesInv, TypeOK, ClientInv, PairInv, HandInv, CloseInv, Making,
         Alive, Unbinding
<1>6. OwnerInv'
  BY DEF ClientUnbind, OwnerInv, Owns, Making, Unbinding
<1> QED
  BY <1>1, <1>2, <1>3, <1>4, <1>5, <1>6

\* What it finds is in the other collection too, and nobody owns it: a Client
\* that did would have this thread's Module in use.
LEMMA FindInTransportPreserves ==
    ASSUME Inv, NEW th \in Threads, FindInTransport(th)
    PROVE  Inv'
<1> USE ThreadsAndPairs DEF Inv, Goto, SetState
<1>1. TypeOK'
  BY DEF FindInTransport, FindAndRemove, FindsNone, Found, Return, TypeOK, PairInv, At, Finding
<1>2. ListsInv' /\ EndsInv' /\ UniqueInv'
  <2>1. \A m \in InterfaceModules : bindings'[m] \subseteq bindings[m]
    BY DEF FindInTransport, FindAndRemove, FindsNone, TypeOK
  <2>2. ListsInv' /\ EndsInv'
    BY <2>1 DEF FindInTransport, ListsInv, EndsInv
  <2>3. \A i \in Interfaces : ends[i] # None /\ Listed(i)' => Listed(i)
    BY <2>1 DEF FindInTransport, TypeOK, Listed
  <2> QED
    BY <2>2, <2>3 DEF FindInTransport, UniqueInv
<1>3. MutualInv'
  BY DEF FindInTransport, FindAndRemove, FindsNone, TypeOK, MutualInv
<1>4. CreatedInv'
  BY DEF FindInTransport, FindAndRemove, FindsNone, TypeOK, CreatedInv, Listed
<1>5. OpenInv'
  BY DEF FindInTransport, FindAndRemove, FindsNone, Found, TypeOK, PlacesInv, EndsInv,
         MutualInv, ClientInv, HandInv, OpenInv, Listed, Making
<1>6. CountInv'
  BY DEF FindInTransport, FindAndRemove, FindsNone, CountInv
<1>7. PlacesInv' /\ PairInv'
  BY DEF FindInTransport, FindAndRemove, FindsNone, Return, TypeOK, PlacesInv, PairInv, Making,
         Finding
<1>8. ClientInv'
  BY DEF FindInTransport, FindAndRemove, FindsNone, Found, Return, TypeOK, ClientInv, PairInv,
         Making, Alive, Listed, Finding
<1>9. HandInv'
  <2>1. ASSUME NEW t \in Threads, t # th, at[t] \in {"findProtocol"} \cup Unbinding
        PROVE  \A m \in InterfaceModules : held[t] \in bindings'[m] <=> held[t] \in bindings[m]
    BY <2>1 DEF FindInTransport, FindAndRemove, FindsNone, Found, TypeOK, HandInv, PairInv,
           Finding, Unbinding
  <2>2. ASSUME NEW i \in Found(pair[th][2], pair[th]) PROVE i \in bindings[pair[th][1]]
    BY <2>2 DEF FindInTransport, Found, TypeOK, HandInv, PairInv, PlacesInv, ListsInv,
           MutualInv, ClientInv, Making, Finding, Unbinding, Alive
  <2>3. CASE FindsNone(th, pair[th][2])
    BY <2>3 DEF FindInTransport, FindsNone, Return, TypeOK, HandInv, Unbinding
  <2>4. ASSUME NEW i \in Interfaces, FindAndRemove(th, pair[th][2], i),
               Goto(th, "findProtocol"), held' = [held EXCEPT ![th] = i]
        PROVE  HandInv'
    BY <2>1, <2>2, <2>4 DEF FindInTransport, FindAndRemove, Found, TypeOK, HandInv, PairInv,
           Finding, Unbinding
  <2> QED
    BY <2>3, <2>4 DEF FindInTransport
<1>10. CloseInv'
  BY DEF FindInTransport, FindAndRemove, FindsNone, Found, Return, TypeOK, ListsInv, ClientInv,
         CreatedInv, PairInv, CloseInv, Alive, Listed, Making, Finding
<1>11. OwnerInv'
  BY DEF FindInTransport, FindAndRemove, FindsNone, Found, Return, TypeOK, OwnerInv, ClientInv,
         PlacesInv, HandInv, PairInv, Owns, Making, Unbinding, Alive, Finding
<1> QED
  BY <1>1, <1>2, <1>3, <1>4, <1>5, <1>6, <1>7, <1>8, <1>9, <1>10, <1>11

\* The interface it has in hand is there, and no other of the pair: one is bound at a time.
LEMMA FindsItAgain ==
    ASSUME Inv, NEW th \in Threads, at[th] = "findProtocol"
    PROVE  Found(pair[th][1], pair[th]) = {held[th]}
<1> USE ThreadsAndPairs DEF Inv
<1>1. held[th] \in Found(pair[th][1], pair[th])
  BY DEF HandInv, Found
<1>2. ASSUME NEW i \in Found(pair[th][1], pair[th]) PROVE i = held[th]
  BY <1>1 DEF HandInv, PairInv, TypeOK, Finding, Found, UniqueInv, Listed
<1> QED BY <1>1, <1>2

\* It takes from the other collection what it has in hand.
LEMMA FindInProtocolPreserves ==
    ASSUME Inv, NEW th \in Threads, FindInProtocol(th)
    PROVE  Inv'
<1> USE ThreadsAndPairs DEF Inv, Goto, SetState
<1>0. /\ at[th] = "findProtocol"
      /\ bindings' = [bindings EXCEPT ![pair[th][1]] = @ \ {held[th]}]
      /\ Goto(th, "preUnbind")
      /\ UNCHANGED <<interfaceState, referenceCount, ends, pair, held, using>>
  <2>1. Found(pair[th][1], pair[th]) = {held[th]}
    BY FindsItAgain DEF FindInProtocol
  <2> QED
    BY <2>1 DEF FindInProtocol, FindAndRemove, FindsNone
<1>1. TypeOK'
  BY <1>0 DEF TypeOK, PairInv, At, Finding
<1>2. ListsInv' /\ EndsInv' /\ UniqueInv'
  BY <1>0 DEF ListsInv, EndsInv, UniqueInv, Listed
<1>3. MutualInv'
  BY <1>0 DEF TypeOK, MutualInv, HandInv
<1>4. CreatedInv' /\ OpenInv'
  BY <1>0 DEF CreatedInv, TypeOK, OpenInv, Listed
<1>5. CountInv'
  BY <1>0 DEF CountInv
<1>6. PlacesInv' /\ PairInv' /\ CloseInv'
  BY <1>0 DEF PlacesInv, PairInv, CloseInv, Making, Finding
<1>7. ClientInv'
  BY <1>0 DEF TypeOK, ClientInv, HandInv, OwnerInv, Owns, Making, Alive, Listed
<1>8. HandInv'
  BY <1>0 DEF TypeOK, HandInv, PairInv, OwnerInv, Finding, Owns
<1>9. OwnerInv'
  BY <1>0 DEF OwnerInv, Owns
<1> QED
  BY <1>1, <1>2, <1>3, <1>4, <1>5, <1>6, <1>7, <1>8, <1>9

\* Taken from both collections, the interface is this thread's alone.
LEMMA BeginClosingPreserves ==
    ASSUME Inv, NEW th \in Threads, BeginClosing(th)
    PROVE  Inv'
<1> USE ThreadsAndPairs DEF Inv, Goto, SetState
<1>1. TypeOK'
  BY DEF BeginClosing, TypeOK, HandInv, InterfaceStates, At, Unbinding
<1>2. MutualInv' /\ UniqueInv'
  BY DEF BeginClosing, MutualInv, UniqueInv, Listed
<1>3. ListsInv'
  BY DEF BeginClosing, ListsInv, HandInv, Unbinding
<1>4. EndsInv'
  BY DEF BeginClosing, EndsInv, HandInv, PairInv, Unbinding
<1>5. CreatedInv' /\ OpenInv'
  BY DEF BeginClosing, CreatedInv, TypeOK, OpenInv, Listed
<1>6. CountInv'
  BY DEF BeginClosing, CountInv
<1>7. PlacesInv' /\ PairInv' /\ HandInv'
  BY DEF BeginClosing, PlacesInv, PairInv, HandInv, Making, Unbinding
<1>8. ClientInv'
  BY DEF BeginClosing, ClientInv, HandInv, PairInv, Making, Alive, Listed, Unbinding
<1>9. CloseInv'
  BY DEF BeginClosing, TypeOK, CloseInv, HandInv, OwnerInv, Unbinding, Owns
<1>10. OwnerInv'
  BY DEF BeginClosing, OwnerInv, Owns, Unbinding
<1> QED
  BY <1>1, <1>2, <1>3, <1>4, <1>5, <1>6, <1>7, <1>8, <1>9, <1>10

\* No Method runs, and none can start in an interface that is closing.
LEMMA RundownPreserves ==
    ASSUME Inv, NEW th \in Threads, Rundown(th)
    PROVE  Inv'
<1> USE ThreadsAndPairs DEF Inv, Goto, SetState
<1>1. TypeOK'
  BY DEF Rundown, IsRundown, TypeOK, At
<1>2. ListsInv' /\ EndsInv' /\ MutualInv' /\ UniqueInv'
  BY DEF Rundown, IsRundown, ListsInv, EndsInv, MutualInv, UniqueInv, Listed
<1>3. CreatedInv' /\ OpenInv'
  BY DEF Rundown, IsRundown, CreatedInv, OpenInv, Listed
<1>4. CountInv'
  BY DEF Rundown, IsRundown, CountInv
<1>5. PlacesInv' /\ ClientInv' /\ PairInv' /\ HandInv' /\ CloseInv'
  BY DEF Rundown, IsRundown, PlacesInv, ClientInv, PairInv, HandInv, CloseInv, Making,
         Alive, Listed, Unbinding
<1>6. OwnerInv'
  BY DEF Rundown, IsRundown, OwnerInv, Owns, Unbinding
<1> QED
  BY <1>1, <1>2, <1>3, <1>4, <1>5, <1>6

\* Nothing but the place changes.
LEMMA ProtocolUnbindPreserves ==
    ASSUME Inv, NEW th \in Threads, ProtocolUnbind(th)
    PROVE  Inv'
<1> USE ThreadsAndPairs DEF Inv, Goto, SetState
<1>1. TypeOK'
  BY DEF ProtocolUnbind, TypeOK, At
<1>2. ListsInv' /\ EndsInv' /\ MutualInv' /\ UniqueInv'
  BY DEF ProtocolUnbind, ListsInv, EndsInv, MutualInv, UniqueInv, Listed
<1>3. CreatedInv' /\ OpenInv'
  BY DEF ProtocolUnbind, CreatedInv, OpenInv, Listed
<1>4. CountInv'
  BY DEF ProtocolUnbind, CountInv
<1>5. PlacesInv' /\ ClientInv' /\ PairInv' /\ HandInv' /\ CloseInv'
  BY DEF ProtocolUnbind, PlacesInv, ClientInv, PairInv, HandInv, CloseInv, Making, Alive,
         Listed, Unbinding
<1>6. OwnerInv'
  BY DEF ProtocolUnbind, OwnerInv, Owns, Unbinding
<1> QED
  BY <1>1, <1>2, <1>3, <1>4, <1>5, <1>6

\* The interface is this thread's alone.
LEMMA CloseInterfacePreserves ==
    ASSUME Inv, NEW th \in Threads, CloseInterface(th)
    PROVE  Inv'
<1> USE ThreadsAndPairs DEF Inv, Goto, SetState
<1>1. TypeOK'
  BY DEF CloseInterface, TypeOK, HandInv, InterfaceStates, At, Unbinding
<1>2. MutualInv' /\ UniqueInv'
  BY DEF CloseInterface, MutualInv, UniqueInv, Listed
<1>3. ListsInv'
  BY DEF CloseInterface, ListsInv, HandInv, Unbinding
<1>4. EndsInv'
  BY DEF CloseInterface, EndsInv, HandInv, PairInv, Unbinding
<1>5. CreatedInv' /\ OpenInv'
  BY DEF CloseInterface, CreatedInv, TypeOK, OpenInv, Listed
<1>6. CountInv'
  BY DEF CloseInterface, CountInv, CloseInv, HandInv
<1>7. PlacesInv' /\ PairInv' /\ HandInv'
  BY DEF CloseInterface, PlacesInv, PairInv, HandInv, Making, Unbinding
<1>8. ClientInv'
  BY DEF CloseInterface, ClientInv, HandInv, PairInv, Making, Alive, Listed, Unbinding
<1>9. CloseInv'
  BY DEF CloseInterface, TypeOK, CloseInv, HandInv, OwnerInv, Unbinding, Owns
<1>10. OwnerInv'
  BY DEF CloseInterface, OwnerInv, Owns, Unbinding
<1> QED
  BY <1>1, <1>2, <1>3, <1>4, <1>5, <1>6, <1>7, <1>8, <1>9, <1>10

\* The interface is this thread's alone.
LEMMA DeleteInterfacePreserves ==
    ASSUME Inv, NEW th \in Threads, DeleteInterface(th)
    PROVE  Inv'
<1> USE ThreadsAndPairs DEF Inv, Goto, SetState
<1>1. TypeOK'
  BY DEF DeleteInterface, Return, TypeOK, HandInv, InterfaceStates, At, Unbinding
<1>2. MutualInv' /\ UniqueInv'
  BY DEF DeleteInterface, MutualInv, UniqueInv, Listed
<1>3. ListsInv'
  BY DEF DeleteInterface, ListsInv, HandInv, Unbinding
<1>4. EndsInv'
  BY DEF DeleteInterface, EndsInv, HandInv, PairInv, Unbinding
<1>5. CreatedInv' /\ OpenInv'
  BY DEF DeleteInterface, CreatedInv, OpenInv, Listed
<1>6. CountInv'
  BY DEF DeleteInterface, UniqueInv, HandInv, CloseInv, CountInv
<1>7. PlacesInv' /\ PairInv' /\ HandInv'
  BY DEF DeleteInterface, Return, PlacesInv, PairInv, HandInv, Making, Unbinding
<1>8. ClientInv'
  BY DEF DeleteInterface, Return, ClientInv, HandInv, PairInv, Making, Alive, Listed,
         Unbinding
<1>9. CloseInv'
  BY DEF DeleteInterface, Return, TypeOK, CloseInv, OwnerInv, Unbinding, Owns
<1>10. OwnerInv'
  BY DEF DeleteInterface, OwnerInv, Owns, Unbinding
<1> QED
  BY <1>1, <1>2, <1>3, <1>4, <1>5, <1>6, <1>7, <1>8, <1>9, <1>10

-----------------------------------------------------------------------------
(* A Module is destroyed.                                                   *)

\* The Module is not one that the Client is using.
LEMMA DestroyBeginPreserves ==
    ASSUME Inv, NEW m \in InterfaceModules, DestroyBegin(m)
    PROVE  Inv'
<1> USE ThreadsAndPairs DEF Inv, Goto, SetState
<1>1. TypeOK'
  BY DEF DestroyBegin, TypeOK, At
<1>2. ListsInv' /\ EndsInv' /\ MutualInv' /\ UniqueInv'
  BY DEF DestroyBegin, ListsInv, EndsInv, MutualInv, UniqueInv, Alive, Listed
<1>3. CreatedInv' /\ OpenInv'
  BY DEF DestroyBegin, CreatedInv, OpenInv, Listed, Alive
<1>4. CountInv'
  BY DEF DestroyBegin, CountInv
<1>5. PlacesInv' /\ ClientInv' /\ PairInv' /\ HandInv' /\ CloseInv'
  BY DEF DestroyBegin, PlacesInv, ClientInv, PairInv, HandInv, CloseInv, Making, Alive,
         Listed, Finding, Unbinding
<1>6. OwnerInv'
  BY DEF DestroyBegin, OwnerInv, Owns, Making, Unbinding
<1> QED
  BY <1>1, <1>2, <1>3, <1>4, <1>5, <1>6

\* What is in the collection has this Module at one end.
LEMMA TakeFirstPreserves ==
    ASSUME Inv, NEW m \in InterfaceModules, TakeFirst(m)
    PROVE  Inv'
<1> USE ThreadsAndPairs DEF Inv, Goto, SetState
<1>1. TypeOK'
  BY DEF TakeFirst, TypeOK, At
<1>2. ListsInv' /\ EndsInv' /\ MutualInv' /\ UniqueInv'
  BY DEF TakeFirst, ListsInv, EndsInv, TypeOK, MutualInv, UniqueInv, Listed
<1>3. CreatedInv' /\ OpenInv'
  BY DEF TakeFirst, TypeOK, CreatedInv, OpenInv, Listed
<1>4. CountInv'
  BY DEF TakeFirst, CountInv
<1>5. PlacesInv' /\ ClientInv' /\ HandInv' /\ CloseInv'
  BY DEF TakeFirst, TypeOK, PlacesInv, ClientInv, HandInv, CloseInv, Making, Alive, Listed,
         Unbinding
<1>6. PairInv'
  BY DEF TakeFirst, TypeOK, ListsInv, PairInv, Finding, Unbinding
<1>7. OwnerInv'
  BY DEF TakeFirst, TypeOK, OwnerInv, Owns, Making, Unbinding
<1> QED
  BY <1>1, <1>2, <1>3, <1>4, <1>5, <1>6, <1>7

\* The ends do not change while the lock is released.
LEMMA ReadEndsPreserves ==
    ASSUME Inv, NEW m \in InterfaceModules, ReadEnds(m)
    PROVE  Inv'
<1> USE ThreadsAndPairs DEF Inv, Goto, SetState
<1>1. TypeOK'
  BY DEF ReadEnds, TypeOK, PairInv, At
<1>2. ListsInv' /\ EndsInv' /\ MutualInv' /\ UniqueInv'
  BY DEF ReadEnds, ListsInv, EndsInv, MutualInv, UniqueInv, Listed
<1>3. CreatedInv' /\ OpenInv'
  BY DEF ReadEnds, CreatedInv, OpenInv, Listed
<1>4. CountInv'
  BY DEF ReadEnds, CountInv
<1>5. PlacesInv' /\ ClientInv' /\ PairInv' /\ HandInv' /\ CloseInv'
  BY DEF ReadEnds, PlacesInv, ClientInv, TypeOK, PairInv, HandInv, CloseInv, Making, Alive,
         Listed, Unbinding
<1>6. OwnerInv'
  BY DEF ReadEnds, OwnerInv, Owns, Making, Unbinding
<1> QED
  BY <1>1, <1>2, <1>3, <1>4, <1>5, <1>6

-----------------------------------------------------------------------------
\* Each action keeps the invariant: one lemma above for each.
LEMMA NextPreserves == Inv /\ [Next]_vars => Inv'
<1> SUFFICES ASSUME Inv, [Next]_vars PROVE Inv'
  OBVIOUS
<1>1. CASE Bind
  BY <1>1, BindBeginPreserves, AddToProtocolPreserves, AddToTransportPreserves,
     RollbackPreserves, SetOpeningPreserves, ProtocolBindPreserves, SetOpenedPreserves DEF Bind
<1>2. ASSUME NEW pr \in Pairs, ClientUnbind(pr) PROVE Inv'
  BY <1>2, ClientUnbindPreserves
<1>3. ASSUME NEW u \in Users, NEW i \in Interfaces, InterfaceReference(u, i) PROVE Inv'
  BY <1>3, InterfaceReferencePreserves
<1>4. ASSUME NEW u \in Users, InterfaceDereference(u) PROVE Inv'
  BY <1>4, InterfaceDereferencePreserves
<1>5. ASSUME NEW th \in Threads, Unbind(th) PROVE Inv'
  BY <1>5, FindInProtocolPreserves, FindInTransportPreserves, BeginClosingPreserves,
     RundownPreserves, ProtocolUnbindPreserves, CloseInterfacePreserves,
     DeleteInterfacePreserves DEF Unbind
<1>6. ASSUME NEW m \in InterfaceModules, InterfacesUnbind(m) PROVE Inv'
  BY <1>6, DestroyBeginPreserves, TakeFirstPreserves, ReadEndsPreserves DEF InterfacesUnbind
<1>7. CASE UNCHANGED vars
  <2> USE <1>7 DEF vars, Inv
  <2>1. TypeOK' /\ ListsInv' /\ EndsInv' /\ MutualInv' /\ UniqueInv' /\ CreatedInv' /\ OpenInv'
    BY DEF TypeOK, ListsInv, EndsInv, MutualInv, UniqueInv, CreatedInv, OpenInv, Listed
  <2>2. PlacesInv' /\ ClientInv' /\ PairInv' /\ HandInv' /\ CloseInv' /\ OwnerInv'
    BY DEF PlacesInv, ClientInv, PairInv, HandInv, CloseInv, OwnerInv, Owns, Listed, Alive
  <2>3. CountInv'
    BY DEF CountInv
  <2> QED
    BY <2>1, <2>2, <2>3
<1> QED
  BY <1>1, <1>2, <1>3, <1>4, <1>5, <1>6, <1>7 DEF Next

\* The invariant holds in every state of the specification.
LEMMA Invariance == SafeSpec => []Inv
<1> QED
  BY InitEstablishes, NextPreserves, PTL DEF SafeSpec

-----------------------------------------------------------------------------
\* DMF_ModuleInterfaceUnbind: whoever races to unbind a pair, one thread
\* calls PreUnbind and Unbind of an interface and frees it.
THEOREM UnbindsOnce == SafeSpec => []UnbindOnce
<1>1. Inv => UnbindOnce
  <2> SUFFICES ASSUME Inv, NEW i \in Interfaces
               PROVE  Cardinality({th \in Threads : at[th] \in Unbinding /\ held[th] = i}) <= 1
    BY DEF UnbindOnce
  <2> DEFINE T == {th \in Threads : at[th] \in Unbinding /\ held[th] = i}
  <2>1. \A t1, t2 \in T : t1 = t2
    BY DEF Inv, OwnerInv, Owns
  <2>2. CASE T = {}
    BY <2>2, FS_EmptySet
  <2>3. ASSUME NEW t \in T PROVE Cardinality(T) <= 1
    <3>1. T = {t}
      BY <2>1
    <3>2. Cardinality({t}) = 1
      BY FS_Singleton
    <3> QED
      BY <3>1, <3>2
  <2> QED
    BY <2>2, <2>3
<1> QED
  BY <1>1, Invariance, PTL

\* DMF_InterfaceReference: while an Interface Method runs, its interface is
\* neither unbound nor freed, and the count is the number of Methods that run.
THEOREM MethodsAreSafe == SafeSpec => []MethodsAreProtected
<1>1. Inv => MethodsAreProtected
  BY DEF Inv, CountInv, CloseInv, MethodsAreProtected
<1> QED
  BY <1>1, Invariance, PTL

\* DMF_ModuleInterfacesUnbind: a binding is made and undone at both ends, and
\* a Module that has been destroyed leaves no interface that nobody unbinds; the
\* second search finds what the first did.
THEOREM BindsMutually == SafeSpec => []BindingsAreMutual
<1>1. Inv => BoundAtBothEnds
  BY DEF Inv, MutualInv, ListsInv, BoundAtBothEnds
<1>2. Inv => DestroyedIsUnbound
  <2> SUFFICES ASSUME Inv, NEW m \in InterfaceModules, at[m] = "destroyed",
                      NEW i \in Interfaces, ends[i] # None, m \in {ends[i][1], ends[i][2]},
                      interfaceState[i] \notin {"Created", "Closed", "freed"}
               PROVE  \E n \in InterfaceModules :
                         at[n] \in Unbinding \cup {"findProtocol"} /\ held[n] = i
    BY DEF DestroyedIsUnbound
  <2> USE ThreadsAndPairs DEF Inv
  <2>1. interfaceState[i] \in {"Opening", "Opened", "Closing"}
    BY DEF EndsInv, TypeOK, InterfaceStates
  <2>2. ASSUME NEW t \in Threads, held[t] = i,
               at[t] \in {"addTransport", "rollback", "findProtocol"} \cup Unbinding
        PROVE  t \in InterfaceModules /\ at[t] \in Unbinding \cup {"findProtocol"}
    BY <2>2 DEF PlacesInv, ClientInv, HandInv, Making, Unbinding, Alive
  <2>3. ~ (i \in bindings[ends[i][1]] /\ i \in bindings[ends[i][2]])
    BY DEF HandInv
  <2>4. CASE interfaceState[i] = "Closing"
    BY <2>2, <2>4 DEF OpenInv, Unbinding
  <2>5. CASE interfaceState[i] # "Closing" /\ ~Listed(i)
    BY <2>1, <2>2, <2>5 DEF OpenInv, Unbinding
  <2>6. CASE Listed(i)
    BY <2>2, <2>3, <2>6 DEF MutualInv, Listed
  <2> QED
    BY <2>4, <2>5, <2>6
<1>3. Inv => FindsTheSame
  BY FindsItAgain DEF FindsTheSame
<1> QED
  BY <1>1, <1>2, <1>3, Invariance, PTL DEF BindingsAreMutual

-----------------------------------------------------------------------------
(* Induction.                                                               *)

\* A set of numbers with 0 and the successor of each of its own has them all: were
\* n not in it, adding 1 would map those up to n one to one to those without 0.
LEMMA Counting ==
    ASSUME NEW T \in SUBSET Nat, 0 \in T, \A i \in T : i + 1 \in T
    PROVE  T = Nat
<1> SUFFICES ASSUME NEW n \in Nat, n \notin T PROVE FALSE
  OBVIOUS
<1> DEFINE A == T \cap (0 .. n)
           B == A \ {0}
           f == [i \in A |-> i + 1]
<1>1. IsFiniteSet(0 .. n)
  BY FS_Interval
<1>2. IsFiniteSet(A) /\ 0 \in A
  BY <1>1, FS_Subset
<1>3. IsFiniteSet(B) /\ Cardinality(B) = Cardinality(A) - 1 /\ Cardinality(A) \in Nat
  BY <1>2, FS_RemoveElement, FS_CardinalityType
<1>4. f \in Injection(A, B)
  BY DEF Injection, IsInjective
<1>5. Cardinality(A) <= Cardinality(B)
  BY <1>2, <1>3, <1>4, FS_Injection DEF ExistsInjection
<1> QED BY <1>3, <1>5

\* One of them is the least.
LEMMA LeastNumber ==
    ASSUME NEW T \in SUBSET Nat, T # {}
    PROVE  \E n \in T : \A k \in T : n <= k
<1> SUFFICES ASSUME \A n \in T : \E k \in T : k < n PROVE FALSE
  OBVIOUS
<1> DEFINE U == {n \in Nat : \A k \in T : n <= k}
<1>1. 0 \in U
  OBVIOUS
<1>2. ASSUME NEW n \in U PROVE n + 1 \in U
  <2>1. n \notin T
    OBVIOUS
  <2> QED BY <2>1
<1>3. U = Nat
  <2> HIDE DEF U
  <2> QED BY <1>1, <1>2, Counting DEF U
<1>4. PICK n \in T : TRUE
  OBVIOUS
<1>5. n + 1 \in U
  BY <1>3
<1> QED BY <1>4, <1>5
-----------------------------------------------------------------------------
(* Lists of Modules.                                                        *)

\* Of two Modules in the list a Child is before its Parent, or after it.
ChildrenBefore(s) ==
    \A i, j \in DOMAIN s : s[i] \in ToSet(Children[s[j]]) => i < j
ChildrenAfter(s) ==
    \A i, j \in DOMAIN s : s[i] \in ToSet(Children[s[j]]) => j < i

\* No Module of the one is a Child of one of the other.
Unrelated(S, T) == \A m \in S : ToSet(Children[m]) \cap T = {}

\* The elements of a list, by number.
LEMMA InList ==
    ASSUME NEW S, NEW s \in Seq(S)
    PROVE  /\ DOMAIN s = 1 .. Len(s) /\ Len(s) \in Nat
           /\ \A e : e \in ToSet(s) <=> \E i \in 1 .. Len(s) : s[i] = e
           /\ ToSet(s) \subseteq S
           /\ s \in Seq(ToSet(s))
<1>1. DOMAIN s = 1 .. Len(s) /\ Len(s) \in Nat /\ \A i \in 1 .. Len(s) : s[i] \in S
  OBVIOUS
<1>2. s \in [1 .. Len(s) -> ToSet(s)]
  BY <1>1 DEF ToSet
<1> QED BY <1>1, <1>2 DEF ToSet

\* Two lists, one after the other.
LEMMA ConcatLists ==
    ASSUME NEW s \in Seq(Modules), NEW t \in Seq(Modules)
    PROVE  /\ s \o t \in Seq(Modules)
           /\ ToSet(s \o t) = ToSet(s) \cup ToSet(t)
           /\ IsInjective(s) /\ IsInjective(t) /\ ToSet(s) \cap ToSet(t) = {}
              => IsInjective(s \o t)
           /\ ChildrenBefore(s) /\ ChildrenBefore(t) /\ Unrelated(ToSet(s), ToSet(t))
              => ChildrenBefore(s \o t)
           /\ ChildrenAfter(s) /\ ChildrenAfter(t) /\ Unrelated(ToSet(t), ToSet(s))
              => ChildrenAfter(s \o t)
<1> DEFINE r == s \o t
<1>1. /\ r \in Seq(Modules) /\ Len(r) = Len(s) + Len(t) /\ Len(s) \in Nat /\ Len(t) \in Nat
      /\ DOMAIN r = 1 .. Len(r) /\ DOMAIN s = 1 .. Len(s) /\ DOMAIN t = 1 .. Len(t)
  OBVIOUS
<1>2. \A i \in 1 .. Len(s) : r[i] = s[i]
  OBVIOUS
<1>3. \A i \in 1 .. Len(t) : r[Len(s) + i] = t[i]
  OBVIOUS
<1> HIDE DEF r
<1>4. \A i \in 1 .. Len(r) : \/ i \in 1 .. Len(s) /\ r[i] = s[i]
                             \/ i - Len(s) \in 1 .. Len(t) /\ r[i] = t[i - Len(s)]
  <2>1. ASSUME NEW i \in 1 .. Len(r), i \notin 1 .. Len(s)
        PROVE  i - Len(s) \in 1 .. Len(t) /\ r[i] = t[i - Len(s)]
    <3>1. i - Len(s) \in 1 .. Len(t) /\ Len(s) + (i - Len(s)) = i
      BY <1>1, <2>1
    <3> QED BY <1>3, <3>1
  <2> QED BY <1>2, <2>1
<1>5. ToSet(r) = ToSet(s) \cup ToSet(t)
  <2>1. ASSUME NEW e \in ToSet(r) PROVE e \in ToSet(s) \cup ToSet(t)
    <3>1. PICK i \in 1 .. Len(r) : r[i] = e
      BY <1>1, InList
    <3>2. e \in ToSet(s) <=> \E k \in 1 .. Len(s) : s[k] = e
      BY InList
    <3>3. e \in ToSet(t) <=> \E k \in 1 .. Len(t) : t[k] = e
      BY InList
    <3> QED BY <1>4, <3>1, <3>2, <3>3
  <2>2. ASSUME NEW e \in ToSet(s) PROVE e \in ToSet(r)
    <3>1. PICK i \in 1 .. Len(s) : s[i] = e
      BY InList
    <3>2. i \in 1 .. Len(r) /\ r[i] = e
      BY <1>1, <1>2, <3>1
    <3> QED BY <1>1, <3>2, InList
  <2>3. ASSUME NEW e \in ToSet(t) PROVE e \in ToSet(r)
    <3>1. PICK i \in 1 .. Len(t) : t[i] = e
      BY InList
    <3>2. Len(s) + i \in 1 .. Len(r)
      BY <1>1
    <3> QED BY <1>1, <1>3, <3>1, <3>2, InList
  <2> QED BY <2>1, <2>2, <2>3
<1>6. /\ \A i \in 1 .. Len(s) : s[i] \in ToSet(s)
      /\ \A i \in 1 .. Len(t) : t[i] \in ToSet(t)
  BY InList
<1>7. ASSUME IsInjective(s), IsInjective(t), ToSet(s) \cap ToSet(t) = {} PROVE IsInjective(r)
  <2> SUFFICES ASSUME NEW i \in 1 .. Len(r), NEW j \in 1 .. Len(r), r[i] = r[j] PROVE i = j
    BY <1>1 DEF IsInjective
  <2>1. \/ i \in 1 .. Len(s) /\ j \in 1 .. Len(s) /\ s[i] = s[j]
        \/ i - Len(s) \in 1 .. Len(t) /\ j - Len(s) \in 1 .. Len(t) /\ t[i - Len(s)] = t[j - Len(s)]
    BY <1>4, <1>6, <1>7
  <2>2. i = j \/ i - Len(s) = j - Len(s)
    BY <1>1, <1>7, <2>1 DEF IsInjective
  <2> QED BY <1>1, <2>2
<1>8. ASSUME ChildrenBefore(s), ChildrenBefore(t), Unrelated(ToSet(s), ToSet(t))
      PROVE  ChildrenBefore(r)
  <2> SUFFICES ASSUME NEW i \in 1 .. Len(r), NEW j \in 1 .. Len(r),
                      r[i] \in ToSet(Children[r[j]])
               PROVE  i < j
    BY <1>1 DEF ChildrenBefore
  <2>1. ASSUME j \in 1 .. Len(s), i - Len(s) \in 1 .. Len(t) PROVE FALSE
    <3>1. i \notin 1 .. Len(s)
      BY <1>1, <2>1
    <3>2. r[i] = t[i - Len(s)] /\ r[j] = s[j]
      BY <1>2, <1>4, <2>1, <3>1
    <3> QED BY <1>6, <1>8, <2>1, <3>2 DEF Unrelated
  <2>2. CASE i \in 1 .. Len(s) /\ j \in 1 .. Len(s)
    BY <1>1, <1>2, <1>8, <2>2 DEF ChildrenBefore
  <2>3. CASE i - Len(s) \in 1 .. Len(t) /\ j - Len(s) \in 1 .. Len(t)
    <3>1. r[i] = t[i - Len(s)] /\ r[j] = t[j - Len(s)]
      BY <1>1, <1>4, <2>3
    <3>2. i - Len(s) < j - Len(s)
      BY <1>1, <1>8, <2>3, <3>1 DEF ChildrenBefore
    <3> QED BY <1>1, <3>2
  <2> QED BY <1>1, <1>4, <2>1, <2>2, <2>3
<1>9. ASSUME ChildrenAfter(s), ChildrenAfter(t), Unrelated(ToSet(t), ToSet(s))
      PROVE  ChildrenAfter(r)
  <2> SUFFICES ASSUME NEW i \in 1 .. Len(r), NEW j \in 1 .. Len(r),
                      r[i] \in ToSet(Children[r[j]])
               PROVE  j < i
    BY <1>1 DEF ChildrenAfter
  <2>1. ASSUME i \in 1 .. Len(s), j - Len(s) \in 1 .. Len(t) PROVE FALSE
    <3>1. j \notin 1 .. Len(s)
      BY <1>1, <2>1
    <3>2. r[j] = t[j - Len(s)] /\ r[i] = s[i]
      BY <1>2, <1>4, <2>1, <3>1
    <3> QED BY <1>6, <1>9, <2>1, <3>2 DEF Unrelated
  <2>2. CASE i \in 1 .. Len(s) /\ j \in 1 .. Len(s)
    BY <1>1, <1>2, <1>9, <2>2 DEF ChildrenAfter
  <2>3. CASE i - Len(s) \in 1 .. Len(t) /\ j - Len(s) \in 1 .. Len(t)
    <3>1. r[i] = t[i - Len(s)] /\ r[j] = t[j - Len(s)]
      BY <1>1, <1>4, <2>3
    <3>2. j - Len(s) < i - Len(s)
      BY <1>1, <1>9, <2>3, <3>1 DEF ChildrenAfter
    <3> QED BY <1>1, <3>2
  <2> QED BY <1>1, <1>4, <2>1, <2>2, <2>3
<1> QED BY <1>1, <1>5, <1>7, <1>8, <1>9 DEF r

\* A list of one Module that is not its own Child.
LEMMA OneInList ==
    ASSUME NEW m \in Modules
    PROVE  /\ <<m>> \in Seq(Modules) /\ ToSet(<<m>>) = {m} /\ IsInjective(<<m>>)
           /\ m \notin ToSet(Children[m]) => ChildrenBefore(<<m>>) /\ ChildrenAfter(<<m>>)
<1>1. DOMAIN <<m>> = {1} /\ <<m>>[1] = m
  OBVIOUS
<1> QED BY <1>1 DEF ToSet, IsInjective, ChildrenBefore, ChildrenAfter

\* A Module that is no Child of those in the list, nor its own, before or after them.
LEMMA PutToList ==
    ASSUME NEW k \in Modules, NEW s \in Seq(Modules), k \notin ToSet(Children[k]),
           IsInjective(s), k \notin ToSet(s), Unrelated(ToSet(s), {k})
    PROVE  /\ /\ <<k>> \o s \in Seq(Modules) /\ ToSet(<<k>> \o s) = ToSet(s) \cup {k}
              /\ IsInjective(<<k>> \o s)
              /\ ChildrenAfter(s) => ChildrenAfter(<<k>> \o s)
           /\ /\ s \o <<k>> \in Seq(Modules) /\ ToSet(s \o <<k>>) = ToSet(s) \cup {k}
              /\ IsInjective(s \o <<k>>)
              /\ ChildrenBefore(s) => ChildrenBefore(s \o <<k>>)
<1> DEFINE one == <<k>>
<1>1. /\ one \in Seq(Modules) /\ ToSet(one) = {k} /\ IsInjective(one)
      /\ ChildrenBefore(one) /\ ChildrenAfter(one)
  BY OneInList
<1> HIDE DEF one
<1>2. /\ one \o s \in Seq(Modules) /\ ToSet(one \o s) = ToSet(s) \cup {k}
      /\ IsInjective(one \o s) /\ (ChildrenAfter(s) => ChildrenAfter(one \o s))
  <2>1. ToSet(one) \cap ToSet(s) = {} /\ Unrelated(ToSet(s), ToSet(one))
    BY <1>1
  <2>2. ToSet(one \o s) = ToSet(one) \cup ToSet(s)
    BY <1>1, ConcatLists
  <2>3. one \o s \in Seq(Modules)
    BY <1>1, ConcatLists
  <2>4. IsInjective(one \o s)
    BY <1>1, <2>1, ConcatLists
  <2>5. ChildrenAfter(s) => ChildrenAfter(one \o s)
    BY <1>1, <2>1, ConcatLists
  <2> QED BY <1>1, <2>2, <2>3, <2>4, <2>5
<1>3. /\ s \o one \in Seq(Modules) /\ ToSet(s \o one) = ToSet(s) \cup {k}
      /\ IsInjective(s \o one) /\ (ChildrenBefore(s) => ChildrenBefore(s \o one))
  BY <1>1, ConcatLists
<1> QED BY <1>2, <1>3 DEF one

\* Backward.
LEMMA ReverseList ==
    ASSUME NEW s \in Seq(Modules)
    PROVE  /\ Reverse(s) \in Seq(Modules) /\ ToSet(Reverse(s)) = ToSet(s)
           /\ IsInjective(s) => IsInjective(Reverse(s))
<1> DEFINE r == Reverse(s)
<1>1. /\ r \in Seq(Modules) /\ Len(r) = Len(s) /\ Len(s) \in Nat
      /\ \A i \in 1 .. Len(s) : r[i] = s[(Len(s) - i) + 1] /\ (Len(s) - i) + 1 \in 1 .. Len(s)
      /\ DOMAIN s = 1 .. Len(s) /\ DOMAIN r = 1 .. Len(s)
  BY DEF Reverse
<1>2. \A i \in 1 .. Len(s) : r[(Len(s) - i) + 1] = s[i]
  BY <1>1
<1> HIDE DEF r
<1>3. ToSet(r) = ToSet(s)
  <2>1. ASSUME NEW e \in ToSet(r) PROVE e \in ToSet(s)
    <3>1. PICK i \in 1 .. Len(r) : r[i] = e
      BY <1>1, InList
    <3> QED BY <1>1, <3>1, InList
  <2>2. ASSUME NEW e \in ToSet(s) PROVE e \in ToSet(r)
    <3>1. PICK i \in 1 .. Len(s) : s[i] = e
      BY InList
    <3>2. (Len(s) - i) + 1 \in 1 .. Len(r) /\ r[(Len(s) - i) + 1] = e
      BY <1>1, <1>2, <3>1
    <3> QED BY <1>1, <3>2, InList
  <2> QED BY <2>1, <2>2
<1>4. IsInjective(s) => IsInjective(r)
  <2> SUFFICES ASSUME IsInjective(s), NEW i \in 1 .. Len(s), NEW j \in 1 .. Len(s), r[i] = r[j]
               PROVE  i = j
    BY <1>1 DEF IsInjective
  <2>1. (Len(s) - i) + 1 = (Len(s) - j) + 1
    BY <1>1 DEF IsInjective
  <2> QED BY <1>1, <2>1
<1> QED BY <1>1, <1>3, <1>4 DEF r

-----------------------------------------------------------------------------
(* One list for each Module of a list, one after the other.                 *)

\* What flatten computes: the first n lists.
LEMMA FlattenExists ==
    ASSUME NEW S, NEW ss \in Seq(Seq(S))
    PROVE  \E g : g = [i \in 1 .. Len(ss) |-> IF i = 1 THEN ss[i] ELSE g[i - 1] \o ss[i]]
<1> DEFINE Upto(g, n) ==
             /\ g \in [1 .. Len(ss) -> Seq(S)]
             /\ \A i \in 1 .. Len(ss) :
                   i <= n => g[i] = IF i = 1 THEN ss[i] ELSE g[i - 1] \o ss[i]
           T == {n \in Nat : \E g : Upto(g, n)}
<1>1. Len(ss) \in Nat /\ \A i \in 1 .. Len(ss) : ss[i] \in Seq(S)
  OBVIOUS
<1>2. 0 \in T
  <2>1. Upto([i \in 1 .. Len(ss) |-> ss[i]], 0)
    BY <1>1
  <2> QED BY <2>1
<1>3. ASSUME NEW n \in T PROVE n + 1 \in T
  <2>1. n \in Nat /\ \E g : Upto(g, n)
    OBVIOUS
  <2>2. PICK g : Upto(g, n)
    BY <2>1
  <2>3. ASSUME NEW i \in 1 .. Len(ss), i # 1
        PROVE  i - 1 \in 1 .. Len(ss) /\ g[i - 1] \o ss[i] \in Seq(S)
    <3>1. i - 1 \in 1 .. Len(ss)
      BY <1>1, <2>3
    <3>2. g[i - 1] \in Seq(S) /\ ss[i] \in Seq(S)
      BY <1>1, <2>2, <3>1
    <3> HIDE DEF T, Upto
    <3> QED BY <3>1, <3>2, ConcatProperties
  <2> DEFINE h == [i \in 1 .. Len(ss) |->
                      IF i = 1 THEN ss[i] ELSE IF i = n + 1 THEN g[i - 1] \o ss[i] ELSE g[i]]
  <2>4. h \in [1 .. Len(ss) -> Seq(S)]
    BY <1>1, <2>2, <2>3
  <2>5. ASSUME NEW i \in 1 .. Len(ss), i <= n PROVE h[i] = g[i]
    BY <1>1, <2>1, <2>2, <2>5
  <2>6. ASSUME NEW i \in 1 .. Len(ss), i <= n + 1, i # 1 PROVE h[i] = h[i - 1] \o ss[i]
    <3>1. i - 1 \in 1 .. Len(ss) /\ i - 1 <= n
      BY <1>1, <2>1, <2>6
    <3>2. h[i - 1] = g[i - 1]
      BY <2>5, <3>1
    <3>3. i = n + 1 \/ i <= n
      BY <1>1, <2>1, <2>6
    <3>4. CASE i = n + 1
      BY <2>6, <3>2, <3>4
    <3>5. CASE i <= n
      <4>1. h[i] = g[i]
        BY <2>5, <3>5
      <4> QED BY <2>2, <2>6, <3>2, <3>5, <4>1
    <3> QED BY <3>3, <3>4, <3>5
  <2>7. \A i \in 1 .. Len(ss) : i = 1 => h[i] = ss[i]
    OBVIOUS
  <2> HIDE DEF h
  <2>8. Upto(h, n + 1)
    BY <2>4, <2>6, <2>7
  <2> HIDE DEF Upto
  <2> QED BY <2>1, <2>8
<1>4. Len(ss) \in T
  <2> HIDE DEF T
  <2> QED BY <1>1, <1>2, <1>3, Counting DEF T
<1>5. PICK g : Upto(g, Len(ss))
  BY <1>4
<1>6. /\ g \in [1 .. Len(ss) -> Seq(S)]
      /\ \A i \in 1 .. Len(ss) : g[i] = IF i = 1 THEN ss[i] ELSE g[i - 1] \o ss[i]
  <2>1. \A i \in 1 .. Len(ss) : i <= Len(ss)
    BY <1>1
  <2> QED BY <1>5, <2>1
<1>7. g = [i \in 1 .. Len(ss) |-> IF i = 1 THEN ss[i] ELSE g[i - 1] \o ss[i]]
  <2> HIDE DEF T
  <2> QED BY <1>6
<1> QED BY <1>7

\* FlattenSeq appends the lists one by one.
LEMMA FlattenSeqIs ==
    ASSUME NEW S, NEW ss \in Seq(Seq(S))
    PROVE  \/ Len(ss) = 0 /\ FlattenSeq(ss) = <<>>
           \/ /\ Len(ss) # 0
              /\ \E g : /\ FlattenSeq(ss) = g[Len(ss)]
                        /\ \A i \in 1 .. Len(ss) :
                              g[i] = IF i = 1 THEN ss[i] ELSE g[i - 1] \o ss[i]
<1>1. CASE Len(ss) = 0
  BY <1>1 DEF FlattenSeq
<1>2. CASE Len(ss) # 0
  <2> DEFINE flatten == CHOOSE g :
                           g = [i \in 1 .. Len(ss) |-> IF i = 1 THEN ss[i] ELSE g[i - 1] \o ss[i]]
  <2>1. flatten = [i \in 1 .. Len(ss) |-> IF i = 1 THEN ss[i] ELSE flatten[i - 1] \o ss[i]]
    BY FlattenExists
  <2>2. FlattenSeq(ss) = flatten[Len(ss)]
    BY <1>2 DEF FlattenSeq
  <2> HIDE DEF flatten
  <2>3. \A i \in 1 .. Len(ss) : flatten[i] = IF i = 1 THEN ss[i] ELSE flatten[i - 1] \o ss[i]
    BY <2>1
  <2> QED BY <1>2, <2>2, <2>3
<1> QED BY <1>1, <1>2

\* The Modules of the lists are those of the result, once if they are in one list, once,
\* and Children are before their Parents, or after them, if they are so in each.
LEMMA FlattenLists ==
    ASSUME NEW ss \in Seq(Seq(Modules))
    PROVE  /\ FlattenSeq(ss) \in Seq(Modules)
           /\ ToSet(FlattenSeq(ss)) = UNION {ToSet(ss[i]) : i \in 1 .. Len(ss)}
           /\ /\ \A i \in 1 .. Len(ss) : IsInjective(ss[i])
              /\ \A i, j \in 1 .. Len(ss) : i # j => ToSet(ss[i]) \cap ToSet(ss[j]) = {}
              => IsInjective(FlattenSeq(ss))
           /\ (\A i, j \in 1 .. Len(ss) : i # j => Unrelated(ToSet(ss[i]), ToSet(ss[j])))
              => /\ (\A i \in 1 .. Len(ss) : ChildrenBefore(ss[i]))
                    => ChildrenBefore(FlattenSeq(ss))
                 /\ (\A i \in 1 .. Len(ss) : ChildrenAfter(ss[i]))
                    => ChildrenAfter(FlattenSeq(ss))
<1>1. Len(ss) \in Nat /\ \A i \in 1 .. Len(ss) : ss[i] \in Seq(Modules)
  OBVIOUS
<1>2. CASE Len(ss) = 0
  <2>1. FlattenSeq(ss) = <<>>
    BY <1>2, FlattenSeqIs
  <2>2. 1 .. Len(ss) = {}
    BY <1>2
  <2> QED BY <2>1, <2>2 DEF ToSet, IsInjective, ChildrenBefore, ChildrenAfter
<1>3. CASE Len(ss) # 0
  <2>1. PICK g : /\ FlattenSeq(ss) = g[Len(ss)]
                 /\ \A i \in 1 .. Len(ss) :
                       g[i] = IF i = 1 THEN ss[i] ELSE g[i - 1] \o ss[i]
    BY <1>3, FlattenSeqIs
  <2> DEFINE Whole(i) == i \in 1 .. Len(ss) =>
               /\ g[i] \in Seq(Modules)
               /\ \A e : e \in ToSet(g[i]) <=> \E k \in 1 .. i : e \in ToSet(ss[k])
             Once(i) == i \in 1 .. Len(ss)
                /\ (\A k \in 1 .. Len(ss) : IsInjective(ss[k]))
                /\ (\A j, k \in 1 .. Len(ss) : j # k => ToSet(ss[j]) \cap ToSet(ss[k]) = {})
                => IsInjective(g[i])
             Ordered(i) == i \in 1 .. Len(ss)
                /\ (\A j, k \in 1 .. Len(ss) : j # k => Unrelated(ToSet(ss[j]), ToSet(ss[k])))
                => /\ (\A k \in 1 .. Len(ss) : ChildrenBefore(ss[k])) => ChildrenBefore(g[i])
                   /\ (\A k \in 1 .. Len(ss) : ChildrenAfter(ss[k])) => ChildrenAfter(g[i])
             T == {i \in Nat : Whole(i) /\ Once(i) /\ Ordered(i)}
  <2> HIDE DEF T, Whole, Once, Ordered
  <2>2. 0 \in T
    BY DEF T, Whole, Once, Ordered
  <2>3. ASSUME NEW i \in T PROVE i + 1 \in T
    <3>1. i \in Nat /\ Whole(i) /\ Once(i) /\ Ordered(i)
      BY DEF T
    <3>2. CASE i + 1 \notin 1 .. Len(ss)
      <4>1. Whole(i + 1) /\ Once(i + 1) /\ Ordered(i + 1)
        BY <3>2 DEF Whole, Once, Ordered
      <4> QED BY <3>1, <4>1 DEF T
    <3>3. CASE i = 0 /\ i + 1 \in 1 .. Len(ss)
      <4>1. g[1] = ss[1] /\ ss[1] \in Seq(Modules) /\ i + 1 = 1 /\ 1 .. (i + 1) = {1}
        BY <1>1, <2>1, <3>3
      <4>2. Whole(i + 1) /\ Once(i + 1) /\ Ordered(i + 1)
        BY <3>3, <4>1 DEF Whole, Once, Ordered
      <4> QED BY <3>1, <4>2 DEF T
    <3>4. CASE i # 0 /\ i + 1 \in 1 .. Len(ss)
      <4>1. i \in 1 .. Len(ss) /\ i + 1 # 1 /\ (i + 1) - 1 = i
        BY <1>1, <3>1, <3>4
      <4>2. g[i + 1] = g[i] \o ss[i + 1] /\ ss[i + 1] \in Seq(Modules) /\ g[i] \in Seq(Modules)
        BY <1>1, <2>1, <3>1, <3>4, <4>1 DEF Whole
      <4>3. /\ g[i + 1] \in Seq(Modules)
            /\ ToSet(g[i + 1]) = ToSet(g[i]) \cup ToSet(ss[i + 1])
            /\ IsInjective(g[i]) /\ IsInjective(ss[i + 1]) /\ ToSet(g[i]) \cap ToSet(ss[i + 1]) = {}
               => IsInjective(g[i + 1])
            /\ ChildrenBefore(g[i]) /\ ChildrenBefore(ss[i + 1])
               /\ Unrelated(ToSet(g[i]), ToSet(ss[i + 1])) => ChildrenBefore(g[i + 1])
            /\ ChildrenAfter(g[i]) /\ ChildrenAfter(ss[i + 1])
               /\ Unrelated(ToSet(ss[i + 1]), ToSet(g[i])) => ChildrenAfter(g[i + 1])
        BY <4>2, ConcatLists
      <4>4. \A k \in 1 .. i : k \in 1 .. Len(ss) /\ k # i + 1
        BY <1>1, <3>1, <3>4
      <4>5. \A e : e \in ToSet(g[i]) <=> \E k \in 1 .. i : e \in ToSet(ss[k])
        BY <3>1, <4>1 DEF Whole
      <4>6. Whole(i + 1)
        <5>1. \A k : k \in 1 .. (i + 1) <=> k \in 1 .. i \/ k = i + 1
          BY <3>1
        <5> QED BY <4>3, <4>5, <5>1 DEF Whole
      <4>7. Once(i + 1)
        BY <3>1, <3>4, <4>1, <4>3, <4>4, <4>5 DEF Once
      <4>8. Ordered(i + 1)
        <5> SUFFICES ASSUME \A j, k \in 1 .. Len(ss) :
                                   j # k => Unrelated(ToSet(ss[j]), ToSet(ss[k]))
                     PROVE  /\ (\A k \in 1 .. Len(ss) : ChildrenBefore(ss[k]))
                               => ChildrenBefore(g[i + 1])
                            /\ (\A k \in 1 .. Len(ss) : ChildrenAfter(ss[k]))
                               => ChildrenAfter(g[i + 1])
          BY DEF Ordered
        <5>1. Unrelated(ToSet(g[i]), ToSet(ss[i + 1])) /\ Unrelated(ToSet(ss[i + 1]), ToSet(g[i]))
          BY <3>4, <4>4, <4>5 DEF Unrelated
        <5> QED BY <3>1, <3>4, <4>1, <4>3, <5>1 DEF Ordered
      <4> QED BY <3>1, <4>6, <4>7, <4>8 DEF T
    <3> QED BY <3>2, <3>3, <3>4
  <2>4. Len(ss) \in T
    <3>1. T \in SUBSET Nat
      BY DEF T
    <3> QED BY <1>1, <2>2, <2>3, <3>1, Counting
  <2>5. Whole(Len(ss)) /\ Once(Len(ss)) /\ Ordered(Len(ss)) /\ Len(ss) \in 1 .. Len(ss)
    BY <1>1, <1>3, <2>4 DEF T
  <2> QED BY <2>1, <2>5 DEF Whole, Once, Ordered
<1> QED BY <1>2, <1>3

\* FlatMap, and that it looks at f for the Modules of the list only.
LEMMA FlatMapLists ==
    ASSUME NEW s \in Seq(Modules), NEW f, \A m \in ToSet(s) : f[m] \in Seq(Modules)
    PROVE  /\ FlatMap(f, s) \in Seq(Modules)
           /\ ToSet(FlatMap(f, s)) = UNION {ToSet(f[m]) : m \in ToSet(s)}
           /\ /\ IsInjective(s) /\ \A m \in ToSet(s) : IsInjective(f[m])
              /\ \A m, n \in ToSet(s) : m # n => ToSet(f[m]) \cap ToSet(f[n]) = {}
              => IsInjective(FlatMap(f, s))
           /\ /\ IsInjective(s)
              /\ \A m, n \in ToSet(s) : m # n => Unrelated(ToSet(f[m]), ToSet(f[n]))
              => /\ (\A m \in ToSet(s) : ChildrenBefore(f[m])) => ChildrenBefore(FlatMap(f, s))
                 /\ (\A m \in ToSet(s) : ChildrenAfter(f[m])) => ChildrenAfter(FlatMap(f, s))
           /\ \A g : (\A m \in ToSet(s) : g[m] = f[m]) => FlatMap(g, s) = FlatMap(f, s)
<1> DEFINE ss == [k \in DOMAIN s |-> f[s[k]]]
<1>1. /\ DOMAIN s = 1 .. Len(s) /\ Len(s) \in Nat
      /\ \A k \in 1 .. Len(s) : s[k] \in ToSet(s)
      /\ \A m \in ToSet(s) : \E k \in 1 .. Len(s) : s[k] = m
  BY InList
<1>2. ss \in Seq(Seq(Modules)) /\ Len(ss) = Len(s) /\ \A k \in 1 .. Len(s) : ss[k] = f[s[k]]
  BY <1>1
<1>3. FlatMap(f, s) = FlattenSeq(ss)
  BY DEF FlatMap
<1>4. \A g : (\A m \in ToSet(s) : g[m] = f[m]) => FlatMap(g, s) = FlatMap(f, s)
  <2> SUFFICES ASSUME NEW g, \A m \in ToSet(s) : g[m] = f[m] PROVE FlatMap(g, s) = FlatMap(f, s)
    OBVIOUS
  <2>1. [k \in DOMAIN s |-> g[s[k]]] = ss
    BY <1>1
  <2> QED BY <2>1 DEF FlatMap
<1> HIDE DEF ss
<1>5. UNION {ToSet(ss[i]) : i \in 1 .. Len(ss)} = UNION {ToSet(f[m]) : m \in ToSet(s)}
  <2>1. \A i \in 1 .. Len(ss) : \E m \in ToSet(s) : ToSet(ss[i]) = ToSet(f[m])
    BY <1>1, <1>2
  <2>2. ASSUME NEW m \in ToSet(s) PROVE \E i \in 1 .. Len(ss) : ToSet(ss[i]) = ToSet(f[m])
    <3>1. PICK k \in 1 .. Len(s) : s[k] = m
      BY <1>1
    <3>2. k \in 1 .. Len(ss) /\ ss[k] = f[m]
      BY <1>2, <3>1
    <3> QED BY <3>2
  <2> QED BY <2>1, <2>2
<1>6. \A i, j \in 1 .. Len(s) : IsInjective(s) /\ i # j => s[i] # s[j]
  BY <1>1 DEF IsInjective
<1>7. /\ IsInjective(s) /\ \A m \in ToSet(s) : IsInjective(f[m])
      /\ \A m, n \in ToSet(s) : m # n => ToSet(f[m]) \cap ToSet(f[n]) = {}
      => IsInjective(FlattenSeq(ss))
  <2> SUFFICES ASSUME IsInjective(s), \A m \in ToSet(s) : IsInjective(f[m]),
                      \A m, n \in ToSet(s) : m # n => ToSet(f[m]) \cap ToSet(f[n]) = {}
               PROVE  IsInjective(FlattenSeq(ss))
    OBVIOUS
  <2>1. \A i \in 1 .. Len(ss) : IsInjective(ss[i])
    BY <1>1, <1>2
  <2>2. ASSUME NEW i \in 1 .. Len(ss), NEW j \in 1 .. Len(ss), i # j
        PROVE  ToSet(ss[i]) \cap ToSet(ss[j]) = {}
    <3>1. s[i] \in ToSet(s) /\ s[j] \in ToSet(s) /\ s[i] # s[j]
      BY <1>1, <1>2, <1>6, <2>2
    <3>2. ss[i] = f[s[i]] /\ ss[j] = f[s[j]]
      BY <1>2
    <3> QED BY <3>1, <3>2
  <2> QED BY <1>2, <2>1, <2>2, FlattenLists
<1>8. /\ IsInjective(s)
      /\ \A m, n \in ToSet(s) : m # n => Unrelated(ToSet(f[m]), ToSet(f[n]))
      => /\ (\A m \in ToSet(s) : ChildrenBefore(f[m])) => ChildrenBefore(FlattenSeq(ss))
         /\ (\A m \in ToSet(s) : ChildrenAfter(f[m])) => ChildrenAfter(FlattenSeq(ss))
  BY <1>1, <1>2, <1>6, FlattenLists
<1> QED BY <1>2, <1>3, <1>4, <1>5, <1>7, <1>8, FlattenLists

-----------------------------------------------------------------------------
(* The trees.                                                               *)

\* A Module has one Parent and its Children are below it.
Heights(height) ==
    /\ height \in [Modules -> Nat]
    /\ \A m \in Modules : height[m] <= Cardinality(Modules)
    /\ \A m \in Modules : \A c \in ToSet(Children[m]) : height[c] < height[m]

\* What the tree assumption says of each Module and of two of them.
LEMMA TreeFacts ==
    /\ Cardinality(Modules) \in Nat
    /\ \E height : Heights(height)
    /\ \A m \in Modules : Children[m] \in Seq(Modules) /\ ToSet(Children[m]) \subseteq Modules
    /\ \A m, n \in Modules : \A c \in ToSet(Children[m]) : c \in ToSet(Children[n]) => m = n
<1>1. Cardinality(Modules) \in Nat
  BY TreeAssumption, FS_CardinalityType
<1>2. \E height : Heights(height)
  <2>1. PICK height \in [Modules -> 1 .. Cardinality(Modules)] :
             \A m \in Modules : \A c \in ToSet(Children[m]) : height[c] < height[m]
    BY TreeAssumption
  <2> QED BY <1>1, <2>1 DEF Heights
<1>3. \A m \in Modules : Children[m] \in Seq(Modules) /\ ToSet(Children[m]) \subseteq Modules
  BY TreeAssumption, InList
<1>4. \A m, n \in Modules : \A c \in ToSet(Children[m]) : c \in ToSet(Children[n]) => m = n
  BY TreeAssumption
<1> QED BY <1>1, <1>2, <1>3, <1>4

\* Of some Modules one is the highest.
LEMMA Highest ==
    ASSUME NEW height, Heights(height), NEW S \in SUBSET Modules, S # {}
    PROVE  \E k \in S : \A l \in S : height[l] <= height[k]
<1> DEFINE depths == {Cardinality(Modules) - height[k] : k \in S}
<1>1. \A k \in S : height[k] \in Nat /\ height[k] <= Cardinality(Modules)
  BY DEF Heights
<1>2. depths \in SUBSET Nat /\ depths # {}
  BY <1>1, TreeFacts
<1>3. PICK d \in depths : \A e \in depths : d <= e
  <2> HIDE DEF depths
  <2> QED BY <1>2, LeastNumber
<1>4. PICK k \in S : d = Cardinality(Modules) - height[k]
  OBVIOUS
<1>5. ASSUME NEW l \in S PROVE height[l] <= height[k]
  <2>1. d <= Cardinality(Modules) - height[l]
    BY <1>3
  <2> QED BY <1>1, <1>4, <2>1, TreeFacts
<1> QED BY <1>5

\* A walk through the tree below each Module: the Module itself first or last, its
\* Children in the given order.
Walk(g, order, self) ==
    g = [m \in Modules |-> IF self = "first" THEN <<m>> \o FlatMap(g, order[m])
                                           ELSE FlatMap(g, order[m]) \o <<m>>]

\* An order of the Children of each Module.
IsOrder(order) ==
    \A m \in Modules : /\ order[m] \in Seq(Modules) /\ IsInjective(order[m])
                       /\ ToSet(order[m]) = ToSet(Children[m])

\* There is one: walk to trees that are higher and higher.
LEMMA WalkExists ==
    ASSUME NEW order, IsOrder(order), NEW self
    PROVE  \E g : Walk(g, order, self)
<1>1. PICK height : Heights(height)
  BY TreeFacts
<1> DEFINE body(g, m) == IF self = "first" THEN <<m>> \o FlatMap(g, order[m])
                                  ELSE FlatMap(g, order[m]) \o <<m>>
           Upto(g, n) == /\ g \in [Modules -> Seq(Modules)]
                         /\ \A m \in Modules : height[m] < n => g[m] = body(g, m)
           T == {n \in Nat : \E g : Upto(g, n)}
<1>2. \A m \in Modules : ToSet(order[m]) \subseteq Modules /\ order[m] \in Seq(Modules)
  BY TreeFacts DEF IsOrder
<1>3. ASSUME NEW g \in [Modules -> Seq(Modules)], NEW m \in Modules
      PROVE  body(g, m) \in Seq(Modules)
  <2>1. FlatMap(g, order[m]) \in Seq(Modules)
    BY <1>2, FlatMapLists
  <2>2. <<m>> \in Seq(Modules)
    OBVIOUS
  <2> QED BY <2>1, <2>2, ConcatProperties
<1> HIDE DEF T
<1>4. 0 \in T
  <2>1. [m \in Modules |-> <<>>] \in [Modules -> Seq(Modules)]
    OBVIOUS
  <2>2. \A m \in Modules : ~(height[m] < 0)
    BY <1>1 DEF Heights
  <2> QED BY <2>1, <2>2 DEF T
<1>5. ASSUME NEW n \in T PROVE n + 1 \in T
  <2>1. n \in Nat /\ \E g : Upto(g, n)
    BY DEF T
  <2>2. PICK g : Upto(g, n)
    BY <2>1
  <2> DEFINE h == [m \in Modules |-> body(g, m)]
  <2>3. h \in [Modules -> Seq(Modules)]
    BY <1>3, <2>2
  <2>4. \A m \in Modules : height[m] < n => h[m] = g[m]
    BY <2>2
  <2>5. ASSUME NEW m \in Modules, height[m] < n + 1 PROVE h[m] = body(h, m)
    <3>1. \A c \in ToSet(order[m]) : c \in Modules /\ height[c] < n
      BY <1>1, <1>2, <2>1, <2>5 DEF Heights, IsOrder
    <3>2. \A c \in ToSet(order[m]) : h[c] = g[c]
      BY <2>4, <3>1
    <3>3. FlatMap(h, order[m]) = FlatMap(g, order[m])
      <4> HIDE DEF h
      <4> QED BY <1>2, <2>2, <3>2, FlatMapLists
    <3> QED BY <3>3
  <2> HIDE DEF h
  <2>6. Upto(h, n + 1)
    BY <2>3, <2>5
  <2> HIDE DEF Upto
  <2> QED BY <2>1, <2>6 DEF T
<1>6. Cardinality(Modules) + 1 \in T
  <2>1. T \in SUBSET Nat
    BY DEF T
  <2> QED BY <1>4, <1>5, <2>1, Counting, TreeFacts
<1>7. PICK g : Upto(g, Cardinality(Modules) + 1)
  BY <1>6 DEF T
<1>8. \A m \in Modules : height[m] < Cardinality(Modules) + 1
  BY <1>1, TreeFacts DEF Heights
<1>9. g = [m \in Modules |-> body(g, m)]
  BY <1>7, <1>8
<1> QED BY <1>9 DEF Walk

\* What a walk comes to below a Module: m and what is below m, with the Children of each
\* and the Parent of each but m.
Below(g, m, height) ==
    /\ g[m] \in Seq(Modules) /\ m \in ToSet(g[m]) /\ IsInjective(g[m])
    /\ \A n \in ToSet(g[m]) :
          /\ ToSet(Children[n]) \subseteq ToSet(g[m])
          /\ n # m => /\ height[n] < height[m]
                      /\ \E p \in ToSet(g[m]) : n \in ToSet(Children[p])

\* The trees below two Modules of which none is below the other are apart: of those in
\* both the highest would have its Parent in both.
LEMMA TreesAreApart ==
    ASSUME NEW height, Heights(height), NEW g, NEW m \in Modules, NEW n \in Modules,
           Below(g, m, height), Below(g, n, height), m \notin ToSet(g[n]), n \notin ToSet(g[m])
    PROVE  /\ ToSet(g[m]) \cap ToSet(g[n]) = {}
           /\ Unrelated(ToSet(g[m]), ToSet(g[n]))
<1>1. ToSet(g[m]) \subseteq Modules /\ ToSet(g[n]) \subseteq Modules
  BY InList DEF Below
<1>2. ToSet(g[m]) \cap ToSet(g[n]) = {}
  <2> SUFFICES ASSUME ToSet(g[m]) \cap ToSet(g[n]) # {} PROVE FALSE
    OBVIOUS
  <2> DEFINE Both == ToSet(g[m]) \cap ToSet(g[n])
  <2>4. PICK k \in Both : \A l \in Both : height[l] <= height[k]
    BY <1>1, Highest
  <2>5. k # m /\ k # n /\ k \in Modules
    BY <1>1
  <2>6. PICK p \in ToSet(g[m]) : k \in ToSet(Children[p])
    BY <2>5 DEF Below
  <2>7. PICK q \in ToSet(g[n]) : k \in ToSet(Children[q])
    BY <2>5 DEF Below
  <2>8. p = q /\ p \in Modules
    BY <1>1, <2>6, <2>7, TreeFacts
  <2>9. height[k] < height[p] /\ height[p] <= height[k]
    BY <2>4, <2>6, <2>8 DEF Heights
  <2> QED BY <2>5, <2>8, <2>9 DEF Heights
<1>3. Unrelated(ToSet(g[m]), ToSet(g[n]))
  BY <1>2 DEF Unrelated, Below
<1> QED BY <1>2, <1>3

\* A walk comes to each Module below m once, to Parents first or last.
LEMMA WalkIs ==
    ASSUME NEW height, Heights(height), NEW order, IsOrder(order), NEW self,
           NEW g, Walk(g, order, self), NEW m \in Modules
    PROVE  /\ Below(g, m, height)
           /\ self = "first" => ChildrenAfter(g[m])
           /\ self # "first" => ChildrenBefore(g[m])
<1> DEFINE Walked(k) == /\ Below(g, k, height)
                        /\ self = "first" => ChildrenAfter(g[k])
                        /\ self # "first" => ChildrenBefore(g[k])
           T == {n \in Nat : \A k \in Modules : height[k] < n => Walked(k)}
<1>1. 0 \in T
  <2>1. \A k \in Modules : ~(height[k] < 0)
    BY DEF Heights
  <2> QED BY <2>1
<1>2. ASSUME NEW k \in Modules, \A c \in ToSet(Children[k]) : Walked(c) PROVE Walked(k)
  <2> DEFINE cs == ToSet(Children[k])
             below == FlatMap(g, order[k])
  <2>1. /\ cs \subseteq Modules /\ order[k] \in Seq(Modules)
        /\ ToSet(order[k]) = cs /\ IsInjective(order[k])
    BY TreeFacts DEF IsOrder
  <2>2. \A c \in cs : /\ g[c] \in Seq(Modules) /\ height[c] < height[k] /\ height[c] \in Nat
                      /\ height[k] \in Nat /\ ToSet(g[c]) \subseteq Modules
    BY <1>2, <2>1, InList DEF Below, Heights
  <2>3. \A c \in cs : k \notin ToSet(g[c])
    <3> SUFFICES ASSUME NEW c \in cs, k \in ToSet(g[c]) PROVE FALSE
      OBVIOUS
    <3>1. Below(g, c, height) /\ (k = c \/ height[k] < height[c])
      BY <1>2 DEF Below
    <3> QED BY <2>2, <3>1
  <2>4. \A c, d \in cs : c # d => c \notin ToSet(g[d])
    <3> SUFFICES ASSUME NEW c \in cs, NEW d \in cs, c # d, c \in ToSet(g[d]) PROVE FALSE
      OBVIOUS
    <3>1. PICK p \in ToSet(g[d]) : c \in ToSet(Children[p])
      BY <1>2 DEF Below
    <3>2. p = k
      BY <2>2, <3>1, TreeFacts
    <3> QED BY <2>3, <3>1, <3>2
  <2>5. \A c, d \in cs : c # d => /\ ToSet(g[c]) \cap ToSet(g[d]) = {}
                                  /\ Unrelated(ToSet(g[c]), ToSet(g[d]))
    BY <1>2, <2>1, <2>4, TreesAreApart
  <2>6. /\ below \in Seq(Modules) /\ ToSet(below) = UNION {ToSet(g[c]) : c \in cs}
        /\ IsInjective(below)
        /\ self = "first" => ChildrenAfter(below)
        /\ self # "first" => ChildrenBefore(below)
    <3>1. \A c \in cs : IsInjective(g[c]) /\ (self = "first" => ChildrenAfter(g[c]))
                                          /\ (self # "first" => ChildrenBefore(g[c]))
      BY <1>2 DEF Below
    <3> HIDE DEF cs
    <3> QED BY <2>1, <2>2, <2>5, <3>1, FlatMapLists
  <2>7. k \notin cs /\ k \notin ToSet(below)
    BY <2>2, <2>3, <2>6
  <2>8. Unrelated(ToSet(below), {k})
    <3>1. \A c \in cs : \A n \in ToSet(g[c]) : k \notin ToSet(Children[n])
      BY <1>2, <2>3 DEF Below
    <3> QED BY <2>6, <3>1 DEF Unrelated
  <2>9. k \notin ToSet(Children[k])
    BY <2>7
  <2>10. g[k] = IF self = "first" THEN <<k>> \o below ELSE below \o <<k>>
    BY DEF Walk
  <2> HIDE DEF below, T, Walked
  <2>11. /\ g[k] \in Seq(Modules) /\ ToSet(g[k]) = ToSet(below) \cup {k} /\ IsInjective(g[k])
         /\ self = "first" => ChildrenAfter(g[k])
         /\ self # "first" => ChildrenBefore(g[k])
    <3>1. below \in Seq(Modules) /\ IsInjective(below)
      BY <2>6
    <3>2. /\ /\ <<k>> \o below \in Seq(Modules) /\ ToSet(<<k>> \o below) = ToSet(below) \cup {k}
             /\ IsInjective(<<k>> \o below)
             /\ ChildrenAfter(below) => ChildrenAfter(<<k>> \o below)
          /\ /\ below \o <<k>> \in Seq(Modules) /\ ToSet(below \o <<k>>) = ToSet(below) \cup {k}
             /\ IsInjective(below \o <<k>>)
             /\ ChildrenBefore(below) => ChildrenBefore(below \o <<k>>)
      BY <2>7, <2>8, <2>9, <3>1, PutToList
    <3>3. CASE self = "first"
      BY <2>6, <2>10, <3>2, <3>3
    <3>4. CASE self # "first"
      BY <2>6, <2>10, <3>2, <3>4
    <3> QED BY <3>3, <3>4
  <2> USE DEF Walked
  <2>12. ASSUME NEW n \in ToSet(g[k])
         PROVE  /\ ToSet(Children[n]) \subseteq ToSet(g[k])
                /\ n # k => /\ height[n] < height[k]
                            /\ \E p \in ToSet(g[k]) : n \in ToSet(Children[p])
    <3>1. CASE n = k
      <4>1. \A c \in cs : c \in ToSet(g[c])
        BY <1>2 DEF Below
      <4> QED BY <2>6, <2>11, <3>1, <4>1
    <3>2. CASE n # k
      <4>1. PICK c \in cs : n \in ToSet(g[c])
        BY <2>6, <2>11, <3>2
      <4>2. Below(g, c, height) /\ ToSet(g[c]) \subseteq ToSet(g[k]) /\ k \in ToSet(g[k])
        BY <1>2, <2>6, <2>11, <4>1
      <4>3. /\ ToSet(Children[n]) \subseteq ToSet(g[k])
            /\ \E p \in ToSet(g[k]) : n \in ToSet(Children[p])
        BY <4>1, <4>2 DEF Below
      <4>4. n = c \/ height[n] < height[c]
        BY <4>1, <4>2 DEF Below
      <4>5. n \in Modules /\ height[n] \in Nat
        BY <2>2, <4>1 DEF Heights
      <4> QED BY <2>2, <4>3, <4>4, <4>5
    <3> QED BY <3>1, <3>2
  <2> QED BY <2>11, <2>12 DEF Below
<1>3. ASSUME NEW n \in T PROVE n + 1 \in T
  <2>1. n \in Nat /\ \A k \in Modules : height[k] < n => Walked(k)
    OBVIOUS
  <2>2. ASSUME NEW k \in Modules, height[k] < n + 1 PROVE Walked(k)
    <3>1. \A c \in ToSet(Children[k]) : c \in Modules /\ height[c] < n
      BY <2>1, <2>2, TreeFacts DEF Heights
    <3> HIDE DEF Walked
    <3> QED BY <1>2, <2>1, <3>1
  <2> HIDE DEF Walked
  <2> QED BY <2>1, <2>2
<1>4. height[m] + 1 \in T /\ height[m] \in Nat
  <2>1. T \in SUBSET Nat
    OBVIOUS
  <2> HIDE DEF T
  <2> QED BY <1>1, <1>3, <2>1, Counting DEF Heights
<1> HIDE DEF Walked
<1>5. Walked(m)
  BY <1>4
<1> QED BY <1>5 DEF Walked

\* A walk through the trees of the collection comes to each Module once.
LEMMA CollectionWalk ==
    ASSUME NEW order, IsOrder(order), NEW self, NEW g, Walk(g, order, self),
           NEW s \in Seq(Modules), IsInjective(s), ToSet(s) = ToSet(Roots)
    PROVE  /\ FlatMap(g, s) \in Seq(Modules) /\ IsInjective(FlatMap(g, s))
           /\ ToSet(FlatMap(g, s)) = Modules
           /\ self = "first" => ChildrenAfter(FlatMap(g, s))
           /\ self # "first" => ChildrenBefore(FlatMap(g, s))
<1>1. PICK height : Heights(height)
  BY TreeFacts
<1> DEFINE roots == ToSet(Roots)
<1>2. /\ roots \subseteq Modules
      /\ \A m \in Modules : m \in roots <=> \A p \in Modules : m \notin ToSet(Children[p])
  BY TreeAssumption
<1> HIDE DEF roots
<1>3. \A m \in Modules : /\ Below(g, m, height)
                         /\ self = "first" => ChildrenAfter(g[m])
                         /\ self # "first" => ChildrenBefore(g[m])
  BY <1>1, WalkIs
<1>4. \A m \in Modules : ToSet(g[m]) \subseteq Modules /\ g[m] \in Seq(Modules) /\ IsInjective(g[m])
  BY <1>3, InList DEF Below
<1>5. \A m, n \in roots : m # n => m \notin ToSet(g[n])
  BY <1>2, <1>3, <1>4 DEF Below
<1>6. \A m, n \in roots : m # n => /\ ToSet(g[m]) \cap ToSet(g[n]) = {}
                                   /\ Unrelated(ToSet(g[m]), ToSet(g[n]))
  BY <1>1, <1>2, <1>3, <1>5, TreesAreApart
<1>7. UNION {ToSet(g[m]) : m \in roots} = Modules
  <2> DEFINE Missed == Modules \ UNION {ToSet(g[m]) : m \in roots}
  <2> SUFFICES ASSUME Missed # {} PROVE FALSE
    BY <1>2, <1>4
  <2>1. PICK k \in Missed : \A l \in Missed : height[l] <= height[k]
    BY <1>1, Highest
  <2>2. k \in Modules /\ k \notin roots
    BY <1>3 DEF Below
  <2>3. PICK p \in Modules : k \in ToSet(Children[p])
    BY <1>2, <2>2
  <2>4. height[k] < height[p] /\ height[k] \in Nat /\ height[p] \in Nat
    BY <1>1, <2>2, <2>3 DEF Heights
  <2>5. p \notin Missed
    BY <2>1, <2>4
  <2>6. PICK m \in roots : p \in ToSet(g[m])
    BY <2>5
  <2>7. k \in ToSet(g[m])
    BY <1>2, <1>3, <2>3, <2>6 DEF Below
  <2> QED BY <2>6, <2>7
<1>8. ToSet(s) = roots
  BY DEF roots
<1>9. \A m \in ToSet(s) : g[m] \in Seq(Modules)
  BY <1>2, <1>4, <1>8
<1>10. FlatMap(g, s) \in Seq(Modules) /\ ToSet(FlatMap(g, s)) = Modules
  BY <1>7, <1>8, <1>9, FlatMapLists
<1>11. IsInjective(FlatMap(g, s))
  BY <1>2, <1>4, <1>6, <1>8, <1>9, FlatMapLists
<1>12. /\ self = "first" => ChildrenAfter(FlatMap(g, s))
       /\ self # "first" => ChildrenBefore(FlatMap(g, s))
  BY <1>2, <1>3, <1>6, <1>8, <1>9, FlatMapLists
<1> QED BY <1>10, <1>11, <1>12

\* The walks of the collection.
LEMMA Walks ==
    /\ IsOrder(Children)
    /\ Walk(childrenFirst, Children, "last")
    /\ Walk(parentFirst, Children, "first")
    /\ LET backward == [m \in Modules |-> Reverse(Children[m])] IN
          IsOrder(backward) /\ Walk(parentFirstBackward, backward, "first")
<1> DEFINE backward == [m \in Modules |-> Reverse(Children[m])]
<1>1. IsOrder(Children)
  BY TreeAssumption, TreeFacts DEF IsOrder
<1>2. IsOrder(backward)
  BY TreeAssumption, TreeFacts, ReverseList DEF IsOrder
<1>3. Walk(childrenFirst, Children, "last")
  <2> DEFINE body(g) == [m \in Modules |-> FlatMap(g, Children[m]) \o <<m>>]
  <2>1. \E g : g = body(g)
    <3>1. PICK g : Walk(g, Children, "last")
      BY <1>1, WalkExists
    <3>2. g = body(g)
      BY <3>1 DEF Walk
    <3> QED BY <3>2
  <2>2. childrenFirst = body(childrenFirst)
    BY <2>1 DEF childrenFirst
  <2> QED BY <2>2 DEF Walk
<1>4. Walk(parentFirst, Children, "first")
  <2> DEFINE body(g) == [m \in Modules |-> <<m>> \o FlatMap(g, Children[m])]
  <2>1. \E g : g = body(g)
    <3>1. PICK g : Walk(g, Children, "first")
      BY <1>1, WalkExists
    <3> QED BY <3>1 DEF Walk
  <2>2. parentFirst = body(parentFirst)
    BY <2>1 DEF parentFirst
  <2> QED BY <2>2 DEF Walk
<1>5. Walk(parentFirstBackward, backward, "first")
  <2> DEFINE body(g) == [m \in Modules |-> <<m>> \o FlatMap(g, Reverse(Children[m]))]
  <2>1. \E g : g = body(g)
    <3>1. PICK g : Walk(g, backward, "first")
      BY <1>2, WalkExists
    <3>2. g = body(g)
      BY <3>1 DEF Walk
    <3> QED BY <3>2
  <2>2. parentFirstBackward = body(parentFirstBackward)
    BY <2>1 DEF parentFirstBackward
  <2> QED BY <2>2 DEF Walk
<1> QED BY <1>1, <1>2, <1>3, <1>4, <1>5

\* The tree of a root has with a Module its Children, and with a Child its Parent; a root
\* is no Child.
LEMMA RootTrees ==
    ASSUME NEW r \in ToSet(Roots)
    PROVE  /\ r \in Modules /\ r \in ToSet(parentFirstBackward[r])
           /\ \A p \in Modules : r \notin ToSet(Children[p])
           /\ ToSet(parentFirstBackward[r]) \subseteq Modules
           /\ \A p \in Modules : \A c \in ToSet(Children[p]) :
                 c \in ToSet(parentFirstBackward[r]) <=> p \in ToSet(parentFirstBackward[r])
<1>1. PICK height : Heights(height)
  BY TreeFacts
<1>2. r \in Modules /\ \A p \in Modules : r \notin ToSet(Children[p])
  BY TreeAssumption
<1>3. Below(parentFirstBackward, r, height)
  BY <1>1, <1>2, Walks, WalkIs
<1> HIDE DEF parentFirstBackward
<1>4. ToSet(parentFirstBackward[r]) \subseteq Modules
  BY <1>3, InList DEF Below
<1>5. ASSUME NEW p \in Modules, NEW c \in ToSet(Children[p]), c \in ToSet(parentFirstBackward[r])
      PROVE  p \in ToSet(parentFirstBackward[r])
  <2>1. PICK q \in ToSet(parentFirstBackward[r]) : c \in ToSet(Children[q])
    BY <1>2, <1>3, <1>5 DEF Below
  <2> QED BY <1>4, <2>1, TreeFacts
<1> QED BY <1>2, <1>3, <1>4, <1>5 DEF Below

-----------------------------------------------------------------------------
(* What a callback has yet to dispatch to.                                  *)

\* Children before their Parents, and Parents of what is in the list, or Parents before
\* their Children, and Children of what is.
UpList(s) ==
    /\ s \in Seq(Modules) /\ IsInjective(s) /\ ChildrenBefore(s)
    /\ \A m \in Modules : \A c \in ToSet(Children[m]) : c \in ToSet(s) => m \in ToSet(s)
DownList(s) ==
    /\ s \in Seq(Modules) /\ IsInjective(s) /\ ChildrenAfter(s)
    /\ \A m \in Modules : \A c \in ToSet(Children[m]) : m \in ToSet(s) => c \in ToSet(s)

\* The callbacks that stop the Modules.
Stops == {"D0Exit", "ReleaseHardware", "CloseOnDestroy"}

\* The order of each callback: a start reaches every Module once, Children first; a
\* stop once, Parents first; a clean up the collection only.
LEMMA Orders ==
    /\ \A c \in Starts \cup {"TreeDestroy"} :
          UpList(DispatchOrder(c)) /\ ToSet(DispatchOrder(c)) = Modules
    /\ \A c \in Stops : DownList(DispatchOrder(c)) /\ ToSet(DispatchOrder(c)) = Modules
    /\ \A c \in Cleanups : DispatchOrder(c) = Roots
    /\ Roots \in Seq(ToSet(Roots)) /\ Roots \in Seq(Modules)
<1> DEFINE back == Reverse(Roots)
<1>1. Roots \in Seq(Modules) /\ IsInjective(Roots) /\ Roots \in Seq(ToSet(Roots))
  BY TreeAssumption, InList
<1>2. back \in Seq(Modules) /\ IsInjective(back) /\ ToSet(back) = ToSet(Roots)
  BY <1>1, ReverseList
<1> HIDE DEF back
<1>3. \A s : /\ s \in Seq(Modules) /\ IsInjective(s) /\ ToSet(s) = Modules
             => /\ ChildrenBefore(s) => UpList(s)
                /\ ChildrenAfter(s) => DownList(s)
  BY TreeFacts DEF UpList, DownList
<1>4. UpList(FlatMap(childrenFirst, Roots)) /\ ToSet(FlatMap(childrenFirst, Roots)) = Modules
  <2>1. /\ FlatMap(childrenFirst, Roots) \in Seq(Modules)
        /\ IsInjective(FlatMap(childrenFirst, Roots))
        /\ ToSet(FlatMap(childrenFirst, Roots)) = Modules
        /\ ChildrenBefore(FlatMap(childrenFirst, Roots))
    BY <1>1, Walks, CollectionWalk
  <2> QED BY <1>3, <2>1
<1>5. DownList(FlatMap(parentFirst, back)) /\ ToSet(FlatMap(parentFirst, back)) = Modules
  <2>1. /\ FlatMap(parentFirst, back) \in Seq(Modules)
        /\ IsInjective(FlatMap(parentFirst, back))
        /\ ToSet(FlatMap(parentFirst, back)) = Modules
        /\ ChildrenAfter(FlatMap(parentFirst, back))
    BY <1>2, Walks, CollectionWalk
  <2> QED BY <1>3, <2>1
<1>6. /\ DownList(FlatMap(parentFirstBackward, back))
      /\ ToSet(FlatMap(parentFirstBackward, back)) = Modules
  <2>1. /\ FlatMap(parentFirstBackward, back) \in Seq(Modules)
        /\ IsInjective(FlatMap(parentFirstBackward, back))
        /\ ToSet(FlatMap(parentFirstBackward, back)) = Modules
        /\ ChildrenAfter(FlatMap(parentFirstBackward, back))
    BY <1>2, Walks, CollectionWalk
  <2> QED BY <1>3, <2>1
<1>7. \A c \in Starts \cup {"TreeDestroy"} : DispatchOrder(c) = FlatMap(childrenFirst, Roots)
  BY DEF DispatchOrder, Starts, Cleanups
<1>8. \A c \in Stops : \/ DispatchOrder(c) = FlatMap(parentFirst, back)
                        \/ DispatchOrder(c) = FlatMap(parentFirstBackward, back)
  BY DEF DispatchOrder, Starts, Stops, Cleanups, back
<1>9. \A c \in Cleanups : DispatchOrder(c) = Roots
  BY DEF DispatchOrder, Starts, Cleanups
<1> QED BY <1>1, <1>4, <1>5, <1>6, <1>7, <1>8, <1>9

\* The elements of a list are the first and those of the rest.
LEMMA TailList ==
    ASSUME NEW s \in Seq(Modules), s # <<>>
    PROVE  /\ Head(s) \in ToSet(s) /\ Head(s) \in Modules /\ Tail(s) \in Seq(Modules)
           /\ ToSet(s) = ToSet(Tail(s)) \cup {Head(s)}
           /\ Len(Tail(s)) = Len(s) - 1 /\ Len(s) \in Nat
           /\ \A i \in 1 .. Len(Tail(s)) : i + 1 \in 1 .. Len(s) /\ Tail(s)[i] = s[i + 1]
           /\ 1 \in 1 .. Len(s) /\ s[1] = Head(s)
<1> DEFINE t == Tail(s)
<1>1. /\ t \in Seq(Modules) /\ Len(t) = Len(s) - 1 /\ Len(s) \in Nat /\ Head(s) = s[1]
      /\ \A i \in 1 .. Len(t) : i + 1 \in 1 .. Len(s) /\ t[i] = s[i + 1]
      /\ Len(s) # 0
  OBVIOUS
<1> HIDE DEF t
<1>2. 1 \in 1 .. Len(s)
  BY <1>1
<1>3. ToSet(s) = ToSet(t) \cup {s[1]}
  <2>1. ASSUME NEW e \in ToSet(s), e # s[1] PROVE e \in ToSet(t)
    <3>1. PICK i \in 1 .. Len(s) : s[i] = e
      BY InList
    <3>2. i - 1 \in 1 .. Len(t) /\ (i - 1) + 1 = i
      BY <1>1, <2>1, <3>1
    <3>3. t[i - 1] = e
      BY <1>1, <3>1, <3>2
    <3>4. t \in Seq(Modules) /\ \E k \in 1 .. Len(t) : t[k] = e
      BY <1>1, <2>1, <3>1, <3>2, <3>3
    <3> QED BY <3>4, InList
  <2>2. ASSUME NEW e \in ToSet(t) PROVE e \in ToSet(s)
    <3>1. PICK i \in 1 .. Len(t) : t[i] = e
      BY <1>1, InList
    <3> QED BY <1>1, <3>1, InList
  <2>3. s[1] \in ToSet(s)
    BY <1>2, InList
  <2> QED BY <2>1, <2>2, <2>3
<1>4. Head(s) \in ToSet(s) /\ Head(s) \in Modules
  BY <1>1, <1>3, InList
<1> QED BY <1>1, <1>2, <1>3, <1>4 DEF t

\* After a start has reached the first Module of its list, the rest is such a list, and
\* the Children of that Module are not in it.
LEMMA UpTail ==
    ASSUME NEW s, UpList(s), s # <<>>
    PROVE  /\ UpList(Tail(s)) /\ Head(s) \in Modules
           /\ ToSet(Tail(s)) = ToSet(s) \ {Head(s)} /\ Head(s) \in ToSet(s)
           /\ \A c \in ToSet(Children[Head(s)]) : c \notin ToSet(s)
<1> DEFINE t == Tail(s)
<1>1. s \in Seq(Modules) /\ IsInjective(s) /\ ChildrenBefore(s)
  BY DEF UpList
<1>2. /\ Head(s) \in ToSet(s) /\ Head(s) \in Modules /\ t \in Seq(Modules)
      /\ ToSet(s) = ToSet(t) \cup {Head(s)}
      /\ Len(t) = Len(s) - 1 /\ Len(s) \in Nat
      /\ \A i \in 1 .. Len(t) : i + 1 \in 1 .. Len(s) /\ t[i] = s[i + 1]
      /\ 1 \in 1 .. Len(s) /\ s[1] = Head(s)
  BY <1>1, TailList
<1> HIDE DEF t
<1>3. DOMAIN s = 1 .. Len(s) /\ DOMAIN t = 1 .. Len(t)
  BY <1>1, <1>2
<1>4. Head(s) \notin ToSet(t)
  <2> SUFFICES ASSUME Head(s) \in ToSet(t) PROVE FALSE
    OBVIOUS
  <2>1. PICK i \in 1 .. Len(t) : t[i] = Head(s)
    BY <1>2, InList
  <2>2. i + 1 = 1
    BY <1>1, <1>2, <1>3, <2>1 DEF IsInjective
  <2> QED BY <2>2
<1>5. ASSUME NEW c \in ToSet(Children[Head(s)]), c \in ToSet(s) PROVE FALSE
  <2>1. PICK i \in 1 .. Len(s) : s[i] = c
    BY <1>1, <1>5, InList
  <2>2. i < 1
    BY <1>1, <1>2, <1>3, <1>5, <2>1 DEF ChildrenBefore
  <2> QED BY <2>2
<1>6. IsInjective(t)
  <2> SUFFICES ASSUME NEW i \in 1 .. Len(t), NEW j \in 1 .. Len(t), t[i] = t[j] PROVE i = j
    BY <1>3 DEF IsInjective
  <2>1. i + 1 = j + 1
    BY <1>1, <1>2, <1>3 DEF IsInjective
  <2> QED BY <2>1
<1>7. ChildrenBefore(t)
  <2> SUFFICES ASSUME NEW i \in 1 .. Len(t), NEW j \in 1 .. Len(t),
                      t[i] \in ToSet(Children[t[j]])
               PROVE  i < j
    BY <1>3 DEF ChildrenBefore
  <2>1. i + 1 < j + 1
    BY <1>1, <1>2, <1>3 DEF ChildrenBefore
  <2> QED BY <2>1
<1>8. ASSUME NEW m \in Modules, NEW c \in ToSet(Children[m]), c \in ToSet(t) PROVE m \in ToSet(t)
  <2>1. m \in ToSet(s) /\ c \in ToSet(s)
    BY <1>2, <1>8 DEF UpList
  <2> QED BY <1>2, <1>5, <2>1
<1>9. UpList(t)
  BY <1>2, <1>6, <1>7, <1>8 DEF UpList
<1> QED BY <1>2, <1>4, <1>5, <1>9 DEF t

\* After a stop has reached the first Module of its list, the rest is such a list, and
\* the Parent of that Module is not in it.
LEMMA DownTail ==
    ASSUME NEW s, DownList(s), s # <<>>
    PROVE  /\ DownList(Tail(s)) /\ Head(s) \in Modules
           /\ ToSet(Tail(s)) = ToSet(s) \ {Head(s)} /\ Head(s) \in ToSet(s)
           /\ \A m \in Modules : Head(s) \in ToSet(Children[m]) => m \notin ToSet(s)
<1> DEFINE t == Tail(s)
<1>1. s \in Seq(Modules) /\ IsInjective(s) /\ ChildrenAfter(s)
  BY DEF DownList
<1>2. /\ Head(s) \in ToSet(s) /\ Head(s) \in Modules /\ t \in Seq(Modules)
      /\ ToSet(s) = ToSet(t) \cup {Head(s)}
      /\ Len(t) = Len(s) - 1 /\ Len(s) \in Nat
      /\ \A i \in 1 .. Len(t) : i + 1 \in 1 .. Len(s) /\ t[i] = s[i + 1]
      /\ 1 \in 1 .. Len(s) /\ s[1] = Head(s)
  BY <1>1, TailList
<1> HIDE DEF t
<1>3. DOMAIN s = 1 .. Len(s) /\ DOMAIN t = 1 .. Len(t)
  BY <1>1, <1>2
<1>4. Head(s) \notin ToSet(t)
  <2> SUFFICES ASSUME Head(s) \in ToSet(t) PROVE FALSE
    OBVIOUS
  <2>1. PICK i \in 1 .. Len(t) : t[i] = Head(s)
    BY <1>2, InList
  <2>2. i + 1 = 1
    BY <1>1, <1>2, <1>3, <2>1 DEF IsInjective
  <2> QED BY <2>2
<1>5. ASSUME NEW m \in Modules, Head(s) \in ToSet(Children[m]), m \in ToSet(s) PROVE FALSE
  <2>1. PICK i \in 1 .. Len(s) : s[i] = m
    BY <1>1, <1>5, InList
  <2>2. i < 1
    BY <1>1, <1>2, <1>3, <1>5, <2>1 DEF ChildrenAfter
  <2> QED BY <2>2
<1>6. IsInjective(t)
  <2> SUFFICES ASSUME NEW i \in 1 .. Len(t), NEW j \in 1 .. Len(t), t[i] = t[j] PROVE i = j
    BY <1>3 DEF IsInjective
  <2>1. i + 1 = j + 1
    BY <1>1, <1>2, <1>3 DEF IsInjective
  <2> QED BY <2>1
<1>7. ChildrenAfter(t)
  <2> SUFFICES ASSUME NEW i \in 1 .. Len(t), NEW j \in 1 .. Len(t),
                      t[i] \in ToSet(Children[t[j]])
               PROVE  j < i
    BY <1>3 DEF ChildrenAfter
  <2>1. j + 1 < i + 1
    BY <1>1, <1>2, <1>3 DEF ChildrenAfter
  <2> QED BY <2>1
<1>8. ASSUME NEW m \in Modules, NEW c \in ToSet(Children[m]), m \in ToSet(t) PROVE c \in ToSet(t)
  <2>1. m \in ToSet(s) /\ c \in ToSet(s)
    BY <1>2, <1>8 DEF DownList
  <2> QED BY <1>2, <1>5, <2>1
<1>9. DownList(t)
  BY <1>2, <1>6, <1>7, <1>8 DEF DownList
<1> QED BY <1>2, <1>4, <1>5, <1>9 DEF t

-----------------------------------------------------------------------------
(* The inductive invariant.                                                 *)

Open(m) == moduleState[m] = "Opened"
Active(m) == Open(m) \/ m \in registered
Waiting(m) == m \in ToSet(pending)

\* What state of the device each callback is for.
PlaceInv ==
    /\ callback = "none" => pending = <<>>
    /\ callback = "PostCreate" => device = "added"
    /\ callback = "PrepareHardware" => device \in {"created", "released"}
    /\ callback = "D0Entry" => /\ device \in {"prepared", "D3"}
                               /\ powerState = IF device = "D3" THEN "D3" ELSE "D3Final"
    /\ callback \in Cleanups => device = "failing"
    /\ callback = "D0Exit" => /\ device \in {"D0", "failed"}
                              /\ powerState = "D3" => device = "D0" /\ driver = "PnP"
                              /\ powerState = "D0" => mishap = "exitedToD0"
    /\ callback = "ReleaseHardware" =>
          device \in {"exited", "failing"} \/ (device = "D3" /\ mishap = "removedInD3")
    /\ callback \in {"CloseOnDestroy", "TreeDestroy"} =>
          device \in {"created", "released", "removed"}
    /\ device \in {"D3", "released"} => driver = "PnP"
    /\ device = "failed" => driver # "PnP"
    /\ device = "failing" => callback \in Cleanups \/ driver = "PnP"
    /\ device = "D3" => powerState = "D3"
    /\ mishap = "D0EntryFailed" =>
          driver = "PnP" /\ device \in {"failing", "removed", "destroyed"}
    /\ mishap = "removedInD3" =>
          /\ driver = "PnP"
          /\ device \in {"removed", "destroyed"} \/ (device = "D3" /\ callback = "ReleaseHardware")
    /\ mishap = "exitedToD0" =>
          /\ driver = "leaving"
          /\ \/ device \in {"exited", "removed", "destroyed"}
             \/ device \in {"D0", "failed"} /\ callback = "D0Exit"

\* What is pending is in the order of the callback.
OrderInv ==
    /\ callback \in Starts \cup {"TreeDestroy"} => UpList(pending)
    /\ callback \in Stops => DownList(pending)
    /\ callback \in Cleanups => pending \in Seq(ToSet(Roots))

\* How a Module was opened and registered is recorded.
Record == [OPEN_Create |-> "Create", OPEN_PrepareHardware |-> "PrepareHardware",
           OPEN_D0EntrySystemPowerUp |-> "D0EntrySystemPowerUp", OPEN_D0Entry |-> "D0Entry"]
RecordN == [NOTIFY_PrepareHardware |-> "PrepareHardware", NOTIFY_D0Entry |-> "D0Entry",
            NOTIFY_Create |-> "never"]
Recorded(m) ==
    /\ moduleState[m] # "Destroyed" => (Open(m) <=> openedDuring[m] # "Invalid")
    /\ openOption[m] \in OpenTypes /\ Open(m) => openedDuring[m] = Record[openOption[m]]
    /\ openOption[m] \notin OpenTypes /\ Open(m) => m \in registered /\ openedDuring[m] = "Manual"
    /\ registeredDuring[m] # "Invalid" =>
          m \in registered /\ registeredDuring[m] = RecordN[openOption[m]]
    /\ m \in registered /\ openOption[m] # "NOTIFY_Create" => registeredDuring[m] # "Invalid"
    /\ moduleState[m] = "Destroyed" =>
          device = "destroyed" \/ (callback = "TreeDestroy" /\ ~Waiting(m))
RecordInv == \A m \in Modules : Recorded(m)

\* When a Module of each option may be open or registered, but for what is forgotten. A
\* failed D0Entry of a PnP driver is cleaned up in two passes over the collection.
InCleanup(m) ==
    /\ device = "failing" /\ mishap = "D0EntryFailed"
    /\ \/ callback = "CleanupSystemPowerUp"
             /\ (openOption[m] = "OPEN_D0EntrySystemPowerUp" => Waiting(m))
       \/ callback = "CleanupD0Entry"
             /\ openOption[m] # "OPEN_D0EntrySystemPowerUp" /\ Waiting(m)
CreateInv ==
    \A m \in Modules : openOption[m] \in {"OPEN_Create", "NOTIFY_Create"} /\ Active(m) =>
       /\ device # "added" \/ (callback = "PostCreate" /\ ~Waiting(m))
       /\ callback = "CloseOnDestroy" => Waiting(m)
       /\ callback # "TreeDestroy" /\ device # "destroyed"
HardwareInv ==
    \A m \in Modules :
       openOption[m] \in {"OPEN_PrepareHardware", "NOTIFY_PrepareHardware"} /\ Active(m) =>
          \/ /\ device \in {"prepared", "D0", "D3", "exited", "failing", "failed"}
             /\ callback = "ReleaseHardware" => Waiting(m)
          \/ callback = "PrepareHardware" /\ ~Waiting(m)
PowerInv ==
    \A m \in Modules : openOption[m] \in {"OPEN_D0Entry", "NOTIFY_D0Entry"} /\ Active(m) =>
       \/ device \in {"D0", "failed"} /\ (callback = "D0Exit" => Waiting(m))
       \/ device = "failing" /\ driver # "PnP"
       \/ callback = "D0Entry" /\ ~Waiting(m)
       \/ InCleanup(m)
       \/ Forgotten(m)
SystemInv ==
    \A m \in Modules : openOption[m] = "OPEN_D0EntrySystemPowerUp" /\ Active(m) =>
       \/ device \in {"D0", "failed"} /\ (callback = "D0Exit" /\ PowersDown => Waiting(m))
       \/ device = "failing" /\ driver # "PnP"
       \/ callback = "D0Entry" /\ ~Waiting(m)
       \/ device = "D3" /\ powerAction # "Hibernate"
       \/ InCleanup(m)
       \/ Forgotten(m)

\* When it must be open.
Intact == \/ device \in {"created", "prepared", "D0", "D3"}
          \/ device \in {"exited", "released"} /\ driver = "PnP"
Done(c, m) == callback = c /\ ~Waiting(m)
MustCreate ==
    \A m \in Modules : openOption[m] = "OPEN_Create" /\ ~Open(m) =>
       ~Done("PostCreate", m) /\ (Intact => callback \in {"CloseOnDestroy", "TreeDestroy"})
MustHardware ==
    \A m \in Modules : openOption[m] = "OPEN_PrepareHardware" /\ ~Open(m) =>
       /\ device \in {"prepared", "D0", "D3"} => callback = "ReleaseHardware"
       /\ ~Done("PrepareHardware", m)
MustPower ==
    \A m \in Modules :
       openOption[m] \in {"OPEN_D0Entry", "OPEN_D0EntrySystemPowerUp"} /\ ~Open(m) =>
          ~(device = "D0" /\ callback = "none") /\ ~Done("D0Entry", m)

\* A Module that D0 had open is not as it was created.
MustSystem ==
    \A m \in Modules : openOption[m] = "OPEN_D0EntrySystemPowerUp" /\ device \in {"D3", "D0"} =>
       moduleState[m] # "Created"

\* A Module is opened with Children that are opened before it.
CompatInv ==
    \A m \in Modules : ~Compatible(m) =>
       /\ device \in {"added", "removed", "destroyed"}
       /\ ~Done("PostCreate", m)
       /\ openOption[m] \in OpenTypes => ~Open(m)

PartsInv == /\ RecordInv /\ CreateInv /\ HardwareInv /\ PowerInv /\ SystemInv
            /\ MustCreate /\ MustHardware /\ MustPower /\ MustSystem /\ CompatInv
DeviceInv == DeviceTypeOK /\ PlaceInv /\ OrderInv /\ PartsInv /\ OpenOverOpenChildren

-----------------------------------------------------------------------------
(* What the steps do to a Module.                                           *)

Same(m) == /\ moduleState'[m] = moduleState[m] /\ openedDuring'[m] = openedDuring[m]
           /\ registeredDuring'[m] = registeredDuring[m]
           /\ m \in registered' <=> m \in registered

\* A callback begins.
Begun ==
    /\ callback = "none" /\ callback' \in Starts \cup Stops
    /\ UNCHANGED <<driver, openOption, modules, device>>
    /\ \A m \in Modules : Waiting(m)'
    /\ powerAction' \in {powerAction, "None"} \/ callback' = "D0Exit"
    /\ mishap' = mishap \/ mishap = "none"

\* It dispatches to k.
Dispatched(k) ==
    /\ pending # <<>> /\ k \in Modules /\ k = Head(pending) /\ Waiting(k)
    /\ \A m \in Modules : Waiting(m)' <=> Waiting(m) /\ m # k
    /\ UNCHANGED <<config, device, callback, powerState, powerAction>>

Started(k) ==
    /\ callback \in Starts /\ Dispatched(k)
    /\ \A c \in ToSet(Children[k]) : ~Waiting(c)
    /\ callback = "PostCreate" => Compatible(k)
    /\ \A m \in Modules : m # k => Same(m)
    /\ IF Opens(k) THEN moduleState'[k] = "Opened" /\ openedDuring'[k] = DuringNow(k)
                   ELSE moduleState'[k] = moduleState[k] /\ openedDuring'[k] = openedDuring[k]
    /\ IF Registers(k)
          THEN /\ k \in registered'
               /\ callback # "PostCreate" => registeredDuring'[k] = callback
               /\ callback = "PostCreate" => registeredDuring'[k] = registeredDuring[k]
          ELSE /\ k \in registered' <=> k \in registered
               /\ registeredDuring'[k] = registeredDuring[k]

Failed(k) ==
    /\ callback \in Starts /\ pending # <<>> /\ k \in Modules /\ k = Head(pending) /\ Waiting(k)
    /\ \A m \in Modules : m # k => Same(m)
    /\ openedDuring'[k] = openedDuring[k] /\ registeredDuring'[k] = registeredDuring[k]
    /\ k \in registered' <=> k \in registered
    /\ moduleState'[k] = IF Opens(k) THEN "Created" ELSE moduleState[k]
    /\ callback # "PostCreate" => callback \in Failing[driver]
    /\ callback = "PostCreate" => device' = "removed" /\ callback' = "none"
    /\ callback # "PostCreate" => device' = "failing" /\ callback' \in Cleanups
    /\ callback = "D0Entry" => /\ callback' = "CleanupSystemPowerUp"
                               /\ driver = "PnP" => mishap' = "D0EntryFailed"
                               /\ \A r \in ToSet(Roots) : Waiting(r)'
    /\ mishap' = mishap \/ mishap = "none"
    /\ UNCHANGED <<driver, openOption, powerState, powerAction>>

\* The Modules of ms are closed, those of gone not notified anymore.
Closed(ms, gone) ==
    \A m \in Modules :
       /\ moduleState'[m] = IF m \in ms /\ Open(m) THEN "Closed" ELSE moduleState[m]
       /\ openedDuring'[m] = IF m \in ms /\ Open(m) THEN "Invalid" ELSE openedDuring[m]
       /\ m \in registered' <=> m \in registered /\ m \notin gone
       /\ registeredDuring'[m] = IF m \in gone THEN "Invalid" ELSE registeredDuring[m]

Stopped(k) ==
    /\ callback \in Stops /\ Dispatched(k)
    /\ \A m \in Modules : k \in ToSet(Children[m]) => ~Waiting(m)
    /\ Closed(IF Closes(k) \/ Unregisters(k) THEN {k} ELSE {}, IF Unregisters(k) THEN {k} ELSE {})

\* No Child is closed without its Parent; the Module of the collection that is looked
\* at is closed when the record says so.
CleanedUpTo(ms, gone) ==
    /\ callback \in Cleanups /\ pending # <<>> /\ Closed(ms, gone) /\ gone \subseteq ms
    /\ \A p \in Modules : \A c \in ToSet(Children[p]) : c \in ms => p \in ms
    /\ \E k \in Modules :
          /\ \A m \in Modules : Waiting(m) => Waiting(m)' \/ m = k
          /\ openedDuring[k] = CleanedUp[callback] => k \in ms
          /\ openedDuring[k] # CleanedUp[callback] /\ registeredDuring[k] = CleanedUp[callback]
                => k \in gone
    /\ UNCHANGED <<config, device, callback, powerState, powerAction>>

Destroyed(k) ==
    /\ callback = "TreeDestroy" /\ Dispatched(k)
    /\ \A m \in Modules : m # k => Same(m)
    /\ moduleState'[k] = "Destroyed" /\ openedDuring'[k] = openedDuring[k]
    /\ registeredDuring'[k] = registeredDuring[k] /\ (k \in registered' <=> k \in registered)

Ended ==
    /\ callback # "none" /\ \A m \in Modules : ~Waiting(m)
    /\ callback = "CloseOnDestroy" => callback' = "TreeDestroy" /\ \A m \in Modules : Waiting(m)'
    /\ callback = "CleanupSystemPowerUp" =>
          callback' = "CleanupD0Entry" /\ \A r \in ToSet(Roots) : Waiting(r)'
    /\ callback \notin {"CloseOnDestroy", "CleanupSystemPowerUp"} => callback' = "none"
    /\ device' = CASE callback = "PostCreate" -> "created"
                   [] callback = "PrepareHardware" -> "prepared"
                   [] callback = "D0Entry" -> "D0"
                   [] callback = "D0Exit" -> IF powerState = "D3" THEN "D3" ELSE "exited"
                   [] callback = "ReleaseHardware" ->
                        IF driver = "PnP" /\ device = "exited" THEN "released" ELSE "removed"
                   [] callback \in {"CleanupPrepareHardware", "CleanupD0Entry"} ->
                        IF driver = "PnP" THEN "failing" ELSE "failed"
                   [] callback = "TreeDestroy" -> "destroyed"
                   [] OTHER -> device
    /\ UNCHANGED <<config, modules, powerState, powerAction>>

\* A notification opens or closes k.
Notified(k) ==
    /\ k \in Modules /\ k \in registered /\ moduleState[k] # "Destroyed"
    /\ \A m \in Modules : m # k => Same(m)
    /\ \/ moduleState'[k] = "Opened" /\ openedDuring'[k] = "Manual"
       \/ moduleState'[k] = "Closed" /\ openedDuring'[k] = "Invalid"
    /\ registeredDuring'[k] = registeredDuring[k] /\ k \in registered'
    /\ UNCHANGED <<config, device, callback, pending, powerState, powerAction>>

DeviceStep == \/ Begun \/ Ended
              \/ \E k \in Modules :
                    Started(k) \/ Failed(k) \/ Stopped(k) \/ Destroyed(k) \/ Notified(k)
              \/ \E ms \in SUBSET Modules : \E gone \in SUBSET Modules : CleanedUpTo(ms, gone)
              \/ UNCHANGED deviceVars

\* The options, by name.
LEMMA OptionFacts ==
    /\ ToSet(OpenOptions) = {"OPEN_Create", "OPEN_PrepareHardware",
                             "OPEN_D0EntrySystemPowerUp", "OPEN_D0Entry",
                             "NOTIFY_PrepareHardware", "NOTIFY_D0Entry", "NOTIFY_Create"}
    /\ DeviceTypeOK => \A m \in Modules : openOption[m] \in ToSet(OpenOptions)
<1>1. ToSet(OpenOptions) = {"OPEN_Create", "OPEN_PrepareHardware",
                            "OPEN_D0EntrySystemPowerUp", "OPEN_D0Entry",
                            "NOTIFY_PrepareHardware", "NOTIFY_D0Entry", "NOTIFY_Create"}
  <2>1. DOMAIN OpenOptions = 1 .. 7
    BY DEF OpenOptions
  <2>2. /\ OpenOptions[1] = "OPEN_Create" /\ OpenOptions[2] = "OPEN_PrepareHardware"
        /\ OpenOptions[3] = "OPEN_D0EntrySystemPowerUp" /\ OpenOptions[4] = "OPEN_D0Entry"
        /\ OpenOptions[5] = "NOTIFY_PrepareHardware" /\ OpenOptions[6] = "NOTIFY_D0Entry"
        /\ OpenOptions[7] = "NOTIFY_Create"
    BY DEF OpenOptions
  <2>3. \A i : i \in 1 .. 7 <=> i \in {1, 2, 3, 4, 5, 6, 7}
    OBVIOUS
  <2> QED BY <2>1, <2>2, <2>3 DEF ToSet
<1>2. DeviceTypeOK => \A m \in Modules : openOption[m] \in ToSet(OpenOptions)
  BY DriverAssumption DEF DeviceTypeOK
<1> QED BY <1>1, <1>2

\* A callback that begins has all Modules before it.
LEMMA DispatchIs ==
    ASSUME NEW c \in Callbacks, Dispatch(c)
    PROVE  /\ callback' = c /\ pending' \in Seq(Modules)
           /\ c \in Starts \cup {"TreeDestroy"} => UpList(pending')
           /\ c \in Stops => DownList(pending')
           /\ c \in Cleanups => pending' \in Seq(ToSet(Roots))
           /\ c \notin Cleanups => \A m \in Modules : Waiting(m)'
           /\ c \in Cleanups => \A r \in ToSet(Roots) : Waiting(r)'
<1>1. callback' = c /\ pending' = DispatchOrder(c)
  BY DEF Dispatch
<1>2. c \in Starts \cup {"TreeDestroy"} \/ c \in Stops \/ c \in Cleanups
  BY DEF Callbacks, Stops
<1> QED BY <1>1, <1>2, Orders DEF UpList, DownList, Waiting

\* And each step takes one of them off.
LEMMA DispatchedIs ==
    ASSUME OrderInv, callback \in Starts \cup Stops \cup {"TreeDestroy"}, pending # <<>>,
           pending' = Tail(pending),
           UNCHANGED <<config, device, callback, powerState, powerAction>>
    PROVE  /\ Dispatched(Head(pending)) /\ Head(pending) \in Modules
           /\ callback \in Starts \cup {"TreeDestroy"} =>
                UpList(pending') /\ \A c \in ToSet(Children[Head(pending)]) : ~Waiting(c)
           /\ callback \in Stops =>
                /\ DownList(pending')
                /\ \A m \in Modules : Head(pending) \in ToSet(Children[m]) => ~Waiting(m)
<1>1. CASE callback \in Starts \cup {"TreeDestroy"}
  <2>1. UpList(pending)
    BY <1>1 DEF OrderInv
  <2>2. callback \notin Stops
    BY <1>1 DEF Starts, Stops
  <2> QED BY <1>1, <2>1, <2>2, UpTail DEF Dispatched, Waiting
<1>2. CASE callback \in Stops
  <2>1. DownList(pending)
    BY <1>2 DEF OrderInv
  <2>2. callback \notin Starts \cup {"TreeDestroy"}
    BY <1>2 DEF Starts, Stops
  <2> QED BY <1>2, <2>1, <2>2, DownTail DEF Dispatched, Waiting
<1> QED BY <1>1, <1>2

\* A callback begins with the list of its order and goes through it.
LEMMA OrderHolds ==
    ASSUME DeviceTypeOK, OrderInv, [DeviceNext]_deviceVars
    PROVE  OrderInv' /\ pending' \in Seq(Modules) /\ callback' \in Callbacks \cup {"none"}
<1> USE DEF Callbacks, Starts, Stops, Cleanups
<1>1. ASSUME NEW c \in Callbacks, Dispatch(c)
      PROVE  OrderInv' /\ pending' \in Seq(Modules) /\ callback' \in Callbacks \cup {"none"}
  BY <1>1, DispatchIs DEF OrderInv
<1>2. ASSUME callback' = "none", pending' \in Seq(Modules)
      PROVE  OrderInv' /\ pending' \in Seq(Modules) /\ callback' \in Callbacks \cup {"none"}
  BY <1>2 DEF OrderInv
<1>3. ASSUME UNCHANGED <<callback, pending>>
      PROVE  OrderInv' /\ pending' \in Seq(Modules) /\ callback' \in Callbacks \cup {"none"}
  BY <1>3 DEF OrderInv, UpList, DownList, DeviceTypeOK
<1>4. ASSUME callback \in Starts \cup Stops \cup {"TreeDestroy"}, pending # <<>>,
             pending' = Tail(pending),
             UNCHANGED <<config, device, callback, powerState, powerAction>>
      PROVE  OrderInv' /\ pending' \in Seq(Modules) /\ callback' \in Callbacks \cup {"none"}
  <2>1. /\ callback \in Starts \cup {"TreeDestroy"} => UpList(pending')
        /\ callback \in Stops => DownList(pending')
    BY <1>4, DispatchedIs
  <2> QED BY <1>4, <2>1 DEF OrderInv, DeviceTypeOK, UpList, DownList
<1>5. CASE BeginPostCreate
  BY <1>1, <1>5 DEF BeginPostCreate
<1>6. CASE BeginPrepareHardware
  BY <1>1, <1>6 DEF BeginPrepareHardware
<1>7. CASE BeginD0Entry
  BY <1>1, <1>7 DEF BeginD0Entry
<1>8. CASE BeginD0Exit
  BY <1>1, <1>8 DEF BeginD0Exit
<1>9. CASE BeginReleaseHardware
  BY <1>1, <1>9 DEF BeginReleaseHardware
<1>10. CASE BeginDestroy
  BY <1>1, <1>10 DEF BeginDestroy
<1>11. CASE Start
  BY <1>4, <1>11 DEF Start
<1>12. CASE StartFails
  <2>1. <<>> \in Seq(Modules)
    OBVIOUS
  <2>2. callback \in Starts
    BY <1>12 DEF StartFails
  <2>3. CASE callback = "PostCreate"
    BY <1>2, <1>12, <2>1, <2>3 DEF StartFails
  <2>4. CASE callback = "PrepareHardware"
    BY <1>1, <1>12, <2>4 DEF StartFails
  <2>5. CASE callback = "D0Entry"
    BY <1>1, <1>12, <2>5 DEF StartFails
  <2> QED BY <2>2, <2>3, <2>4, <2>5
<1>13. CASE Stop
  BY <1>4, <1>13 DEF Stop
<1>14. CASE Cleanup
  <2>1. pending \in Seq(ToSet(Roots)) /\ pending # <<>> /\ pending' = Tail(pending)
        /\ callback' = callback /\ callback \in Cleanups
    BY <1>14 DEF Cleanup, OrderInv
  <2>2. pending' \in Seq(ToSet(Roots)) /\ ToSet(Roots) \subseteq Modules
    BY <2>1, RootTrees
  <2>3. pending' \in Seq(Modules)
    BY <2>2
  <2> QED BY <2>1, <2>2, <2>3 DEF OrderInv
<1>15. CASE TreeDestroy
  BY <1>4, <1>15 DEF TreeDestroy
<1>16. CASE CallbackEnds
  <2>1. CASE callback = "CleanupSystemPowerUp"
    BY <1>1, <1>16, <2>1 DEF CallbackEnds
  <2>2. CASE callback = "CloseOnDestroy"
    BY <1>1, <1>16, <2>2 DEF CallbackEnds
  <2>3. CASE callback \notin {"CleanupSystemPowerUp", "CloseOnDestroy"}
    BY <1>2, <1>16, <2>3 DEF CallbackEnds, DeviceTypeOK
  <2> QED BY <2>1, <2>2, <2>3
<1>17. ASSUME NEW m \in Modules, Arrival(m) \/ Removal(m)
       PROVE  OrderInv' /\ pending' \in Seq(Modules) /\ callback' \in Callbacks \cup {"none"}
  BY <1>3, <1>17 DEF Arrival, Removal
<1>18. CASE UNCHANGED deviceVars
  BY <1>3, <1>18 DEF deviceVars
<1> QED BY <1>5, <1>6, <1>7, <1>8, <1>9, <1>10, <1>11, <1>12, <1>13, <1>14, <1>15, <1>16,
           <1>17, <1>18 DEF DeviceNext

\* Which callback runs says where the device is.
LEMMA PlaceHolds ==
    ASSUME DeviceTypeOK, PlaceInv, [DeviceNext]_deviceVars
    PROVE  PlaceInv'
<1> USE DEF PlaceInv, Dispatch, config, Cleanups, Starts
<1>1. CASE BeginPostCreate
  BY <1>1 DEF BeginPostCreate
<1>2. CASE BeginPrepareHardware
  BY <1>2 DEF BeginPrepareHardware
<1>3. CASE BeginD0Entry
  BY <1>3 DEF BeginD0Entry
<1>4. CASE BeginD0Exit
  BY <1>4 DEF BeginD0Exit
<1>5. CASE BeginReleaseHardware
  BY <1>5 DEF BeginReleaseHardware
<1>6. CASE BeginDestroy
  BY <1>6 DEF BeginDestroy, ManualDestroyIsPending
<1>7. CASE Start
  BY <1>7 DEF Start
<1>8. CASE StartFails
  BY <1>8 DEF StartFails
<1>9. CASE Stop
  BY <1>9 DEF Stop
<1>10. CASE Cleanup
  BY <1>10 DEF Cleanup
<1>11. CASE TreeDestroy
  BY <1>11 DEF TreeDestroy
<1>12. CASE CallbackEnds
  <2>1. /\ driver' = driver /\ powerState' = powerState /\ mishap' = mishap
        /\ callback # "none" /\ pending = <<>>
    BY <1>12 DEF CallbackEnds
  <2>2. /\ callback = "CleanupSystemPowerUp" => callback' = "CleanupD0Entry" /\ device' = device
        /\ callback = "CloseOnDestroy" => callback' = "TreeDestroy" /\ device' = device
        /\ callback \notin {"CleanupSystemPowerUp", "CloseOnDestroy"} =>
             callback' = "none" /\ pending' = <<>>
    BY <1>12 DEF CallbackEnds
  <2>3. CASE callback = "CleanupSystemPowerUp"
    BY <2>1, <2>2, <2>3
  <2>4. CASE callback = "CloseOnDestroy"
    BY <2>1, <2>2, <2>4
  <2>5. CASE callback \notin {"CleanupSystemPowerUp", "CloseOnDestroy"}
    <3>1. callback \in Callbacks
      BY <2>1 DEF DeviceTypeOK
    <3> QED BY <1>12, <2>1, <2>2, <2>5, <3>1 DEF CallbackEnds, Callbacks
  <2> QED BY <2>3, <2>4, <2>5
<1>13. ASSUME NEW m \in Modules, Arrival(m) \/ Removal(m) PROVE PlaceInv'
  BY <1>13 DEF Arrival, Removal
<1>14. CASE UNCHANGED deviceVars
  BY <1>14 DEF deviceVars
<1> QED BY <1>1, <1>2, <1>3, <1>4, <1>5, <1>6, <1>7, <1>8, <1>9, <1>10, <1>11, <1>12,
           <1>13, <1>14 DEF DeviceNext

\* What is closed, by the action that closes.
LEMMA CloseAllIs ==
    ASSUME NEW ms \in SUBSET Modules, NEW gone \in SUBSET Modules, DeviceTypeOK, CloseAll(ms),
           \A m \in Modules : /\ m \in registered' <=> m \in registered /\ m \notin gone
                              /\ registeredDuring'[m] = IF m \in gone THEN "Invalid"
                                                                     ELSE registeredDuring[m]
    PROVE  Closed(ms, gone)
BY DEF CloseAll, Closed, Open

\* Each action keeps the types.
LEMMA TypeHolds ==
    ASSUME DeviceTypeOK, OrderInv, [DeviceNext]_deviceVars
    PROVE  DeviceTypeOK'
<1>1. pending' \in Seq(Modules) /\ callback' \in Callbacks \cup {"none"}
  BY OrderHolds
<1> DEFINE Rest == /\ device' \in Devices
                   /\ powerState' \in {"D0", "D3", "D3Final"}
                   /\ powerAction' \in {"None", "Sleep", "Hibernate"}
                   /\ mishap' \in Mishaps \cup {"none"}
           Mods == /\ moduleState' \in [Modules -> {"Created", "Opened", "Closed", "Destroyed"}]
                   /\ openedDuring' \in [Modules -> During]
                   /\ registeredDuring' \in [Modules -> {"Invalid", "PrepareHardware", "D0Entry"}]
                   /\ registered' \subseteq {m \in Modules : openOption[m] \notin OpenTypes}
<1>2. ASSUME UNCHANGED <<driver, openOption>>, Rest, Mods PROVE DeviceTypeOK'
  BY <1>1, <1>2 DEF DeviceTypeOK
<1> USE DEF DeviceTypeOK
<1>3. ASSUME UNCHANGED <<driver, openOption, modules, device>>, Rest PROVE DeviceTypeOK'
  <2>1. Mods
    BY <1>3 DEF modules
  <2> HIDE DEF DeviceTypeOK, Mods, Rest
  <2> QED BY <1>2, <1>3, <2>1
<1>4. ASSUME UNCHANGED <<config, device, powerState, powerAction>>, Mods PROVE DeviceTypeOK'
  <2>1. Rest
    BY <1>4 DEF config
  <2>2. UNCHANGED <<driver, openOption>>
    BY <1>4 DEF config
  <2> HIDE DEF DeviceTypeOK, Mods, Rest
  <2> QED BY <1>2, <1>4, <2>1, <2>2
<1>5. CASE BeginPostCreate
  BY <1>3, <1>5 DEF BeginPostCreate, config
<1>6. CASE BeginPrepareHardware
  BY <1>3, <1>6 DEF BeginPrepareHardware, config
<1>7. CASE BeginD0Entry
  BY <1>3, <1>7 DEF BeginD0Entry, config
<1>8. CASE BeginD0Exit
  BY <1>3, <1>8 DEF BeginD0Exit, config
<1>9. CASE BeginReleaseHardware
  BY <1>3, <1>9 DEF BeginReleaseHardware, Mishaps
<1>10. CASE BeginDestroy
  BY <1>3, <1>10 DEF BeginDestroy, Mishaps
<1>11. CASE Start
  <2> DEFINE k == Head(pending)
  <2>1. k \in Modules /\ callback \in Starts
    BY <1>11, DispatchedIs DEF Start
  <2> HIDE DEF k
  <2>2. DuringNow(k) \in During
    BY <2>1 DEF DuringNow, During, Starts
  <2>3. /\ moduleState' \in [Modules -> {"Created", "Opened", "Closed", "Destroyed"}]
        /\ openedDuring' \in [Modules -> During]
    BY <1>11, <2>1, <2>2 DEF Start, k
  <2>4. Registers(k) => openOption[k] \notin OpenTypes
    BY <2>1 DEF Registers, RegisteredHere, OpenTypes, Starts
  <2>5. registeredDuring' \in [Modules -> {"Invalid", "PrepareHardware", "D0Entry"}]
    BY <1>11, <2>1 DEF Start, Starts, k
  <2>6. registered' \subseteq {m \in Modules : openOption[m] \notin OpenTypes}
    BY <1>11, <2>1, <2>4 DEF Start, k
  <2> QED BY <1>4, <1>11, <2>3, <2>5, <2>6 DEF Start
<1>12. CASE StartFails
  <2>1. Rest /\ UNCHANGED <<driver, openOption>>
    BY <1>12 DEF StartFails, Devices, Starts, Mishaps
  <2>2. Mods
    BY <1>12 DEF StartFails
  <2> QED BY <1>2, <2>1, <2>2
<1>13. CASE Stop
  <2>1. /\ moduleState' \in [Modules -> {"Created", "Opened", "Closed", "Destroyed"}]
        /\ openedDuring' \in [Modules -> During]
    BY <1>13 DEF Stop, CloseAll, During
  <2>2. registeredDuring' \in [Modules -> {"Invalid", "PrepareHardware", "D0Entry"}]
    BY <1>13 DEF Stop
  <2>3. registered' \subseteq {m \in Modules : openOption[m] \notin OpenTypes}
    BY <1>13 DEF Stop
  <2> QED BY <1>4, <1>13, <2>1, <2>2, <2>3 DEF Stop
<1>14. CASE Cleanup
  <2>1. Mods
    BY <1>14 DEF Cleanup, CloseAll, During, modules
  <2> QED BY <1>4, <1>14, <2>1 DEF Cleanup
<1>15. CASE TreeDestroy
  BY <1>4, <1>15 DEF TreeDestroy
<1>16. CASE CallbackEnds
  <2>1. device' \in Devices
    BY <1>16 DEF CallbackEnds, Devices, Callbacks, Starts, Cleanups
  <2>2. Rest /\ UNCHANGED <<driver, openOption>>
    BY <1>16, <2>1 DEF CallbackEnds, config
  <2>3. Mods
    BY <1>16 DEF CallbackEnds, modules
  <2> QED BY <1>2, <2>2, <2>3
<1>17. ASSUME NEW m \in Modules, Arrival(m) PROVE DeviceTypeOK'
  BY <1>4, <1>17 DEF Arrival, During
<1>18. ASSUME NEW m \in Modules, Removal(m) PROVE DeviceTypeOK'
  BY <1>4, <1>18 DEF Removal, CloseAll, During
<1>19. CASE UNCHANGED deviceVars
  BY <1>3, <1>19 DEF deviceVars, config
<1> QED BY <1>5, <1>6, <1>7, <1>8, <1>9, <1>10, <1>11, <1>12, <1>13, <1>14, <1>15, <1>16,
           <1>17, <1>18, <1>19 DEF DeviceNext

\* Each action of the specification is one of the few kinds of step.
LEMMA StepsAre ==
    ASSUME DeviceTypeOK, PlaceInv, OrderInv, [DeviceNext]_deviceVars
    PROVE  DeviceStep
<1>1. ASSUME NEW c \in Starts \cup Stops, Dispatch(c), callback = "none",
             UNCHANGED <<driver, openOption, modules, device>>,
             powerAction' \in {powerAction, "None"} \/ c = "D0Exit",
             mishap' = mishap \/ mishap = "none"
      PROVE  DeviceStep
  <2>1. c \in Callbacks /\ c \notin Cleanups
    BY DEF Callbacks, Starts, Stops, Cleanups
  <2>2. callback' = c /\ \A m \in Modules : Waiting(m)'
    BY <1>1, <2>1, DispatchIs
  <2> QED BY <1>1, <2>2 DEF DeviceStep, Begun
<1>2. CASE BeginPostCreate
  BY <1>1, <1>2 DEF BeginPostCreate, Starts, config
<1>3. CASE BeginPrepareHardware
  BY <1>1, <1>3 DEF BeginPrepareHardware, Starts, config
<1>4. CASE BeginD0Entry
  BY <1>1, <1>4 DEF BeginD0Entry, Starts, config
<1>5. CASE BeginD0Exit
  BY <1>1, <1>5 DEF BeginD0Exit, Stops, config
<1>6. CASE BeginReleaseHardware
  <2>1. mishap' = mishap \/ mishap = "none"
    BY <1>6 DEF BeginReleaseHardware, PlaceInv, DeviceTypeOK, Mishaps
  <2> QED BY <1>1, <1>6, <2>1 DEF BeginReleaseHardware, Stops
<1>7. CASE BeginDestroy
  <2>1. mishap' = mishap \/ mishap = "none"
    BY <1>7 DEF BeginDestroy, ManualDestroyIsPending, PlaceInv, DeviceTypeOK, Mishaps
  <2>2. UNCHANGED <<driver, openOption, modules, device, powerAction>>
    BY <1>7 DEF BeginDestroy
  <2> QED BY <1>1, <1>7, <2>1, <2>2 DEF BeginDestroy, Stops
<1> DEFINE k == Head(pending)
<1>8. CASE Start
  <2>1. /\ callback \in Starts /\ pending # <<>> /\ pending' = Tail(pending)
        /\ UNCHANGED <<config, device, callback, powerState, powerAction>>
    BY <1>8 DEF Start
  <2>2. /\ Dispatched(k) /\ k \in Modules
        /\ \A c \in ToSet(Children[k]) : ~Waiting(c)
    BY <2>1, DispatchedIs
  <2> HIDE DEF k
  <2>3. /\ callback = "PostCreate" => Compatible(k)
        /\ IF Opens(k)
              THEN /\ moduleState' = [moduleState EXCEPT ![k] = "Opened"]
                   /\ openedDuring' = [openedDuring EXCEPT ![k] = DuringNow(k)]
              ELSE UNCHANGED <<moduleState, openedDuring>>
        /\ IF Registers(k)
              THEN /\ registered' = registered \cup {k}
                   /\ registeredDuring' = [registeredDuring EXCEPT ![k] =
                         IF callback = "PostCreate" THEN @ ELSE callback]
              ELSE UNCHANGED <<registered, registeredDuring>>
    BY <1>8 DEF Start, k
  <2>4. \A m \in Modules : m # k => Same(m)
    BY <2>2, <2>3 DEF Same, DeviceTypeOK
  <2>5. Started(k)
    BY <2>1, <2>2, <2>3, <2>4 DEF Started, DeviceTypeOK
  <2> QED BY <2>2, <2>5 DEF DeviceStep
<1>9. CASE StartFails
  <2>1. callback \in Starts /\ pending # <<>> /\ UpList(pending)
    BY <1>9 DEF StartFails, OrderInv
  <2>2. k \in Modules /\ Waiting(k)
    BY <2>1, UpTail DEF Waiting
  <2> HIDE DEF k
  <2>3. /\ callback # "PostCreate" => callback \in Failing[driver]
        /\ moduleState' = IF Opens(k) THEN [moduleState EXCEPT ![k] = "Created"]
                                      ELSE moduleState
        /\ UNCHANGED <<driver, openOption, openedDuring, registeredDuring, registered,
                       powerState, powerAction>>
    BY <1>9 DEF StartFails, k
  <2>4. \A m \in Modules : m # k => Same(m)
    BY <2>2, <2>3 DEF Same, DeviceTypeOK
  <2>5. /\ callback = "PostCreate" => device' = "removed" /\ callback' = "none"
        /\ callback # "PostCreate" => device' = "failing" /\ callback' \in Cleanups
    BY <1>9, <2>1 DEF StartFails, Dispatch, Cleanups, Starts
  <2>6. moduleState'[k] = IF Opens(k) THEN "Created" ELSE moduleState[k]
    BY <2>2, <2>3 DEF DeviceTypeOK
  <2>7. ASSUME callback = "D0Entry"
        PROVE  /\ callback' = "CleanupSystemPowerUp"
               /\ \A r \in ToSet(Roots) : Waiting(r)'
    <3>1. Dispatch("CleanupSystemPowerUp")
      BY <1>9, <2>7 DEF StartFails
    <3> QED BY <3>1, DispatchIs DEF Callbacks, Cleanups
  <2>8. /\ callback = "D0Entry" /\ driver = "PnP" => mishap' = "D0EntryFailed"
        /\ mishap' = mishap \/ mishap = "none"
    BY <1>9, <2>1 DEF StartFails, PlaceInv, DeviceTypeOK, Mishaps
  <2>9. Failed(k)
    BY <2>1, <2>2, <2>3, <2>4, <2>5, <2>6, <2>7, <2>8 DEF Failed, k
  <2> QED BY <2>2, <2>9 DEF DeviceStep
<1>10. CASE Stop
  <2>1. /\ callback \in Stops /\ pending # <<>> /\ pending' = Tail(pending)
        /\ UNCHANGED <<config, device, callback, powerState, powerAction>>
    BY <1>10 DEF Stop, Stops
  <2>2. /\ Dispatched(k) /\ k \in Modules
        /\ \A m \in Modules : k \in ToSet(Children[m]) => ~Waiting(m)
    BY <2>1, DispatchedIs
  <2> DEFINE ms == IF Closes(k) \/ Unregisters(k) THEN {k} ELSE {}
             gone == IF Unregisters(k) THEN {k} ELSE {}
  <2> HIDE DEF k
  <2>3. CloseAll(ms)
    <3>1. IF Closes(k) \/ Unregisters(k) THEN CloseAll({k})
                                         ELSE UNCHANGED <<moduleState, openedDuring>>
      BY <1>10 DEF Stop, k
    <3> QED BY <3>1 DEF CloseAll, DeviceTypeOK
  <2>4. \A m \in Modules : /\ m \in registered' <=> m \in registered /\ m \notin gone
                           /\ registeredDuring'[m] = IF m \in gone THEN "Invalid"
                                                                  ELSE registeredDuring[m]
    <3>1. /\ registered' = IF Unregisters(k) THEN registered \ {k} ELSE registered
          /\ registeredDuring' = IF Unregisters(k)
                                    THEN [registeredDuring EXCEPT ![k] = "Invalid"]
                                    ELSE registeredDuring
      BY <1>10 DEF Stop, k
    <3> QED BY <2>2, <3>1 DEF DeviceTypeOK
  <2>5. ms \subseteq Modules /\ gone \subseteq Modules
    BY <2>2
  <2> HIDE DEF ms, gone
  <2>6. Closed(ms, gone)
    BY <2>3, <2>4, <2>5, CloseAllIs
  <2> USE DEF ms, gone
  <2> HIDE DEF k
  <2>7. Stopped(k)
    BY <2>1, <2>2, <2>6 DEF Stopped
  <2> QED BY <2>2, <2>7 DEF DeviceStep
<1>11. CASE Cleanup
  <2>1. /\ callback \in Cleanups /\ pending # <<>> /\ pending \in Seq(ToSet(Roots))
        /\ UNCHANGED <<config, device, callback, powerState, powerAction>>
    BY <1>11 DEF Cleanup, OrderInv
  <2>2. k \in ToSet(Roots) /\ pending' = Tail(pending)
    BY <1>11, <2>1 DEF Cleanup
  <2>9. \A m \in Modules : Waiting(m) => Waiting(m)' \/ m = k
    <3> SUFFICES ASSUME NEW m \in Modules, Waiting(m), m # k PROVE Waiting(m)'
      OBVIOUS
    <3>1. PICK i \in 1 .. Len(pending) : pending[i] = m
      BY <2>1, InList DEF Waiting
    <3>2. i # 1 /\ i - 1 \in 1 .. Len(pending')
      BY <2>1, <2>2, <3>1
    <3>3. pending'[i - 1] = m /\ pending' \in Seq(ToSet(Roots))
      BY <2>1, <2>2, <3>1, <3>2
    <3> QED BY <3>2, <3>3, InList DEF Waiting
  <2> DEFINE tree == ToSet(parentFirstBackward[k])
  <2>3. /\ k \in Modules /\ \A p \in Modules : k \notin ToSet(Children[p])
        /\ tree \subseteq Modules /\ k \in tree
        /\ \A p \in Modules : \A c \in ToSet(Children[p]) : c \in tree <=> p \in tree
    BY <2>2, RootTrees
  <2>4. \/ CloseAll({k}) /\ UNCHANGED <<registered, registeredDuring>>
           /\ openedDuring[k] = CleanedUp[callback]
        \/ /\ CloseAll(tree) /\ openedDuring[k] # CleanedUp[callback]
           /\ registered' = registered \ tree
           /\ registeredDuring' = [n \in Modules |-> IF n \in tree THEN "Invalid"
                                                     ELSE registeredDuring[n]]
        \/ /\ UNCHANGED modules /\ openedDuring[k] # CleanedUp[callback]
           /\ registeredDuring[k] # CleanedUp[callback]
    BY <1>11 DEF Cleanup
  <2> HIDE DEF k, tree
  <2>5. CASE CloseAll({k}) /\ UNCHANGED <<registered, registeredDuring>>
             /\ openedDuring[k] = CleanedUp[callback]
    <3>1. Closed({k}, {})
      BY <2>3, <2>5, CloseAllIs
    <3>2. CleanedUpTo({k}, {})
      BY <2>1, <2>3, <2>5, <2>9, <3>1 DEF CleanedUpTo
    <3> QED BY <2>3, <3>2 DEF DeviceStep
  <2>6. CASE /\ CloseAll(tree) /\ openedDuring[k] # CleanedUp[callback]
             /\ registered' = registered \ tree
             /\ registeredDuring' = [n \in Modules |-> IF n \in tree THEN "Invalid"
                                                       ELSE registeredDuring[n]]
    <3>1. Closed(tree, tree)
      BY <2>3, <2>6, CloseAllIs
    <3>2. CleanedUpTo(tree, tree)
      BY <2>1, <2>3, <2>6, <2>9, <3>1 DEF CleanedUpTo
    <3> QED BY <2>3, <3>2 DEF DeviceStep
  <2>7. CASE /\ UNCHANGED modules /\ openedDuring[k] # CleanedUp[callback]
             /\ registeredDuring[k] # CleanedUp[callback]
    <3>1. Closed({}, {})
      BY <2>7 DEF Closed, modules
    <3>2. CleanedUpTo({}, {})
      BY <2>1, <2>3, <2>7, <2>9, <3>1 DEF CleanedUpTo
    <3> QED BY <3>2 DEF DeviceStep
  <2> QED BY <2>4, <2>5, <2>6, <2>7
<1>12. CASE TreeDestroy
  <2>1. /\ callback = "TreeDestroy" /\ pending # <<>> /\ pending' = Tail(pending)
        /\ moduleState' = [moduleState EXCEPT ![k] = "Destroyed"]
        /\ UNCHANGED <<config, openedDuring, registeredDuring, registered, device, callback,
                       powerState, powerAction>>
    BY <1>12 DEF TreeDestroy
  <2>2. Dispatched(k) /\ k \in Modules
    BY <2>1, DispatchedIs
  <2> HIDE DEF k
  <2>3. \A m \in Modules : m # k => Same(m)
    BY <2>1, <2>2 DEF Same, DeviceTypeOK
  <2>4. Destroyed(k)
    BY <2>1, <2>2, <2>3 DEF Destroyed, DeviceTypeOK
  <2> QED BY <2>2, <2>4 DEF DeviceStep
<1>13. CASE CallbackEnds
  <2>1. /\ callback # "none" /\ pending = <<>>
        /\ UNCHANGED <<config, modules, powerState, powerAction>>
    BY <1>13 DEF CallbackEnds
  <2>2. \A m \in Modules : ~Waiting(m)
    BY <2>1 DEF Waiting, ToSet
  <2>3. callback = "CloseOnDestroy" => callback' = "TreeDestroy" /\ \A m \in Modules : Waiting(m)'
    <3>1. callback = "CloseOnDestroy" => Dispatch("TreeDestroy")
      BY <1>13 DEF CallbackEnds
    <3> QED BY <3>1, DispatchIs DEF Callbacks, Cleanups
  <2>4. /\ callback = "CleanupSystemPowerUp" =>
             callback' = "CleanupD0Entry" /\ \A r \in ToSet(Roots) : Waiting(r)'
        /\ callback \notin {"CloseOnDestroy", "CleanupSystemPowerUp"} => callback' = "none"
    <3>1. callback = "CleanupSystemPowerUp" => Dispatch("CleanupD0Entry")
      BY <1>13 DEF CallbackEnds
    <3> QED BY <1>13, <3>1, DispatchIs DEF CallbackEnds, Callbacks, Cleanups
  <2>5. device' = CASE callback = "PostCreate" -> "created"
                    [] callback = "PrepareHardware" -> "prepared"
                    [] callback = "D0Entry" -> "D0"
                    [] callback = "D0Exit" -> IF powerState = "D3" THEN "D3" ELSE "exited"
                    [] callback = "ReleaseHardware" ->
                         IF driver = "PnP" /\ device = "exited" THEN "released" ELSE "removed"
                    [] callback \in {"CleanupPrepareHardware", "CleanupD0Entry"} ->
                         IF driver = "PnP" THEN "failing" ELSE "failed"
                    [] callback = "TreeDestroy" -> "destroyed"
                    [] OTHER -> device
    BY <1>13 DEF CallbackEnds
  <2> QED BY <2>1, <2>2, <2>3, <2>4, <2>5 DEF DeviceStep, Ended
<1>14. ASSUME NEW m \in Modules, Arrival(m) PROVE DeviceStep
  <2>1. \A n \in Modules : n # m => Same(n)
    BY <1>14 DEF Arrival, Same, DeviceTypeOK
  <2>2. Notified(m)
    BY <1>14, <2>1 DEF Arrival, Notified, DeviceTypeOK
  <2> QED BY <2>2 DEF DeviceStep
<1>15. ASSUME NEW m \in Modules, Removal(m) PROVE DeviceStep
  <2>1. \A n \in Modules : n # m => Same(n)
    BY <1>15 DEF Removal, CloseAll, Same, DeviceTypeOK
  <2>2. Notified(m)
    BY <1>15, <2>1 DEF Removal, CloseAll, Notified, DeviceTypeOK
  <2> QED BY <2>2 DEF DeviceStep
<1>16. CASE UNCHANGED deviceVars
  BY <1>16 DEF DeviceStep
<1> QED BY <1>2, <1>3, <1>4, <1>5, <1>6, <1>7, <1>8, <1>9, <1>10, <1>11, <1>12, <1>13, <1>14,
           <1>15, <1>16 DEF DeviceNext

-----------------------------------------------------------------------------
(* What the invariant says of a callback.                                   *)

\* What is forgotten stays so; nothing is while a device starts.
LEMMA ForgottenStays ==
    ASSUME DeviceTypeOK, DeviceStep, NEW m \in Modules, Forgotten(m)
    PROVE  Forgotten(m)'
<1>1. openOption' = openOption /\ (mishap' = mishap \/ mishap = "none")
  BY DEF DeviceStep, Begun, Ended, Started, Failed, Stopped, Destroyed, Notified, CleanedUpTo,
         Dispatched, deviceVars, config
<1> QED BY <1>1 DEF Forgotten

LEMMA NoneForgotten ==
    ASSUME DeviceTypeOK, PlaceInv, callback \in Starts, NEW m \in Modules
    PROVE  mishap = "none" /\ ~Forgotten(m) /\ ~InCleanup(m)
<1>1. mishap \notin {"D0EntryFailed", "removedInD3", "exitedToD0"}
  BY DEF PlaceInv, Starts
<1>2. mishap = "none"
  BY <1>1 DEF DeviceTypeOK, Mishaps
<1> QED BY <1>2 DEF Forgotten, InCleanup

\* A Module that a start has yet to open or to register is neither.
LEMMA StartReady ==
    ASSUME DeviceTypeOK, PlaceInv, PartsInv, callback \in Starts,
           NEW m \in Modules, Waiting(m), Opens(m) \/ Registers(m)
    PROVE  /\ ~Active(m) /\ moduleState[m] \in {"Created", "Closed"}
           /\ openedDuring[m] = "Invalid" /\ registeredDuring[m] = "Invalid"
<1>1. ~Active(m)
  <2>1. CASE callback = "PostCreate"
    BY <2>1 DEF PartsInv, CreateInv, PlaceInv, Opens, Registers, OpenedHere, RegisteredHere
  <2>2. CASE callback = "PrepareHardware"
    BY <2>2 DEF PartsInv, HardwareInv, PlaceInv, Opens, Registers, OpenedHere, RegisteredHere
  <2>3. CASE callback = "D0Entry"
    <3>1. openOption[m] \in {"OPEN_D0Entry", "NOTIFY_D0Entry"} => ~Active(m)
      BY <2>3, NoneForgotten DEF PartsInv, PowerInv, PlaceInv
    <3>2. openOption[m] = "OPEN_D0EntrySystemPowerUp" => ~Active(m)
      BY <2>3, NoneForgotten DEF PartsInv, SystemInv, PlaceInv, Opens, Registers, OpenedHere,
           RegisteredHere,
                  PowersUp, Active, Open, DeviceTypeOK, OpenTypes
    <3> QED BY <2>3, <3>1, <3>2 DEF Opens, Registers, OpenedHere, RegisteredHere
  <2> QED BY <2>1, <2>2, <2>3 DEF Starts
<1>2. moduleState[m] # "Destroyed"
  BY DEF PartsInv, RecordInv, Recorded, PlaceInv, Starts
<1> QED BY <1>1, <1>2 DEF PartsInv, RecordInv, Recorded, Active, Open, DeviceTypeOK

\* Nothing else is open or notified when the trees are destroyed.
LEMMA AllClosed ==
    ASSUME DeviceTypeOK, PlaceInv, PartsInv, callback = "TreeDestroy", NEW m \in Modules,
           ~Forgotten(m)
    PROVE  ~Active(m)
<1>1. openOption[m] \in {"OPEN_Create", "NOTIFY_Create"} => ~Active(m)
  BY DEF PartsInv, CreateInv
<1>2. device \in {"created", "released", "removed"}
  BY DEF PlaceInv
<1>3. openOption[m] \in {"OPEN_PrepareHardware", "NOTIFY_PrepareHardware"} => ~Active(m)
  BY <1>2 DEF PartsInv, HardwareInv
<1>4. openOption[m] \in {"OPEN_D0Entry", "NOTIFY_D0Entry"} => ~Active(m)
  BY <1>2 DEF PartsInv, PowerInv, InCleanup
<1>5. openOption[m] = "OPEN_D0EntrySystemPowerUp" => ~Active(m)
  BY <1>2 DEF PartsInv, SystemInv, InCleanup
<1> QED BY <1>1, <1>3, <1>4, <1>5, OptionFacts

\* A notification is for a Module that the framework does not open.
LEMMA NotifiedIs ==
    ASSUME DeviceTypeOK, NEW k \in Modules, Notified(k)
    PROVE  /\ openOption[k] \notin OpenTypes /\ Active(k)
           /\ \A m \in Modules : Active(m)' => Active(m)
           /\ \A m \in Modules : openOption[m] \in OpenTypes =>
                 moduleState'[m] = moduleState[m]
           /\ \A m \in Modules : Waiting(m)' <=> Waiting(m)
BY DEF DeviceTypeOK, Notified, Same, Active, Open, Waiting
\* What is open or registered after a step was so before, but for what it starts.
LEMMA ActiveAfter ==
    ASSUME DeviceTypeOK
    PROVE  /\ Begun \/ Ended \/ UNCHANGED deviceVars => \A m \in Modules : Active(m)' <=> Active(m)
           /\ \A k \in Modules :
                 /\ Started(k) => \A m \in Modules : Active(m)' =>
                       Active(m) \/ (m = k /\ (Opens(k) \/ Registers(k)))
                 /\ Failed(k) => \A m \in Modules : Active(m)' => Active(m)
                 /\ Destroyed(k) => \A m \in Modules : Active(m)' => Active(m)
           /\ \A ms, gone \in SUBSET Modules : CleanedUpTo(ms, gone) =>
                 \A m \in Modules : Active(m)' => Active(m)
<1> USE DEF Active, Open
<1>1. Begun \/ Ended \/ UNCHANGED deviceVars => \A m \in Modules : Active(m)' <=> Active(m)
  BY DEF Begun, Ended, deviceVars, modules
<1>2. ASSUME NEW k \in Modules, Started(k), NEW m \in Modules, Active(m)'
      PROVE  Active(m) \/ (m = k /\ (Opens(k) \/ Registers(k)))
  BY <1>2 DEF Started, Same
<1>3. ASSUME NEW k \in Modules, Failed(k), NEW m \in Modules, Active(m)' PROVE Active(m)
  BY <1>3 DEF Failed, Same
<1>4. ASSUME NEW k \in Modules, Destroyed(k), NEW m \in Modules, Active(m)' PROVE Active(m)
  BY <1>4 DEF Destroyed, Same
<1>5. ASSUME NEW ms \in SUBSET Modules, NEW gone \in SUBSET Modules, CleanedUpTo(ms, gone),
             NEW m \in Modules, Active(m)'
      PROVE  Active(m)
  BY <1>5 DEF CleanedUpTo, Closed
<1> HIDE DEF Active, Open
<1> QED BY <1>1, <1>2, <1>3, <1>4, <1>5

\* What a stop closes is what its callback has opened, and all of it.
LEMMA StoppedIs ==
    ASSUME DeviceTypeOK, RecordInv, NEW k \in Modules, Stopped(k)
    PROVE  /\ \A m \in Modules : Active(m)' => Active(m)
           /\ \A m \in Modules : m # k => (Open(m)' <=> Open(m))
           /\ /\ callback = "CloseOnDestroy" /\ openOption[k] \in {"OPEN_Create", "NOTIFY_Create"}
              => ~Active(k)'
           /\ /\ callback = "ReleaseHardware"
              /\ openOption[k] \in {"OPEN_PrepareHardware", "NOTIFY_PrepareHardware"}
              => ~Active(k)'
           /\ /\ callback = "D0Exit" /\ openOption[k] \in {"OPEN_D0Entry", "NOTIFY_D0Entry"}
              => ~Active(k)'
           /\ callback = "D0Exit" /\ openOption[k] = "OPEN_D0EntrySystemPowerUp" /\ PowersDown
              => ~Active(k)'
           /\ openOption[k] \in OpenTypes /\ Open(k) /\ ~Open(k)' =>
                \/ callback = "CloseOnDestroy" /\ openOption[k] = "OPEN_Create"
                \/ callback = "ReleaseHardware" /\ openOption[k] = "OPEN_PrepareHardware"
                \/ callback = "D0Exit" /\ openOption[k] = "OPEN_D0Entry"
                \/ /\ callback = "D0Exit" /\ openOption[k] = "OPEN_D0EntrySystemPowerUp"
                   /\ PowersDown
           /\ \A m \in Modules : moduleState'[m] \in {moduleState[m], "Closed"}
<1>1. /\ callback \in Stops
      /\ Closed(IF Closes(k) \/ Unregisters(k) THEN {k} ELSE {},
           IF Unregisters(k) THEN {k} ELSE {})
  BY DEF Stopped
<1>2. /\ \A m \in Modules : Active(m)' => Active(m)
      /\ \A m \in Modules : m # k => (Open(m)' <=> Open(m))
      /\ \A m \in Modules : moduleState'[m] \in {moduleState[m], "Closed"}
      /\ Closes(k) \/ Unregisters(k) => ~Open(k)'
      /\ ~(Closes(k) \/ Unregisters(k)) => (Open(k)' <=> Open(k))
      /\ k \in registered' <=> k \in registered /\ ~Unregisters(k)
  BY <1>1 DEF Closed, Active, Open
<1>3. openOption[k] \in OpenTypes =>
         k \notin registered /\ (Open(k) => openedDuring[k] = Record[openOption[k]])
  BY DEF DeviceTypeOK, RecordInv, Recorded
<1>4. /\ openOption[k] = "OPEN_Create" => Record[openOption[k]] = "Create"
      /\ openOption[k] = "OPEN_PrepareHardware" => Record[openOption[k]] = "PrepareHardware"
      /\ openOption[k] = "OPEN_D0Entry" => Record[openOption[k]] = "D0Entry"
      /\ openOption[k] = "OPEN_D0EntrySystemPowerUp" =>
            Record[openOption[k]] = "D0EntrySystemPowerUp"
  BY DEF Record
<1>5. ~Active(k)' <=> ~Open(k)' /\ k \notin registered'
  BY DEF Active
<1>6. \/ callback = "D0Exit" \/ callback = "ReleaseHardware" \/ callback = "CloseOnDestroy"
  BY <1>1 DEF Stops
<1>7. openOption[k] \notin OpenTypes /\ Open(k) => k \in registered
  BY DEF RecordInv, Recorded
<1>8. CASE callback = "D0Exit"
  <2>1. Closes(k) <=> \/ openOption[k] = "OPEN_D0Entry"
                      \/ openOption[k] = "OPEN_D0EntrySystemPowerUp" /\ PowersDown
    BY <1>8 DEF Closes
  <2>2. Unregisters(k) <=> openOption[k] = "NOTIFY_D0Entry"
    BY <1>8 DEF Unregisters
  <2> QED BY <1>2, <1>3, <1>5, <1>8, <2>1, <2>2 DEF OpenTypes
<1>9. CASE callback = "ReleaseHardware"
  <2>1. Closes(k) <=> openedDuring[k] = "PrepareHardware"
    BY <1>9 DEF Closes
  <2>2. Unregisters(k) <=> openOption[k] = "NOTIFY_PrepareHardware"
    BY <1>9 DEF Unregisters
  <2> QED BY <1>2, <1>3, <1>4, <1>5, <1>9, <2>1, <2>2 DEF OpenTypes
<1>10. CASE callback = "CloseOnDestroy"
  <2>1. Closes(k) <=> openedDuring[k] = "Create"
    BY <1>10 DEF Closes
  <2>2. Unregisters(k) <=> openOption[k] = "NOTIFY_Create"
    BY <1>10 DEF Unregisters
  <2> QED BY <1>2, <1>3, <1>4, <1>5, <1>10, <2>1, <2>2 DEF OpenTypes
<1> QED BY <1>6, <1>8, <1>9, <1>10

\* A Module is open exactly when the record says how it was opened.
LEMMA RecordInvHolds ==
    ASSUME DeviceTypeOK, PlaceInv, PartsInv, DeviceStep, PlaceInv'
    PROVE  RecordInv'
<1>1. CASE Begun
  BY <1>1 DEF PartsInv, RecordInv, Recorded, Open, Begun, config, modules, PlaceInv, Starts, Stops
<1>2. CASE Ended
  BY <1>2 DEF PartsInv, RecordInv, Recorded, Open, Ended, config, modules, PlaceInv, DeviceTypeOK,
       Callbacks, Starts, Cleanups
<1>3. ASSUME NEW k \in Modules, Started(k) PROVE RecordInv'
  <2>1. ASSUME NEW m \in Modules, m # k PROVE Recorded(m)'
    BY <1>3, <2>1 DEF PartsInv, RecordInv, Recorded, Open, Started, Dispatched, Same, config,
         Starts
  <2>2. Recorded(k) /\ k \in Modules /\ callback' = callback /\ device' = device
    BY <1>3 DEF PartsInv, RecordInv, Started, Dispatched
  <2>3. openOption'[k] = openOption[k] /\ callback \in Starts
    BY <1>3 DEF Started, Dispatched, config
  <2>4. Opens(k) => /\ openOption[k] \in OpenTypes /\ DuringNow(k) = Record[openOption[k]]
                    /\ DuringNow(k) # "Invalid" /\ ~Registers(k)
    BY <2>3 DEF Opens, Registers, OpenedHere, RegisteredHere, OpenTypes, DuringNow, Record, Starts
  <2>5. Registers(k) /\ callback # "PostCreate" => callback = RecordN[openOption[k]]
    BY <2>3 DEF Registers, RegisteredHere, RecordN, Starts
  <2>6. CASE Opens(k)
    <3>1. /\ moduleState'[k] = "Opened" /\ openedDuring'[k] = DuringNow(k)
          /\ k \in registered' <=> k \in registered
          /\ registeredDuring'[k] = registeredDuring[k]
      BY <1>3, <2>4, <2>6 DEF Started
    <3>2. Recorded(k)'
      BY <2>2, <2>3, <2>4, <2>6, <3>1 DEF Recorded, Open
    <3> QED BY <2>1, <3>2 DEF RecordInv
  <2>7. CASE ~Opens(k)
    <3>1. moduleState'[k] = moduleState[k] /\ openedDuring'[k] = openedDuring[k]
      BY <1>3, <2>7 DEF Started
    <3>2. /\ k \in registered => k \in registered'
          /\ \/ /\ registeredDuring'[k] = registeredDuring[k]
                /\ (k \in registered' => k \in registered \/ openOption[k] = "NOTIFY_Create")
             \/ /\ k \in registered' /\ registeredDuring'[k] = RecordN[openOption[k]]
                /\ registeredDuring'[k] # "Invalid"
      BY <1>3, <2>3, <2>5 DEF Started, Registers, RegisteredHere, Starts
    <3>3. moduleState[k] = "Destroyed" => device = "destroyed"
      BY <2>2, <2>3 DEF Recorded, Starts
    <3>4. Recorded(k)'
      BY <2>2, <2>3, <3>1, <3>2, <3>3 DEF Recorded, Open
    <3> QED BY <2>1, <3>4 DEF RecordInv
  <2> QED BY <2>6, <2>7
<1>4. ASSUME NEW k \in Modules, Failed(k) PROVE RecordInv'
  <2>1. Opens(k) => ~Active(k) /\ openedDuring[k] = "Invalid"
    BY <1>4, StartReady DEF Failed
  <2>2. callback \in Starts /\ device # "destroyed" /\ openOption' = openOption
    BY <1>4 DEF Failed, PlaceInv, Starts
  <2>3. ASSUME NEW m \in Modules PROVE Recorded(m)'
    BY <1>4, <2>1, <2>2 DEF PartsInv, RecordInv, Recorded, Active, Open, Failed, Same, config,
         Starts
  <2> QED BY <2>3 DEF RecordInv
<1>5. ASSUME NEW k \in Modules, Stopped(k) PROVE RecordInv'
  BY <1>5 DEF PartsInv, RecordInv, Recorded, Open, Stopped, Dispatched, Closed, config, Closes,
       Unregisters, Stops
<1>6. ASSUME NEW k \in Modules, Destroyed(k) PROVE RecordInv'
  <2>1. ASSUME NEW m \in Modules PROVE Recorded(m)'
    BY <1>6 DEF PartsInv, RecordInv, Recorded, Open, Destroyed, Dispatched, Same, config
  <2> QED BY <2>1 DEF RecordInv
<1>7. ASSUME NEW k \in Modules, Notified(k) PROVE RecordInv'
  <2>1. openOption[k] \notin OpenTypes /\ \A m \in Modules : Waiting(m)' <=> Waiting(m)
    BY <1>7, NotifiedIs
  <2>2. ASSUME NEW m \in Modules PROVE Recorded(m)'
    BY <1>7, <2>1 DEF PartsInv, RecordInv, Recorded, Open, Notified, Same, config
  <2> QED BY <2>2 DEF RecordInv
<1>8. ASSUME NEW ms \in SUBSET Modules, NEW gone \in SUBSET Modules, CleanedUpTo(ms, gone)
     PROVE  RecordInv'
  BY <1>8 DEF PartsInv, RecordInv, Recorded, Open, CleanedUpTo, Closed, config, Cleanups, PlaceInv
<1>9. CASE UNCHANGED deviceVars
  BY <1>9 DEF PartsInv, RecordInv, Recorded, Open, deviceVars, config, modules, Waiting
<1> QED BY <1>1, <1>2, <1>3, <1>4, <1>5, <1>6, <1>7, <1>8, <1>9 DEF DeviceStep

\* Modules of creation are active only from PostCreate to CloseOnDestroy.
LEMMA CreateInvHolds ==
    ASSUME DeviceTypeOK, PlaceInv, PartsInv, DeviceStep, PlaceInv'
    PROVE  CreateInv'
<1>1. CASE Begun
  BY <1>1, ActiveAfter DEF PartsInv, CreateInv, Begun, config, PlaceInv, Starts, Stops
<1>2. CASE Ended
  BY <1>2, ActiveAfter DEF PartsInv, CreateInv, Ended, config, PlaceInv, DeviceTypeOK, Callbacks,
       Starts, Cleanups, PowersDown
<1>3. ASSUME NEW k \in Modules, Started(k) PROVE CreateInv'
  BY <1>3, ActiveAfter DEF PartsInv, CreateInv, Started, Dispatched, config, PlaceInv, Opens,
       Registers, OpenedHere, RegisteredHere, Starts
<1>4. ASSUME NEW k \in Modules, Failed(k) PROVE CreateInv'
  BY <1>4, ActiveAfter DEF PartsInv, CreateInv, Failed, config, PlaceInv, Starts, Cleanups
<1>5. ASSUME NEW k \in Modules, Stopped(k) PROVE CreateInv'
  <2>1. RecordInv
    BY DEF PartsInv
  <2> QED BY <1>5, <2>1, StoppedIs DEF PartsInv, CreateInv, Stopped, Dispatched, config, Stops,
       PowersDown
<1>6. ASSUME NEW k \in Modules, Destroyed(k) PROVE CreateInv'
  BY <1>6, ActiveAfter DEF PartsInv, CreateInv, Destroyed, Dispatched, config
<1>7. ASSUME NEW k \in Modules, Notified(k) PROVE CreateInv'
  <2>1. UNCHANGED <<config, device, callback, powerState, powerAction>>
    BY <1>7 DEF Notified
  <2> QED BY <1>7, <2>1, NotifiedIs DEF PartsInv, CreateInv, config, PowersDown
<1>8. ASSUME NEW ms \in SUBSET Modules, NEW gone \in SUBSET Modules, CleanedUpTo(ms, gone)
     PROVE  CreateInv'
  BY <1>8, ActiveAfter DEF PartsInv, CreateInv, CleanedUpTo, config, Cleanups, PlaceInv
<1>9. CASE UNCHANGED deviceVars
  BY <1>9, ActiveAfter DEF PartsInv, CreateInv, deviceVars, config, Waiting, PowersDown
<1> QED BY <1>1, <1>2, <1>3, <1>4, <1>5, <1>6, <1>7, <1>8, <1>9 DEF DeviceStep

\* Modules of PrepareHardware are active only until ReleaseHardware.
LEMMA HardwareInvHolds ==
    ASSUME DeviceTypeOK, PlaceInv, PartsInv, DeviceStep, PlaceInv'
    PROVE  HardwareInv'
<1>1. CASE Begun
  BY <1>1, ActiveAfter DEF PartsInv, HardwareInv, Begun, config, PlaceInv, Starts, Stops
<1>2. CASE Ended
  BY <1>2, ActiveAfter DEF PartsInv, HardwareInv, Ended, config, PlaceInv, DeviceTypeOK, Callbacks,
       Starts, Cleanups, PowersDown
<1>3. ASSUME NEW k \in Modules, Started(k) PROVE HardwareInv'
  BY <1>3, ActiveAfter DEF PartsInv, HardwareInv, Started, Dispatched, config, PlaceInv, Opens,
       Registers, OpenedHere, RegisteredHere, Starts
<1>4. ASSUME NEW k \in Modules, Failed(k) PROVE HardwareInv'
  BY <1>4, ActiveAfter DEF PartsInv, HardwareInv, Failed, config, PlaceInv, Starts, Cleanups
<1>5. ASSUME NEW k \in Modules, Stopped(k) PROVE HardwareInv'
  <2>1. RecordInv
    BY DEF PartsInv
  <2> QED BY <1>5, <2>1, StoppedIs DEF PartsInv, HardwareInv, Stopped, Dispatched, config,
       Stops, PowersDown
<1>6. ASSUME NEW k \in Modules, Destroyed(k) PROVE HardwareInv'
  BY <1>6, ActiveAfter DEF PartsInv, HardwareInv, Destroyed, Dispatched, config
<1>7. ASSUME NEW k \in Modules, Notified(k) PROVE HardwareInv'
  <2>1. UNCHANGED <<config, device, callback, powerState, powerAction>>
    BY <1>7 DEF Notified
  <2> QED BY <1>7, <2>1, NotifiedIs DEF PartsInv, HardwareInv, config, PowersDown
<1>8. ASSUME NEW ms \in SUBSET Modules, NEW gone \in SUBSET Modules, CleanedUpTo(ms, gone)
     PROVE  HardwareInv'
  BY <1>8, ActiveAfter DEF PartsInv, HardwareInv, CleanedUpTo, config, Cleanups, PlaceInv
<1>9. CASE UNCHANGED deviceVars
  BY <1>9, ActiveAfter DEF PartsInv, HardwareInv, deviceVars, config, Waiting, PowersDown
<1> QED BY <1>1, <1>2, <1>3, <1>4, <1>5, <1>6, <1>7, <1>8, <1>9 DEF DeviceStep

\* Modules of D0Entry are active only until D0Exit.
LEMMA PowerInvHolds ==
    ASSUME DeviceTypeOK, PlaceInv, PartsInv, DeviceStep, PlaceInv'
    PROVE  PowerInv'
<1>0. \A m \in Modules : Forgotten(m) => Forgotten(m)'
  BY ForgottenStays
<1>1. CASE Begun
  BY <1>0, <1>1, ActiveAfter DEF InCleanup, PartsInv, PowerInv, Begun, config, PlaceInv, Starts,
       Stops
<1>2. CASE Ended
  <2>1. ASSUME NEW m \in Modules, openOption[m] \in {"OPEN_D0Entry", "NOTIFY_D0Entry"},
               InCleanup(m)
        PROVE  InCleanup(m)' \/ Forgotten(m)
    <3>1. CASE m \notin ToSet(Roots)
      BY <2>1, <3>1 DEF InCleanup, Forgotten, ForgottenIn
    <3>2. CASE m \in ToSet(Roots)
      <4>1. callback = "CleanupSystemPowerUp"
        BY <1>2, <2>1 DEF Ended, InCleanup
      <4>2. /\ callback' = "CleanupD0Entry" /\ Waiting(m)' /\ device' = device
            /\ mishap' = mishap /\ openOption' = openOption
        BY <1>2, <3>2, <4>1 DEF Ended, config
      <4> QED BY <2>1, <4>2 DEF InCleanup
    <3> QED BY <3>1, <3>2
  <2> QED BY <1>0, <1>2, <2>1, ActiveAfter DEF PartsInv, PowerInv, Ended, config, PlaceInv,
          DeviceTypeOK, Callbacks, Starts, Cleanups
<1>3. ASSUME NEW k \in Modules, Started(k) PROVE PowerInv'
  BY <1>0, <1>3, ActiveAfter DEF InCleanup, PartsInv, PowerInv, Started, Dispatched, config,
       PlaceInv, Opens, Registers, OpenedHere, RegisteredHere, Starts
<1>4. ASSUME NEW k \in Modules, Failed(k) PROVE PowerInv'
  BY <1>0, <1>4, NoneForgotten, ActiveAfter DEF PartsInv, PowerInv, Failed, PlaceInv,
       Starts, InCleanup, Forgotten, ForgottenIn
<1>5. ASSUME NEW k \in Modules, Stopped(k) PROVE PowerInv'
  <2>1. RecordInv
    BY DEF PartsInv
  <2> QED BY <1>0, <1>5, <2>1, StoppedIs DEF InCleanup, PartsInv, PowerInv, Stopped, Dispatched,
          config, Stops, PowersDown
<1>6. ASSUME NEW k \in Modules, Destroyed(k) PROVE PowerInv'
  BY <1>0, <1>6, ActiveAfter DEF InCleanup, PartsInv, PowerInv, Destroyed, Dispatched, config
<1>7. ASSUME NEW k \in Modules, Notified(k) PROVE PowerInv'
  <2>1. UNCHANGED <<config, device, callback, powerState, powerAction>>
    BY <1>7 DEF Notified
  <2> QED BY <1>0, <1>7, <2>1, NotifiedIs DEF InCleanup, PartsInv, PowerInv, config, PowersDown
<1>8. ASSUME NEW ms \in SUBSET Modules, NEW gone \in SUBSET Modules, CleanedUpTo(ms, gone)
     PROVE  PowerInv'
  <2>1. PICK k \in Modules :
           /\ \A m \in Modules : Waiting(m) => Waiting(m)' \/ m = k
           /\ openedDuring[k] = CleanedUp[callback] => k \in ms
           /\ openedDuring[k] # CleanedUp[callback] /\ registeredDuring[k] = CleanedUp[callback]
                => k \in gone
    BY <1>8 DEF CleanedUpTo
  <2>2. ASSUME NEW m \in Modules, InCleanup(m), Active(m)',
               openOption[m] \in {"OPEN_D0Entry", "NOTIFY_D0Entry"}
        PROVE  InCleanup(m)'
    <3>1. /\ Recorded(m) /\ Active(m) /\ openOption'[m] = openOption[m]
          /\ UNCHANGED <<device, mishap, callback>> /\ gone \subseteq ms
          /\ m \notin gone \/ openOption[m] \in OpenTypes
          /\ m \notin ms \/ openOption[m] \notin OpenTypes
      BY <1>8, <2>2, ActiveAfter DEF PartsInv, RecordInv, CleanedUpTo, Closed, config, Active, Open,
         DeviceTypeOK
    <3>2. m # k \/ ~(callback = "CleanupD0Entry")
      <4> SUFFICES ASSUME m = k, callback = "CleanupD0Entry" PROVE FALSE
        OBVIOUS
      <4>1. CleanedUp[callback] = "D0Entry"
        BY DEF CleanedUp
      <4>2. CASE openOption[m] = "OPEN_D0Entry"
        <5>1. Open(m) /\ openedDuring[m] = "D0Entry"
          BY <3>1, <4>2 DEF Recorded, Active, Record, OpenTypes, DeviceTypeOK
        <5> QED BY <2>1, <3>1, <4>1, <4>2, <5>1 DEF OpenTypes
      <4>3. CASE openOption[m] = "NOTIFY_D0Entry"
        <5>1. m \in registered /\ registeredDuring[m] = "D0Entry"
          BY <3>1, <4>3 DEF Recorded, Active, RecordN, OpenTypes
        <5>2. openedDuring[m] # "D0Entry"
          BY <2>2, <3>1, <4>3 DEF Recorded, InCleanup, OpenTypes
        <5> QED BY <2>1, <3>1, <4>1, <4>3, <5>1, <5>2 DEF OpenTypes
      <4> QED BY <2>2, <4>2, <4>3
    <3> QED BY <2>1, <2>2, <3>1, <3>2 DEF InCleanup
  <2> QED BY <1>0, <1>8, <2>1, <2>2, ActiveAfter DEF InCleanup, PartsInv, PowerInv, CleanedUpTo,
          config, Cleanups, PlaceInv
<1>9. CASE UNCHANGED deviceVars
  BY <1>0, <1>9, ActiveAfter DEF InCleanup, PartsInv, PowerInv, deviceVars, config, Waiting,
       PowersDown
<1> QED BY <1>1, <1>2, <1>3, <1>4, <1>5, <1>6, <1>7, <1>8, <1>9 DEF DeviceStep

\* Modules of system power up are active only until the system powers down.
LEMMA SystemInvHolds ==
    ASSUME DeviceTypeOK, PlaceInv, PartsInv, DeviceStep, PlaceInv'
    PROVE  SystemInv'
<1>0. \A m \in Modules : Forgotten(m) => Forgotten(m)'
  BY ForgottenStays
<1>1. CASE Begun
  BY <1>0, <1>1, ActiveAfter DEF InCleanup, PartsInv, SystemInv, Begun, config, PlaceInv, Starts,
       Stops
<1>2. CASE Ended
  <2>1. \/ callback = "D0Exit" /\ powerState = "D0"
        \/ callback = "ReleaseHardware" /\ device = "D3"
        => \A m \in Modules : openOption[m] = "OPEN_D0EntrySystemPowerUp" => Forgotten(m)'
    BY <1>2 DEF Ended, config, PlaceInv, Forgotten, ForgottenIn
  <2> QED BY <1>0, <1>2, <2>1, ActiveAfter DEF InCleanup, Forgotten, PartsInv, SystemInv, Ended,
          config, PlaceInv, DeviceTypeOK, Callbacks, Starts, Cleanups, PowersDown
<1>3. ASSUME NEW k \in Modules, Started(k) PROVE SystemInv'
  BY <1>0, <1>3, ActiveAfter DEF InCleanup, PartsInv, SystemInv, Started, Dispatched, config,
       PlaceInv, Opens, Registers, OpenedHere, RegisteredHere, Starts
<1>4. ASSUME NEW k \in Modules, Failed(k) PROVE SystemInv'
  BY <1>0, <1>4, NoneForgotten, ActiveAfter DEF PartsInv, SystemInv, Failed, PlaceInv,
       Starts, InCleanup, Forgotten, ForgottenIn
<1>5. ASSUME NEW k \in Modules, Stopped(k) PROVE SystemInv'
  <2>1. RecordInv
    BY DEF PartsInv
  <2> QED BY <1>0, <1>5, <2>1, StoppedIs DEF InCleanup, PartsInv, SystemInv, Stopped, Dispatched,
          config, Stops, PowersDown
<1>6. ASSUME NEW k \in Modules, Destroyed(k) PROVE SystemInv'
  BY <1>0, <1>6, ActiveAfter DEF InCleanup, PartsInv, SystemInv, Destroyed, Dispatched, config
<1>7. ASSUME NEW k \in Modules, Notified(k) PROVE SystemInv'
  <2>1. UNCHANGED <<config, device, callback, powerState, powerAction>>
    BY <1>7 DEF Notified
  <2> QED BY <1>0, <1>7, <2>1, NotifiedIs DEF InCleanup, PartsInv, SystemInv, config, PowersDown
<1>8. ASSUME NEW ms \in SUBSET Modules, NEW gone \in SUBSET Modules, CleanedUpTo(ms, gone)
     PROVE  SystemInv'
  <2>1. PICK k \in Modules :
           /\ \A m \in Modules : Waiting(m) => Waiting(m)' \/ m = k
           /\ openedDuring[k] = CleanedUp[callback] => k \in ms
           /\ openedDuring[k] # CleanedUp[callback] /\ registeredDuring[k] = CleanedUp[callback]
                => k \in gone
    BY <1>8 DEF CleanedUpTo
  <2>2. ASSUME NEW m \in Modules, InCleanup(m), Active(m)',
               openOption[m] \in {"OPEN_D0EntrySystemPowerUp"}
        PROVE  InCleanup(m)'
    <3>1. /\ Recorded(m) /\ Active(m) /\ openOption'[m] = openOption[m]
          /\ UNCHANGED <<device, mishap, callback>> /\ gone \subseteq ms
          /\ m \notin gone \/ openOption[m] \in OpenTypes
          /\ m \notin ms \/ openOption[m] \notin OpenTypes
      BY <1>8, <2>2, ActiveAfter DEF PartsInv, RecordInv, CleanedUpTo, Closed, config, Active, Open,
         DeviceTypeOK
    <3>2. m # k \/ ~(callback = "CleanupSystemPowerUp")
      <4> SUFFICES ASSUME m = k, callback = "CleanupSystemPowerUp" PROVE FALSE
        OBVIOUS
      <4>1. CleanedUp[callback] = "D0EntrySystemPowerUp"
        BY DEF CleanedUp
      <4> QED BY <2>1, <2>2, <3>1, <4>1 DEF Recorded, Active, Open, Record, RecordN, OpenTypes,
              DeviceTypeOK
    <3> QED BY <2>1, <2>2, <3>1, <3>2 DEF InCleanup
  <2> QED BY <1>0, <1>8, <2>1, <2>2, ActiveAfter DEF InCleanup, PartsInv, SystemInv, CleanedUpTo,
          config, Cleanups, PlaceInv
<1>9. CASE UNCHANGED deviceVars
  BY <1>0, <1>9, ActiveAfter DEF InCleanup, PartsInv, SystemInv, deviceVars, config, Waiting,
       PowersDown
<1> QED BY <1>1, <1>2, <1>3, <1>4, <1>5, <1>6, <1>7, <1>8, <1>9 DEF DeviceStep

\* Modules of creation that have been dispatched to are open until the destruction.
LEMMA MustCreateHolds ==
    ASSUME DeviceTypeOK, PlaceInv, PartsInv, DeviceStep, PlaceInv'
    PROVE  MustCreate'
<1>1. CASE Begun
  BY <1>1 DEF PartsInv, MustCreate, Open, Begun, config, modules, PlaceInv, Intact, Done
<1>2. CASE Ended
  BY <1>2 DEF PartsInv, MustCreate, Open, Ended, config, modules, PlaceInv, DeviceTypeOK, Callbacks,
       Starts, Cleanups, Intact, Done
<1>3. ASSUME NEW k \in Modules, Started(k) PROVE MustCreate'
  BY <1>3 DEF PartsInv, MustCreate, Open, Started, Dispatched, Same, config, Opens, OpenedHere,
       Intact, Done
<1>4. ASSUME NEW k \in Modules, Failed(k) PROVE MustCreate'
  BY <1>4 DEF PartsInv, MustCreate, Open, Failed, Intact, Done, Cleanups
<1>5. ASSUME NEW k \in Modules, Stopped(k) PROVE MustCreate'
  <2>1. RecordInv
    BY DEF PartsInv
  <2> QED BY <1>5, <2>1, StoppedIs DEF PartsInv, MustCreate, Open, OpenTypes, Stopped,
       Dispatched, config, Stops, Intact, Done
<1>6. ASSUME NEW k \in Modules, Destroyed(k) PROVE MustCreate'
  BY <1>6 DEF PartsInv, MustCreate, Open, Destroyed, Dispatched, Same, config, Intact, Done
<1>7. ASSUME NEW k \in Modules, Notified(k) PROVE MustCreate'
  BY <1>7, NotifiedIs DEF PartsInv, MustCreate, Open, OpenTypes, Notified, config, Intact, Done
<1>8. ASSUME NEW ms \in SUBSET Modules, NEW gone \in SUBSET Modules, CleanedUpTo(ms, gone)
     PROVE  MustCreate'
  BY <1>8 DEF PartsInv, MustCreate, Open, CleanedUpTo, Closed, config, Cleanups, PlaceInv,
       Intact, Done
<1>9. CASE UNCHANGED deviceVars
  BY <1>9 DEF PartsInv, MustCreate, Open, deviceVars, config, modules, Waiting, Intact, Done
<1> QED BY <1>1, <1>2, <1>3, <1>4, <1>5, <1>6, <1>7, <1>8, <1>9 DEF DeviceStep

\* Modules of PrepareHardware that have been dispatched to are open until released.
LEMMA MustHardwareHolds ==
    ASSUME DeviceTypeOK, PlaceInv, PartsInv, DeviceStep, PlaceInv'
    PROVE  MustHardware'
<1>1. CASE Begun
  BY <1>1 DEF PartsInv, MustHardware, Open, Begun, config, modules, PlaceInv, Done
<1>2. CASE Ended
  BY <1>2 DEF PartsInv, MustHardware, Open, Ended, config, modules, PlaceInv, DeviceTypeOK,
       Callbacks, Starts, Cleanups, Done
<1>3. ASSUME NEW k \in Modules, Started(k) PROVE MustHardware'
  BY <1>3 DEF PartsInv, MustHardware, Open, Started, Dispatched, Same, config, Opens,
       OpenedHere, Done
<1>4. ASSUME NEW k \in Modules, Failed(k) PROVE MustHardware'
  BY <1>4 DEF PartsInv, MustHardware, Open, Failed, Done, Cleanups
<1>5. ASSUME NEW k \in Modules, Stopped(k) PROVE MustHardware'
  <2>1. RecordInv
    BY DEF PartsInv
  <2> QED BY <1>5, <2>1, StoppedIs DEF PartsInv, MustHardware, Open, OpenTypes, Stopped,
       Dispatched, config, Stops, PlaceInv, Done
<1>6. ASSUME NEW k \in Modules, Destroyed(k) PROVE MustHardware'
  BY <1>6 DEF PartsInv, MustHardware, Open, Destroyed, Dispatched, Same, config, PlaceInv, Done
<1>7. ASSUME NEW k \in Modules, Notified(k) PROVE MustHardware'
  BY <1>7, NotifiedIs DEF PartsInv, MustHardware, Open, OpenTypes, Notified, config, Done
<1>8. ASSUME NEW ms \in SUBSET Modules, NEW gone \in SUBSET Modules, CleanedUpTo(ms, gone)
     PROVE  MustHardware'
  BY <1>8 DEF PartsInv, MustHardware, Open, CleanedUpTo, Closed, config, Cleanups, PlaceInv, Done
<1>9. CASE UNCHANGED deviceVars
  BY <1>9 DEF PartsInv, MustHardware, Open, deviceVars, config, modules, Waiting, Done
<1> QED BY <1>1, <1>2, <1>3, <1>4, <1>5, <1>6, <1>7, <1>8, <1>9 DEF DeviceStep

\* Modules that D0Entry has dispatched to are open in D0.
LEMMA MustPowerHolds ==
    ASSUME DeviceTypeOK, PlaceInv, PartsInv, DeviceStep, PlaceInv'
    PROVE  MustPower'
<1>1. CASE Begun
  BY <1>1 DEF PartsInv, MustPower, Open, Begun, config, modules, PlaceInv, Starts, Stops, Done
<1>2. CASE Ended
  BY <1>2 DEF PartsInv, MustPower, Open, Ended, config, modules, PlaceInv, DeviceTypeOK, Callbacks,
       Starts, Cleanups, Done
<1>3. ASSUME NEW k \in Modules, Started(k) PROVE MustPower'
  <2>1. callback = "D0Entry" => Open(k)' \/ openOption[k] \notin {"OPEN_D0Entry",
       "OPEN_D0EntrySystemPowerUp"}
    <3>1. CASE Opens(k)
      BY <1>3, <3>1 DEF Started, Open
    <3>2. CASE callback = "D0Entry" /\ ~Opens(k) /\ openOption[k] = "OPEN_D0EntrySystemPowerUp"
      <4>1. device = "D3" /\ powerState = "D3" /\ moduleState[k] \notin {"Closed", "Created"}
        BY <3>2 DEF PartsInv, PlaceInv, Opens, PowersUp, MustSystem
      <4>2. moduleState[k] = "Opened"
        BY <3>2, <4>1 DEF PartsInv, RecordInv, Recorded, DeviceTypeOK
      <4> QED BY <1>3, <3>2, <4>2 DEF Started, Open
    <3> QED BY <3>1, <3>2 DEF Opens, OpenedHere
  <2>2. callback \in Starts /\ Dispatched(k) /\ \A m \in Modules : m # k => Same(m)
    BY <1>3 DEF Started
  <2> QED BY <2>1, <2>2 DEF PartsInv, MustPower, Open, Dispatched, Same, config, Starts, Done
<1>4. ASSUME NEW k \in Modules, Failed(k) PROVE MustPower'
  BY <1>4 DEF PartsInv, MustPower, Open, Failed, Done, Cleanups
<1>5. ASSUME NEW k \in Modules, Stopped(k) PROVE MustPower'
  BY <1>5 DEF MustPower, Open, Stopped, Dispatched, Stops, Done
<1>6. ASSUME NEW k \in Modules, Destroyed(k) PROVE MustPower'
  BY <1>6 DEF MustPower, Open, Destroyed, Dispatched, Done
<1>7. ASSUME NEW k \in Modules, Notified(k) PROVE MustPower'
  BY <1>7, NotifiedIs DEF PartsInv, MustPower, Open, OpenTypes, Notified, config, Done
<1>8. ASSUME NEW ms \in SUBSET Modules, NEW gone \in SUBSET Modules, CleanedUpTo(ms, gone)
     PROVE  MustPower'
  BY <1>8 DEF MustPower, Open, CleanedUpTo, Cleanups, PlaceInv, Done
<1>9. CASE UNCHANGED deviceVars
  BY <1>9 DEF PartsInv, MustPower, Open, deviceVars, config, modules, Waiting, Done
<1> QED BY <1>1, <1>2, <1>3, <1>4, <1>5, <1>6, <1>7, <1>8, <1>9 DEF DeviceStep

\* Modules of system power up have been opened once, in D0 and in D3.
LEMMA MustSystemHolds ==
    ASSUME DeviceTypeOK, PlaceInv, PartsInv, DeviceStep, PlaceInv'
    PROVE  MustSystem'
<1>1. CASE Begun
  BY <1>1 DEF PartsInv, MustSystem, Begun, config, modules
<1>2. CASE Ended
  <2>1. device' = "D3" => device \in {"D3", "D0"}
    BY <1>2 DEF Ended, PlaceInv, DeviceTypeOK, Callbacks, Starts, Cleanups
  <2>2. device' = "D0" => device = "D0" \/ callback = "D0Entry"
    BY <1>2 DEF Ended, DeviceTypeOK, Callbacks, Starts, Cleanups
  <2> QED BY <1>2, <2>1, <2>2 DEF PartsInv, MustSystem, MustPower, Open, Done, Ended, config,
       modules
<1>3. ASSUME NEW k \in Modules, Started(k) PROVE MustSystem'
  BY <1>3 DEF PartsInv, MustSystem, Started, Dispatched, Same, config
<1>4. ASSUME NEW k \in Modules, Failed(k) PROVE MustSystem'
  BY <1>4 DEF MustSystem, Failed
<1>5. ASSUME NEW k \in Modules, Stopped(k) PROVE MustSystem'
  <2>1. RecordInv
    BY DEF PartsInv
  <2> QED BY <1>5, <2>1, StoppedIs DEF PartsInv, MustSystem, Stopped, Dispatched, config
<1>6. ASSUME NEW k \in Modules, Destroyed(k) PROVE MustSystem'
  BY <1>6 DEF PartsInv, MustSystem, Destroyed, Dispatched, Same, config
<1>7. ASSUME NEW k \in Modules, Notified(k) PROVE MustSystem'
  BY <1>7, NotifiedIs DEF PartsInv, MustSystem, OpenTypes, Notified, config
<1>8. ASSUME NEW ms \in SUBSET Modules, NEW gone \in SUBSET Modules, CleanedUpTo(ms, gone)
     PROVE  MustSystem'
  BY <1>8 DEF PartsInv, MustSystem, CleanedUpTo, Closed, config
<1>9. CASE UNCHANGED deviceVars
  BY <1>9 DEF PartsInv, MustSystem, deviceVars, config, modules
<1> QED BY <1>1, <1>2, <1>3, <1>4, <1>5, <1>6, <1>7, <1>8, <1>9 DEF DeviceStep

\* The options do not change.
LEMMA CompatibleStays ==
    ASSUME UNCHANGED openOption
    PROVE  \A m \in Modules : Compatible(m)' <=> Compatible(m)
BY DEF Compatible, OptionOrder

\* With the Children of a Module that is opened one that opens opens none too early.
LEMMA OrderOfOptions ==
    ASSUME DeviceTypeOK, NEW m \in Modules, Compatible(m), openOption[m] \in OpenTypes,
           NEW c \in ToSet(Children[m]), openOption[c] \in OpenTypes
    PROVE  /\ c \in Modules
           /\ openOption[m] = "OPEN_Create" => openOption[c] = "OPEN_Create"
           /\ openOption[m] = "OPEN_PrepareHardware" =>
                openOption[c] \in {"OPEN_Create", "OPEN_PrepareHardware"}
           /\ openOption[m] = "OPEN_D0EntrySystemPowerUp" => openOption[c] # "OPEN_D0Entry"
<1> DEFINE order(o) == CHOOSE k \in DOMAIN OpenOptions : OpenOptions[k] = o
<1>1. /\ order("OPEN_Create") = 1 /\ order("OPEN_PrepareHardware") = 2
      /\ order("OPEN_D0EntrySystemPowerUp") = 3 /\ order("OPEN_D0Entry") = 4
  <2>1. DOMAIN OpenOptions = 1 .. 7
    BY DEF OpenOptions
  <2>2. /\ OpenOptions[1] = "OPEN_Create" /\ OpenOptions[2] = "OPEN_PrepareHardware"
        /\ OpenOptions[3] = "OPEN_D0EntrySystemPowerUp" /\ OpenOptions[4] = "OPEN_D0Entry"
        /\ OpenOptions[5] = "NOTIFY_PrepareHardware" /\ OpenOptions[6] = "NOTIFY_D0Entry"
        /\ OpenOptions[7] = "NOTIFY_Create"
    BY DEF OpenOptions
  <2>3. \A i : i \in 1 .. 7 <=> i \in {1, 2, 3, 4, 5, 6, 7}
    OBVIOUS
  <2>4. \A i, j \in 1 .. 7 : OpenOptions[i] = OpenOptions[j] => i = j
    BY <2>2, <2>3
  <2> HIDE DEF order
  <2>5. \A i \in 1 .. 7 : order(OpenOptions[i]) = i
    BY <2>1, <2>4 DEF order
  <2> QED BY <2>2, <2>3, <2>5
<1>2. OptionOrder(m) = order(openOption[m]) /\ OptionOrder(c) = order(openOption[c])
  BY DEF OptionOrder
<1>3. OptionOrder(c) <= OptionOrder(m) /\ c \in Modules
  BY TreeFacts DEF Compatible
<1> HIDE DEF order
<1> QED BY <1>1, <1>2, <1>3 DEF OpenTypes

\* PostCreate has compared the options of each Module that it has dispatched to.
LEMMA CompatInvHolds ==
    ASSUME DeviceTypeOK, PlaceInv, PartsInv, DeviceStep, PlaceInv'
    PROVE  CompatInv'
<1>1. CASE Begun
  <2>1. \A m \in Modules : Compatible(m)' <=> Compatible(m)
    BY <1>1, CompatibleStays DEF Begun
  <2> QED BY <1>1, <2>1 DEF PartsInv, CompatInv, Open, Begun, config, modules, Done
<1>2. CASE Ended
  <2>1. \A m \in Modules : Compatible(m)' <=> Compatible(m)
    BY <1>2, CompatibleStays DEF Ended, config
  <2> QED BY <1>2, <2>1 DEF PartsInv, CompatInv, Open, Ended, config, modules, PlaceInv,
       DeviceTypeOK, Callbacks, Starts, Cleanups, Done
<1>3. ASSUME NEW k \in Modules, Started(k) PROVE CompatInv'
  <2>1. \A m \in Modules : Compatible(m)' <=> Compatible(m)
    BY <1>3, CompatibleStays DEF Started, Dispatched, config
  <2> QED BY <1>3, <2>1 DEF PartsInv, CompatInv, Open, Started, Dispatched, Same, config,
       PlaceInv, Starts, Done
<1>4. ASSUME NEW k \in Modules, Failed(k) PROVE CompatInv'
  <2>1. \A m \in Modules : Compatible(m)' <=> Compatible(m)
    BY <1>4, CompatibleStays DEF Failed
  <2> QED BY <1>4, <2>1 DEF PartsInv, CompatInv, Open, Failed, Same, config, PlaceInv, Starts,
       Cleanups, Done
<1>5. ASSUME NEW k \in Modules, Stopped(k) PROVE CompatInv'
  <2>1. RecordInv
    BY DEF PartsInv
  <2>2. \A m \in Modules : Compatible(m)' <=> Compatible(m)
    BY <1>5, CompatibleStays DEF Stopped, Dispatched, config
  <2> QED BY <1>5, <2>1, <2>2, StoppedIs DEF PartsInv, CompatInv, Open, Stopped, Dispatched,
       config, Stops, Done
<1>6. ASSUME NEW k \in Modules, Destroyed(k) PROVE CompatInv'
  <2>1. \A m \in Modules : Compatible(m)' <=> Compatible(m)
    BY <1>6, CompatibleStays DEF Destroyed, Dispatched, config
  <2> QED BY <1>6, <2>1 DEF PartsInv, CompatInv, Open, Destroyed, Dispatched, Same, config, Done
<1>7. ASSUME NEW k \in Modules, Notified(k) PROVE CompatInv'
  <2>1. \A m \in Modules : Compatible(m)' <=> Compatible(m)
    BY <1>7, CompatibleStays DEF Notified, config
  <2> QED BY <1>7, <2>1, NotifiedIs DEF PartsInv, CompatInv, Open, Notified, config, Done
<1>8. ASSUME NEW ms \in SUBSET Modules, NEW gone \in SUBSET Modules, CleanedUpTo(ms, gone)
     PROVE  CompatInv'
  <2>1. \A m \in Modules : Compatible(m)' <=> Compatible(m)
    BY <1>8, CompatibleStays DEF CleanedUpTo, config
  <2> QED BY <1>8, <2>1 DEF PartsInv, CompatInv, Open, CleanedUpTo, Closed, config, Cleanups,
       PlaceInv, Done
<1>9. CASE UNCHANGED deviceVars
  <2>1. \A m \in Modules : Compatible(m)' <=> Compatible(m)
    BY <1>9, CompatibleStays DEF deviceVars, config
  <2> QED BY <1>9, <2>1 DEF PartsInv, CompatInv, Open, deviceVars, config, modules, Waiting, Done
<1> QED BY <1>1, <1>2, <1>3, <1>4, <1>5, <1>6, <1>7, <1>8, <1>9 DEF DeviceStep

-----------------------------------------------------------------------------
(* A Parent that is opened is opened over open Children.                    *)

\* It is opened when its Children are.
LEMMA ChildrenAreOpen ==
    ASSUME DeviceTypeOK, PlaceInv, PartsInv, NEW k \in Modules, Started(k), Opens(k),
           NEW c \in ToSet(Children[k]), openOption[c] \in OpenTypes
    PROVE  Open(c)
<1>1. /\ callback \in Starts /\ callback' = callback /\ c \in Modules /\ ~Waiting(c)
  BY TreeFacts DEF Started, Dispatched
<1>2. openOption[k] \in OpenTypes
  BY <1>1 DEF Opens, OpenedHere, OpenTypes, Starts
<1>3. Compatible(k)
  BY <1>1 DEF Started, PartsInv, CompatInv, PlaceInv, Starts
<1>4. /\ openOption[k] = "OPEN_Create" => openOption[c] = "OPEN_Create"
      /\ openOption[k] = "OPEN_PrepareHardware" =>
           openOption[c] \in {"OPEN_Create", "OPEN_PrepareHardware"}
  BY <1>2, <1>3, OrderOfOptions
<1>5. CASE callback = "PostCreate"
  <2>1. openOption[c] = "OPEN_Create"
    BY <1>4, <1>5 DEF Opens, OpenedHere
  <2> QED BY <1>1, <1>5, <2>1 DEF PartsInv, MustCreate, Done
<1>6. callback # "PostCreate" => Intact
  BY <1>1 DEF PlaceInv, Starts, Intact
<1>7. CASE callback = "PrepareHardware"
  <2>1. openOption[c] \in {"OPEN_Create", "OPEN_PrepareHardware"}
    BY <1>4, <1>7 DEF Opens, OpenedHere
  <2> QED BY <1>1, <1>6, <1>7, <2>1 DEF PartsInv, MustCreate, MustHardware, Done
<1>8. CASE callback = "D0Entry"
  <2>1. device \in {"prepared", "D3"}
    BY <1>8 DEF PlaceInv
  <2> QED BY <1>1, <1>6, <1>8, <2>1 DEF PartsInv, MustCreate, MustHardware, MustPower, Done,
       OpenTypes
<1> QED BY <1>1, <1>5, <1>7, <1>8 DEF Starts

\* And closed before them.
LEMMA ParentsAreClosed ==
    ASSUME DeviceTypeOK, PlaceInv, PartsInv, NEW k \in Modules, Stopped(k), Open(k), ~Open(k)',
           openOption[k] \in OpenTypes,
           NEW p \in Modules, k \in ToSet(Children[p]), openOption[p] \in OpenTypes, ~Forgotten(p)
    PROVE  ~Open(p)
<1> SUFFICES ASSUME Open(p) PROVE FALSE
  OBVIOUS
<1>1. callback \in Stops /\ ~Waiting(p) /\ Active(p)
  BY DEF Stopped, Active
<1>2. Compatible(p)
  BY DEF PartsInv, CompatInv
<1>3. /\ openOption[p] = "OPEN_Create" => openOption[k] = "OPEN_Create"
      /\ openOption[p] = "OPEN_PrepareHardware" =>
           openOption[k] \in {"OPEN_Create", "OPEN_PrepareHardware"}
      /\ openOption[p] = "OPEN_D0EntrySystemPowerUp" => openOption[k] # "OPEN_D0Entry"
  BY <1>2, OrderOfOptions
<1>4. \/ callback = "CloseOnDestroy" /\ openOption[k] = "OPEN_Create"
      \/ callback = "ReleaseHardware" /\ openOption[k] = "OPEN_PrepareHardware"
      \/ callback = "D0Exit" /\ openOption[k] = "OPEN_D0Entry"
      \/ callback = "D0Exit" /\ openOption[k] = "OPEN_D0EntrySystemPowerUp" /\ PowersDown
  <2>1. RecordInv
    BY DEF PartsInv
  <2> QED BY <2>1, StoppedIs
<1>5. openOption[p] = "OPEN_Create" => callback # "CloseOnDestroy"
  BY <1>1 DEF PartsInv, CreateInv
<1>6. openOption[p] = "OPEN_PrepareHardware" =>
         callback \notin {"CloseOnDestroy", "ReleaseHardware"}
  BY <1>1 DEF PartsInv, HardwareInv, PlaceInv
<1>7. openOption[p] = "OPEN_D0Entry" => callback \notin Stops
  BY <1>1 DEF PartsInv, PowerInv, PlaceInv, Stops, Cleanups, InCleanup
<1>8. openOption[p] = "OPEN_D0EntrySystemPowerUp" =>
         /\ callback \notin {"CloseOnDestroy", "ReleaseHardware"}
         /\ ~(callback = "D0Exit" /\ PowersDown)
  <2> SUFFICES ASSUME openOption[p] = "OPEN_D0EntrySystemPowerUp"
               PROVE  /\ callback \notin {"CloseOnDestroy", "ReleaseHardware"}
                      /\ ~(callback = "D0Exit" /\ PowersDown)
    OBVIOUS
  <2>1. mishap # "removedInD3"
    BY DEF Forgotten, ForgottenIn
  <2> QED BY <1>1, <2>1 DEF PartsInv, SystemInv, PlaceInv, Cleanups, InCleanup
<1> QED BY <1>1, <1>3, <1>4, <1>5, <1>6, <1>7, <1>8 DEF OpenTypes

\* A Module that opens finds its Children open, and one that closes its Parent closed.
LEMMA OpenOverHolds ==
    ASSUME DeviceTypeOK, PlaceInv, PartsInv, OpenOverOpenChildren, DeviceStep
    PROVE  OpenOverOpenChildren'
<1> DEFINE Over(m) == openOption[m] \in OpenTypes /\ Open(m) /\ ~Forgotten(m) =>
              \A c \in ToSet(Children[m]) : openOption[c] \in OpenTypes => Open(c)
<1>1. \A m \in Modules : Over(m)
  BY DEF OpenOverOpenChildren, Open
<1>2. SUFFICES \A m \in Modules : Over(m)'
  BY DEF OpenOverOpenChildren, Open
<1>3. \A m \in Modules : ToSet(Children[m]) \subseteq Modules
  BY TreeFacts
<1>0. \A m \in Modules : Forgotten(m) => Forgotten(m)'
  BY ForgottenStays
<1>4. ASSUME openOption' = openOption,
             \A m \in Modules : openOption[m] \in OpenTypes => (Open(m)' <=> Open(m))
      PROVE  \A m \in Modules : Over(m)'
  BY <1>0, <1>1, <1>3, <1>4
<1>5. CASE Begun
  BY <1>4, <1>5 DEF Begun, modules, Open
<1>6. CASE Ended
  BY <1>4, <1>6 DEF Ended, config, modules, Open
<1>7. ASSUME NEW k \in Modules, Started(k) PROVE \A m \in Modules : Over(m)'
  <2>1. /\ openOption' = openOption
        /\ \A m \in Modules : /\ Open(m) => Open(m)'
                              /\ Open(m)' => Open(m) \/ (m = k /\ Opens(k))
    BY <1>7 DEF Started, Dispatched, Same, Open, config
  <2>2. Opens(k) => \A c \in ToSet(Children[k]) : openOption[c] \in OpenTypes => Open(c)
    BY <1>7, ChildrenAreOpen
  <2> QED BY <1>0, <1>1, <1>3, <2>1, <2>2
<1>8. ASSUME NEW k \in Modules, Failed(k) PROVE \A m \in Modules : Over(m)'
  <2>1. Opens(k) => ~Open(k)
    BY <1>8, StartReady DEF Failed, Active
  <2>2. openOption' = openOption /\ \A m \in Modules : Open(m)' <=> Open(m)
    BY <1>8, <2>1 DEF Failed, Same, Open
  <2> QED BY <1>4, <2>2
<1>9. ASSUME NEW k \in Modules, Stopped(k) PROVE \A m \in Modules : Over(m)'
  <2>1. /\ openOption' = openOption
        /\ \A m \in Modules : m # k => (Open(m)' <=> Open(m))
        /\ Open(k)' => Open(k)
    <3>1. RecordInv
      BY DEF PartsInv
    <3>2. \A m \in Modules : moduleState'[m] \in {moduleState[m], "Closed"}
      BY <1>9, <3>1, StoppedIs
    <3> QED BY <1>9, <3>1, <3>2, StoppedIs DEF Stopped, Dispatched, Open, config
  <2>2. ASSUME Open(k), ~Open(k)', openOption[k] \in OpenTypes, NEW p \in Modules,
               k \in ToSet(Children[p]), openOption[p] \in OpenTypes, ~Forgotten(p)
        PROVE  ~Open(p) /\ ~Open(p)'
    <3>1. ~Open(p)
      BY <1>9, <2>2, ParentsAreClosed
    <3> QED BY <2>1, <3>1
  <2> QED BY <1>0, <1>1, <1>3, <2>1, <2>2
<1>10. ASSUME NEW k \in Modules, Destroyed(k) PROVE \A m \in Modules : Over(m)'
  <2>1. \A m \in Modules : ~Forgotten(m) => ~Open(m)
    BY <1>10, AllClosed DEF Destroyed, Active
  <2>2. \A m \in Modules : Open(m)' => Open(m)
    BY <1>10 DEF Destroyed, Dispatched, Same, Open
  <2> QED BY <1>0, <2>1, <2>2
<1>11. ASSUME NEW k \in Modules, Notified(k) PROVE \A m \in Modules : Over(m)'
  BY <1>4, <1>11, NotifiedIs DEF Notified, Open, config
<1>12. ASSUME NEW ms \in SUBSET Modules, NEW gone \in SUBSET Modules, CleanedUpTo(ms, gone)
       PROVE  \A m \in Modules : Over(m)'
  <2>1. /\ openOption' = openOption
        /\ \A m \in Modules : Open(m)' <=> Open(m) /\ m \notin ms
        /\ \A p \in Modules : \A c \in ToSet(Children[p]) : c \in ms => p \in ms
    BY <1>12 DEF CleanedUpTo, Closed, Open, config
  <2> QED BY <1>0, <1>1, <1>3, <2>1
<1>13. CASE UNCHANGED deviceVars
  BY <1>4, <1>13 DEF deviceVars, config, modules, Open
<1> QED BY <1>5, <1>6, <1>7, <1>8, <1>9, <1>10, <1>11, <1>12, <1>13 DEF DeviceStep

-----------------------------------------------------------------------------
(* The theorems.                                                            *)

\* The device is added with nothing open and nothing registered.
LEMMA InitHolds == DeviceInit => DeviceInv
<1> SUFFICES ASSUME DeviceInit PROVE DeviceInv
  OBVIOUS
<1>1. DeviceTypeOK
  BY DEF DeviceInit, DeviceTypeOK, During, Devices, Mishaps
<1>2. PlaceInv /\ OrderInv
  BY DEF DeviceInit, PlaceInv, OrderInv, Starts, Stops, Cleanups
<1>3. \A m \in Modules : ~Active(m) /\ ~Open(m)
  BY DEF DeviceInit, Active, Open
<1>4. RecordInv
  BY <1>3 DEF DeviceInit, RecordInv, Recorded, Active, Open
<1>5. CreateInv /\ HardwareInv /\ PowerInv /\ SystemInv
  BY <1>3 DEF CreateInv, HardwareInv, PowerInv, SystemInv
<1>6. MustCreate /\ MustHardware /\ MustPower /\ MustSystem /\ CompatInv
  BY <1>3 DEF DeviceInit, MustCreate, MustHardware, MustPower, MustSystem, CompatInv, Intact, Done
<1>7. OpenOverOpenChildren
  BY <1>3 DEF OpenOverOpenChildren, Open
<1> QED BY <1>1, <1>2, <1>4, <1>5, <1>6, <1>7 DEF DeviceInv, PartsInv

\* Each kind of step keeps each part of the invariant.
LEMMA NextHolds ==
    ASSUME DeviceInv, [DeviceNext]_deviceVars
    PROVE  DeviceInv'
<1>1. DeviceTypeOK /\ PlaceInv /\ OrderInv /\ PartsInv /\ OpenOverOpenChildren
  BY DEF DeviceInv
<1>2. DeviceTypeOK' /\ PlaceInv' /\ OrderInv' /\ DeviceStep
  BY <1>1, TypeHolds, PlaceHolds, OrderHolds, StepsAre
<1>3. /\ RecordInv' /\ CreateInv' /\ HardwareInv' /\ PowerInv' /\ SystemInv'
      /\ MustCreate' /\ MustHardware' /\ MustPower' /\ MustSystem' /\ CompatInv'
  BY <1>1, <1>2, RecordInvHolds, CreateInvHolds, HardwareInvHolds, PowerInvHolds, SystemInvHolds,
     MustCreateHolds, MustHardwareHolds, MustPowerHolds, MustSystemHolds, CompatInvHolds
<1>4. OpenOverOpenChildren'
  BY <1>1, <1>2, OpenOverHolds
<1> QED BY <1>2, <1>3, <1>4 DEF DeviceInv, PartsInv

\* The invariant, for every collection, every driver and every start that fails.
THEOREM DeviceIsKept ==
    DeviceSpec => []DeviceInv
<1>1. DeviceInv /\ [DeviceNext]_deviceVars => DeviceInv'
  BY NextHolds
<1> QED BY <1>1, InitHolds, PTL DEF DeviceSpec

\* DmfCall.c:704: in whatever order callbacks come, Children are open when their Parent
\* is, and each Module is opened and registered once.
THEOREM ChildrenOpenFirst ==
    DeviceSpec => []OpensInOrder
<1>1. ASSUME DeviceInv PROVE OpensInOrder
  <2>1. DeviceTypeOK /\ PlaceInv /\ OrderInv /\ PartsInv /\ OpenOverOpenChildren
    BY <1>1 DEF DeviceInv
  <2>2. StartAsserts
    <3>1. \A m \in Modules : moduleState[m] # "Destroyed" =>
             (moduleState[m] = "Opened" <=> openedDuring[m] # "Invalid")
      BY <2>1 DEF PartsInv, RecordInv, Recorded, Open
    <3>2. ASSUME callback \in Starts, pending # <<>>
          PROVE  Head(pending) \in Modules /\ Waiting(Head(pending))
      <4>1. UpList(pending)
        BY <2>1, <3>2 DEF OrderInv
      <4> QED BY <3>2, <4>1, UpTail DEF Waiting
    <3>3. ASSUME callback \in Starts, pending # <<>>
          PROVE  LET m == Head(pending) IN
                 /\ Opens(m) => /\ moduleState[m] \in {"Created", "Closed"}
                                 /\ openedDuring[m] = "Invalid"
                 /\ Registers(m) => registeredDuring[m] = "Invalid"
      BY <2>1, <3>2, <3>3, StartReady
    <3> QED BY <3>1, <3>3 DEF StartAsserts
  <2> QED BY <2>1, <2>2 DEF OpensInOrder
<1> QED BY <1>1, DeviceIsKept, PTL

\* In D0 every Module that the framework opens is open.
THEOREM AllOpenInD0 ==
    DeviceSpec => []OpenInD0
<1>1. ASSUME DeviceInv PROVE OpenInD0
  <2>1. PartsInv
    BY <1>1 DEF DeviceInv
  <2> QED BY <2>1 DEF PartsInv, MustCreate, MustHardware, MustPower, Intact, Open, OpenTypes,
          OpenInD0
<1> QED BY <1>1, DeviceIsKept, PTL

\* A device without power or hardware, and one that is destroyed, has nothing open or
\* notified that belongs to what it has lost, but for the Modules that Forgotten names.
THEOREM AllClosedInTime ==
    DeviceSpec => []ClosedInTime
<1>1. ASSUME DeviceInv PROVE ClosedInTime
  <2>1. DeviceTypeOK /\ PlaceInv /\ OrderInv /\ PartsInv
    BY <1>1 DEF DeviceInv
  <2>2. ClosedWithoutHardware
    <3> SUFFICES ASSUME callback = "none", device \in DOMAIN ClosedIn, NEW m \in Modules,
                        openOption[m] \in ClosedIn[device], ~Forgotten(m)
                 PROVE  ~Active(m)
      BY DEF ClosedWithoutHardware, Active, Open
    <3>1. \/ device = "D3" /\ openOption[m] \in {"OPEN_D0Entry", "NOTIFY_D0Entry"}
          \/ /\ device = "exited"
             /\ openOption[m] \in {"OPEN_D0Entry", "NOTIFY_D0Entry", "OPEN_D0EntrySystemPowerUp"}
          \/ /\ device \in {"released", "removed"}
             /\ openOption[m] \in ToSet(OpenOptions) \ {"OPEN_Create", "NOTIFY_Create"}
      BY DEF ClosedIn, OfHardware
    <3>2. /\ openOption[m] \in {"OPEN_D0Entry", "NOTIFY_D0Entry"}
          /\ device \in {"D3", "exited", "released", "removed"}
          => ~Active(m)
      BY <2>1 DEF PartsInv, PowerInv, InCleanup
    <3>3. /\ openOption[m] = "OPEN_D0EntrySystemPowerUp"
          /\ device \in {"exited", "released", "removed"}
          => ~Active(m)
      BY <2>1 DEF PartsInv, SystemInv, InCleanup
    <3>4. /\ openOption[m] \in {"OPEN_PrepareHardware", "NOTIFY_PrepareHardware"}
          /\ device \in {"released", "removed"}
          => ~Active(m)
      BY <2>1 DEF PartsInv, HardwareInv
    <3> QED BY <3>1, <3>2, <3>3, <3>4, OptionFacts
  <2>3. ClosedWhenDestroyed
    <3> SUFFICES ASSUME callback = "TreeDestroy", pending # <<>>, ~Forgotten(Head(pending))
                 PROVE  /\ moduleState[Head(pending)] \in {"Closed", "Created"}
                        /\ Head(pending) \notin registered
      BY DEF ClosedWhenDestroyed
    <3>1. UpList(pending)
      BY <2>1 DEF OrderInv
    <3>2. Head(pending) \in Modules /\ Waiting(Head(pending))
      BY <3>1, UpTail DEF Waiting
    <3>3. ~Active(Head(pending))
      BY <2>1, <3>2, AllClosed
    <3>4. moduleState[Head(pending)] # "Destroyed"
      BY <2>1, <3>2 DEF PartsInv, RecordInv, Recorded, PlaceInv
    <3> QED BY <2>1, <3>2, <3>3, <3>4 DEF Active, Open, DeviceTypeOK
  <2> QED BY <2>2, <2>3 DEF ClosedInTime
<1> QED BY <1>1, DeviceIsKept, PTL

=============================================================================
