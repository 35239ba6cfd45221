----------------------- MODULE ModuleLifecycle_proofs -----------------------
(***************************************************************************)
(* The safety properties of ModuleLifecycle hold for any finite set of     *)
(* callers and any set of removal threads.                                 *)
(***************************************************************************)
EXTENDS ModuleLifecycle, FiniteSetTheorems, TLAPS

NoOwner == \A c \in Closers : closer[c] \notin PastGate

\* The Module can be used and every record of its open is in place.
Usable == /\ moduleState = "Opened"
          /\ referenceCount >= 1
          /\ ~isClosePending
          /\ openedDuring = "Manual"

\* Nothing is left over of an earlier open.
Clean == /\ referenceCount = 0
         /\ ~isClosePending
         /\ openedDuring = "Invalid"
         /\ ~needToCallPreClose

\* What holds at each step of DMF_Internal_Open.
OpenerInv ==
    /\ opener # "idle" => moduleClosed /\ NoOwner /\ ~canBeDeleted
    /\ opener = "reset" => moduleState \in {"Created", "Closed"} /\ Clean
    /\ opener = "opening" => moduleState = "Opening" /\ Clean
    /\ opener = "opened" => moduleState = "Opened" /\ Clean
    /\ opener = "failed" => moduleState = "Created" /\ Clean
    /\ opener = "admitting" => /\ moduleState = "Opened"
                               /\ referenceCount >= 1
                               /\ ~isClosePending
                               /\ openedDuring = "Invalid"
                               /\ ~needToCallPreClose
    /\ opener = "postOpen" => Usable /\ needToCallPreClose

\* What holds at each step of DMF_Internal_Close of the thread that owns it.
\* While IsClosePending is set the count can only fall, so that a copy of it
\* bounds it: a copy of one means that no Method runs.
CloserInv(c) ==
    /\ closer[c] \in PastGate =>
          /\ moduleClosed /\ opener = "idle" /\ ~canBeDeleted
          /\ \A b \in Closers : closer[b] \in PastGate => b = c
    /\ closer[c] = "preClose" => Usable /\ needToCallPreClose
    /\ closer[c] = "calledPreClose" => Usable /\ ~needToCallPreClose
    /\ closer[c] = "rundown" =>
          /\ moduleState = "Opened" /\ openedDuring = "Manual" /\ ~needToCallPreClose
          /\ IF sampled[c] = 0
                THEN referenceCount = 0 /\ ~isClosePending
                ELSE /\ isClosePending
                     /\ referenceCount >= 1
                     /\ referenceCount <= sampled[c]
    /\ closer[c] \in {"deviceClose", "closed"} =>
          /\ referenceCount = 0 /\ ~isClosePending
          /\ openedDuring = "Manual" /\ ~needToCallPreClose
    /\ closer[c] = "deviceClose" => moduleState = "Closing"
    /\ closer[c] = "closed" => moduleState = "Closed"
    /\ closer[c] = "signal" => moduleState = "Closed" /\ Clean

\* What holds between an open and a close.
RestInv ==
    /\ ~moduleClosed => /\ opener = "idle" /\ NoOwner /\ ~canBeDeleted
                        /\ Usable /\ needToCallPreClose
    /\ moduleClosed /\ opener = "idle" /\ NoOwner =>
          moduleState \in {"Created", "Closed", "Destroying"} /\ Clean

DestroyerInv ==
    /\ moduleState = "Destroying" <=> closer[Destroyer] = "destroyed"
    /\ \A c \in Removers : closer[c] \in PastGate \cup {"idle"}
    /\ closer[Destroyer] # "idle" => ~registered
    /\ closer[Destroyer] \notin {"idle", "unregister"} => opener = "idle"

CountInv == \/ referenceCount = Cardinality(Holders) + 1
            \/ referenceCount = 0 /\ Holders = {}

IInv == /\ TypeOK
        /\ OpenerInv
        /\ \A c \in Closers : CloserInv(c)
        /\ RestInv
        /\ DestroyerInv
        /\ CountInv

-----------------------------------------------------------------------------
(* Counting the Methods that run.                                           *)

\* The set of running Methods is finite, whatever the callers do.
LEMMA HoldersFinite == ASSUME TypeOK PROVE IsFiniteSet(Holders)
BY CallersAssumption, FS_Subset DEF Holders

\* A call that enters a Method adds one to the number of running Methods.
LEMMA EnterCounts ==
    ASSUME TypeOK, NEW c \in Callers, ModuleReference(c)
    PROVE  Cardinality(Holders') = Cardinality(Holders) + 1
<1>1. Holders' = Holders \cup {c}
  BY DEF Holders, ModuleReference, TypeOK
<1>2. c \notin Holders
  BY DEF Holders, ModuleReference
<1> QED
  BY <1>1, <1>2, HoldersFinite, FS_AddElement

\* A return from a Method takes one off that number.
LEMMA LeaveCounts ==
    ASSUME TypeOK, NEW c \in Callers, ModuleDereference(c)
    PROVE  /\ Cardinality(Holders) \in Nat
           /\ Cardinality(Holders) >= 1
           /\ Cardinality(Holders') = Cardinality(Holders) - 1
<1>1. Holders' = Holders \ {c}
  BY DEF Holders, ModuleDereference, TypeOK
<1>2. c \in Holders
  BY DEF Holders, ModuleDereference
<1>3. /\ Cardinality(Holders) \in Nat
      /\ Cardinality(Holders') = Cardinality(Holders) - 1
  BY <1>1, <1>2, HoldersFinite, FS_RemoveElement, FS_CardinalityType
<1>4. Cardinality(Holders) # 0
  BY <1>2, HoldersFinite, FS_EmptySet
<1> QED
  BY <1>3, <1>4

\* No Method runs exactly when their number is zero.
LEMMA NoHolders ==
    ASSUME TypeOK
    PROVE  /\ Cardinality(Holders) \in Nat
           /\ Cardinality(Holders) = 0 <=> Holders = {}
BY HoldersFinite, FS_EmptySet, FS_CardinalityType

-----------------------------------------------------------------------------
(* The invariant is inductive.                                              *)

THEOREM InitEstablishes == Init => IInv
<1> SUFFICES ASSUME Init PROVE IInv
  OBVIOUS
<1> USE DEF Init
<1>1. TypeOK
  BY DEF TypeOK, States, OpenerAt, CloserAt
<1>2. OpenerInv /\ RestInv /\ DestroyerInv
  BY DestroyerAssumption DEF OpenerInv, RestInv, DestroyerInv, NoOwner, PastGate, Clean, Closers
<1>3. \A c \in Closers : CloserInv(c)
  BY DEF CloserInv, PastGate
<1>4. CountInv
  BY DEF CountInv, Holders
<1> QED
  BY <1>1, <1>2, <1>3, <1>4 DEF IInv

LEMMA OpenPreserves == ASSUME IInv, Open PROVE IInv'
<1> USE DEF IInv
<1>1. Holders' = Holders
  BY DEF Holders, Open, OpenReset, OpenBegin, DeviceOpenSucceeds,
         DeviceOpenFails, OpenFailed, OpenAdmit, OpenRecord, OpenFinish
<1>2. CASE OpenReset
  <2> USE <1>2 DEF OpenReset
  <2>1. NoOwner
    BY DEF NoOwner, Owners
  <2>2. TypeOK'
    BY DEF TypeOK, OpenerAt
  <2>3. OpenerInv' /\ RestInv' /\ DestroyerInv' /\ (\A c \in Closers : CloserInv(c)')
    BY <2>1 DEF OpenerInv, RestInv, DestroyerInv, CloserInv, NoOwner, Usable, Clean, TypeOK
  <2> QED
    BY <1>1, <2>2, <2>3 DEF CountInv
<1>3. CASE OpenBegin
  <2> USE <1>3 DEF OpenBegin
  <2>1. TypeOK'
    BY DEF TypeOK, OpenerAt, States
  <2>2. OpenerInv' /\ RestInv' /\ DestroyerInv'
    BY DEF OpenerInv, RestInv, DestroyerInv, NoOwner, Usable, Clean, TypeOK
  <2>3. \A c \in Closers : CloserInv(c)'
    BY DEF OpenerInv, CloserInv, NoOwner, PastGate
  <2> QED
    BY <1>1, <2>1, <2>2, <2>3 DEF CountInv
<1>4. CASE DeviceOpenSucceeds
  <2> USE <1>4 DEF DeviceOpenSucceeds
  <2>1. TypeOK'
    BY DEF TypeOK, OpenerAt, States
  <2>2. OpenerInv' /\ RestInv' /\ DestroyerInv'
    BY DEF OpenerInv, RestInv, DestroyerInv, NoOwner, Usable, Clean, TypeOK
  <2>3. \A c \in Closers : CloserInv(c)'
    BY DEF OpenerInv, CloserInv, NoOwner, PastGate
  <2> QED
    BY <1>1, <2>1, <2>2, <2>3 DEF CountInv
<1>5. CASE DeviceOpenFails
  <2> USE <1>5 DEF DeviceOpenFails
  <2>1. TypeOK'
    BY DEF TypeOK, OpenerAt, States
  <2>2. OpenerInv' /\ RestInv' /\ DestroyerInv'
    BY DEF OpenerInv, RestInv, DestroyerInv, NoOwner, Usable, Clean, TypeOK
  <2>3. \A c \in Closers : CloserInv(c)'
    BY DEF OpenerInv, CloserInv, NoOwner, PastGate
  <2> QED
    BY <1>1, <2>1, <2>2, <2>3 DEF CountInv
<1>6. CASE OpenFailed
  <2> USE <1>6 DEF OpenFailed
  <2>1. TypeOK'
    BY DEF TypeOK, OpenerAt, States
  <2>2. OpenerInv' /\ RestInv' /\ DestroyerInv'
    BY DEF OpenerInv, RestInv, DestroyerInv, NoOwner, Usable, Clean, TypeOK
  <2>3. \A c \in Closers : CloserInv(c)'
    BY DEF OpenerInv, CloserInv, NoOwner, PastGate
  <2> QED
    BY <1>1, <2>1, <2>2, <2>3 DEF CountInv
<1>7. CASE OpenAdmit
  <2> USE <1>7 DEF OpenAdmit
  <2>1. TypeOK'
    BY DEF TypeOK, OpenerAt, States
  <2>2. OpenerInv' /\ RestInv' /\ DestroyerInv'
    BY DEF OpenerInv, RestInv, DestroyerInv, NoOwner, Usable, Clean, TypeOK
  <2>3. \A c \in Closers : CloserInv(c)'
    BY DEF OpenerInv, CloserInv, NoOwner, PastGate
  <2>4. referenceCount = 0
    BY DEF OpenerInv, Clean
  <2>5. Cardinality(Holders) = 0
    BY <2>4, NoHolders DEF CountInv
  <2> QED
    BY <1>1, <2>1, <2>2, <2>3, <2>5 DEF CountInv
<1>8. CASE OpenRecord
  <2> USE <1>8 DEF OpenRecord
  <2>1. TypeOK'
    BY DEF TypeOK, OpenerAt, States
  <2>2. OpenerInv' /\ RestInv' /\ DestroyerInv'
    BY DEF OpenerInv, RestInv, DestroyerInv, NoOwner, Usable, Clean, TypeOK
  <2>3. \A c \in Closers : CloserInv(c)'
    BY DEF OpenerInv, CloserInv, NoOwner, PastGate
  <2> QED
    BY <1>1, <2>1, <2>2, <2>3 DEF CountInv
<1>9. CASE OpenFinish
  <2> USE <1>9 DEF OpenFinish
  <2>1. TypeOK'
    BY DEF TypeOK, OpenerAt, States
  <2>2. OpenerInv' /\ RestInv' /\ DestroyerInv'
    BY DEF OpenerInv, RestInv, DestroyerInv, NoOwner, Usable, Clean, TypeOK
  <2>3. \A c \in Closers : CloserInv(c)'
    BY DEF OpenerInv, CloserInv, NoOwner, PastGate
  <2> QED
    BY <1>1, <2>1, <2>2, <2>3 DEF CountInv
<1> QED
  BY <1>2, <1>3, <1>4, <1>5, <1>6, <1>7, <1>8, <1>9 DEF Open

LEMMA CallerPreserves ==
    ASSUME IInv, NEW c \in Callers, ModuleReference(c) \/ ModuleDereference(c)
    PROVE  IInv'
<1> USE DEF IInv
<1>1. CASE ModuleReference(c)
  <2> USE <1>1 DEF ModuleReference, Admits
  <2>1. TypeOK'
    BY DEF TypeOK
  <2>2. OpenerInv' /\ RestInv' /\ DestroyerInv'
    BY DEF OpenerInv, RestInv, DestroyerInv, NoOwner, Usable, Clean, TypeOK
  <2>3. \A b \in Closers : CloserInv(b)'
    BY DEF CloserInv, Usable, Clean, TypeOK
  <2>4. referenceCount = Cardinality(Holders) + 1
    BY DEF CountInv
  <2>5. Cardinality(Holders') = Cardinality(Holders) + 1
    BY EnterCounts
  <2>6. CountInv'
    BY <2>4, <2>5 DEF CountInv
  <2> QED
    BY <2>1, <2>2, <2>3, <2>6
<1>2. CASE ModuleDereference(c)
  <2>1. referenceCount = Cardinality(Holders) + 1 /\ referenceCount' = referenceCount - 1
    BY <1>2 DEF CountInv, Holders, ModuleDereference
  <2>2. referenceCount' \in Nat /\ referenceCount' >= 1 /\ CountInv'
    BY <1>2, <2>1, LeaveCounts DEF CountInv
  <2> USE <1>2 DEF ModuleDereference
  <2>3. TypeOK'
    BY <2>2 DEF TypeOK
  <2>4. OpenerInv' /\ RestInv' /\ DestroyerInv'
    BY <2>2 DEF OpenerInv, RestInv, DestroyerInv, NoOwner, Usable, Clean, TypeOK
  <2>5. \A b \in Closers : CloserInv(b)'
    BY <2>2 DEF CloserInv, Usable, Clean, TypeOK
  <2> QED
    BY <2>2, <2>3, <2>4, <2>5
<1> QED
  BY <1>1, <1>2

LEMMA ClosePreserves ==
    ASSUME IInv, NEW c \in Closers, ModuleIsClosed(c) \/ Close(c)
    PROVE  IInv'
<1> USE DEF IInv
<1>1. Holders' = Holders
  BY DEF Holders, ModuleIsClosed, Close, PreClose, RundownBegin, RundownPoll,
         DeviceCloseBegin, DeviceCloseEnd, CloseRecord, CloseSignal
<1>2. CASE ModuleIsClosed(c)
  <2> USE <1>2 DEF ModuleIsClosed
  <2>1. TypeOK'
    BY DEF TypeOK, CloserAt, States
  <2>2. OpenerInv' /\ RestInv'
    BY DEF OpenerInv, RestInv, CloserInv, NoOwner, PastGate, Usable, Clean, TypeOK
  <2>3. DestroyerInv'
    BY DestroyerAssumption DEF DestroyerInv, CloserInv, PastGate, TypeOK, Closers
  <2>4. \A b \in Closers : CloserInv(b)'
    BY DEF RestInv, CloserInv, NoOwner, PastGate, Usable, Clean, TypeOK
  <2>5. CountInv'
    BY <1>1, NoHolders DEF CountInv, CloserInv, PastGate, TypeOK
  <2> QED
    BY <2>1, <2>2, <2>3, <2>4, <2>5
<1>3. CASE PreClose(c)
  <2> USE <1>3 DEF PreClose
  <2>1. TypeOK'
    BY DEF TypeOK, CloserAt, States
  <2>2. OpenerInv' /\ RestInv'
    BY DEF OpenerInv, RestInv, CloserInv, NoOwner, PastGate, Usable, Clean, TypeOK
  <2>3. DestroyerInv'
    BY DestroyerAssumption DEF DestroyerInv, CloserInv, PastGate, TypeOK, Closers
  <2>4. \A b \in Closers : CloserInv(b)'
    BY DEF RestInv, CloserInv, NoOwner, PastGate, Usable, Clean, TypeOK
  <2>5. CountInv'
    BY <1>1, NoHolders DEF CountInv, CloserInv, PastGate, TypeOK
  <2> QED
    BY <2>1, <2>2, <2>3, <2>4, <2>5
<1>4. CASE RundownBegin(c)
  <2> USE <1>4 DEF RundownBegin
  <2>1. TypeOK'
    BY DEF TypeOK, CloserAt, States
  <2>2. OpenerInv' /\ RestInv'
    BY DEF OpenerInv, RestInv, CloserInv, NoOwner, PastGate, Usable, Clean, TypeOK
  <2>3. DestroyerInv'
    BY DestroyerAssumption DEF DestroyerInv, CloserInv, PastGate, TypeOK, Closers
  <2>4. \A b \in Closers : CloserInv(b)'
    BY DEF RestInv, CloserInv, NoOwner, PastGate, Usable, Clean, TypeOK
  <2>5. CountInv'
    BY <1>1, NoHolders DEF CountInv, CloserInv, PastGate, TypeOK
  <2> QED
    BY <2>1, <2>2, <2>3, <2>4, <2>5
<1>5. CASE RundownPoll(c)
  <2> USE <1>5 DEF RundownPoll, IsLast
  <2>1. TypeOK'
    <3>1. referenceCount' \in {0, referenceCount} /\ isClosePending' \in {FALSE, isClosePending}
      BY Zenon
    <3>2. referenceCount' \in Nat
      BY <3>1 DEF TypeOK
    <3>3. isClosePending' \in BOOLEAN
      BY <3>1 DEF TypeOK
    <3> QED
      BY <3>2, <3>3 DEF TypeOK
  <2>2. OpenerInv' /\ RestInv'
    BY DEF OpenerInv, RestInv, CloserInv, NoOwner, PastGate, Usable, Clean, TypeOK
  <2>3. DestroyerInv'
    BY DestroyerAssumption DEF DestroyerInv, CloserInv, PastGate, TypeOK, Closers
  <2>4. \A b \in Closers : CloserInv(b)'
    BY DEF RestInv, CloserInv, NoOwner, PastGate, Usable, Clean, TypeOK
  <2>5. CountInv'
    BY <1>1, NoHolders DEF CountInv, CloserInv, PastGate, TypeOK
  <2> QED
    BY <2>1, <2>2, <2>3, <2>4, <2>5
<1>6. CASE DeviceCloseBegin(c)
  <2> USE <1>6 DEF DeviceCloseBegin
  <2>1. TypeOK'
    BY DEF TypeOK, CloserAt, States
  <2>2. OpenerInv' /\ RestInv'
    BY DEF OpenerInv, RestInv, CloserInv, NoOwner, PastGate, Usable, Clean, TypeOK
  <2>3. DestroyerInv'
    BY DestroyerAssumption DEF DestroyerInv, CloserInv, PastGate, TypeOK, Closers
  <2>4. \A b \in Closers : CloserInv(b)'
    BY DEF RestInv, CloserInv, NoOwner, PastGate, Usable, Clean, TypeOK
  <2>5. CountInv'
    BY <1>1, NoHolders DEF CountInv, CloserInv, PastGate, TypeOK
  <2> QED
    BY <2>1, <2>2, <2>3, <2>4, <2>5
<1>7. CASE DeviceCloseEnd(c)
  <2> USE <1>7 DEF DeviceCloseEnd
  <2>1. TypeOK'
    BY DEF TypeOK, CloserAt, States
  <2>2. OpenerInv' /\ RestInv'
    BY DEF OpenerInv, RestInv, CloserInv, NoOwner, PastGate, Usable, Clean, TypeOK
  <2>3. DestroyerInv'
    BY DestroyerAssumption DEF DestroyerInv, CloserInv, PastGate, TypeOK, Closers
  <2>4. \A b \in Closers : CloserInv(b)'
    BY DEF RestInv, CloserInv, NoOwner, PastGate, Usable, Clean, TypeOK
  <2>5. CountInv'
    BY <1>1, NoHolders DEF CountInv, CloserInv, PastGate, TypeOK
  <2> QED
    BY <2>1, <2>2, <2>3, <2>4, <2>5
<1>8. CASE CloseRecord(c)
  <2> USE <1>8 DEF CloseRecord
  <2>1. TypeOK'
    BY DEF TypeOK, CloserAt, States
  <2>2. OpenerInv' /\ RestInv'
    BY DEF OpenerInv, RestInv, CloserInv, NoOwner, PastGate, Usable, Clean, TypeOK
  <2>3. DestroyerInv'
    BY DestroyerAssumption DEF DestroyerInv, CloserInv, PastGate, TypeOK, Closers
  <2>4. \A b \in Closers : CloserInv(b)'
    BY DEF RestInv, CloserInv, NoOwner, PastGate, Usable, Clean, TypeOK
  <2>5. CountInv'
    BY <1>1, NoHolders DEF CountInv, CloserInv, PastGate, TypeOK
  <2> QED
    BY <2>1, <2>2, <2>3, <2>4, <2>5
<1>9. CASE CloseSignal(c)
  <2> USE <1>9 DEF CloseSignal
  <2>1. TypeOK'
    BY DEF TypeOK, CloserAt, States
  <2>2. OpenerInv' /\ RestInv'
    BY DEF OpenerInv, RestInv, CloserInv, NoOwner, PastGate, Usable, Clean, TypeOK
  <2>3. DestroyerInv'
    BY DestroyerAssumption DEF DestroyerInv, CloserInv, PastGate, TypeOK, Closers
  <2>4. \A b \in Closers : CloserInv(b)'
    BY DEF RestInv, CloserInv, NoOwner, PastGate, Usable, Clean, TypeOK
  <2>5. CountInv'
    BY <1>1, NoHolders DEF CountInv, CloserInv, PastGate, TypeOK
  <2> QED
    BY <2>1, <2>2, <2>3, <2>4, <2>5
<1> QED
  BY <1>2, <1>3, <1>4, <1>5, <1>6, <1>7, <1>8, <1>9 DEF Close

LEMMA UnloadPreserves ==
    ASSUME IInv, NotificationUnregister \/ CallbackDrained \/ ModuleDestroy
    PROVE  IInv'
<1> USE DEF IInv
<1>1. Holders' = Holders
  BY DEF Holders, NotificationUnregister, CallbackDrained, ModuleDestroy, moduleVars
<1>2. CASE NotificationUnregister
  <2> USE <1>2 DEF NotificationUnregister, moduleVars
  <2>1. TypeOK'
    BY DEF TypeOK, CloserAt, States
  <2>2. OpenerInv' /\ RestInv'
    BY DEF OpenerInv, RestInv, NoOwner, PastGate, Usable, Clean, TypeOK
  <2>3. DestroyerInv'
    BY DestroyerAssumption DEF DestroyerInv, PastGate, TypeOK, Closers
  <2>4. \A b \in Closers : CloserInv(b)'
    BY DEF CloserInv, PastGate, Usable, Clean, TypeOK
  <2> QED
    BY <1>1, <2>1, <2>2, <2>3, <2>4 DEF CountInv
<1>3. CASE CallbackDrained
  <2> USE <1>3 DEF CallbackDrained, moduleVars
  <2>1. TypeOK'
    BY DEF TypeOK, CloserAt, States
  <2>2. OpenerInv' /\ RestInv'
    BY DEF OpenerInv, RestInv, NoOwner, PastGate, Usable, Clean, TypeOK
  <2>3. DestroyerInv'
    BY DestroyerAssumption DEF DestroyerInv, PastGate, TypeOK, Closers
  <2>4. \A b \in Closers : CloserInv(b)'
    BY DEF CloserInv, PastGate, Usable, Clean, TypeOK
  <2> QED
    BY <1>1, <2>1, <2>2, <2>3, <2>4 DEF CountInv
<1>4. CASE ModuleDestroy
  <2> USE <1>4 DEF ModuleDestroy, moduleVars
  <2>1. TypeOK'
    BY DEF TypeOK, CloserAt, States
  <2>2. OpenerInv' /\ RestInv'
    BY DEF OpenerInv, RestInv, NoOwner, PastGate, Usable, Clean, TypeOK
  <2>3. DestroyerInv'
    BY DestroyerAssumption DEF DestroyerInv, PastGate, TypeOK, Closers
  <2>4. \A b \in Closers : CloserInv(b)'
    BY DEF CloserInv, PastGate, Usable, Clean, TypeOK
  <2> QED
    BY <1>1, <2>1, <2>2, <2>3, <2>4 DEF CountInv
<1> QED
  BY <1>2, <1>3, <1>4

\* Every step of the Module preserves the invariant.
THEOREM NextPreserves == IInv /\ [Next]_vars => IInv'
<1> SUFFICES ASSUME IInv, [Next]_vars PROVE IInv'
  OBVIOUS
<1>1. CASE Next
  BY <1>1, OpenPreserves, CallerPreserves, ClosePreserves, UnloadPreserves DEF Next
<1>2. CASE UNCHANGED vars
  BY <1>2 DEF vars, moduleVars, IInv, TypeOK, OpenerInv, RestInv, DestroyerInv,
              CloserInv, NoOwner, Usable, Clean, CountInv, Holders
<1> QED
  BY <1>1, <1>2

\* The inductive invariant holds in every reachable state.
THEOREM Invariance == SafeSpec => []IInv
BY InitEstablishes, NextPreserves, PTL DEF SafeSpec

-----------------------------------------------------------------------------
(* What the invariant implies.                                              *)

\* A Method runs only while the Module is opened, so DeviceClose never
\* releases what a running Method uses.
THEOREM MethodSafety == SafeSpec => []MethodsRunOpened
<1>1. IInv => MethodsRunOpened
  <2> SUFFICES ASSUME IInv, Holders # {} PROVE moduleState = "Opened"
    BY DEF MethodsRunOpened
  <2> USE DEF IInv
  <2>1. referenceCount >= 1
    BY NoHolders DEF CountInv
  <2>2. CASE opener # "idle"
    BY <2>1, <2>2 DEF OpenerInv, Clean, Usable, TypeOK, OpenerAt
  <2>3. CASE opener = "idle" /\ ~NoOwner
    <3> PICK c \in Closers : closer[c] \in PastGate
      BY <2>3 DEF NoOwner
    <3> QED
      BY <2>1 DEF CloserInv, PastGate, Usable, Clean, TypeOK
  <2>4. CASE opener = "idle" /\ NoOwner
    BY <2>1, <2>4 DEF RestInv, Usable, Clean, TypeOK
  <2> QED
    BY <2>2, <2>3, <2>4
<1> QED
  BY <1>1, Invariance, PTL

\* Of the threads that close the Module concurrently at most one owns the
\* close, and it never overlaps an open.
THEOREM SingleClose == SafeSpec => []OneClose
<1>1. IInv => OneClose
  <2> SUFFICES ASSUME IInv PROVE OneClose
    OBVIOUS
  <2> USE DEF IInv
  <2>1. CASE Owners = {}
    BY <2>1, FS_EmptySet DEF OneClose
  <2>2. CASE Owners # {}
    <3> PICK c \in Owners : TRUE
      BY <2>2
    <3>1. Owners = {c}
      BY DEF Owners, CloserInv
    <3>2. Cardinality(Owners) = 1
      BY <3>1, FS_Singleton
    <3> QED
      BY <3>2 DEF OneClose, Owners, CloserInv
  <2> QED
    BY <2>1, <2>2
<1> QED
  BY <1>1, Invariance, PTL

\* ReferenceCount is exact in every state.
THEOREM ExactCount == SafeSpec => []ReferenceCountIsExact
<1>1. IInv => ReferenceCountIsExact
  BY DEF IInv, CountInv, ReferenceCountIsExact
<1> QED
  BY <1>1, Invariance, PTL

\* A Module that is open and that nobody closes admits Methods, after any
\* number of closes and opens.
THEOREM Admission == SafeSpec => []OpenedModuleAdmits
<1>1. IInv => OpenedModuleAdmits
  BY DEF IInv, RestInv, Usable, OpenedModuleAdmits
<1> QED
  BY <1>1, Invariance, PTL

\* The thread that waits for ModuleCanBeDeletedEvent may free the Module when
\* the event is set: no other thread is in it.
THEOREM DeleteSafety == SafeSpec => []DeletableIsQuiet
<1>1. IInv => DeletableIsQuiet
  <2> SUFFICES ASSUME IInv, canBeDeleted PROVE DeletableIsQuiet
    BY DEF DeletableIsQuiet
  <2> USE DEF IInv
  <2>1. opener = "idle" /\ NoOwner /\ moduleClosed
    BY DEF OpenerInv, CloserInv, RestInv, NoOwner
  <2>2. moduleState \in {"Created", "Closed", "Destroying"} /\ Clean
    BY <2>1 DEF RestInv
  <2>3. Holders = {}
    BY <2>2, NoHolders DEF CountInv, Clean
  <2> QED
    BY <2>1, <2>2, <2>3 DEF DeletableIsQuiet, Owners, NoOwner, Clean
<1> QED
  BY <1>1, Invariance, PTL

\* PreClose is called once for every PostOpen.
THEOREM PreCloseOnce == SafeSpec => []PreCloseIsDue
<1>1. IInv => PreCloseIsDue
  BY DEF IInv, CloserInv, PreCloseIsDue, Owners, PastGate, Clean
<1> QED
  BY <1>1, Invariance, PTL

\* No DmfAssert of the open, close and destroy paths fails.
THEOREM Asserts == SafeSpec => []AssertsHold
<1>1. IInv => AssertsHold
  <2> SUFFICES ASSUME IInv PROVE AssertsHold
    OBVIOUS
  <2> USE DEF IInv
  <2>1. OpenerInv /\ (\A c \in Closers : CloserInv(c))
    OBVIOUS
  <2>2. closer[Destroyer] = "awaitEvent" /\ canBeDeleted
           => moduleState \in {"Closed", "Created"}
    BY DEF OpenerInv, CloserInv, RestInv, NoOwner, DestroyerInv, Closers
  <2>3. Holders # {} => referenceCount >= 1
    BY NoHolders DEF CountInv
  <2> QED
    BY <2>1, <2>2, <2>3 DEF AssertsHold, OpenerInv, CloserInv, Clean, Usable
<1> QED
  BY <1>1, Invariance, PTL

-----------------------------------------------------------------------------
(* Refinement of ModuleAccess.                                              *)

\* Some thread releases the Module's resources or has released them and is
\* still writing to the Module.
Releasing == \E c \in Owners : closer[c] \notin {"preClose", "calledPreClose"}

\* The phase in terms of the state, for each step to be compared with.
PhaseFacts == /\ Phase = "destroyed" <=> moduleState = "Destroying"
              /\ Phase = "draining" <=> isClosePending
              /\ Phase = "open" <=> referenceCount >= 1 /\ ~isClosePending
              /\ Phase = "closing" <=> referenceCount = 0 /\ Releasing
              /\ Phase \in Access!Phases

\* The invariant makes the five phases exclusive, in the terms above.
LEMMA PhaseIs == IInv => PhaseFacts
<1> SUFFICES ASSUME IInv PROVE PhaseFacts
  OBVIOUS
<1> USE DEF IInv
<1>1. moduleState = "Destroying" => NoOwner /\ opener = "idle" /\ moduleClosed
  BY DestroyerAssumption DEF DestroyerInv, NoOwner, CloserInv, RestInv, Usable, PastGate, Closers
<1>2. moduleState = "Destroying" => ~isClosePending /\ referenceCount = 0 /\ ~Releasing
  BY <1>1 DEF RestInv, Clean, Releasing, NoOwner, Owners
<1>3. isClosePending => referenceCount >= 1
  <2> SUFFICES ASSUME isClosePending PROVE referenceCount >= 1
    OBVIOUS
  <2>1. opener = "idle" /\ moduleClosed /\ ~NoOwner
    BY DEF OpenerInv, OpenerAt, TypeOK, Clean, Usable, RestInv
  <2> PICK c \in Closers : closer[c] \in PastGate
    BY <2>1 DEF NoOwner
  <2> QED
    BY DEF CloserInv, PastGate, Usable, Clean
<1>4. referenceCount \in Nat
  BY DEF TypeOK
<1> HIDE DEF IInv
<1> QED
  BY <1>2, <1>3, <1>4 DEF PhaseFacts, Phase, Releasing, Access!Phases

\* The same after a step.
LEMMA PhaseIsNext == IInv' => PhaseFacts'
BY PhaseIs, PTL

\* A step that changes neither what the phase depends on nor the callers is a
\* stutter of the abstract specification.
LEMMA SamePhase ==
    ASSUME moduleState' = moduleState \/ "Destroying" \notin {moduleState, moduleState'},
           isClosePending' = isClosePending,
           referenceCount' = referenceCount,
           Releasing' <=> Releasing
    PROVE  Phase' = Phase
BY DEF Phase, Releasing

LEMMA OpenRefines ==
    ASSUME IInv, IInv', Open
    PROVE  [Access!ANext]_(Access!aVars)
<1> USE DEF Access!ANext, Access!aVars
<1>1. Holders' = Holders /\ (Releasing' <=> Releasing)
  BY DEF Holders, Releasing, Owners, Open, OpenReset, OpenBegin, DeviceOpenSucceeds,
         DeviceOpenFails, OpenFailed, OpenAdmit, OpenRecord, OpenFinish
<1>2. CASE OpenAdmit
  <2>1. referenceCount = 0 /\ ~isClosePending /\ NoOwner /\ moduleState = "Opened"
    BY <1>2 DEF OpenAdmit, IInv, OpenerInv, Clean
  <2>2. Phase = "closed"
    BY <2>1 DEF Phase, Owners, NoOwner
  <2>3. Phase' = "open"
    BY <1>2, <2>1 DEF Phase, OpenAdmit
  <2> QED
    BY <1>1, <2>2, <2>3 DEF Access!AOpen
<1>3. CASE ~OpenAdmit
  <2>1. /\ moduleState' = moduleState \/ "Destroying" \notin {moduleState, moduleState'}
        /\ isClosePending' = isClosePending
        /\ referenceCount' = referenceCount
    BY <1>3 DEF IInv, OpenerInv, Open, OpenReset, OpenBegin, DeviceOpenSucceeds,
                DeviceOpenFails, OpenFailed, OpenRecord, OpenFinish
  <2> QED
    BY <1>1, <2>1, SamePhase
<1> QED
  BY <1>2, <1>3

LEMMA CallerRefines ==
    ASSUME IInv, IInv', NEW c \in Callers, ModuleReference(c) \/ ModuleDereference(c)
    PROVE  [Access!ANext]_(Access!aVars)
<1>1. Releasing' <=> Releasing
  BY DEF Releasing, Owners, ModuleReference, ModuleDereference
<1>2. CASE ModuleReference(c)
  <2>1. Phase = "open" /\ Phase' = "open"
    BY <1>2, PhaseIs, PhaseIsNext DEF PhaseFacts, ModuleReference, Admits, IInv, TypeOK
  <2>2. c \notin Holders /\ Holders' = Holders \cup {c}
    BY <1>2 DEF Holders, ModuleReference, IInv, TypeOK
  <2> QED
    BY <2>1, <2>2 DEF Access!ANext, Access!AEnter
<1>3. CASE ModuleDereference(c)
  <2>1. c \in Holders /\ Holders' = Holders \ {c}
    BY <1>3 DEF Holders, ModuleDereference, IInv, TypeOK
  <2>2. referenceCount >= 1 /\ referenceCount' >= 1
    <3>1. referenceCount = Cardinality(Holders) + 1
      BY <2>1 DEF IInv, CountInv
    <3>2. Cardinality(Holders) \in Nat /\ Cardinality(Holders) >= 1
      BY <1>3, LeaveCounts DEF IInv
    <3>3. referenceCount' = referenceCount - 1
      BY <1>3 DEF ModuleDereference
    <3> QED
      BY <3>1, <3>2, <3>3
  <2>3. Phase' = Phase
    BY <1>3, <2>2, PhaseIs, PhaseIsNext DEF PhaseFacts, ModuleDereference, Access!Phases
  <2> QED
    BY <2>1, <2>3 DEF Access!ANext, Access!ALeave
<1> QED
  BY <1>2, <1>3

LEMMA CloseRefines ==
    ASSUME IInv, IInv', NEW c \in Closers, ModuleIsClosed(c) \/ Close(c)
    PROVE  [Access!ANext]_(Access!aVars)
<1> USE DEF Access!ANext, Access!aVars
<1>1. Holders' = Holders
  BY DEF Holders, ModuleIsClosed, Close, PreClose, RundownBegin, RundownPoll,
         DeviceCloseBegin, DeviceCloseEnd, CloseRecord, CloseSignal
<1>2. CASE ModuleIsClosed(c) \/ PreClose(c)
  <2>1. Releasing' <=> Releasing
    BY <1>2 DEF Releasing, Owners, ModuleIsClosed, PreClose, IInv, TypeOK, PastGate
  <2> QED
    BY <1>1, <1>2, <2>1, SamePhase DEF ModuleIsClosed, PreClose
<1>3. CASE RundownBegin(c)
  <2>1. Phase = "open" /\ Phase' = "draining"
    BY <1>3, PhaseIs, PhaseIsNext DEF PhaseFacts, RundownBegin, IInv, CloserInv, Usable
  <2> QED
    BY <1>1, <2>1 DEF Access!ABeginClose
<1>4. CASE RundownPoll(c)
  <2>1. CASE IsLast(sampled[c])
    <3>1. isClosePending /\ referenceCount = 1
      BY <1>4, <2>1 DEF RundownPoll, IsLast, IInv, CloserInv, TypeOK
    <3>2. Holders = {}
      BY <3>1, NoHolders DEF IInv, CountInv
    <3>3. c \in Owners' /\ closer'[c] = "rundown"
      BY <1>4 DEF RundownPoll, Owners, PastGate
    <3>4. Phase = "draining" /\ Phase' = "closing"
      BY <1>4, <2>1, <3>1, <3>3, PhaseIs, PhaseIsNext DEF PhaseFacts, RundownPoll, Releasing
    <3> QED
      BY <1>1, <3>2, <3>4 DEF Access!ADrained
  <2>2. CASE ~IsLast(sampled[c])
    <3>1. Releasing' <=> Releasing
      BY <1>4 DEF Releasing, Owners, RundownPoll
    <3> QED
      BY <1>1, <1>4, <2>2, <3>1, SamePhase DEF RundownPoll
  <2> QED
    BY <2>1, <2>2
<1>5. CASE DeviceCloseBegin(c) \/ DeviceCloseEnd(c) \/ CloseRecord(c)
  <2>1. Releasing' /\ Releasing
    BY <1>5 DEF Releasing, Owners, DeviceCloseBegin, DeviceCloseEnd, CloseRecord,
                IInv, TypeOK, PastGate
  <2>2. "Destroying" \notin {moduleState, moduleState'} \/ moduleState' = moduleState
    BY <1>5 DEF DeviceCloseBegin, DeviceCloseEnd, CloseRecord, IInv, CloserInv
  <2> QED
    BY <1>1, <1>5, <2>1, <2>2, SamePhase DEF DeviceCloseBegin, DeviceCloseEnd, CloseRecord
<1>6. CASE CloseSignal(c)
  <2>1. Releasing /\ referenceCount = 0
    BY <1>6 DEF Releasing, Owners, CloseSignal, IInv, CloserInv, PastGate, Clean
  <2>2. ~Releasing'
    BY <1>6 DEF Releasing, Owners, CloseSignal, IInv, CloserInv, PastGate, TypeOK
  <2>3. Phase = "closing" /\ Phase' = "closed"
    BY <1>6, <2>1, <2>2, PhaseIs, PhaseIsNext DEF PhaseFacts, CloseSignal, IInv, CloserInv, Clean, Access!Phases
  <2> QED
    BY <1>1, <2>3 DEF Access!AEndClose
<1> QED
  BY <1>2, <1>3, <1>4, <1>5, <1>6 DEF Close

LEMMA UnloadRefines ==
    ASSUME IInv, IInv', NotificationUnregister \/ CallbackDrained \/ ModuleDestroy
    PROVE  [Access!ANext]_(Access!aVars)
<1> USE DEF Access!ANext, Access!aVars
<1>1. Holders' = Holders
  BY DEF Holders, NotificationUnregister, CallbackDrained, ModuleDestroy, moduleVars
<1>2. CASE NotificationUnregister \/ CallbackDrained
  <2>1. Releasing' <=> Releasing
    BY <1>2 DEF Releasing, Owners, NotificationUnregister, CallbackDrained, IInv, TypeOK, PastGate
  <2> QED
    BY <1>1, <1>2, <2>1, SamePhase DEF NotificationUnregister, CallbackDrained, moduleVars
<1>3. CASE ModuleDestroy
  <2>1. opener = "idle" /\ NoOwner /\ moduleClosed
    BY <1>3 DEF ModuleDestroy, IInv, OpenerInv, CloserInv, RestInv, NoOwner
  <2>2. moduleState # "Destroying" /\ Clean /\ ~Releasing
    BY <1>3, <2>1 DEF ModuleDestroy, IInv, DestroyerInv, RestInv, Releasing, Owners, NoOwner
  <2>3. Phase = "closed" /\ Phase' = "destroyed"
    BY <1>3, <2>2, PhaseIs, PhaseIsNext DEF PhaseFacts, ModuleDestroy, Clean, Access!Phases
  <2> QED
    BY <1>1, <2>3 DEF Access!ADestroy
<1> QED
  BY <1>2, <1>3

\* The Module implements the open/close cycle of ModuleAccess: no Method enters
\* once a close has begun, and its resources are released after the last
\* Method has left.
THEOREM Refinement == SafeSpec => Access!ASafety
<1>1. Init => Access!AInit
  <2> SUFFICES ASSUME Init PROVE Access!AInit
    OBVIOUS
  <2>1. Holders = {} /\ Owners = {}
    BY DEF Init, Holders, Owners, PastGate
  <2> QED
    BY <2>1 DEF Init, Access!AInit, Phase
<1>2. IInv /\ IInv' /\ [Next]_vars => [Access!ANext]_(Access!aVars)
  <2> SUFFICES ASSUME IInv, IInv', [Next]_vars PROVE [Access!ANext]_(Access!aVars)
    OBVIOUS
  <2>1. CASE Next
    BY <2>1, OpenRefines, CallerRefines, CloseRefines, UnloadRefines DEF Next
  <2>2. CASE UNCHANGED vars
    BY <2>2 DEF vars, moduleVars, Access!aVars, Phase, Owners, Holders
  <2> QED
    BY <2>1, <2>2
<1> QED
  BY <1>1, <1>2, Invariance, PTL DEF SafeSpec, Access!ASafety
=============================================================================
