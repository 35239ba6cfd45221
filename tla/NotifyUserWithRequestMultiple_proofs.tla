------------------ MODULE NotifyUserWithRequestMultiple_proofs ------------------
(***************************************************************************)
(* However many applications, producers and handlers there are: the        *)
(* callback that owns the list of clients never runs twice at a time, a    *)
(* context that somebody has in hand exists, and every client is given     *)
(* every datum once and in order.                                          *)
(***************************************************************************)
EXTENDS NotifyUserWithRequestMultiple, SequenceTheorems, TLAPS

\* OneErrand is inductive together with the types it needs.
SerialInv ==
    /\ DOMAIN handler = Handlers
    /\ WorkItemScheduled \in BOOLEAN /\ workItem \in BOOLEAN
    /\ OneErrand

-----------------------------------------------------------------------------
(* The doorbell, one operation at a time.                                   *)

\* Of the threads that ring only the first has the errand.
LEMMA RingKeepsOneErrand ==
    ASSUME SerialInv, NEW t, Ring(t)
    PROVE  SerialInv'
BY DEF SerialInv, OneErrand, IsActive, Ring

\* The thread that has the errand hands it to the queue of WDF.
LEMMA RingEnqueuesKeepsOneErrand ==
    ASSUME SerialInv, NEW t, RingEnqueues(t)
    PROVE  SerialInv'
BY DEF SerialInv, OneErrand, IsActive, RingEnqueues, moduleVars

\* The queued work item becomes the only handler.
LEMMA StartKeepsOneErrand ==
    ASSUME SerialInv, NEW h \in Handlers, WorkItemStarts(h)
    PROVE  SerialInv'
<1>1. /\ workItem /\ ringer = {} /\ ringer' = {} /\ workItem' = FALSE
      /\ \A k \in Handlers : ~IsActive(k)
      /\ WorkItemScheduled' = WorkItemScheduled
  BY DEF WorkItemStarts, SerialInv, OneErrand, moduleVars
<1>2. /\ handler' = [handler EXCEPT ![h] = "begin"]
      /\ DOMAIN handler' = Handlers
      /\ \A k \in Handlers : k # h => handler'[k] = handler[k]
  BY DEF WorkItemStarts, SerialInv
<1>3. WorkItemScheduled
  BY <1>1 DEF SerialInv, OneErrand
<1> QED BY <1>1, <1>2, <1>3 DEF SerialInv, OneErrand, IsActive

\* A handler that goes on is still the only one.
LEMMA HandlerKeepsOneErrand ==
    ASSUME SerialInv, NEW h \in Handlers, NEW place,
           IsActive(h), place # "idle",
           handler' = [handler EXCEPT ![h] = place],
           UNCHANGED <<WorkItemScheduled, workItem, ringer>>
    PROVE  SerialInv'
<1>1. \A k \in Handlers : IsActive(k)' <=> IsActive(k)
  BY DEF SerialInv, IsActive
<1>2. DOMAIN handler' = Handlers
  BY DEF SerialInv
<1> QED BY <1>1, <1>2 DEF SerialInv, OneErrand

\* The handler that leaves gives the errand back.
LEMMA TestsKeepsOneErrand ==
    ASSUME SerialInv, NEW h \in Handlers, Tests(h)
    PROVE  SerialInv'
<1>1. CASE WasRungAgain
  BY <1>1, HandlerKeepsOneErrand DEF Tests, IsActive
<1>2. CASE ~WasRungAgain
  <2>1. /\ IsActive(h) /\ workItem' = workItem /\ ringer' = ringer
        /\ WorkItemScheduled' = FALSE
        /\ handler' = [handler EXCEPT ![h] = "idle"]
    BY <1>2 DEF Tests, IsActive
  <2>2. /\ ~workItem /\ ringer = {}
        /\ \A k \in Handlers : k # h => ~IsActive(k)
    BY <2>1 DEF SerialInv, OneErrand
  <2>3. DOMAIN handler' = Handlers /\ \A k \in Handlers : ~IsActive(k)'
    BY <2>1, <2>2 DEF SerialInv, IsActive
  <2> QED BY <2>1, <2>2, <2>3 DEF SerialInv, OneErrand
<1> QED BY <1>1, <1>2

-----------------------------------------------------------------------------
(* The whole Module.                                                        *)

\* Every step of the callback moves the handler that is in it, and leaves the
\* doorbell alone.
LEMMA CallbackStepKeepsOneErrand ==
    ASSUME SerialInv, NEW h \in Handlers, CallbackStep(h)
    PROVE  SerialInv'
<1>1. ASSUME UNCHANGED doorbellVars PROVE SerialInv'
  BY <1>1 DEF doorbellVars, SerialInv, OneErrand, IsActive
<1>2. ASSUME NEW place, place # "idle", IsActive(h), Goto(h, place) PROVE SerialInv'
  BY <1>2, HandlerKeepsOneErrand DEF Goto
<1>3. CASE AddsClient(h)
  BY <1>1, <1>3 DEF AddsClient
<1>4. CASE GivesData(h)
  BY <1>1, <1>4 DEF GivesData
<1>5. CASE TransfersLists(h)
  BY <1>2, <1>5 DEF TransfersLists, IsActive
<1>6. CASE RefusesClient(h)
  BY <1>2, <1>6 DEF RefusesClient, IsActive
<1>7. CASE AddsNoMore(h)
  BY <1>2, <1>7 DEF AddsNoMore, IsActive
<1>8. CASE RemovesClient(h)
  BY <1>2, <1>8 DEF RemovesClient, IsActive
<1>9. CASE RemovesNoMore(h)
  BY <1>2, <1>9 DEF RemovesNoMore, IsActive
<1>10. CASE DeletesModule(h)
  BY <1>2, <1>10 DEF DeletesModule, IsActive
<1>11. CASE RemovesContext(h)
  <2>1. CASE local[h].closed
    BY <1>2, <1>11, <2>1 DEF RemovesContext, IsActive
  <2>2. CASE ~local[h].closed
    BY <1>2, <1>11, <2>2 DEF RemovesContext, IsActive
  <2> QED BY <2>1, <2>2
<1>12. CASE DequeuesData(h)
  BY <1>2, <1>12 DEF DequeuesData, IsActive
<1>13. CASE GivesNoMore(h)
  BY <1>2, <1>13 DEF GivesNoMore, IsActive
<1>14. CASE CallbackReturns(h)
  BY <1>2, <1>14 DEF CallbackReturns, IsActive
<1> QED BY <1>3, <1>4, <1>5, <1>6, <1>7, <1>8, <1>9, <1>10, <1>11, <1>12, <1>13, <1>14
        DEF CallbackStep

\* All of them.
LEMMA NextKeepsOneErrand ==
    ASSUME SerialInv, [Next]_vars
    PROVE  SerialInv'
<1>1. ASSUME UNCHANGED doorbellVars PROVE SerialInv'
  BY <1>1 DEF doorbellVars, SerialInv, OneErrand, IsActive
<1>2. ASSUME NEW f \in Files,
             FileCreate(f) \/ FileCreateFails(f) \/ FileClose(f) \/ RequestProcess(f)
      PROVE  SerialInv'
  BY <1>1, <1>2 DEF FileCreate, FileCreateFails, FileClose, RequestProcess
<1>3. ASSUME NEW f \in Files, Continues(f) PROVE SerialInv'
  BY <1>1, <1>3, RingKeepsOneErrand DEF Continues, IsAdded, IsRemoved, FileRings, RequestIsGiven
<1>4. ASSUME NEW p \in Producers, DataBroadcast(p) \/ ProducerRings(p) PROVE SerialInv'
  BY <1>1, <1>4, RingKeepsOneErrand DEF DataBroadcast, ProducerRings
<1>5. CASE DoorbellSteps
  <2>1. ASSUME NEW h \in Handlers, CallsBack(h) PROVE SerialInv'
    BY <2>1, HandlerKeepsOneErrand DEF CallsBack, IsActive
  <2> QED BY <1>5, <2>1, RingEnqueuesKeepsOneErrand, StartKeepsOneErrand, TestsKeepsOneErrand
          DEF DoorbellSteps
<1>6. ASSUME NEW h \in Handlers, CallbackStep(h) PROVE SerialInv'
  BY <1>6, CallbackStepKeepsOneErrand
<1>7. CASE UNCHANGED vars
  BY <1>1, <1>7 DEF vars
<1> QED BY <1>2, <1>3, <1>4, <1>5, <1>6, <1>7 DEF Next

\* One work item at a time runs the callback of the doorbell: what
\* NotifyUserWithRequestMultiple_DoorbellCallback relies on when it uses the list
\* of clients without a lock.
THEOREM SerialCallback == Spec => []CallbackIsSerial
<1>1. Init => SerialInv
  BY DEF Init, DoorbellInit, SerialInv, OneErrand, IsActive
<1>2. SerialInv /\ [Next]_vars => SerialInv'
  BY NextKeepsOneErrand
<1>3. SerialInv => CallbackIsSerial
  BY DEF SerialInv, OneErrand, IsActive, CallbackIsSerial, Callback
<1> QED BY <1>1, <1>2, <1>3, PTL DEF Spec

-----------------------------------------------------------------------------
(* Lists without repetitions and their elements.                            *)

\* The empty list.
LEMMA EmptyToSet == ToSet(<<>>) = {} /\ IsInjective(<<>>)
BY DEF ToSet, IsInjective

\* The elements of a list, and that none is in it twice, by its places.
LEMMA InToSet ==
    ASSUME NEW S, NEW s \in Seq(S)
    PROVE  /\ \A e : e \in ToSet(s) <=> \E i \in 1 .. Len(s) : s[i] = e
           /\ IsInjective(s) <=> \A i, j \in 1 .. Len(s) : s[i] = s[j] => i = j
           /\ ToSet(s) \subseteq S
<1>1. DOMAIN s = 1 .. Len(s) /\ \A i \in 1 .. Len(s) : s[i] \in S
  OBVIOUS
<1> QED BY <1>1 DEF ToSet, IsInjective

\* A new element at the end.
LEMMA AppendToSet ==
    ASSUME NEW S, NEW s \in Seq(S), NEW e \in S
    PROVE  /\ Append(s, e) \in Seq(S)
           /\ ToSet(Append(s, e)) = ToSet(s) \cup {e}
           /\ IsInjective(s) /\ e \notin ToSet(s) => IsInjective(Append(s, e))
<1> DEFINE t == Append(s, e)
<1>1. t \in Seq(S) /\ Len(t) = Len(s) + 1 /\ Len(s) \in Nat
  OBVIOUS
<1>2. (\A i \in 1 .. Len(s) : t[i] = s[i]) /\ t[Len(s) + 1] = e
  OBVIOUS
<1> HIDE DEF t
<1>3. \A x : x \in ToSet(t) <=> x \in ToSet(s) \cup {e}
  BY <1>1, <1>2, InToSet
<1>4. IsInjective(s) /\ e \notin ToSet(s) => IsInjective(t)
  BY <1>1, <1>2, InToSet
<1> QED BY <1>1, <1>3, <1>4 DEF t

\* The first element goes.
LEMMA HeadTailToSet ==
    ASSUME NEW S, NEW s \in Seq(S), s # <<>>
    PROVE  /\ Head(s) \in ToSet(s) /\ Tail(s) \in Seq(S)
           /\ ToSet(s) = ToSet(Tail(s)) \cup {Head(s)}
           /\ IsInjective(s) => IsInjective(Tail(s)) /\ Head(s) \notin ToSet(Tail(s))
<1> DEFINE t == Tail(s)
<1>1. t \in Seq(S) /\ Len(t) = Len(s) - 1 /\ Len(s) \in Nat \ {0} /\ Head(s) = s[1]
  OBVIOUS
<1>2. \A i \in 1 .. Len(t) : t[i] = s[i + 1]
  OBVIOUS
<1> HIDE DEF t
<1>3. \A i \in 1 .. Len(s) : i = 1 \/ \E j \in 1 .. Len(t) : s[i] = t[j]
  <2>1. ASSUME NEW i \in 1 .. Len(s), i # 1 PROVE \E j \in 1 .. Len(t) : s[i] = t[j]
    <3>1. i - 1 \in 1 .. Len(t) /\ (i - 1) + 1 = i
      BY <1>1, <2>1
    <3> QED BY <1>2, <3>1
  <2> QED BY <2>1
<1>4. ToSet(s) = ToSet(t) \cup {Head(s)}
  <2>1. ASSUME NEW x, x \in ToSet(s) PROVE x = Head(s) \/ x \in ToSet(t)
    BY <1>1, <1>3, <2>1, InToSet
  <2>2. ASSUME NEW x, x \in ToSet(t) PROVE x \in ToSet(s)
    <3>1. PICK i \in 1 .. Len(t) : t[i] = x
      BY <1>1, <2>2, InToSet
    <3>2. i + 1 \in 1 .. Len(s) /\ s[i + 1] = x
      BY <1>1, <1>2, <3>1
    <3> QED BY <3>2, InToSet
  <2>3. Head(s) \in ToSet(s)
    BY <1>1, InToSet
  <2> QED BY <2>1, <2>2, <2>3
<1>5. IsInjective(s) => IsInjective(t) /\ Head(s) \notin ToSet(t)
  <2> SUFFICES ASSUME IsInjective(s) PROVE IsInjective(t) /\ Head(s) \notin ToSet(t)
    OBVIOUS
  <2>1. \A i, j \in 1 .. Len(s) : s[i] = s[j] => i = j
    BY InToSet
  <2>2. \A i, j \in 1 .. Len(t) : t[i] = t[j] => i = j
    BY <1>1, <1>2, <2>1
  <2>3. \A i \in 1 .. Len(t) : t[i] # s[1]
    BY <1>1, <1>2, <2>1
  <2> QED BY <1>1, <2>2, <2>3, InToSet
<1> QED BY <1>1, <1>4, <1>5 DEF t

\* One element is unlinked.
LEMMA RemoveAtToSet ==
    ASSUME NEW S, NEW s \in Seq(S), NEW i \in DOMAIN s, IsInjective(s)
    PROVE  /\ RemoveAt(s, i) \in Seq(S) /\ IsInjective(RemoveAt(s, i))
           /\ ToSet(RemoveAt(s, i)) = ToSet(s) \ {s[i]}
<1> DEFINE a == SubSeq(s, 1, i - 1)
           b == SubSeq(s, i + 1, Len(s))
           t == a \o b
<1>1. i \in 1 .. Len(s) /\ Len(s) \in Nat /\ \A j, k \in 1 .. Len(s) : s[j] = s[k] => j = k
  BY InToSet
<1>2. a \in Seq(S) /\ Len(a) = i - 1 /\ \A j \in 1 .. i - 1 : a[j] = s[j]
  BY <1>1, SubSeqProperties
<1>3. b \in Seq(S) /\ Len(b) = Len(s) - i /\ \A j \in 1 .. Len(s) - i : b[j] = s[i + j]
  BY <1>1, SubSeqProperties
<1> HIDE DEF a, b
<1>4. /\ t \in Seq(S) /\ Len(t) = Len(s) - 1
      /\ \A j \in 1 .. Len(s) - 1 : t[j] = IF j < i THEN s[j] ELSE s[j + 1]
  <2>1. /\ t \in Seq(S) /\ Len(t) = Len(a) + Len(b)
        /\ \A j \in 1 .. Len(a) + Len(b) : t[j] = IF j <= Len(a) THEN a[j] ELSE b[j - Len(a)]
    BY <1>2, <1>3, ConcatProperties
  <2> HIDE DEF t
  <2>2. Len(t) = Len(s) - 1 /\ \A j \in 1 .. Len(s) - 1 : j < i => t[j] = s[j]
    <3>1. Len(t) = Len(s) - 1
      BY <1>1, <1>2, <1>3, <2>1
    <3>2. ASSUME NEW j \in 1 .. Len(s) - 1, j < i PROVE t[j] = s[j]
      <4>1. j \in 1 .. i - 1 /\ j <= Len(a) /\ j \in 1 .. Len(a) + Len(b)
        BY <1>1, <1>2, <1>3, <3>2
      <4>2. t[j] = a[j]
        BY <2>1, <4>1
      <4> QED BY <1>2, <4>1, <4>2
    <3> QED BY <3>1, <3>2
  <2>3. ASSUME NEW j \in 1 .. Len(s) - 1, j >= i PROVE t[j] = s[j + 1]
    <3>1. t[j] = b[j - (i - 1)] /\ j - (i - 1) \in 1 .. Len(s) - i /\ i + (j - (i - 1)) = j + 1
      <4>1. j \in 1 .. Len(a) + Len(b) /\ ~(j <= Len(a)) /\ Len(a) = i - 1
        BY <1>1, <1>2, <1>3, <2>3
      <4>2. t[j] = b[j - Len(a)]
        BY <2>1, <4>1
      <4> QED BY <1>1, <2>3, <4>1, <4>2
    <3> QED BY <1>3, <3>1
  <2> QED BY <1>1, <2>1, <2>2, <2>3
<1> HIDE DEF t
<1>5. IsInjective(t)
  BY <1>1, <1>4, InToSet
<1>6. ASSUME NEW x, x \in ToSet(t) PROVE x \in ToSet(s) /\ x # s[i]
  <2>1. PICK j \in 1 .. Len(t) : t[j] = x
    BY <1>4, <1>6, InToSet
  <2>2. CASE j < i
    BY <1>1, <1>4, <2>1, <2>2, InToSet
  <2>3. CASE j >= i
    <3>1. j + 1 \in 1 .. Len(s) /\ s[j + 1] = x /\ j + 1 # i
      BY <1>1, <1>4, <2>1, <2>3
    <3> QED BY <1>1, <3>1, InToSet
  <2> QED BY <1>1, <1>4, <2>1, <2>2, <2>3
<1>7. ASSUME NEW x, x \in ToSet(s), x # s[i] PROVE x \in ToSet(t)
  <2>1. PICK j \in 1 .. Len(s) : s[j] = x
    BY <1>7, InToSet
  <2>2. CASE j < i
    BY <1>1, <1>4, <2>1, <2>2, InToSet
  <2>3. CASE j > i
    <3>1. j - 1 \in 1 .. Len(t) /\ t[j - 1] = x
      BY <1>1, <1>4, <2>1, <2>3
    <3> QED BY <1>4, <3>1, InToSet
  <2> QED BY <1>1, <1>7, <2>1, <2>2, <2>3
<1> QED BY <1>4, <1>5, <1>6, <1>7 DEF t, a, b, RemoveAt

-----------------------------------------------------------------------------
(* Where the context of a file is: in PendingAdd or the batch that is being *)
(* added (it waits), in the list of the clients, and when its file was      *)
(* closed also in PendingRemove or the batch that is being removed (it      *)
(* leaves), until the callback deletes it and it is nowhere.                *)

Fields ==
    [add : Seq(Files), remove : Seq(Files), file : Files \cup {"none"}, closed : BOOLEAN,
     data : Nat, clients : Seq(Files)]

MultipleTypes ==
    /\ PendingAdd \in Seq(Files) /\ PendingRemove \in Seq(Files) /\ ListHead \in Seq(Files)
    /\ contexts \subseteq Files /\ using \subseteq Files
    /\ queue \in Seq(Nat) /\ broadcasts \in Nat
    /\ local \in [Handlers -> Fields]
    /\ file \in [Files -> {"none", "creating", "ringingCreate", "open", "closing",
                           "ringingClose", "closed"}]

\* The callback empties its lists one after the other.
Deletes(h) == handler[h] \in {"deleteModule", "removeContext"}

LocalInv(h) ==
    LET l == local[h]
    IN  /\ IsInjective(l.add) /\ IsInjective(l.remove) /\ IsInjective(l.clients)
        /\ handler[h] \notin Callback \ {"callback"} => l.add = <<>> /\ l.remove = <<>>
        /\ handler[h] \in {"remove", "broadcast", "give"} => l.add = <<>>
        /\ handler[h] \in {"broadcast", "give"} => l.remove = <<>>
        /\ handler[h] # "give" => l.clients = <<>>
        /\ ToSet(l.clients) \subseteq ToSet(ListHead)
        /\ Deletes(h) => l.file \in Files /\ (l.closed => l.add = <<>>)

InAdd(f) == \E h \in Handlers : f \in ToSet(local[h].add)
InRemove(f) == \E h \in Handlers : f \in ToSet(local[h].remove)
IsDeleted(f) == \E h \in Handlers : Deletes(h) /\ local[h].file = f
Waits(f) == f \in ToSet(PendingAdd) \/ InAdd(f)
Leaves(f) == f \in ToSet(PendingRemove) \/ InRemove(f)
Listed(f) == f \in ToSet(ListHead)
Belongs(f) == Waits(f) \/ Listed(f)

PlacesDiffer(f) ==
    /\ ~(f \in ToSet(PendingAdd) /\ InAdd(f))
    /\ ~(f \in ToSet(PendingRemove) /\ InRemove(f))
    /\ ~(Waits(f) /\ Listed(f))
    /\ IsDeleted(f) => ~Belongs(f) /\ ~Leaves(f) /\ f \notin using

BelongsInv(f) ==
    /\ Belongs(f) \/ Leaves(f) \/ IsDeleted(f) => file[f] \notin {"none", "creating"}
    /\ file[f] = "none" => f \notin contexts
    /\ file[f] = "creating" \/ Belongs(f) => f \in contexts \cap notifyModules
    /\ IsDeleted(f) => f \in contexts
    /\ Listed(f) => f \in AddedToBroadcastList

\* Who is refused is never listed and never leaves; who is not belongs to the
\* lists from the create callback until the callback removes it.
StaysInv(f) ==
    /\ f \in refused => ~Listed(f) /\ ~Leaves(f) /\ f \notin using
                             /\ file[f] \notin {"closing", "ringingClose"}
    /\ file[f] \in {"ringingCreate", "open"} /\ f \in contexts \ refused => Belongs(f)
    /\ file[f] = "closing" \/ f \in using \/ Leaves(f) => Belongs(f)
    /\ Leaves(f) => file[f] \in {"ringingClose", "closed"}
    /\ f \in using => file[f] = "open"
    /\ file[f] \in {"ringingClose", "closed"} /\ f \in contexts => f \in referenced

HandlerInv(h) ==
    /\ LocalInv(h)
    /\ handler[h] = "deleteModule" => local[h].file \in notifyModules
    /\ Deletes(h) => IF local[h].closed
                        THEN file[local[h].file] \in {"ringingClose", "closed"}
                        ELSE local[h].file \in refused
    /\ \A f \in ToSet(local[h].remove) : f \in ToSet(local[h].add) \/ Listed(f)

PlaceInv ==
    /\ SerialInv /\ MultipleTypes
    /\ IsInjective(PendingAdd) /\ IsInjective(PendingRemove) /\ IsInjective(ListHead)
    /\ \A h \in Handlers : HandlerInv(h)
    /\ \A f \in Files : PlacesDiffer(f) /\ BelongsInv(f) /\ StaysInv(f)

-----------------------------------------------------------------------------
(* One handler at a time is in the callback.                                *)

\* The handler that is in the callback is the only one whose lists, and whose
\* file, are those of a client.
LEMMA CallbackIsAlone ==
    ASSUME PlaceInv, NEW h \in Handlers, handler[h] \in Callback
    PROVE  \A k \in Handlers : k # h =>
               /\ handler[k] = "idle" /\ ~Deletes(k)
               /\ local[k].add = <<>> /\ local[k].remove = <<>> /\ local[k].clients = <<>>
<1> SUFFICES ASSUME NEW k \in Handlers, k # h
             PROVE  /\ handler[k] = "idle" /\ ~Deletes(k)
                    /\ local[k].add = <<>> /\ local[k].remove = <<>> /\ local[k].clients = <<>>
  OBVIOUS
<1>1. handler[k] = "idle"
  BY DEF PlaceInv, SerialInv, OneErrand, IsActive, Callback
<1>2. LocalInv(k)
  BY DEF PlaceInv, HandlerInv
<1> QED BY <1>1, <1>2 DEF LocalInv, Deletes, Callback

\* So the places of a file are told from its lists.
LEMMA CallbackSees ==
    ASSUME PlaceInv, NEW h \in Handlers, handler[h] \in Callback, NEW f
    PROVE  /\ InAdd(f) <=> f \in ToSet(local[h].add)
           /\ InRemove(f) <=> f \in ToSet(local[h].remove)
           /\ IsDeleted(f) <=> Deletes(h) /\ local[h].file = f
BY CallbackIsAlone, EmptyToSet DEF InAdd, InRemove, IsDeleted

\* And it stays alone in a step that moves no other handler.
LEMMA CallbackWillSee ==
    ASSUME PlaceInv, NEW h \in Handlers, handler[h] \in Callback, NEW f,
           \A k \in Handlers : k # h => local'[k] = local[k] /\ handler'[k] = handler[k]
    PROVE  /\ InAdd(f)' <=> f \in ToSet(local'[h].add)
           /\ InRemove(f)' <=> f \in ToSet(local'[h].remove)
           /\ IsDeleted(f)' <=> Deletes(h)' /\ local'[h].file = f
           /\ \A k \in Handlers : k # h => Deletes(k)' = Deletes(k)
BY CallbackIsAlone, EmptyToSet DEF InAdd, InRemove, IsDeleted, Deletes

\* What is left to show of a step of the callback: the handler that takes it,
\* and the files.
LEMMA CallbackKeepsPlaceInv ==
    ASSUME PlaceInv, SerialInv', NEW h \in Handlers, handler[h] \in Callback,
           \A k \in Handlers : k # h => local'[k] = local[k] /\ handler'[k] = handler[k],
           MultipleTypes',
           IsInjective(PendingAdd'), IsInjective(PendingRemove'), IsInjective(ListHead'),
           HandlerInv(h)', \A f \in Files : (PlacesDiffer(f) /\ BelongsInv(f) /\ StaysInv(f))'
    PROVE  PlaceInv'
<1>1. ASSUME NEW k \in Handlers, k # h PROVE HandlerInv(k)'
  <2>1. /\ handler[k] = "idle" /\ handler'[k] = "idle" /\ local'[k] = local[k]
        /\ local[k].add = <<>> /\ local[k].remove = <<>> /\ local[k].clients = <<>>
    BY <1>1, CallbackIsAlone
  <2> QED BY <2>1, EmptyToSet DEF HandlerInv, LocalInv, Deletes, Callback
<1> QED BY <1>1 DEF PlaceInv

-----------------------------------------------------------------------------
(* The steps of the callback.                                               *)

\* The batch that waited is the handler's.
LEMMA TransferKeepsPlaces ==
    ASSUME PlaceInv, SerialInv', NEW h \in Handlers, TransfersLists(h)
    PROVE  PlaceInv'
<1>1. /\ handler[h] = "callback" /\ handler' = [handler EXCEPT ![h] = "add"]
      /\ h \in DOMAIN handler /\ handler[h] \in Callback
      /\ local \in [Handlers -> Fields] /\ local[h] \in Fields
  BY DEF TransfersLists, Goto, PlaceInv, SerialInv, MultipleTypes, Callback
<1>2. /\ local'[h].add = PendingAdd /\ local'[h].remove = PendingRemove
      /\ local'[h].clients = local[h].clients
      /\ PendingAdd' = <<>> /\ PendingRemove' = <<>> /\ handler'[h] = "add"
      /\ \A k \in Handlers : k # h => local'[k] = local[k] /\ handler'[k] = handler[k]
      /\ UNCHANGED <<ListHead, file, referenced, contexts, notifyModules, AddedToBroadcastList,
                     using, refused, queue, broadcasts>>
  BY <1>1 DEF TransfersLists, Fields, fileVars, modeVars, dataVars
<1>3. PendingAdd \in Seq(Files) /\ PendingRemove \in Seq(Files)
  BY DEF PlaceInv, MultipleTypes
<1>4. MultipleTypes'
  <2>1. local' \in [Handlers -> Fields]
    BY <1>1, <1>3 DEF TransfersLists, Fields
  <2> QED BY <1>2, <2>1 DEF PlaceInv, MultipleTypes
<1>5. local[h].add = <<>> /\ local[h].remove = <<>> /\ local[h].clients = <<>>
  BY <1>1 DEF PlaceInv, HandlerInv, LocalInv, Callback
<1>6. ~Deletes(h) /\ ~Deletes(h)'
  BY <1>1, <1>2 DEF Deletes
<1>7. ASSUME NEW f \in Files
      PROVE  /\ InAdd(f)' <=> f \in ToSet(PendingAdd)
             /\ InRemove(f)' <=> f \in ToSet(PendingRemove)
             /\ ~IsDeleted(f) /\ ~IsDeleted(f)' /\ ~InAdd(f) /\ ~InRemove(f)
             /\ f \notin ToSet(PendingAdd') /\ f \notin ToSet(PendingRemove')
             /\ Listed(f)' = Listed(f)
  BY <1>1, <1>2, <1>5, <1>6, CallbackSees, CallbackWillSee, EmptyToSet DEF Listed
<1>8. HandlerInv(h)'
  <2>1. LocalInv(h)'
    BY <1>2, <1>5, <1>6, EmptyToSet DEF PlaceInv, LocalInv, Callback
  <2>2. ASSUME NEW f \in ToSet(PendingRemove) PROVE f \in ToSet(PendingAdd) \/ Listed(f)
    <3>1. f \in Files
      BY <1>3, InToSet
    <3> QED BY <1>7, <3>1 DEF PlaceInv, StaysInv, Leaves, Belongs, Waits
  <2>3. ListHead' = ListHead
    BY <1>2
  <2> QED BY <1>2, <1>6, <2>1, <2>2, <2>3 DEF HandlerInv, Listed
<1>9. ASSUME NEW f \in Files PROVE (PlacesDiffer(f) /\ BelongsInv(f) /\ StaysInv(f))'
  <2>1. PlacesDiffer(f) /\ BelongsInv(f) /\ StaysInv(f)
    BY DEF PlaceInv
  <2>2. /\ Waits(f)' <=> Waits(f)
        /\ Leaves(f)' <=> Leaves(f)
        /\ Belongs(f)' <=> Belongs(f)
    BY <1>7 DEF Waits, Leaves, Belongs
  <2> QED BY <1>2, <1>7, <2>1, <2>2 DEF PlacesDiffer, BelongsInv, StaysInv
<1> QED BY <1>1, <1>2, <1>4, <1>8, <1>9, CallbackKeepsPlaceInv, EmptyToSet DEF PlaceInv

\* A step that only goes on to another place of the callback, or only gives data.
LEMMA GoesOnKeepsPlaces ==
    ASSUME PlaceInv, SerialInv', NEW h \in Handlers, handler[h] \in Callback,
           ~Deletes(h), ~Deletes(h)',
           \A k \in Handlers : k # h => local'[k] = local[k] /\ handler'[k] = handler[k],
           local' \in [Handlers -> Fields], queue' \in Seq(Nat), broadcasts' = broadcasts,
           local'[h].add = local[h].add, local'[h].remove = local[h].remove,
           LocalInv(h)', UNCHANGED <<fileVars, listVars, refused>>
    PROVE  PlaceInv'
<1>1. UNCHANGED <<PendingAdd, PendingRemove, ListHead, file, referenced, contexts, notifyModules,
                  AddedToBroadcastList, using, refused>>
  BY DEF fileVars, listVars
<1>2. MultipleTypes'
  BY <1>1 DEF PlaceInv, MultipleTypes
<1>3. ASSUME NEW f \in Files
      PROVE  /\ InAdd(f)' <=> InAdd(f)
             /\ InRemove(f)' <=> InRemove(f)
             /\ ~IsDeleted(f) /\ ~IsDeleted(f)'
             /\ Listed(f)' = Listed(f)
  BY <1>1, CallbackSees, CallbackWillSee DEF Listed
<1>4. HandlerInv(h)'
  BY <1>1 DEF PlaceInv, HandlerInv, Deletes, Listed
<1>5. ASSUME NEW f \in Files PROVE (PlacesDiffer(f) /\ BelongsInv(f) /\ StaysInv(f))'
  <2>1. PlacesDiffer(f) /\ BelongsInv(f) /\ StaysInv(f)
    BY DEF PlaceInv
  <2>2. /\ Waits(f)' <=> Waits(f)
        /\ Leaves(f)' <=> Leaves(f)
        /\ Belongs(f)' <=> Belongs(f)
    BY <1>1, <1>3 DEF Waits, Leaves, Belongs
  <2> QED BY <1>1, <1>3, <2>1, <2>2 DEF PlacesDiffer, BelongsInv, StaysInv
<1> QED BY <1>1, <1>2, <1>4, <1>5, CallbackKeepsPlaceInv DEF PlaceInv

\* A client that is not refused comes out of the batch into the list.
LEMMA AddKeepsPlaces ==
    ASSUME PlaceInv, SerialInv', NEW h \in Handlers, AddsClient(h)
    PROVE  PlaceInv'
<1> DEFINE g == Head(local[h].add)
<1>1. /\ handler[h] = "add" /\ handler' = handler /\ handler[h] \in Callback
      /\ local \in [Handlers -> Fields] /\ local[h] \in Fields
      /\ local[h].add \in Seq(Files) /\ local[h].add # <<>> /\ IsInjective(local[h].add)
      /\ ListHead \in Seq(Files) /\ IsInjective(ListHead)
      /\ LocalInv(h) /\ HandlerInv(h)
  BY DEF AddsClient, PlaceInv, HandlerInv, LocalInv, MultipleTypes, Callback, doorbellVars, Fields
<1>2. /\ local'[h].add = Tail(local[h].add) /\ local'[h].remove = local[h].remove
      /\ local'[h].clients = local[h].clients
      /\ \A k \in Handlers : k # h => local'[k] = local[k] /\ handler'[k] = handler[k]
      /\ ListHead' = Append(ListHead, g)
      /\ AddedToBroadcastList' = AddedToBroadcastList \cup {g}
      /\ g \notin refused
      /\ UNCHANGED <<PendingAdd, PendingRemove, file, referenced, contexts, notifyModules,
                     using, refused, queue, broadcasts>>
  BY <1>1 DEF AddsClient, Fields, modeVars, dataVars
<1>3. /\ Tail(local[h].add) \in Seq(Files) /\ IsInjective(Tail(local[h].add))
      /\ ToSet(local[h].add) = ToSet(Tail(local[h].add)) \cup {g}
      /\ g \notin ToSet(Tail(local[h].add)) /\ g \in Files
  BY <1>1, HeadTailToSet, InToSet
<1>4. local' \in [Handlers -> Fields]
  BY <1>1, <1>3 DEF AddsClient, Fields
<1> HIDE DEF g
<1>5. ~Deletes(h) /\ ~Deletes(h)'
  BY <1>1, <1>2 DEF Deletes
<1>6. ASSUME NEW f \in Files
      PROVE  /\ InAdd(f) <=> f \in ToSet(Tail(local[h].add)) \/ f = g
             /\ InAdd(f)' <=> f \in ToSet(Tail(local[h].add))
             /\ InRemove(f)' <=> InRemove(f)
             /\ ~IsDeleted(f) /\ ~IsDeleted(f)'
  BY <1>1, <1>2, <1>3, <1>5, CallbackSees, CallbackWillSee
<1>7. Waits(g) /\ ~Listed(g) /\ g \notin ToSet(PendingAdd)
  BY <1>3, <1>6 DEF PlaceInv, PlacesDiffer, Waits
<1>8. /\ ListHead' \in Seq(Files) /\ IsInjective(ListHead')
      /\ ToSet(ListHead') = ToSet(ListHead) \cup {g}
  BY <1>1, <1>2, <1>3, <1>7, AppendToSet DEF Listed
<1>9. MultipleTypes'
  BY <1>2, <1>4, <1>8 DEF PlaceInv, MultipleTypes
<1>10. HandlerInv(h)'
  <2>1. LocalInv(h)'
    BY <1>1, <1>2, <1>3, <1>5, EmptyToSet DEF LocalInv, Callback
  <2> QED BY <1>1, <1>2, <1>3, <1>5, <1>8, <2>1 DEF HandlerInv, Deletes, Listed
<1>11. ASSUME NEW f \in Files PROVE (PlacesDiffer(f) /\ BelongsInv(f) /\ StaysInv(f))'
  <2>1. PlacesDiffer(f) /\ BelongsInv(f) /\ StaysInv(f)
    BY DEF PlaceInv
  <2>2. /\ Listed(f)' <=> Listed(f) \/ f = g
        /\ Waits(f)' <=> Waits(f) /\ f # g
        /\ Leaves(f)' <=> Leaves(f)
        /\ Belongs(f)' <=> Belongs(f)
    BY <1>2, <1>3, <1>6, <1>7, <1>8 DEF Waits, Leaves, Belongs, Listed
  <2> QED BY <1>2, <1>6, <1>7, <2>1, <2>2 DEF PlacesDiffer, BelongsInv, StaysInv
<1> QED BY <1>1, <1>2, <1>8, <1>9, <1>10, <1>11, CallbackKeepsPlaceInv DEF PlaceInv

\* A client that is refused comes out of the batch to be deleted.
LEMMA RefuseKeepsPlaces ==
    ASSUME PlaceInv, SerialInv', NEW h \in Handlers, RefusesClient(h)
    PROVE  PlaceInv'
<1> DEFINE g == Head(local[h].add)
<1>1. /\ handler[h] = "add" /\ handler[h] \in Callback /\ h \in DOMAIN handler
      /\ handler' = [handler EXCEPT ![h] = "deleteModule"]
      /\ local \in [Handlers -> Fields] /\ local[h] \in Fields
      /\ local[h].add \in Seq(Files) /\ local[h].add # <<>> /\ IsInjective(local[h].add)
      /\ LocalInv(h) /\ HandlerInv(h)
  BY DEF RefusesClient, Goto, PlaceInv, SerialInv, HandlerInv, LocalInv, MultipleTypes,
         Callback, Fields
<1>2. /\ local'[h].add = Tail(local[h].add) /\ local'[h].remove = local[h].remove
      /\ local'[h].clients = local[h].clients /\ local'[h].file = g /\ local'[h].closed = FALSE
      /\ handler'[h] = "deleteModule"
      /\ \A k \in Handlers : k # h => local'[k] = local[k] /\ handler'[k] = handler[k]
      /\ g \in refused
      /\ UNCHANGED <<PendingAdd, PendingRemove, ListHead, file, referenced, contexts,
                     notifyModules, AddedToBroadcastList, using, refused, queue, broadcasts>>
  BY <1>1 DEF RefusesClient, Fields, modeVars, dataVars, fileVars, listVars
<1>3. /\ Tail(local[h].add) \in Seq(Files) /\ IsInjective(Tail(local[h].add))
      /\ ToSet(local[h].add) = ToSet(Tail(local[h].add)) \cup {g}
      /\ g \notin ToSet(Tail(local[h].add)) /\ g \in Files
  BY <1>1, HeadTailToSet, InToSet
<1>4. local' \in [Handlers -> Fields]
  BY <1>1, <1>3 DEF RefusesClient, Fields
<1> HIDE DEF g
<1>5. ~Deletes(h) /\ Deletes(h)'
  BY <1>1, <1>2 DEF Deletes
<1>6. ASSUME NEW f \in Files
      PROVE  /\ InAdd(f) <=> f \in ToSet(Tail(local[h].add)) \/ f = g
             /\ InAdd(f)' <=> f \in ToSet(Tail(local[h].add))
             /\ InRemove(f)' <=> InRemove(f)
             /\ ~IsDeleted(f)
             /\ IsDeleted(f)' <=> f = g
  BY <1>1, <1>2, <1>3, <1>5, CallbackSees, CallbackWillSee
<1>7. Waits(g) /\ Belongs(g) /\ ~Listed(g) /\ g \notin ToSet(PendingAdd)
  BY <1>3, <1>6 DEF PlaceInv, PlacesDiffer, Waits, Belongs
<1>8. g \in contexts \cap notifyModules /\ ~Leaves(g) /\ g \notin using
  BY <1>2, <1>3, <1>7 DEF PlaceInv, BelongsInv, StaysInv
<1>9. MultipleTypes'
  BY <1>2, <1>4 DEF PlaceInv, MultipleTypes
<1>10. HandlerInv(h)'
  <2>1. LocalInv(h)'
    BY <1>1, <1>2, <1>3, <1>5, EmptyToSet DEF LocalInv, Callback
  <2>2. g \notin ToSet(local[h].remove)
    BY <1>3, <1>6, <1>8, <1>1, CallbackSees DEF Leaves
  <2>3. \A f \in ToSet(local[h].remove) : f \in ToSet(Tail(local[h].add)) \/ Listed(f)
    BY <1>1, <1>3, <2>2 DEF HandlerInv
  <2> QED BY <1>1, <1>2, <1>5, <1>8, <2>1, <2>3 DEF HandlerInv, Deletes, Listed
<1>11. ASSUME NEW f \in Files PROVE (PlacesDiffer(f) /\ BelongsInv(f) /\ StaysInv(f))'
  <2>1. PlacesDiffer(f) /\ BelongsInv(f) /\ StaysInv(f)
    BY DEF PlaceInv
  <2>2. /\ Listed(f)' <=> Listed(f)
        /\ Waits(f)' <=> Waits(f) /\ f # g
        /\ Leaves(f)' <=> Leaves(f)
        /\ Belongs(f)' <=> Belongs(f) /\ f # g
    BY <1>2, <1>3, <1>6, <1>7 DEF Waits, Leaves, Belongs, Listed
  <2> QED BY <1>2, <1>6, <1>7, <1>8, <2>1, <2>2 DEF PlacesDiffer, BelongsInv, StaysInv
<1> QED BY <1>1, <1>2, <1>9, <1>10, <1>11, CallbackKeepsPlaceInv DEF PlaceInv

\* A client whose file was closed comes out of the list to be deleted.
LEMMA RemoveKeepsPlaces ==
    ASSUME PlaceInv, SerialInv', NEW h \in Handlers, RemovesClient(h)
    PROVE  PlaceInv'
<1> DEFINE g == Head(local[h].remove)
<1>1. /\ handler[h] = "remove" /\ handler[h] \in Callback /\ h \in DOMAIN handler
      /\ handler' = [handler EXCEPT ![h] = "deleteModule"]
      /\ local \in [Handlers -> Fields] /\ local[h] \in Fields
      /\ local[h].remove \in Seq(Files) /\ local[h].remove # <<>> /\ IsInjective(local[h].remove)
      /\ ListHead \in Seq(Files) /\ IsInjective(ListHead)
      /\ LocalInv(h) /\ HandlerInv(h) /\ local[h].add = <<>>
  BY DEF RemovesClient, Goto, PlaceInv, SerialInv, HandlerInv, LocalInv, MultipleTypes,
         Callback, Fields
<1>2. /\ local'[h].remove = Tail(local[h].remove) /\ local'[h].add = local[h].add
      /\ local'[h].clients = local[h].clients /\ local'[h].file = g /\ local'[h].closed = TRUE
      /\ handler'[h] = "deleteModule"
      /\ \A k \in Handlers : k # h => local'[k] = local[k] /\ handler'[k] = handler[k]
      /\ UNCHANGED <<PendingAdd, PendingRemove, file, referenced, contexts,
                     notifyModules, AddedToBroadcastList, using, refused, queue, broadcasts>>
  BY <1>1 DEF RemovesClient, Fields, modeVars, dataVars, fileVars
<1>3. /\ Tail(local[h].remove) \in Seq(Files) /\ IsInjective(Tail(local[h].remove))
      /\ ToSet(local[h].remove) = ToSet(Tail(local[h].remove)) \cup {g}
      /\ g \notin ToSet(Tail(local[h].remove)) /\ g \in Files
  BY <1>1, HeadTailToSet, InToSet
<1>4. local' \in [Handlers -> Fields]
  BY <1>1, <1>3 DEF RemovesClient, Fields
<1>5. IF g \in AddedToBroadcastList
         THEN \E i \in DOMAIN ListHead : ListHead[i] = g /\ ListHead' = RemoveAt(ListHead, i)
         ELSE UNCHANGED ListHead
  BY DEF RemovesClient
<1> HIDE DEF g
<1>6. ~Deletes(h) /\ Deletes(h)'
  BY <1>1, <1>2 DEF Deletes
<1>7. ASSUME NEW f \in Files
      PROVE  /\ InRemove(f) <=> f \in ToSet(Tail(local[h].remove)) \/ f = g
             /\ InRemove(f)' <=> f \in ToSet(Tail(local[h].remove))
             /\ ~InAdd(f) /\ ~InAdd(f)'
             /\ ~IsDeleted(f)
             /\ IsDeleted(f)' <=> f = g
  BY <1>1, <1>2, <1>3, <1>6, CallbackSees, CallbackWillSee, EmptyToSet
<1>8. /\ Listed(g) /\ Belongs(g) /\ Leaves(g) /\ ~Waits(g) /\ g \notin ToSet(PendingRemove)
      /\ g \in AddedToBroadcastList /\ g \in contexts \cap notifyModules
      /\ file[g] \in {"ringingClose", "closed"} /\ g \notin using /\ g \notin refused
  <2>1. g \in ToSet(local[h].remove) /\ g \notin ToSet(local[h].add)
    BY <1>1, <1>3, EmptyToSet
  <2>2. Listed(g) /\ Leaves(g) /\ Belongs(g)
    BY <1>1, <1>3, <1>7, <2>1 DEF HandlerInv, Leaves, Belongs
  <2> QED BY <1>3, <1>7, <2>2 DEF PlaceInv, PlacesDiffer, BelongsInv, StaysInv
<1>9. ListHead' \in Seq(Files) /\ IsInjective(ListHead') /\ ToSet(ListHead') = ToSet(ListHead) \ {g}
  BY <1>1, <1>5, <1>8, RemoveAtToSet
<1>10. MultipleTypes'
  BY <1>2, <1>4, <1>9 DEF PlaceInv, MultipleTypes
<1>11. HandlerInv(h)'
  <2>1. LocalInv(h)'
    BY <1>1, <1>2, <1>3, <1>6, EmptyToSet DEF LocalInv, Callback
  <2>2. \A f \in ToSet(Tail(local[h].remove)) : f \in ToSet(ListHead')
    BY <1>1, <1>3, <1>9, EmptyToSet DEF HandlerInv, Listed
  <2> QED BY <1>2, <1>8, <2>1, <2>2 DEF HandlerInv, Deletes, Listed
<1>12. ASSUME NEW f \in Files PROVE (PlacesDiffer(f) /\ BelongsInv(f) /\ StaysInv(f))'
  <2>1. PlacesDiffer(f) /\ BelongsInv(f) /\ StaysInv(f)
    BY DEF PlaceInv
  <2>2. /\ Listed(f)' <=> Listed(f) /\ f # g
        /\ Waits(f)' <=> Waits(f)
        /\ Leaves(f)' <=> Leaves(f) /\ f # g
        /\ Belongs(f)' <=> Belongs(f) /\ f # g
    BY <1>2, <1>3, <1>7, <1>8, <1>9 DEF Waits, Leaves, Belongs, Listed
  <2> QED BY <1>2, <1>7, <1>8, <2>1, <2>2 DEF PlacesDiffer, BelongsInv, StaysInv
<1> QED BY <1>1, <1>2, <1>9, <1>10, <1>11, <1>12, CallbackKeepsPlaceInv DEF PlaceInv

\* The Module of a client that is nowhere any more is deleted.
LEMMA DeleteKeepsPlaces ==
    ASSUME PlaceInv, SerialInv', NEW h \in Handlers, DeletesModule(h)
    PROVE  PlaceInv'
<1> DEFINE g == local[h].file
<1>1. /\ handler[h] = "deleteModule" /\ handler[h] \in Callback /\ h \in DOMAIN handler
      /\ handler' = [handler EXCEPT ![h] = "removeContext"]
      /\ LocalInv(h) /\ HandlerInv(h) /\ Deletes(h) /\ g \in Files
  BY DEF DeletesModule, Goto, PlaceInv, SerialInv, HandlerInv, LocalInv, Callback, Deletes
<1>2. /\ local' = local /\ handler'[h] = "removeContext" /\ Deletes(h)'
      /\ \A k \in Handlers : k # h => local'[k] = local[k] /\ handler'[k] = handler[k]
      /\ notifyModules' = notifyModules \ {g}
      /\ UNCHANGED <<PendingAdd, PendingRemove, ListHead, file, referenced, contexts,
                     AddedToBroadcastList, using, refused, queue, broadcasts>>
  BY <1>1 DEF DeletesModule, modeVars, dataVars, listVars, Deletes
<1> HIDE DEF g
<1>3. ASSUME NEW f \in Files
      PROVE  /\ InAdd(f)' <=> InAdd(f)
             /\ InRemove(f)' <=> InRemove(f)
             /\ IsDeleted(f) <=> f = g
             /\ IsDeleted(f)' <=> f = g
             /\ Listed(f)' = Listed(f)
  BY <1>1, <1>2, CallbackSees, CallbackWillSee DEF Listed, g
<1>4. MultipleTypes'
  BY <1>2 DEF PlaceInv, MultipleTypes
<1>5. HandlerInv(h)'
  <2>1. LocalInv(h)'
    BY <1>1, <1>2 DEF LocalInv, Callback
  <2> QED BY <1>1, <1>2, <2>1 DEF HandlerInv, Deletes, Listed
<1>6. ASSUME NEW f \in Files PROVE (PlacesDiffer(f) /\ BelongsInv(f) /\ StaysInv(f))'
  <2>1. PlacesDiffer(f) /\ BelongsInv(f) /\ StaysInv(f)
    BY DEF PlaceInv
  <2>2. /\ Waits(f)' <=> Waits(f)
        /\ Leaves(f)' <=> Leaves(f)
        /\ Belongs(f)' <=> Belongs(f)
    BY <1>2, <1>3 DEF Waits, Leaves, Belongs
  <2> QED BY <1>2, <1>3, <2>1, <2>2 DEF PlacesDiffer, BelongsInv, StaysInv
<1> QED BY <1>1, <1>2, <1>4, <1>5, <1>6, CallbackKeepsPlaceInv DEF PlaceInv

\* And its context leaves the pool.
LEMMA RemoveContextKeepsPlaces ==
    ASSUME PlaceInv, SerialInv', NEW h \in Handlers, RemovesContext(h)
    PROVE  PlaceInv'
<1> DEFINE g == local[h].file
<1>1. /\ handler[h] = "removeContext" /\ handler[h] \in Callback /\ h \in DOMAIN handler
      /\ handler' = [handler EXCEPT ![h] = IF local[h].closed THEN "remove" ELSE "add"]
      /\ local \in [Handlers -> Fields] /\ local[h] \in Fields
      /\ LocalInv(h) /\ HandlerInv(h) /\ Deletes(h) /\ g \in Files
  BY DEF RemovesContext, Goto, PlaceInv, SerialInv, HandlerInv, LocalInv, MultipleTypes, Callback,
         Deletes
<1>2. /\ local'[h].add = local[h].add /\ local'[h].remove = local[h].remove
      /\ local'[h].clients = local[h].clients
      /\ handler'[h] = IF local[h].closed THEN "remove" ELSE "add"
      /\ ~Deletes(h)'
      /\ \A k \in Handlers : k # h => local'[k] = local[k] /\ handler'[k] = handler[k]
      /\ contexts' = contexts \ {g}
      /\ AddedToBroadcastList' = AddedToBroadcastList \ {g}
      /\ UNCHANGED <<PendingAdd, PendingRemove, ListHead, file, notifyModules, using, refused,
                     queue, broadcasts>>
      /\ \A f \in Files : f # g => (f \in referenced' <=> f \in referenced)
  BY <1>1 DEF RemovesContext, Fields, modeVars, dataVars, listVars, Deletes
<1>3. local' \in [Handlers -> Fields]
  BY <1>1 DEF RemovesContext, Fields
<1> HIDE DEF g
<1>4. ASSUME NEW f \in Files
      PROVE  /\ InAdd(f)' <=> InAdd(f)
             /\ InRemove(f)' <=> InRemove(f)
             /\ IsDeleted(f) <=> f = g
             /\ ~IsDeleted(f)'
             /\ Listed(f)' = Listed(f)
  BY <1>1, <1>2, CallbackSees, CallbackWillSee DEF Listed, g
<1>5. MultipleTypes'
  BY <1>2, <1>3 DEF PlaceInv, MultipleTypes
<1>6. HandlerInv(h)'
  <2>1. LocalInv(h)'
    BY <1>1, <1>2 DEF LocalInv, Callback
  <2> QED BY <1>1, <1>2, <2>1 DEF HandlerInv, Deletes, Listed
<1>7. ASSUME NEW f \in Files PROVE (PlacesDiffer(f) /\ BelongsInv(f) /\ StaysInv(f))'
  <2>1. PlacesDiffer(f) /\ BelongsInv(f) /\ StaysInv(f)
    BY DEF PlaceInv
  <2>2. /\ Waits(f)' <=> Waits(f)
        /\ Leaves(f)' <=> Leaves(f)
        /\ Belongs(f)' <=> Belongs(f)
    BY <1>2, <1>4 DEF Waits, Leaves, Belongs
  <2>3. CASE f = g
    BY <1>2, <1>4, <2>1, <2>2, <2>3 DEF PlacesDiffer, BelongsInv, StaysInv, Belongs
  <2>4. CASE f # g
    BY <1>2, <1>4, <2>1, <2>2, <2>4 DEF PlacesDiffer, BelongsInv, StaysInv
  <2> QED BY <2>3, <2>4
<1> QED BY <1>1, <1>2, <1>5, <1>6, <1>7, CallbackKeepsPlaceInv DEF PlaceInv

\* Every step of the callback.
LEMMA CallbackStepKeepsPlaces ==
    ASSUME PlaceInv, NEW h \in Handlers, CallbackStep(h)
    PROVE  PlaceInv'
<1>1. SerialInv'
  BY CallbackStepKeepsOneErrand DEF PlaceInv
<1>2. /\ handler[h] \in Callback /\ h \in DOMAIN handler
      /\ local \in [Handlers -> Fields] /\ local[h] \in Fields /\ LocalInv(h)
      /\ \A k \in Handlers : k # h => local'[k] = local[k] /\ handler'[k] = handler[k]
      /\ queue \in Seq(Nat)
  <2>1. /\ queue \in Seq(Nat) /\ h \in DOMAIN handler /\ DOMAIN handler = Handlers
        /\ local \in [Handlers -> Fields] /\ local[h] \in Fields /\ LocalInv(h)
    BY DEF PlaceInv, SerialInv, MultipleTypes, HandlerInv
  <2>2. handler[h] \in Callback
    BY DEF CallbackStep, Callback, TransfersLists, AddsClient, RefusesClient, AddsNoMore,
           RemovesClient, RemovesNoMore, DeletesModule, RemovesContext, DequeuesData, GivesData,
           GivesNoMore, CallbackReturns
  <2>3. \A k \in Handlers : k # h => local'[k] = local[k]
    BY <2>1 DEF CallbackStep, TransfersLists, AddsClient, RefusesClient, AddsNoMore,
           RemovesClient, RemovesNoMore, DeletesModule, RemovesContext, DequeuesData, GivesData,
           GivesNoMore, CallbackReturns
  <2>4. \A k \in Handlers : k # h => handler'[k] = handler[k]
    BY <2>1 DEF CallbackStep, TransfersLists, AddsClient, RefusesClient, AddsNoMore,
           RemovesClient, RemovesNoMore, DeletesModule, RemovesContext, DequeuesData, GivesData,
           GivesNoMore, CallbackReturns, Goto, doorbellVars
  <2> QED BY <2>1, <2>2, <2>3, <2>4
<1>3. ASSUME NEW place, place \notin {"deleteModule", "removeContext"},
             handler[h] \notin {"deleteModule", "removeContext"},
             handler' = [handler EXCEPT ![h] = place], local' = local,
             place \in {"remove", "broadcast"} => local[h].add = <<>>,
             place = "broadcast" => local[h].remove = <<>>,
             place = "test" => local[h].add = <<>> /\ local[h].remove = <<>>,
             place \in {"remove", "broadcast", "test"},
             handler[h] # "give", UNCHANGED <<fileVars, listVars, refused, queue, broadcasts>>
      PROVE  PlaceInv'
  <2>1. ~Deletes(h) /\ ~Deletes(h)' /\ handler'[h] = place
    BY <1>2, <1>3 DEF Deletes
  <2>2. LocalInv(h)'
    BY <1>2, <1>3, <2>1 DEF LocalInv, Callback, listVars
  <2> QED BY <1>1, <1>2, <1>3, <2>1, <2>2, GoesOnKeepsPlaces
<1>4. CASE AddsNoMore(h)
  BY <1>3, <1>4 DEF AddsNoMore, Goto, modeVars, dataVars
<1>5. CASE RemovesNoMore(h)
  BY <1>2, <1>3, <1>5 DEF RemovesNoMore, Goto, modeVars, dataVars, LocalInv
<1>6. CASE CallbackReturns(h)
  BY <1>2, <1>3, <1>6 DEF CallbackReturns, Goto, modeVars, dataVars, LocalInv
<1>7. CASE DequeuesData(h)
  <2>1. /\ handler[h] = "broadcast" /\ handler'[h] = "give"
        /\ local'[h].add = local[h].add /\ local'[h].remove = local[h].remove
        /\ local'[h].clients = ListHead /\ ListHead' = ListHead
        /\ ListHead \in Seq(Files) /\ IsInjective(ListHead)
    BY <1>2, <1>7 DEF DequeuesData, Goto, Fields, PlaceInv, MultipleTypes, listVars
  <2>2. ~Deletes(h) /\ ~Deletes(h)' /\ LocalInv(h)'
    BY <1>2, <2>1, EmptyToSet DEF Deletes, LocalInv, Callback
  <2>3. Head(queue) \in Nat /\ queue' \in Seq(Nat)
    BY <1>2, <1>7, HeadTailProperties DEF DequeuesData
  <2>4. local' \in [Handlers -> Fields]
    BY <1>2, <1>7, <2>1, <2>3 DEF DequeuesData, Fields
  <2> QED BY <1>1, <1>2, <1>7, <2>1, <2>2, <2>3, <2>4, GoesOnKeepsPlaces DEF DequeuesData, modeVars
<1>8. CASE GivesData(h)
  <2>1. /\ handler[h] = "give" /\ handler'[h] = "give"
        /\ local'[h].add = local[h].add /\ local'[h].remove = local[h].remove
        /\ local'[h].clients = Tail(local[h].clients)
        /\ local[h].clients # <<>> /\ local[h].clients \in Seq(Files)
        /\ ListHead' = ListHead
    BY <1>2, <1>8 DEF GivesData, doorbellVars, listVars, Fields
  <2>2. /\ Tail(local[h].clients) \in Seq(Files) /\ IsInjective(Tail(local[h].clients))
        /\ ToSet(Tail(local[h].clients)) \subseteq ToSet(local[h].clients)
    BY <1>2, <2>1, HeadTailToSet DEF LocalInv
  <2>3. ~Deletes(h) /\ ~Deletes(h)' /\ LocalInv(h)'
    BY <1>2, <2>1, <2>2, EmptyToSet DEF Deletes, LocalInv, Callback
  <2>4. local' \in [Handlers -> Fields]
    BY <1>2, <1>8, <2>2 DEF GivesData, Fields
  <2> QED BY <1>1, <1>2, <1>8, <2>1, <2>3, <2>4, GoesOnKeepsPlaces DEF GivesData, modeVars, dataVars
<1>9. CASE GivesNoMore(h)
  <2>1. /\ handler[h] = "give" /\ handler'[h] = "broadcast"
        /\ local'[h].add = local[h].add /\ local'[h].remove = local[h].remove
        /\ local'[h].clients = local[h].clients /\ local[h].clients = <<>>
        /\ ListHead' = ListHead
    BY <1>2, <1>9 DEF GivesNoMore, Goto, Fields, listVars
  <2>2. ~Deletes(h) /\ ~Deletes(h)' /\ LocalInv(h)'
    BY <1>2, <2>1 DEF Deletes, LocalInv, Callback
  <2>3. local' \in [Handlers -> Fields]
    BY <1>2, <1>9 DEF GivesNoMore, Fields
  <2> QED BY <1>1, <1>2, <1>9, <2>1, <2>2, <2>3, GoesOnKeepsPlaces
          DEF GivesNoMore, modeVars, dataVars
<1> QED BY <1>1, <1>4, <1>5, <1>6, <1>7, <1>8, <1>9, TransferKeepsPlaces, AddKeepsPlaces,
           RefuseKeepsPlaces, RemoveKeepsPlaces, DeleteKeepsPlaces, RemoveContextKeepsPlaces
        DEF CallbackStep

-----------------------------------------------------------------------------
(* The steps of the applications and of the doorbell. In a step of an       *)
(* application the handlers stay as they are.                               *)

\* Then nothing that they have in hand moves.
LEMMA HandlersStay ==
    ASSUME UNCHANGED <<local, handler>>, NEW f
    PROVE  /\ InAdd(f)' <=> InAdd(f)
           /\ InRemove(f)' <=> InRemove(f)
           /\ IsDeleted(f)' <=> IsDeleted(f)
BY DEF InAdd, InRemove, IsDeleted, Deletes

\* A step that changes only what is known of the file g, and takes g from no
\* place.
LEMMA FileStepKeepsPlaces ==
    ASSUME PlaceInv, SerialInv', NEW g \in Files,
           UNCHANGED <<local, handler, ListHead, AddedToBroadcastList, refused>>,
           MultipleTypes', IsInjective(PendingAdd'), IsInjective(PendingRemove'),
           notifyModules \subseteq notifyModules',
           \A f \in Files : f # g =>
               /\ file'[f] = file[f]
               /\ f \in ToSet(PendingAdd') <=> f \in ToSet(PendingAdd)
               /\ f \in ToSet(PendingRemove') <=> f \in ToSet(PendingRemove)
               /\ f \in contexts' <=> f \in contexts
               /\ f \in using' <=> f \in using
               /\ f \in referenced' <=> f \in referenced,
           file[g] \in {"ringingClose", "closed"} => file'[g] \in {"ringingClose", "closed"},
           (PlacesDiffer(g) /\ BelongsInv(g) /\ StaysInv(g))'
    PROVE  PlaceInv'
<1>1. ASSUME NEW h \in Handlers PROVE HandlerInv(h)'
  <2>1. HandlerInv(h) /\ LocalInv(h) /\ (Deletes(h)' <=> Deletes(h))
    BY DEF PlaceInv, HandlerInv, Deletes
  <2>2. LocalInv(h)'
    BY <2>1 DEF LocalInv, Deletes
  <2>3. Deletes(h)' => IF local[h].closed
                          THEN file'[local[h].file] \in {"ringingClose", "closed"}
                          ELSE local[h].file \in refused
    BY <2>1 DEF HandlerInv, LocalInv
  <2> QED BY <2>1, <2>2, <2>3 DEF HandlerInv, Listed
<1>2. ASSUME NEW f \in Files, f # g PROVE (PlacesDiffer(f) /\ BelongsInv(f) /\ StaysInv(f))'
  <2>1. PlacesDiffer(f) /\ BelongsInv(f) /\ StaysInv(f)
    BY DEF PlaceInv
  <2>2. /\ InAdd(f)' <=> InAdd(f)
        /\ InRemove(f)' <=> InRemove(f)
        /\ IsDeleted(f)' <=> IsDeleted(f)
        /\ Listed(f)' <=> Listed(f)
    BY HandlersStay DEF Listed
  <2>3. /\ Waits(f)' <=> Waits(f)
        /\ Leaves(f)' <=> Leaves(f)
        /\ Belongs(f)' <=> Belongs(f)
    BY <1>2, <2>2 DEF Waits, Leaves, Belongs
  <2> QED BY <1>2, <2>1, <2>2, <2>3 DEF PlacesDiffer, BelongsInv, StaysInv
<1> QED BY <1>1, <1>2 DEF PlaceInv

\* Most of them leave the lists alone.
LEMMA ListsStay ==
    ASSUME UNCHANGED <<local, handler, listVars>>, NEW f
    PROVE  /\ Waits(f)' <=> Waits(f)
           /\ Leaves(f)' <=> Leaves(f)
           /\ Listed(f)' <=> Listed(f)
           /\ Belongs(f)' <=> Belongs(f)
           /\ IsDeleted(f)' <=> IsDeleted(f)
           /\ PlacesDiffer(f) /\ using' \subseteq using => PlacesDiffer(f)'
<1>1. PendingAdd' = PendingAdd /\ PendingRemove' = PendingRemove /\ ListHead' = ListHead
  BY DEF listVars
<1> QED BY <1>1, HandlersStay DEF Waits, Leaves, Listed, Belongs, PlacesDiffer

\* A file that is created is in no list.
LEMMA CreateKeepsPlaces ==
    ASSUME PlaceInv, SerialInv', NEW g \in Files, FileCreate(g) \/ FileCreateFails(g)
    PROVE  PlaceInv'
<1>1. /\ file[g] = "none" /\ file'[g] \in {"creating", "open"}
      /\ file' \in [Files -> {"none", "creating", "ringingCreate", "open", "closing",
                              "ringingClose", "closed"}]
      /\ \A f \in Files : f # g => file'[f] = file[f]
      /\ file'[g] = "creating" => /\ contexts' = contexts \cup {g}
                                  /\ notifyModules' = notifyModules \cup {g}
      /\ file'[g] = "open" => contexts' = contexts /\ notifyModules' = notifyModules
      /\ UNCHANGED <<local, handler, listVars, PendingAdd, PendingRemove, ListHead, referenced,
                     AddedToBroadcastList, using, refused, queue, broadcasts>>
  BY DEF FileCreate, FileCreateFails, PlaceInv, MultipleTypes, listVars, dataVars, modeVars,
         doorbellVars
<1>2. MultipleTypes'
  BY <1>1 DEF PlaceInv, MultipleTypes
<1>3. PlacesDiffer(g) /\ BelongsInv(g) /\ StaysInv(g)
  BY DEF PlaceInv
<1>4. (PlacesDiffer(g) /\ BelongsInv(g) /\ StaysInv(g))'
  BY <1>1, <1>3, ListsStay DEF BelongsInv, StaysInv
<1> QED BY <1>1, <1>2, <1>4, FileStepKeepsPlaces DEF PlaceInv

\* It is put into PendingAdd.
LEMMA IsAddedKeepsPlaces ==
    ASSUME PlaceInv, SerialInv', NEW g \in Files, IsAdded(g)
    PROVE  PlaceInv'
<1>1. /\ file[g] = "creating" /\ file'[g] = "ringingCreate"
      /\ file' \in [Files -> {"none", "creating", "ringingCreate", "open", "closing",
                              "ringingClose", "closed"}]
      /\ \A f \in Files : f # g => file'[f] = file[f]
      /\ PendingAdd' = Append(PendingAdd, g)
      /\ PendingAdd \in Seq(Files) /\ IsInjective(PendingAdd)
      /\ UNCHANGED <<local, handler, PendingRemove, ListHead, referenced, contexts, notifyModules,
                     AddedToBroadcastList, using, refused, queue, broadcasts>>
  BY DEF IsAdded, PlaceInv, MultipleTypes, dataVars, modeVars, doorbellVars
<1>2. PlacesDiffer(g) /\ BelongsInv(g) /\ StaysInv(g)
  BY DEF PlaceInv
<1>3. ~Belongs(g) /\ ~Leaves(g) /\ ~IsDeleted(g) /\ g \notin ToSet(PendingAdd)
  BY <1>1, <1>2 DEF BelongsInv, Belongs, Waits
<1>4. /\ PendingAdd' \in Seq(Files) /\ IsInjective(PendingAdd')
      /\ ToSet(PendingAdd') = ToSet(PendingAdd) \cup {g}
  BY <1>1, <1>3, AppendToSet
<1>5. MultipleTypes'
  BY <1>1, <1>4 DEF PlaceInv, MultipleTypes
<1>6. (PlacesDiffer(g) /\ BelongsInv(g) /\ StaysInv(g))'
  <2>1. /\ ~InAdd(g)' /\ ~InRemove(g)' /\ ~IsDeleted(g)' /\ ~Listed(g)' /\ ~Leaves(g)'
        /\ Waits(g)' /\ Belongs(g)'
    BY <1>1, <1>3, <1>4, HandlersStay DEF Belongs, Waits, Leaves, Listed
  <2> QED BY <1>1, <1>2, <2>1 DEF PlacesDiffer, BelongsInv, StaysInv
<1> QED BY <1>1, <1>4, <1>5, <1>6, FileStepKeepsPlaces DEF PlaceInv

\* It is closed; its client is not one that will be refused.
LEMMA CloseKeepsPlaces ==
    ASSUME PlaceInv, SerialInv', EarlyUse = FALSE, NEW g \in Files, FileClose(g)
    PROVE  PlaceInv'
<1>1. /\ file[g] = "open" /\ g \notin using /\ ~(g \in refused /\ g \in contexts)
      /\ file'[g] = IF g \in contexts THEN "closing" ELSE "closed"
      /\ file' \in [Files -> {"none", "creating", "ringingCreate", "open", "closing",
                              "ringingClose", "closed"}]
      /\ \A f \in Files : f # g => file'[f] = file[f]
      /\ UNCHANGED <<local, handler, listVars, PendingAdd, PendingRemove, ListHead, referenced,
                     contexts, notifyModules, AddedToBroadcastList, using, refused, queue,
                     broadcasts>>
  BY DEF FileClose, MayUse, CloseFinds, PlaceInv, MultipleTypes, listVars, dataVars, modeVars,
         doorbellVars
<1>2. MultipleTypes'
  BY <1>1 DEF PlaceInv, MultipleTypes
<1>3. PlacesDiffer(g) /\ BelongsInv(g) /\ StaysInv(g)
  BY DEF PlaceInv
<1>4. (PlacesDiffer(g) /\ BelongsInv(g) /\ StaysInv(g))'
  BY <1>1, <1>3, ListsStay DEF BelongsInv, StaysInv
<1> QED BY <1>1, <1>2, <1>4, FileStepKeepsPlaces DEF PlaceInv

\* It is put into PendingRemove, and waits or is listed still.
LEMMA IsRemovedKeepsPlaces ==
    ASSUME PlaceInv, SerialInv', NEW g \in Files, IsRemoved(g)
    PROVE  PlaceInv'
<1>1. /\ file[g] = "closing" /\ file'[g] = "ringingClose" /\ g \in referenced'
      /\ file' \in [Files -> {"none", "creating", "ringingCreate", "open", "closing",
                              "ringingClose", "closed"}]
      /\ \A f \in Files : f # g => file'[f] = file[f] /\ (f \in referenced' <=> f \in referenced)
      /\ PendingRemove' = Append(PendingRemove, g)
      /\ PendingRemove \in Seq(Files) /\ IsInjective(PendingRemove)
      /\ UNCHANGED <<local, handler, PendingAdd, ListHead, contexts, notifyModules,
                     AddedToBroadcastList, using, refused, queue, broadcasts>>
  BY DEF IsRemoved, PlaceInv, MultipleTypes, dataVars, modeVars, doorbellVars
<1>2. PlacesDiffer(g) /\ BelongsInv(g) /\ StaysInv(g)
  BY DEF PlaceInv
<1>3. /\ ~Leaves(g) /\ Belongs(g) /\ ~IsDeleted(g) /\ g \notin ToSet(PendingRemove)
      /\ g \notin refused /\ g \notin using
  BY <1>1, <1>2 DEF PlacesDiffer, StaysInv, Leaves
<1>4. /\ PendingRemove' \in Seq(Files) /\ IsInjective(PendingRemove')
      /\ ToSet(PendingRemove') = ToSet(PendingRemove) \cup {g}
  BY <1>1, <1>3, AppendToSet
<1>5. MultipleTypes'
  BY <1>1, <1>4 DEF PlaceInv, MultipleTypes
<1>6. (PlacesDiffer(g) /\ BelongsInv(g) /\ StaysInv(g))'
  <2>1. /\ InAdd(g)' <=> InAdd(g)
        /\ Waits(g)' <=> Waits(g)
        /\ Listed(g)' <=> Listed(g)
        /\ Belongs(g)' /\ Leaves(g)' /\ ~InRemove(g)' /\ ~IsDeleted(g)'
    BY <1>1, <1>3, <1>4, HandlersStay DEF Belongs, Waits, Leaves, Listed
  <2> QED BY <1>1, <1>2, <1>3, <2>1 DEF PlacesDiffer, BelongsInv, StaysInv
<1> QED BY <1>1, <1>4, <1>5, <1>6, FileStepKeepsPlaces DEF PlaceInv

\* Whoever added or removed a client rings the doorbell.
LEMMA RingsKeepPlaces ==
    ASSUME PlaceInv, SerialInv', NEW g \in Files, FileRings(g)
    PROVE  PlaceInv'
<1>1. /\ file[g] \in {"ringingCreate", "ringingClose"}
      /\ file'[g] = IF file[g] = "ringingCreate" THEN "open" ELSE "closed"
      /\ file' \in [Files -> {"none", "creating", "ringingCreate", "open", "closing",
                              "ringingClose", "closed"}]
      /\ \A f \in Files : f # g => file'[f] = file[f]
      /\ UNCHANGED <<local, handler, listVars, PendingAdd, PendingRemove, ListHead, referenced,
                     contexts, notifyModules, AddedToBroadcastList, using, refused, queue,
                     broadcasts>>
  BY DEF FileRings, Ring, PlaceInv, MultipleTypes, listVars, dataVars, modeVars
<1>2. MultipleTypes'
  BY <1>1 DEF PlaceInv, MultipleTypes
<1>3. PlacesDiffer(g) /\ BelongsInv(g) /\ StaysInv(g)
  BY DEF PlaceInv
<1>4. (PlacesDiffer(g) /\ BelongsInv(g) /\ StaysInv(g))'
  BY <1>1, <1>3, ListsStay DEF BelongsInv, StaysInv
<1> QED BY <1>1, <1>2, <1>4, FileStepKeepsPlaces DEF PlaceInv

\* A request finds the context of a client that is not refused.
LEMMA RequestKeepsPlaces ==
    ASSUME PlaceInv, SerialInv', EarlyUse = FALSE, NEW g \in Files,
           RequestProcess(g) \/ RequestIsGiven(g)
    PROVE  PlaceInv'
<1>1. /\ \/ using' = using \ {g}
         \/ using' = using \cup {g} /\ file[g] = "open" /\ g \in contexts \ refused
      /\ UNCHANGED <<local, handler, file, listVars, PendingAdd, PendingRemove, ListHead,
                     referenced, contexts, notifyModules, AddedToBroadcastList, refused, queue,
                     broadcasts>>
  BY DEF RequestProcess, RequestIsGiven, MayUse, listVars, dataVars, modeVars, doorbellVars
<1>2. MultipleTypes'
  BY <1>1 DEF PlaceInv, MultipleTypes
<1>3. PlacesDiffer(g) /\ BelongsInv(g) /\ StaysInv(g)
  BY DEF PlaceInv
<1>4. (PlacesDiffer(g) /\ BelongsInv(g) /\ StaysInv(g))'
  <2>1. g \in using' => Belongs(g) /\ ~IsDeleted(g)
    BY <1>1, <1>3 DEF StaysInv, PlacesDiffer
  <2>2. PlacesDiffer(g)'
    BY <1>1, <1>3, <2>1, HandlersStay, ListsStay DEF PlacesDiffer
  <2> QED BY <1>1, <1>3, <2>1, <2>2, ListsStay DEF BelongsInv, StaysInv
<1> QED BY <1>1, <1>2, <1>4, FileStepKeepsPlaces DEF PlaceInv

\* The doorbell moves no handler that is in the callback, and brings none into
\* the middle of it.
LEMMA DoorbellKeepsPlaces ==
    ASSUME PlaceInv, SerialInv', UNCHANGED <<local, fileVars, listVars, refused>>,
           queue' \in Seq(Nat), broadcasts' \in Nat,
           \A h \in Handlers :
               \/ handler'[h] = handler[h]
               \/ /\ handler[h] \in {"idle", "begin", "test"}
                  /\ handler'[h] \in {"idle", "begin", "callback"}
    PROVE  PlaceInv'
<1>1. UNCHANGED <<PendingAdd, PendingRemove, ListHead, file, referenced, contexts, notifyModules,
                  AddedToBroadcastList, using, refused>>
  BY DEF fileVars, listVars
<1>2. MultipleTypes'
  BY <1>1 DEF PlaceInv, MultipleTypes
<1>3. ASSUME NEW h \in Handlers PROVE Deletes(h)' <=> Deletes(h)
  BY DEF Deletes
<1>4. ASSUME NEW h \in Handlers PROVE HandlerInv(h)'
  <2>1. HandlerInv(h) /\ LocalInv(h)
    BY DEF PlaceInv, HandlerInv
  <2>2. LocalInv(h)'
    BY <1>1, <1>3, <2>1 DEF LocalInv, Callback
  <2>3. handler'[h] = "deleteModule" => handler[h] = "deleteModule"
    OBVIOUS
  <2> QED BY <1>1, <1>3, <2>1, <2>2, <2>3 DEF HandlerInv, Listed
<1>5. ASSUME NEW f \in Files PROVE (PlacesDiffer(f) /\ BelongsInv(f) /\ StaysInv(f))'
  <2>1. PlacesDiffer(f) /\ BelongsInv(f) /\ StaysInv(f)
    BY DEF PlaceInv
  <2>2. /\ InAdd(f)' <=> InAdd(f)
        /\ InRemove(f)' <=> InRemove(f)
        /\ IsDeleted(f)' <=> IsDeleted(f)
        /\ Listed(f)' <=> Listed(f)
    BY <1>1, <1>3 DEF InAdd, InRemove, IsDeleted, Listed
  <2>3. /\ Waits(f)' <=> Waits(f)
        /\ Leaves(f)' <=> Leaves(f)
        /\ Belongs(f)' <=> Belongs(f)
    BY <1>1, <2>2 DEF Waits, Leaves, Belongs
  <2> QED BY <1>1, <2>1, <2>2, <2>3 DEF PlacesDiffer, BelongsInv, StaysInv
<1> QED BY <1>1, <1>2, <1>4, <1>5 DEF PlaceInv

\* All of them.
LEMMA NextKeepsPlaces ==
    ASSUME PlaceInv, EarlyUse = FALSE, [Next]_vars
    PROVE  PlaceInv'
<1>1. SerialInv' /\ DOMAIN handler = Handlers /\ queue \in Seq(Nat) /\ broadcasts \in Nat
  BY NextKeepsOneErrand DEF PlaceInv, SerialInv, MultipleTypes
<1>2. ASSUME NEW f \in Files,
             FileCreate(f) \/ FileCreateFails(f) \/ FileClose(f) \/ RequestProcess(f)
      PROVE  PlaceInv'
  BY <1>1, <1>2, CreateKeepsPlaces, CloseKeepsPlaces, RequestKeepsPlaces
<1>3. ASSUME NEW f \in Files, Continues(f) PROVE PlaceInv'
  BY <1>1, <1>3, IsAddedKeepsPlaces, IsRemovedKeepsPlaces, RingsKeepPlaces, RequestKeepsPlaces
     DEF Continues
<1>4. ASSUME NEW p \in Producers, DataBroadcast(p) \/ ProducerRings(p) PROVE PlaceInv'
  <2>1. queue' \in Seq(Nat) /\ broadcasts' \in Nat
    <3>1. CASE DataBroadcast(p)
      BY <1>1, <3>1 DEF DataBroadcast
    <3>2. CASE ProducerRings(p)
      BY <1>1, <3>2 DEF ProducerRings
    <3> QED BY <1>4, <3>1, <3>2
  <2> QED BY <1>1, <1>4, <2>1, DoorbellKeepsPlaces
          DEF DataBroadcast, ProducerRings, Ring, doorbellVars, modeVars
<1>5. CASE DoorbellSteps
  <2>1. UNCHANGED <<local, fileVars, listVars, refused, queue, broadcasts>>
    BY <1>5 DEF DoorbellSteps, dataVars, modeVars
  <2>2. ASSUME NEW t, RingEnqueues(t) PROVE handler' = handler
    BY <2>2 DEF RingEnqueues
  <2>3. ASSUME NEW h \in Handlers, WorkItemStarts(h) \/ CallsBack(h) \/ Tests(h)
        PROVE  /\ handler[h] \in {"idle", "begin", "test"}
               /\ handler'[h] \in {"idle", "begin", "callback"}
               /\ \A k \in Handlers : k # h => handler'[k] = handler[k]
    BY <1>1, <2>3 DEF WorkItemStarts, CallsBack, Tests
  <2>4. \A h \in Handlers : \/ handler'[h] = handler[h]
                            \/ /\ handler[h] \in {"idle", "begin", "test"}
                               /\ handler'[h] \in {"idle", "begin", "callback"}
    BY <1>5, <2>2, <2>3 DEF DoorbellSteps
  <2> QED BY <1>1, <2>1, <2>4, DoorbellKeepsPlaces
<1>6. ASSUME NEW h \in Handlers, CallbackStep(h) PROVE PlaceInv'
  BY <1>6, CallbackStepKeepsPlaces
<1>7. CASE UNCHANGED vars
  BY <1>1, <1>7, DoorbellKeepsPlaces DEF vars, doorbellVars, dataVars, modeVars
<1> QED BY <1>2, <1>3, <1>4, <1>5, <1>6, <1>7 DEF Next

\* At first there are no files.
LEMMA InitPlaces ==
    ASSUME Init
    PROVE  PlaceInv
<1>1. SerialInv
  BY DEF Init, DoorbellInit, SerialInv, OneErrand, IsActive
<1>2. MultipleTypes
  BY DEF Init, MultipleTypes, Fields, Nothing
<1>3. ASSUME NEW h \in Handlers PROVE HandlerInv(h)
  BY EmptyToSet DEF Init, DoorbellInit, HandlerInv, LocalInv, Deletes, Nothing, Callback
<1>4. ASSUME NEW f \in Files PROVE PlacesDiffer(f) /\ BelongsInv(f) /\ StaysInv(f)
  <2>1. ~Waits(f) /\ ~Leaves(f) /\ ~Listed(f) /\ ~Belongs(f) /\ ~IsDeleted(f)
    BY EmptyToSet DEF Init, DoorbellInit, Waits, Leaves, Listed, Belongs, IsDeleted, InAdd,
                      InRemove, Deletes, Nothing
  <2> QED BY <2>1 DEF Init, PlacesDiffer, BelongsInv, StaysInv, Waits, Leaves
<1> QED BY <1>1, <1>2, <1>3, <1>4, EmptyToSet DEF PlaceInv, Init

\* A context that anybody has in hand or finds in a list is there, with its
\* Module, and the file object of a context that is closed is kept: for any
\* number of applications that come and go while data is broadcast, provided that
\* a client that EvtClientArrivalCallback will refuse does not use its file.
THEOREM LiveContexts ==
    ASSUME EarlyUse = FALSE
    PROVE  Spec => []ContextsAreLive
<1>1. Init => PlaceInv
  BY InitPlaces
<1>2. PlaceInv /\ [Next]_vars => PlaceInv'
  BY NextKeepsPlaces
<1>3. PlaceInv => ContextsAreLive
  <2> SUFFICES ASSUME PlaceInv PROVE ContextsAreLive
    OBVIOUS
  <2>1. ASSUME NEW f, f \in ToSet(PendingAdd) \/ f \in ToSet(PendingRemove) \/ f \in ToSet(ListHead)
        PROVE  f \in contexts \cap notifyModules
    <3>1. f \in Files
      BY <2>1, InToSet DEF PlaceInv, MultipleTypes
    <3> QED BY <2>1, <3>1 DEF PlaceInv, BelongsInv, StaysInv, Belongs, Waits, Listed, Leaves
  <2>2. ASSUME NEW h \in Handlers, NEW f \in Mentioned(h)
        PROVE  f \in contexts \cap notifyModules
    <3>1. LocalInv(h) /\ HandlerInv(h) /\ local[h] \in Fields
      BY DEF PlaceInv, HandlerInv, MultipleTypes
    <3>2. CASE f \in ToSet(local[h].add) \/ f \in ToSet(local[h].remove)
      <4>1. f \in Files
        BY <3>1, <3>2, InToSet DEF Fields
      <4> QED BY <3>2, <4>1 DEF PlaceInv, BelongsInv, StaysInv, Belongs, Waits, Leaves, InAdd,
                                InRemove
    <3>3. CASE handler[h] = "deleteModule" /\ f = local[h].file
      <4>1. f \in Files /\ IsDeleted(f)
        BY <3>1, <3>3 DEF LocalInv, Deletes, IsDeleted
      <4> QED BY <3>1, <3>3, <4>1 DEF PlaceInv, BelongsInv, HandlerInv
    <3>4. CASE f \in ToSet(local[h].clients)
      BY <2>1, <3>1, <3>4 DEF LocalInv
    <3> QED BY <3>2, <3>3, <3>4 DEF Mentioned
  <2>3. ASSUME NEW f \in using PROVE f \in contexts \cap notifyModules
    BY <2>3 DEF PlaceInv, MultipleTypes, BelongsInv, StaysInv
  <2>4. ASSUME NEW h \in Handlers, handler[h] = "removeContext" PROVE local[h].file \in contexts
    <3>1. LET f == local[h].file IN f \in Files /\ IsDeleted(f)
      BY <2>4 DEF PlaceInv, HandlerInv, LocalInv, Deletes, IsDeleted
    <3> QED BY <3>1 DEF PlaceInv, BelongsInv
  <2>5. ASSUME NEW f \in contexts, file[f] = "closed" PROVE f \in referenced
    BY <2>5 DEF PlaceInv, MultipleTypes, StaysInv
  <2> QED BY <2>1, <2>2, <2>3, <2>4, <2>5 DEF ContextsAreLive
<1> QED BY <1>1, <1>2, <1>3, PTL DEF Spec

-----------------------------------------------------------------------------
(* The data.                                                                *)

\* What the ring buffer of the Module does is what its Methods do; the lemmas
\* about the other data structures are not used.
Methods == INSTANCE DataStructures_proofs WITH
    target <- <<>>,
    Keys <- {}, TableValues <- {}, Empty <- 0, HashCalculate <- <<>>, DataTableSize <- 0,
    HashMap <- <<>>, DataTable <- <<>>, method <- "none", Key <- 0, Value <- 0,
    entryIndex <- 0, currentEntry <- 0, answer <- <<>>,
    Bytes <- {}, ZeroByte <- 0, BufferSize <- 0,
    Buffer <- <<>>, PingBufferIndex <- 0, BufferOffsetWrite <- <<>>, packet <- <<>>, size <- 0

\* The data from a + 1 to b, in the order they were broadcast.
Stretch(a, b) == [i \in 1 .. b - a |-> a + i]

\* Of n data the ring buffer has those after this one.
Oldest(n) == IF n > ItemCount THEN n - ItemCount ELSE 0

Giving == \E h \in Handlers : handler[h] = "give"
Taken == IF Giving THEN processed + 1 ELSE processed    \* data that left the queue

DataInv ==
    /\ processed \in Nat /\ broadcasts \in 0 .. MaxData /\ Taken <= broadcasts
    /\ queue = Stretch(Taken, broadcasts)
    /\ \A h \in Handlers : handler[h] = "give" => local[h].data = processed + 1
    /\ replay => Methods!RingInv /\ Methods!Contents = Stretch(Oldest(Taken), Taken)
    /\ given \in [Files -> Seq(Nat)] /\ joined \in [Files -> Nat]
    /\ \A f \in ToSet(ListHead) : joined[f] <= processed /\ given[f] = Stretch(From(f), Upto(f))

\* Stretches of the data.
LEMMA StretchIsSeq ==
    ASSUME NEW a \in Nat, NEW b \in Nat, a <= b
    PROVE  /\ Stretch(a, b) \in Seq(Nat) /\ Len(Stretch(a, b)) = b - a
           /\ \A i \in 1 .. b - a : Stretch(a, b)[i] = a + i
BY DEF Stretch

\* One datum more at the end.
LEMMA StretchGrows ==
    ASSUME NEW a \in Nat, NEW b \in Nat, a <= b
    PROVE  Append(Stretch(a, b), b + 1) = Stretch(a, b + 1)
<1> DEFINE s == Stretch(a, b)
           t == Stretch(a, b + 1)
<1>1. s \in Seq(Nat) /\ Len(s) = b - a /\ \A i \in 1 .. b - a : s[i] = a + i
  BY StretchIsSeq
<1>2. t \in Seq(Nat) /\ Len(t) = b + 1 - a /\ \A i \in 1 .. b + 1 - a : t[i] = a + i
  BY StretchIsSeq
<1> HIDE DEF s, t
<1>3. /\ Append(s, b + 1) \in Seq(Nat) /\ Len(Append(s, b + 1)) = b + 1 - a
      /\ \A i \in 1 .. b + 1 - a : Append(s, b + 1)[i] = a + i
  BY <1>1
<1>4. Append(s, b + 1) = t
  BY <1>2, <1>3, SeqEqual
<1> QED BY <1>4 DEF s, t

\* The first datum goes.
LEMMA StretchShrinks ==
    ASSUME NEW a \in Nat, NEW b \in Nat, a < b
    PROVE  /\ Head(Stretch(a, b)) = a + 1
           /\ Tail(Stretch(a, b)) = Stretch(a + 1, b)
<1> DEFINE s == Stretch(a, b)
           t == Stretch(a + 1, b)
<1>1. s \in Seq(Nat) /\ Len(s) = b - a /\ \A i \in 1 .. b - a : s[i] = a + i
  BY StretchIsSeq
<1>2. t \in Seq(Nat) /\ Len(t) = b - a - 1 /\ \A i \in 1 .. b - a - 1 : t[i] = a + 1 + i
  BY StretchIsSeq
<1> HIDE DEF s, t
<1>3. s # <<>> /\ Head(s) = a + 1
  BY <1>1
<1>4. /\ Tail(s) \in Seq(Nat) /\ Len(Tail(s)) = b - a - 1
      /\ \A i \in 1 .. b - a - 1 : Tail(s)[i] = a + 1 + i
  BY <1>1
<1>5. Tail(s) = t
  BY <1>2, <1>4, SeqEqual
<1> QED BY <1>3, <1>5 DEF s, t

\* No data.
LEMMA StretchIsEmpty ==
    ASSUME NEW a \in Nat
    PROVE  Stretch(a, a) = <<>>
BY StretchIsSeq, EmptySeq

-----------------------------------------------------------------------------
(* The ring buffer of the replay mode.                                      *)

\* A ring that nobody writes to.
LEMMA RingStays ==
    ASSUME UNCHANGED ringVars
    PROVE  /\ Methods!Contents' = Methods!Contents
           /\ Methods!RingInv => Methods!RingInv'
<1>1. UNCHANGED Methods!ringVars
  BY DEF ringVars, Methods!ringVars
<1>2. Methods!RingAssumption
  BY RingAssumption DEF Methods!RingAssumption
<1>3. Methods!Contents' = Methods!Contents
  BY <1>1, <1>2, Methods!ContentsStays
<1>4. Methods!RingInv => Methods!RingInv'
  BY <1>1, <1>2, Methods!RingNextInv DEF Methods!vars
<1> QED BY <1>3, <1>4

\* A datum is written behind those that are there, and over the oldest when the
\* ring is full.
LEMMA RingKeepsLast ==
    ASSUME Methods!RingInv, NEW n \in Nat, n + 1 \in Values,
           Methods!Contents = Stretch(Oldest(n), n),
           Write(n + 1) \/ WriteOverOldest(n + 1)
    PROVE  Methods!RingInv' /\ Methods!Contents' = Stretch(Oldest(n + 1), n + 1)
<1> DEFINE c == Methods!Contents
<1>1. Methods!RingAssumption
  BY RingAssumption DEF Methods!RingAssumption
<1>2. /\ ItemCount \in Nat \ {0} /\ Oldest(n) \in Nat /\ Oldest(n) <= n
      /\ Len(c) = ItemsPresentCount /\ Len(c) = n - Oldest(n)
  <2>1. ItemCount \in Nat \ {0} /\ Oldest(n) \in Nat /\ Oldest(n) <= n
    BY RingAssumption DEF Oldest
  <2>2. Len(c) = ItemsPresentCount
    BY <1>1, Methods!ContentsIsSeq
  <2>3. Len(c) = n - Oldest(n)
    BY <2>1, StretchIsSeq
  <2> QED BY <2>1, <2>2, <2>3
<1>3. Methods!Write(n + 1) \/ Methods!WriteOverOldest(n + 1)
  BY DEF Write, Methods!Write, WriteOverOldest, Methods!WriteOverOldest, Put, Methods!Put,
         IsFull, Methods!IsFull, Increment, Methods!Increment, BufferEnd, Methods!BufferEnd
<1>4. Methods!CallWrite(n + 1)
  BY <1>3 DEF Methods!CallWrite
<1>5. Methods!RingInv'
  BY <1>1, <1>4, Methods!RingNextInv DEF Methods!Next
<1>6. CASE Write(n + 1)
  <2>1. Methods!Write(n + 1) /\ ItemsPresentCount # ItemCount
    BY <1>6 DEF Write, Methods!Write, Put, Methods!Put, IsFull, Methods!IsFull, Increment,
                Methods!Increment, BufferEnd, Methods!BufferEnd
  <2>2. c' = Append(c, n + 1)
    BY <1>1, <1>4, <2>1, Methods!WriteAppends DEF Methods!Queue!Write
  <2>3. Oldest(n + 1) = Oldest(n)
    BY <1>2, <2>1 DEF Oldest
  <2> QED BY <1>2, <1>5, <2>2, <2>3, StretchGrows
<1>7. CASE WriteOverOldest(n + 1)
  <2>1. Methods!WriteOverOldest(n + 1) /\ ItemsPresentCount = ItemCount
    BY <1>7 DEF WriteOverOldest, Methods!WriteOverOldest, Put, Methods!Put, IsFull,
                Methods!IsFull, Increment, Methods!Increment, BufferEnd, Methods!BufferEnd
  <2>2. c' = Append(Tail(c), n + 1)
    BY <1>1, <1>4, <2>1, Methods!WriteReplacesOldest DEF Methods!Queue!WriteOverOldest
  <2>3. n - Oldest(n) = ItemCount
    BY <1>2, <2>1
  <2>4. Oldest(n + 1) = Oldest(n) + 1 /\ Oldest(n) < n
    BY <1>2, <2>3 DEF Oldest
  <2>5. Tail(c) = Stretch(Oldest(n) + 1, n)
    BY <1>2, <2>4, StretchShrinks
  <2>6. Oldest(n) + 1 \in Nat /\ Oldest(n) + 1 <= n
    BY <1>2, <2>4
  <2>7. Append(Stretch(Oldest(n) + 1, n), n + 1) = Stretch(Oldest(n) + 1, n + 1)
    BY <2>6, StretchGrows
  <2> QED BY <1>5, <2>2, <2>4, <2>5, <2>7
<1> QED BY <1>6, <1>7

\* DMF_RingBuffer_Enumerate shows them.
LEMMA RingShowsLast ==
    ASSUME Methods!RingInv
    PROVE  Enumerated = Methods!Contents
<1>1. Methods!RingAssumption
  BY RingAssumption DEF Methods!RingAssumption
<1>2. Methods!Visits = ItemsPresentCount
  BY <1>1, Methods!VisitsAll
<1> QED BY <1>2 DEF Visits, Methods!Visits, Enumerated, Methods!Contents, After, Methods!After,
                    BufferEnd, Methods!BufferEnd

-----------------------------------------------------------------------------
(* A step of the callback.                                                  *)

\* The handler that is in the callback tells what a client has been given.
LEMMA CallbackSeesData ==
    ASSUME PlaceInv, NEW h \in Handlers, handler[h] \in Callback
    PROVE  /\ Giving <=> handler[h] = "give"
           /\ Taken = IF handler[h] = "give" THEN processed + 1 ELSE processed
           /\ \A f : Upto(f) = IF handler[h] = "give" /\ f \notin ToSet(local[h].clients)
                               THEN processed + 1 ELSE processed
BY CallbackIsAlone DEF Giving, Taken, Upto

\* And will tell after its step.
LEMMA CallbackWillSeeData ==
    ASSUME PlaceInv, NEW h \in Handlers, handler[h] \in Callback,
           \A k \in Handlers : k # h => local'[k] = local[k] /\ handler'[k] = handler[k]
    PROVE  /\ Giving' <=> handler'[h] = "give"
           /\ Taken' = IF handler'[h] = "give" THEN processed' + 1 ELSE processed'
           /\ \A f : Upto(f)' = IF handler'[h] = "give" /\ f \notin ToSet(local'[h].clients)
                                THEN processed' + 1 ELSE processed'
<1>1. Giving' <=> handler'[h] = "give"
  BY CallbackIsAlone DEF Giving
<1>2. Taken' = IF handler'[h] = "give" THEN processed' + 1 ELSE processed'
  BY <1>1 DEF Taken
<1>3. ASSUME NEW f
      PROVE  Upto(f)' = IF handler'[h] = "give" /\ f \notin ToSet(local'[h].clients)
                        THEN processed' + 1 ELSE processed'
  BY CallbackIsAlone DEF Upto
<1> QED BY <1>1, <1>2, <1>3

\* A step of the callback that gives and takes no data.
LEMMA NoDataKeepsData ==
    ASSUME PlaceInv, DataInv, NEW h \in Handlers, handler[h] \in Callback,
           \A k \in Handlers : k # h => local'[k] = local[k] /\ handler'[k] = handler[k],
           handler[h] # "give", handler'[h] # "give",
           UNCHANGED <<queue, broadcasts, processed, replay, ringVars>>,
           given' \in [Files -> Seq(Nat)], joined' \in [Files -> Nat],
           \A f \in ToSet(ListHead') :
               joined'[f] <= processed /\ given'[f] = Stretch(From(f)', processed)
    PROVE  DataInv'
<1>1. Taken' = Taken /\ Taken = processed /\ \A f : Upto(f)' = processed
  BY CallbackSeesData, CallbackWillSeeData
<1>2. \A k \in Handlers : handler'[k] # "give"
  BY CallbackIsAlone
<1>3. Methods!Contents' = Methods!Contents /\ (Methods!RingInv => Methods!RingInv')
  BY RingStays
<1>4. replay' => Methods!RingInv' /\ Methods!Contents' = Stretch(Oldest(Taken'), Taken')
  BY <1>1, <1>3 DEF DataInv
<1>5. queue' = Stretch(Taken', broadcasts')
  BY <1>1 DEF DataInv
<1>6. ASSUME NEW f \in ToSet(ListHead')
      PROVE  joined'[f] <= processed' /\ given'[f] = Stretch(From(f)', Upto(f)')
  BY <1>1
<1> QED BY <1>1, <1>2, <1>4, <1>5, <1>6 DEF DataInv

\* The clients of the list are files.
LEMMA ListIsFiles ==
    ASSUME PlaceInv
    PROVE  ToSet(ListHead) \subseteq Files
BY InToSet DEF PlaceInv, MultipleTypes

\* The client that is added gets what the ring buffer has.
LEMMA AddKeepsData ==
    ASSUME PlaceInv, DataInv, NEW h \in Handlers, AddsClient(h)
    PROVE  DataInv'
<1>0. PICK g : g = Head(local[h].add)
  OBVIOUS
<1>1. /\ handler[h] = "add" /\ handler' = handler /\ handler[h] \in Callback
      /\ \A k \in Handlers : k # h => local'[k] = local[k] /\ handler'[k] = handler[k]
      /\ g \in ToSet(local[h].add) /\ g \in Files
      /\ UNCHANGED <<queue, broadcasts, processed, replay, ringVars>>
  <2>1. local[h].add \in Seq(Files) /\ local[h].add # <<>> /\ local \in [Handlers -> Fields]
    BY DEF AddsClient, PlaceInv, MultipleTypes, Fields
  <2> QED BY <1>0, <2>1, HeadTailToSet, InToSet DEF AddsClient, Callback, doorbellVars, modeVars
<1>2. /\ given' = [given EXCEPT ![g] = IF replay THEN Enumerated ELSE <<>>]
      /\ joined' = [joined EXCEPT ![g] = processed]
      /\ ListHead' = Append(ListHead, g) /\ ListHead \in Seq(Files)
  BY <1>0 DEF AddsClient, PlaceInv, MultipleTypes
<1>3. ToSet(ListHead') = ToSet(ListHead) \cup {g}
  BY <1>1, <1>2, AppendToSet
<1>4. g \notin ToSet(ListHead)
  <2>1. InAdd(g)
    BY <1>1, CallbackSees
  <2> QED BY <1>1, <2>1 DEF PlaceInv, PlacesDiffer, Waits, Listed
<1>5. /\ Taken = processed /\ processed \in Nat /\ \A f : Upto(f) = processed
      /\ given \in [Files -> Seq(Nat)] /\ joined \in [Files -> Nat]
  BY <1>1, CallbackSeesData DEF DataInv
<1>6. ASSUME NEW f \in ToSet(ListHead)
      PROVE  joined'[f] <= processed /\ given'[f] = Stretch(From(f)', processed)
  <2>1. f \in Files /\ f # g
    BY <1>4, ListIsFiles
  <2>2. joined'[f] = joined[f] /\ given'[f] = given[f]
    BY <1>2, <1>5, <2>1
  <2>3. From(f)' = From(f)
    BY <1>1, <2>2 DEF From
  <2> QED BY <1>5, <2>2, <2>3 DEF DataInv
<1>7. joined'[g] = processed /\ given'[g] = Stretch(From(g)', processed)
  <2>1. joined'[g] = processed /\ given'[g] = IF replay THEN Enumerated ELSE <<>>
    BY <1>1, <1>2, <1>5
  <2>2. CASE replay
    <3>1. From(g)' = Oldest(processed)
      BY <1>1, <2>1, <2>2 DEF From, Oldest
    <3> QED BY <1>5, <2>1, <2>2, <3>1, RingShowsLast DEF DataInv
  <2>3. CASE ~replay
    <3>1. From(g)' = processed
      BY <1>1, <2>1, <2>3 DEF From
    <3> QED BY <1>5, <2>1, <2>3, <3>1, StretchIsEmpty
  <2> QED BY <2>1, <2>2, <2>3
<1>8. given' \in [Files -> Seq(Nat)] /\ joined' \in [Files -> Nat]
  <2>1. given'[g] \in Seq(Nat)
    <3>1. From(g)' \in Nat /\ From(g)' <= processed
      BY <1>1, <1>5, <1>7, RingAssumption DEF From
    <3> QED BY <1>5, <1>7, <3>1, StretchIsSeq
  <2>2. (IF replay THEN Enumerated ELSE <<>>) \in Seq(Nat)
    BY <1>1, <1>2, <1>5, <2>1
  <2> QED BY <1>2, <1>5, <2>2
<1>9. \A f \in ToSet(ListHead') :
          joined'[f] <= processed /\ given'[f] = Stretch(From(f)', processed)
  BY <1>3, <1>5, <1>6, <1>7
<1> QED BY <1>1, <1>8, <1>9, NoDataKeepsData

\* Nothing is given or taken while the lists are emptied.
LEMMA ListStepsKeepData ==
    ASSUME PlaceInv, DataInv, NEW h \in Handlers, handler[h] \in Callback,
           \A k \in Handlers : k # h => local'[k] = local[k] /\ handler'[k] = handler[k],
           handler[h] # "give", handler'[h] # "give",
           UNCHANGED <<dataVars, replay, ringVars>>,
           ToSet(ListHead') \subseteq ToSet(ListHead)
    PROVE  DataInv'
<1>1. /\ Taken = processed /\ \A f : Upto(f) = processed
      /\ UNCHANGED <<queue, broadcasts, processed, given, joined>>
  BY CallbackSeesData DEF dataVars
<1>2. ASSUME NEW f \in ToSet(ListHead')
      PROVE  joined'[f] <= processed /\ given'[f] = Stretch(From(f)', processed)
  <2>1. From(f)' = From(f)
    BY <1>1 DEF From
  <2> QED BY <1>1, <2>1 DEF DataInv
<1> QED BY <1>1, <1>2, NoDataKeepsData DEF DataInv

\* The client whose Module is deleted is not in the list.
LEMMA DeleteKeepsData ==
    ASSUME PlaceInv, DataInv, NEW h \in Handlers, DeletesModule(h)
    PROVE  DataInv'
<1>0. PICK g : g = local[h].file
  OBVIOUS
<1>1. /\ handler[h] = "deleteModule" /\ handler[h] \in Callback /\ handler'[h] = "removeContext"
      /\ \A k \in Handlers : k # h => local'[k] = local[k] /\ handler'[k] = handler[k]
      /\ given' = [given EXCEPT ![g] = <<>>] /\ joined' = [joined EXCEPT ![g] = 0]
      /\ UNCHANGED <<ListHead, queue, broadcasts, processed, replay, ringVars>>
  BY <1>0 DEF DeletesModule, Goto, PlaceInv, SerialInv, Callback, listVars, modeVars
<1>2. g \in Files /\ g \notin ToSet(ListHead)
  <2>1. g \in Files /\ IsDeleted(g)
    BY <1>0, <1>1 DEF PlaceInv, HandlerInv, LocalInv, Deletes, IsDeleted
  <2> QED BY <2>1 DEF PlaceInv, PlacesDiffer, Belongs, Listed
<1>3. given \in [Files -> Seq(Nat)] /\ joined \in [Files -> Nat] /\ \A f : Upto(f) = processed
  BY <1>1, CallbackSeesData DEF DataInv
<1>4. given' \in [Files -> Seq(Nat)] /\ joined' \in [Files -> Nat]
  <2>1. <<>> \in Seq(Nat)
    BY EmptySeq
  <2> QED BY <1>1, <1>3, <2>1
<1>5. ASSUME NEW f \in ToSet(ListHead')
      PROVE  joined'[f] <= processed /\ given'[f] = Stretch(From(f)', processed)
  <2>1. f \in Files /\ f # g /\ f \in ToSet(ListHead)
    BY <1>1, <1>2, <1>5, ListIsFiles
  <2>2. joined'[f] = joined[f] /\ given'[f] = given[f]
    BY <1>1, <1>3, <2>1
  <2>3. From(f)' = From(f)
    BY <1>1, <2>2 DEF From
  <2> QED BY <1>3, <2>1, <2>2, <2>3 DEF DataInv
<1> QED BY <1>1, <1>4, <1>5, NoDataKeepsData

\* The datum that leaves the queue is the next one, and the ring buffer has it.
LEMMA DequeueKeepsData ==
    ASSUME PlaceInv, DataInv, NEW h \in Handlers, DequeuesData(h)
    PROVE  DataInv'
<1>1. /\ handler[h] = "broadcast" /\ handler[h] \in Callback /\ handler'[h] = "give"
      /\ \A k \in Handlers : k # h => local'[k] = local[k] /\ handler'[k] = handler[k]
      /\ local'[h].data = Head(queue) /\ local'[h].clients = ListHead
      /\ queue # <<>> /\ queue' = Tail(queue)
      /\ UNCHANGED <<ListHead, broadcasts, processed, given, joined, replay>>
  BY DEF DequeuesData, Goto, PlaceInv, SerialInv, MultipleTypes, Fields, Callback,
         listVars, modeVars
<1>2. Taken = processed /\ Taken' = processed + 1 /\ \A f : Upto(f) = processed
  BY <1>1, CallbackSeesData, CallbackWillSeeData
<1>3. /\ processed \in Nat /\ broadcasts \in 0 .. MaxData /\ processed <= broadcasts
      /\ queue = Stretch(processed, broadcasts) /\ MaxData \in Nat
  BY <1>2, MultipleAssumption DEF DataInv
<1>4. processed < broadcasts
  BY <1>1, <1>3, StretchIsEmpty
<1>5. Head(queue) = processed + 1 /\ queue' = Stretch(processed + 1, broadcasts)
  BY <1>1, <1>3, <1>4, StretchShrinks
<1>6. replay => Methods!RingInv' /\ Methods!Contents' = Stretch(Oldest(Taken'), Taken')
  <2> SUFFICES ASSUME replay
               PROVE  Methods!RingInv' /\ Methods!Contents' = Stretch(Oldest(Taken'), Taken')
    OBVIOUS
  <2>1. Write(processed + 1) \/ WriteOverOldest(processed + 1)
    BY <1>5 DEF DequeuesData
  <2>2. Methods!RingInv /\ Methods!Contents = Stretch(Oldest(processed), processed)
    BY <1>2 DEF DataInv
  <2>3. processed + 1 \in Values
    BY <1>3, <1>4, MultipleAssumption
  <2> QED BY <1>2, <1>3, <2>1, <2>2, <2>3, RingKeepsLast
<1>7. \A k \in Handlers : handler'[k] = "give" => local'[k].data = processed' + 1
  BY <1>1, <1>5, CallbackIsAlone
<1>8. ASSUME NEW f \in ToSet(ListHead')
      PROVE  joined'[f] <= processed' /\ given'[f] = Stretch(From(f)', Upto(f)')
  <2>1. f \in ToSet(local'[h].clients) /\ f \in ToSet(ListHead)
    BY <1>1, <1>8
  <2>2. Upto(f)' = processed
    BY <1>1, <2>1, CallbackWillSeeData
  <2>3. From(f)' = From(f)
    BY <1>1 DEF From
  <2> QED BY <1>1, <1>2, <2>1, <2>2, <2>3 DEF DataInv
<1> QED BY <1>1, <1>2, <1>3, <1>4, <1>5, <1>6, <1>7, <1>8 DEF DataInv

\* The next client of the list is given the datum behind what it was given.
LEMMA GiveKeepsData ==
    ASSUME PlaceInv, DataInv, NEW h \in Handlers, GivesData(h)
    PROVE  DataInv'
<1>0. PICK g : g = Head(local[h].clients)
  OBVIOUS
<1>1. /\ handler[h] = "give" /\ handler[h] \in Callback /\ handler'[h] = "give"
      /\ local \in [Handlers -> Fields]
      /\ \A k \in Handlers : k # h => local'[k] = local[k] /\ handler'[k] = handler[k]
      /\ local'[h].data = local[h].data /\ local'[h].clients = Tail(local[h].clients)
      /\ local[h].clients # <<>> /\ local[h].clients \in Seq(Files)
      /\ IsInjective(local[h].clients) /\ ToSet(local[h].clients) \subseteq ToSet(ListHead)
      /\ given' = [given EXCEPT ![g] = Append(@, local[h].data)]
      /\ UNCHANGED <<ListHead, queue, broadcasts, processed, joined, replay, ringVars>>
  BY <1>0 DEF GivesData, PlaceInv, MultipleTypes, HandlerInv, LocalInv, Fields, Callback,
              doorbellVars, listVars, modeVars
<1>2. /\ ToSet(local[h].clients) = ToSet(local'[h].clients) \cup {g}
      /\ g \notin ToSet(local'[h].clients) /\ g \in ToSet(ListHead) /\ g \in Files
  BY <1>0, <1>1, HeadTailToSet, ListIsFiles
<1>3. /\ Taken' = Taken /\ local[h].data = processed + 1 /\ processed \in Nat
      /\ given \in [Files -> Seq(Nat)] /\ joined \in [Files -> Nat]
  BY <1>1, CallbackSeesData, CallbackWillSeeData DEF DataInv
<1>4. /\ Upto(g) = processed /\ Upto(g)' = processed + 1
      /\ \A f : f # g => Upto(f)' = Upto(f)
  BY <1>1, <1>2, CallbackSeesData, CallbackWillSeeData
<1>5. given' \in [Files -> Seq(Nat)]
  BY <1>1, <1>2, <1>3
<1>6. ASSUME NEW f \in ToSet(ListHead)
      PROVE  joined'[f] <= processed' /\ given'[f] = Stretch(From(f)', Upto(f)')
  <2>1. /\ joined'[f] = joined[f] /\ joined[f] <= processed /\ From(f)' = From(f)
        /\ given[f] = Stretch(From(f), Upto(f)) /\ f \in Files
    BY <1>1, ListIsFiles DEF From, DataInv
  <2>2. CASE f = g
    <3>1. given'[g] = Append(Stretch(From(g), processed), processed + 1)
      BY <1>1, <1>2, <1>3, <1>4, <2>1, <2>2
    <3>2. From(g) \in Nat /\ From(g) <= processed
      BY <1>2, <1>3, <2>1, <2>2, RingAssumption DEF From
    <3> QED BY <1>1, <1>3, <1>4, <2>1, <2>2, <3>1, <3>2, StretchGrows
  <2>3. CASE f # g
    BY <1>1, <1>3, <1>4, <2>1, <2>3
  <2> QED BY <2>2, <2>3
<1>7. \A k \in Handlers : handler'[k] = "give" => local'[k].data = processed' + 1
  BY <1>1, <1>3, CallbackIsAlone
<1>8. Methods!Contents' = Methods!Contents /\ (Methods!RingInv => Methods!RingInv')
  BY <1>1, RingStays
<1> QED BY <1>1, <1>3, <1>5, <1>6, <1>7, <1>8 DEF DataInv

\* When all have it, it is processed.
LEMMA GivenToAllKeepsData ==
    ASSUME PlaceInv, DataInv, NEW h \in Handlers, GivesNoMore(h)
    PROVE  DataInv'
<1>1. /\ handler[h] = "give" /\ handler[h] \in Callback /\ handler'[h] = "broadcast"
      /\ \A k \in Handlers : k # h => local'[k] = local[k] /\ handler'[k] = handler[k]
      /\ local[h].clients = <<>> /\ processed' = local[h].data
      /\ UNCHANGED <<ListHead, queue, broadcasts, given, joined, replay, ringVars>>
  BY DEF GivesNoMore, Goto, PlaceInv, SerialInv, MultipleTypes, Callback, listVars, modeVars
<1>2. processed' = processed + 1 /\ processed \in Nat
  BY <1>1 DEF DataInv
<1>3. /\ Taken' = Taken
      /\ \A f : Upto(f) = processed + 1 /\ Upto(f)' = processed + 1
  BY <1>1, <1>2, CallbackSeesData, CallbackWillSeeData, EmptyToSet
<1>4. ASSUME NEW f \in ToSet(ListHead)
      PROVE  joined'[f] <= processed' /\ given'[f] = Stretch(From(f)', Upto(f)')
  <2>1. /\ joined'[f] = joined[f] /\ joined[f] <= processed /\ joined[f] \in Nat
        /\ From(f)' = From(f)
        /\ given[f] = Stretch(From(f), Upto(f))
    BY <1>1, ListIsFiles DEF From, DataInv
  <2> QED BY <1>1, <1>2, <1>3, <2>1
<1>5. Methods!Contents' = Methods!Contents /\ (Methods!RingInv => Methods!RingInv')
  BY <1>1, RingStays
<1>6. \A k \in Handlers : handler'[k] # "give"
  BY <1>1, CallbackIsAlone
<1> QED BY <1>1, <1>2, <1>3, <1>4, <1>5, <1>6 DEF DataInv

\* Every step of the callback.
LEMMA CallbackStepKeepsData ==
    ASSUME PlaceInv, DataInv, NEW h \in Handlers, CallbackStep(h)
    PROVE  DataInv'
<1>1. /\ local \in [Handlers -> Fields] /\ h \in DOMAIN handler
      /\ DOMAIN handler = Handlers
  BY DEF PlaceInv, SerialInv, MultipleTypes
<1>2. ASSUME NEW place, Goto(h, place), place # "give", handler[h] # "give",
             handler[h] \in Callback,
             \A k \in Handlers : k # h => local'[k] = local[k],
             UNCHANGED <<dataVars, replay, ringVars>>,
             ToSet(ListHead') \subseteq ToSet(ListHead)
      PROVE  DataInv'
  BY <1>1, <1>2, ListStepsKeepData DEF Goto
<1>3. CASE TransfersLists(h)
  BY <1>1, <1>2, <1>3 DEF TransfersLists, Callback, modeVars
<1>4. CASE RefusesClient(h)
  BY <1>1, <1>2, <1>4 DEF RefusesClient, Callback, modeVars, listVars
<1>5. CASE AddsNoMore(h)
  BY <1>1, <1>2, <1>5 DEF AddsNoMore, Callback, modeVars, listVars
<1>6. CASE RemovesClient(h)
  <2>1. ListHead' = ListHead \/ \E i \in DOMAIN ListHead : ListHead' = RemoveAt(ListHead, i)
    BY <1>6 DEF RemovesClient
  <2>2. ToSet(ListHead') \subseteq ToSet(ListHead)
    BY <2>1, RemoveAtToSet DEF PlaceInv, MultipleTypes
  <2> QED BY <1>1, <1>2, <1>6, <2>2 DEF RemovesClient, Callback, modeVars
<1>7. CASE RemovesNoMore(h)
  BY <1>1, <1>2, <1>7 DEF RemovesNoMore, Callback, modeVars, listVars
<1>8. CASE RemovesContext(h)
  <2>1. PICK place \in {"remove", "add"} : Goto(h, place)
    BY <1>8 DEF RemovesContext
  <2> QED BY <1>1, <1>2, <1>8, <2>1 DEF RemovesContext, Callback, modeVars, listVars
<1>9. CASE CallbackReturns(h)
  BY <1>1, <1>2, <1>9 DEF CallbackReturns, Callback, modeVars, listVars
<1> QED BY <1>3, <1>4, <1>5, <1>6, <1>7, <1>8, <1>9, AddKeepsData, DeleteKeepsData,
           DequeueKeepsData, GiveKeepsData, GivenToAllKeepsData DEF CallbackStep

-----------------------------------------------------------------------------
(* All the others only add data to the queue.                               *)

\* A step outside the callback, with or without a broadcast.
LEMMA OthersKeepData ==
    ASSUME PlaceInv, DataInv,
           UNCHANGED <<local, ListHead, processed, given, joined, replay, ringVars>>,
           \A h \in Handlers : handler'[h] = "give" <=> handler[h] = "give",
           \/ UNCHANGED <<queue, broadcasts>>
           \/ /\ broadcasts < MaxData /\ broadcasts' = broadcasts + 1
              /\ queue' = Append(queue, broadcasts + 1)
    PROVE  DataInv'
<1>1. Taken' = Taken /\ \A f : Upto(f)' = Upto(f)
  BY DEF Taken, Giving, Upto
<1>2. /\ broadcasts' \in 0 .. MaxData /\ Taken' <= broadcasts'
      /\ queue' = Stretch(Taken', broadcasts')
  <2>1. /\ Taken \in Nat /\ broadcasts \in 0 .. MaxData /\ MaxData \in Nat /\ Taken <= broadcasts
        /\ queue = Stretch(Taken, broadcasts)
    BY MultipleAssumption DEF DataInv, Taken
  <2>2. CASE UNCHANGED <<queue, broadcasts>>
    BY <1>1, <2>1, <2>2
  <2>3. CASE broadcasts < MaxData /\ broadcasts' = broadcasts + 1
             /\ queue' = Append(queue, broadcasts + 1)
    <3>1. broadcasts \in Nat
      BY <2>1
    <3>2. Append(Stretch(Taken, broadcasts), broadcasts + 1) = Stretch(Taken, broadcasts + 1)
      BY <2>1, <3>1, StretchGrows
    <3> QED BY <1>1, <2>1, <2>3, <3>2
  <2> QED BY <2>2, <2>3
<1>3. ASSUME NEW f \in ToSet(ListHead)
      PROVE  joined'[f] <= processed' /\ given'[f] = Stretch(From(f)', Upto(f)')
  BY <1>1 DEF From, DataInv
<1>4. Methods!Contents' = Methods!Contents /\ (Methods!RingInv => Methods!RingInv')
  BY RingStays
<1> QED BY <1>1, <1>2, <1>3, <1>4 DEF DataInv

\* All of them.
LEMMA NextKeepsData ==
    ASSUME PlaceInv, DataInv, [Next]_vars
    PROVE  DataInv'
<1>1. DOMAIN handler = Handlers
  BY DEF PlaceInv, SerialInv
<1>2. ASSUME NEW f \in Files,
             FileCreate(f) \/ FileCreateFails(f) \/ FileClose(f) \/ RequestProcess(f)
      PROVE  DataInv'
  BY <1>2, OthersKeepData DEF FileCreate, FileCreateFails, FileClose, RequestProcess, doorbellVars,
                              listVars, dataVars, modeVars
<1>3. ASSUME NEW f \in Files, Continues(f) PROVE DataInv'
  BY <1>3, OthersKeepData DEF Continues, IsAdded, IsRemoved, FileRings, RequestIsGiven, Ring,
                              doorbellVars, listVars, dataVars, modeVars
<1>4. ASSUME NEW p \in Producers, DataBroadcast(p) \/ ProducerRings(p) PROVE DataInv'
  BY <1>4, OthersKeepData DEF DataBroadcast, ProducerRings, Ring, doorbellVars, listVars, modeVars
<1>5. CASE DoorbellSteps
  <2>1. UNCHANGED <<local, ListHead, processed, given, joined, replay, ringVars, queue, broadcasts>>
    BY <1>5 DEF DoorbellSteps, listVars, dataVars, modeVars
  <2>2. ASSUME NEW t, RingEnqueues(t) PROVE handler' = handler
    BY <2>2 DEF RingEnqueues
  <2>3. ASSUME NEW h \in Handlers, WorkItemStarts(h) \/ CallsBack(h) \/ Tests(h)
        PROVE  \A k \in Handlers : handler'[k] = "give" <=> handler[k] = "give"
    BY <1>1, <2>3 DEF WorkItemStarts, CallsBack, Tests
  <2>4. \A h \in Handlers : handler'[h] = "give" <=> handler[h] = "give"
    BY <1>5, <2>2, <2>3 DEF DoorbellSteps
  <2> QED BY <2>1, <2>4, OthersKeepData
<1>6. ASSUME NEW h \in Handlers, CallbackStep(h) PROVE DataInv'
  BY <1>6, CallbackStepKeepsData
<1>7. CASE UNCHANGED vars
  BY <1>7, OthersKeepData DEF vars, doorbellVars, listVars, dataVars, modeVars
<1> QED BY <1>2, <1>3, <1>4, <1>5, <1>6, <1>7 DEF Next

\* At first there is no data.
LEMMA InitData ==
    ASSUME Init
    PROVE  DataInv
<1>1. ~Giving /\ Taken = 0 /\ broadcasts \in 0 .. MaxData /\ processed = 0 /\ broadcasts = 0
  BY MultipleAssumption DEF Init, DoorbellInit, Giving, Taken
<1>2. Methods!RingInv
  <2>1. Methods!RingAssumption
    BY RingAssumption DEF Methods!RingAssumption
  <2>2. Methods!Init
    BY DEF Init, RingInit, Methods!Init, Methods!RingInit, Places, Methods!Places
  <2> QED BY <2>1, <2>2, Methods!RingInitInv
<1>3. Stretch(0, 0) = <<>> /\ Oldest(0) = 0
  BY RingAssumption, StretchIsEmpty DEF Oldest
<1>4. Methods!Contents = <<>>
  BY DEF Init, RingInit, Methods!Contents
<1>5. queue = <<>> /\ ToSet(ListHead) = {} /\ \A h \in Handlers : handler[h] # "give"
  BY EmptyToSet DEF Init, DoorbellInit
<1>6. given \in [Files -> Seq(Nat)] /\ joined \in [Files -> Nat]
  BY DEF Init
<1> QED BY <1>1, <1>2, <1>3, <1>4, <1>5, <1>6 DEF DataInv

\* Every client in the list has been given every datum from its arrival on, and
\* with the replay mode the last ones before it that the ring buffer holds, in
\* the order they were broadcast, each once.
THEOREM AllIsGiven ==
    ASSUME EarlyUse = FALSE
    PROVE  Spec => []ClientsAreGivenAll
<1>1. Init => PlaceInv /\ DataInv
  BY InitPlaces, InitData
<1>2. PlaceInv /\ DataInv /\ [Next]_vars => (PlaceInv /\ DataInv)'
  BY NextKeepsPlaces, NextKeepsData
<1>3. PlaceInv /\ DataInv => ClientsAreGivenAll
  <2> SUFFICES ASSUME PlaceInv, DataInv PROVE ClientsAreGivenAll
    OBVIOUS
  <2>1. CallbackIsSerial
    BY DEF PlaceInv, SerialInv, OneErrand, IsActive, CallbackIsSerial, Callback
  <2>2. \A f \in ToSet(ListHead) : given[f] = [i \in 1 .. Upto(f) - From(f) |-> From(f) + i]
    BY DEF DataInv, Stretch
  <2> QED BY <2>1, <2>2 DEF ClientsAreGivenAll
<1> QED BY <1>1, <1>2, <1>3, PTL DEF Spec
=============================================================================
