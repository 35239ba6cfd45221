---------------------------- MODULE Targets_proofs ----------------------------
(***************************************************************************)
(* DMF_RequestTarget: a request has one user at a time, is alive as long   *)
(* as anybody uses it, and is out of the Module when its last reference    *)
(* has gone, for any number of requests, threads and sends.                *)
(* DMF_ContinuousRequestTarget: after StopAndWait nothing is out, and the  *)
(* streams, the references and the rundown are counted right, for any      *)
(* number of streams and of completion routines beside them.               *)
(* DMF_DeviceInterfaceTarget: of three threads that close the Module one   *)
(* closes its target, which is open for as long as a Method runs, for any  *)
(* number of targets, registrations and callers.                           *)
(***************************************************************************)
EXTENDS RequestTarget, ContinuousRequestTarget, DeviceInterfaceTarget, FiniteSetTheorems, TLAPS

-----------------------------------------------------------------------------
(* DMF_RequestTarget.                                                       *)

Undone == {"prepare", "send", "abort"}      \* a thread that has not yet sent
Waiting == {"wait", "finish"}               \* one whose synchronous send is out
Leaving == {"freed", "leave"}               \* one that has given its request up
Cancelling == {"cancel", "release"}
Out == {"target", "queued", "completed", "removed"}

ThreadRecords ==
    [at : {"idle"}]
    \cup [at : Undone \cup Waiting \cup Leaving, kind : {"fresh", "synchronous", "reuse"}, request : Requests,
          id : SendIds, cancellable : BOOLEAN]
    \cup [at : {"delete"}, request : Requests]
    \cup [at : Cancelling, id : SendIds, request : Requests, holds : {TRUE}]

SendRecords ==
    [at : {"none", "failed"}]
    \cup [at : Out \cup {"calling", "done"}, request : Requests,
          kind : {"fresh", "synchronous", "reuse"}, cancelled : BOOLEAN]

ShapesOK ==
    /\ thread \in [Threads -> ThreadRecords]
    /\ send \in [SendIds -> SendRecords]
    /\ RequestInUse \in [Requests -> BOOLEAN]
    /\ object \in [Requests -> {"none", "live", "deleted"}]
    /\ sends \in 0 .. MaxSends
    /\ references \in Int

\* A thread has a send of its own, which starts when the thread has sent.
IdInv ==
    /\ \A t \in Threads : At(t, Undone) =>
         /\ thread[t].id <= sends
         /\ send[thread[t].id].at = "none"
         /\ thread[t].kind = "synchronous" => ~thread[t].cancellable
    /\ \A t1, t2 \in Threads :
         At(t1, Undone \cup Waiting) /\ At(t2, Undone \cup Waiting) /\ t1 # t2 =>
           thread[t1].id # thread[t2].id
    /\ \A n \in SendIds : n > sends => send[n].at = "none"

\* A synchronous send is out as long as its thread waits.
SynchronousInv ==
    /\ \A t \in Threads : At(t, Waiting) =>
         /\ thread[t].kind = "synchronous"
         /\ thread[t].id <= sends
         /\ send[thread[t].id].at = "target"
         /\ send[thread[t].id].kind = "synchronous"
         /\ send[thread[t].id].request = thread[t].request
    /\ \A n \in SendIds : ~InState(n, {"none", "failed"}) /\ send[n].kind = "synchronous" =>
         \/ InState(n, {"done"})
         \/ InState(n, {"target"}) /\ \E t \in Threads : At(t, Waiting) /\ thread[t].id = n

\* Who uses a request: the thread before it sends or deletes, and then the send.
ThreadUses(t, r) == At(t, Undone \cup {"delete"}) /\ thread[t].request = r
SendUses(n, r) ==
    /\ InState(n, Out) \/ (InState(n, {"calling"}) /\ send[n].kind = "fresh")
    /\ send[n].request = r

ThreadReuses(t) == At(t, {"delete"}) \/ thread[t].kind = "reuse"
SendReuses(n) == send[n].kind = "reuse"

ReuseInv ==
    /\ PendingReuseRequests \subseteq Requests
    /\ \A r \in PendingReuseRequests : object[r] = "live"

ThreadUserInv == \A t \in Threads, r \in Requests : ThreadUses(t, r) =>
    /\ object[r] = "live"
    /\ r \in PendingReuseRequests <=> ThreadReuses(t)
    /\ ThreadReuses(t) => RequestInUse[r]

SendUserInv == \A n \in SendIds, r \in Requests : SendUses(n, r) =>
    /\ object[r] = "live"
    /\ r \in PendingReuseRequests <=> SendReuses(n)
    /\ SendReuses(n) => RequestInUse[r]

OneUserInv ==
    \A r \in Requests :
        /\ \A t1, t2 \in Threads : ThreadUses(t1, r) /\ ThreadUses(t2, r) => t1 = t2
        /\ \A n1, n2 \in SendIds : SendUses(n1, r) /\ SendUses(n2, r) => n1 = n2
        /\ \A t \in Threads, n \in SendIds : ~(ThreadUses(t, r) /\ SendUses(n, r))

\* A thread that cancels has a reference to a request that was created. This,
\* and that a list holds what it may, is so unless a request stays in the list
\* when the allocation of its timer fails.
CancelInv == "timerOfListed" \notin Failures =>
    \A t \in Threads : At(t, Cancelling) => object[thread[t].request] # "none"

\* A request that can be cancelled is being sent or is out, and is listed once.
Listable(r) ==
    \/ \E t \in Threads : At(t, {"send"}) /\ thread[t].cancellable /\ thread[t].request = r
    \/ \E n \in SendIds : /\ InState(n, {"target", "queued", "completed"})
                          /\ send[n].kind # "synchronous" /\ send[n].request = r

Distinct(s) == \A i, j \in 1 .. Len(s) : s[i] = s[j] => i = j

ListInv == "timerOfListed" \notin Failures =>
    /\ PendingAsynchronousRequests \in Seq(Requests)
    /\ Distinct(PendingAsynchronousRequests)
    /\ \A r \in ToSet(PendingAsynchronousRequests) : Listable(r)

\* The references to the Module.
Holding == ThreadPlaces \ {"delete"}
ThreadHolders == {t \in Threads : At(t, Holding)}
SendHolds(n) == InState(n, Out \cup {"calling"}) /\ send[n].kind # "synchronous"
SendHolders == {n \in SendIds : SendHolds(n)}

CountInv == references = Cardinality(ThreadHolders) + Cardinality(SendHolders)

Inv == ShapesOK /\ IdInv /\ SynchronousInv /\ ReuseInv /\ ThreadUserInv
       /\ SendUserInv /\ OneUserInv /\ CancelInv /\ ListInv /\ CountInv

-----------------------------------------------------------------------------
(* How a step changes the record of one thread or of one send.              *)

MovesThread(t, place) ==
    /\ thread' \in [Threads -> ThreadRecords]
    /\ \A u \in Threads \ {t} : thread'[u] = thread[u]
    /\ thread'[t].at = place

KeepsThread(t) ==
    /\ thread'[t].request = thread[t].request /\ thread'[t].kind = thread[t].kind
    /\ thread'[t].id = thread[t].id /\ thread'[t].cancellable = thread[t].cancellable

MovesSend(n, place) ==
    /\ send' \in [SendIds -> SendRecords]
    /\ \A m \in SendIds \ {n} : send'[m] = send[m]
    /\ send'[n].at = place

KeepsSend(n) == send'[n].request = send[n].request /\ send'[n].kind = send[n].kind

Sets(g, f, r, value) == \A q \in Requests : g[q] = IF q = r THEN value ELSE f[q]
Marks(g, f, r, value) == \A q \in Requests : g[q] <=> IF q = r THEN value ELSE f[q]

LEMMA Fields ==
    ASSUME ShapesOK
    PROVE  /\ \A t \in Threads : At(t, {"idle"} \cup ThreadPlaces)
           /\ \A t \in Threads : At(t, ThreadPlaces) => thread[t].request \in Requests
           /\ \A t \in Threads : At(t, Undone \cup Waiting \cup Leaving) =>
                /\ thread[t].id \in SendIds /\ thread[t].cancellable \in BOOLEAN
                /\ thread[t].kind \in {"fresh", "synchronous", "reuse"}
           /\ \A t \in Threads : At(t, Cancelling) => thread[t].holds
           /\ \A n \in SendIds : InState(n, {"none", "failed", "done", "calling"} \cup Out)
           /\ \A n \in SendIds : InState(n, {"done", "calling"} \cup Out) =>
                /\ send[n].request \in Requests
                /\ send[n].kind \in {"fresh", "synchronous", "reuse"}
<1> USE DEF ShapesOK, At, InState, Undone, Waiting, Leaving, Cancelling, Out, ThreadPlaces
<1>1. ASSUME NEW t \in Threads
      PROVE  /\ At(t, {"idle"} \cup ThreadPlaces)
             /\ At(t, ThreadPlaces) => thread[t].request \in Requests
             /\ At(t, Undone \cup Waiting \cup Leaving) =>
                /\ thread[t].id \in SendIds /\ thread[t].cancellable \in BOOLEAN
                /\ thread[t].kind \in {"fresh", "synchronous", "reuse"}
             /\ At(t, Cancelling) => thread[t].holds
  BY DEF ThreadRecords
<1>2. ASSUME NEW n \in SendIds
      PROVE  /\ InState(n, {"none", "failed", "done", "calling"} \cup Out)
             /\ InState(n, {"done", "calling"} \cup Out) =>
                /\ send[n].request \in Requests
                /\ send[n].kind \in {"fresh", "synchronous", "reuse"}
  BY DEF SendRecords
<1> QED
  BY <1>1, <1>2

LEMMA GotoMoves ==
    ASSUME ShapesOK, NEW t \in Threads, NEW place, Goto(t, place),
           \/ /\ At(t, Undone \cup Waiting \cup Leaving)
              /\ place \in Undone \cup Waiting \cup Leaving
           \/ At(t, Cancelling) /\ place \in Cancelling
    PROVE  MovesThread(t, place) /\ KeepsThread(t)
<1> USE DEF ShapesOK, Goto, At, MovesThread, KeepsThread
<1>1. CASE /\ At(t, Undone \cup Waiting \cup Leaving)
           /\ place \in Undone \cup Waiting \cup Leaving
  <2>1. thread[t] \in [at : Undone \cup Waiting \cup Leaving, kind : {"fresh", "synchronous", "reuse"},
                       request : Requests, id : SendIds, cancellable : BOOLEAN]
    BY <1>1 DEF ThreadRecords, Undone, Waiting, Leaving, Cancelling
  <2>2. [thread[t] EXCEPT !.at = place] \in ThreadRecords
    BY <1>1, <2>1 DEF ThreadRecords
  <2> QED
    BY <2>1, <2>2
<1>2. CASE At(t, Cancelling) /\ place \in Cancelling
  <2>1. thread[t] \in [at : Cancelling, id : SendIds, request : Requests, holds : {TRUE}]
    BY <1>2 DEF ThreadRecords, Undone, Waiting, Leaving, Cancelling
  <2>2. [thread[t] EXCEPT !.at = place] \in ThreadRecords
    BY <1>2, <2>1 DEF ThreadRecords
  <2> QED
    BY <2>1, <2>2
<1> QED
  BY <1>1, <1>2

LEMMA ReturnMoves ==
    ASSUME ShapesOK, NEW t \in Threads, Return(t)
    PROVE  MovesThread(t, "idle")
BY DEF ShapesOK, Return, Idle, ThreadRecords, MovesThread

LEMMA AdvanceMoves ==
    ASSUME ShapesOK, NEW n \in SendIds, NEW place \in Out \cup {"calling", "done"},
           InState(n, Out \cup {"calling", "done"}), Advance(n, place)
    PROVE  MovesSend(n, place) /\ KeepsSend(n)
<1> USE DEF ShapesOK, Advance, InState, MovesSend, KeepsSend
<1>1. send[n] \in [at : Out \cup {"calling", "done"}, request : Requests,
                   kind : {"fresh", "synchronous", "reuse"}, cancelled : BOOLEAN]
  BY DEF SendRecords, Out
<1>2. [send[n] EXCEPT !.at = place] \in SendRecords
  BY <1>1 DEF SendRecords
<1> QED
  BY <1>1, <1>2

LEMMA HoldersAreFinite ==
    /\ IsFiniteSet(ThreadHolders) /\ Cardinality(ThreadHolders) \in Nat
    /\ IsFiniteSet(SendHolders) /\ Cardinality(SendHolders) \in Nat
<1>1. IsFiniteSet(ThreadHolders)
  BY ThreadsAssumption, FS_Subset DEF ThreadHolders
<1>2. IsFiniteSet(SendIds)
  BY RequestAssumption, FS_Interval DEF SendIds
<1>3. IsFiniteSet(SendHolders)
  BY <1>2, FS_Subset DEF SendHolders
<1> QED
  BY <1>1, <1>3, FS_CardinalityType

LEMMA JoinsAndLeaves ==
    ASSUME NEW S, IsFiniteSet(S), NEW e
    PROVE  /\ e \notin S => Cardinality(S \cup {e}) = Cardinality(S) + 1
           /\ e \in S => Cardinality(S \ {e}) = Cardinality(S) - 1
BY FS_AddElement, FS_RemoveElement

LEMMA ThreadCount ==
    ASSUME NEW t \in Threads, \A u \in Threads \ {t} : thread'[u] = thread[u]
    PROVE  /\ (At(t, Holding)' <=> At(t, Holding)) =>
                Cardinality(ThreadHolders') = Cardinality(ThreadHolders)
           /\ At(t, Holding)' /\ ~At(t, Holding) =>
                Cardinality(ThreadHolders') = Cardinality(ThreadHolders) + 1
           /\ ~At(t, Holding)' /\ At(t, Holding) =>
                Cardinality(ThreadHolders') = Cardinality(ThreadHolders) - 1
<1>1. /\ (At(t, Holding)' <=> At(t, Holding)) => ThreadHolders' = ThreadHolders
      /\ At(t, Holding)' /\ ~At(t, Holding) =>
           t \notin ThreadHolders /\ ThreadHolders' = ThreadHolders \cup {t}
      /\ ~At(t, Holding)' /\ At(t, Holding) =>
           t \in ThreadHolders /\ ThreadHolders' = ThreadHolders \ {t}
  BY DEF ThreadHolders, At
<1> QED
  BY <1>1, HoldersAreFinite, JoinsAndLeaves

LEMMA SendCount ==
    ASSUME NEW n \in SendIds, \A m \in SendIds \ {n} : send'[m] = send[m]
    PROVE  /\ (SendHolds(n)' <=> SendHolds(n)) =>
                Cardinality(SendHolders') = Cardinality(SendHolders)
           /\ SendHolds(n)' /\ ~SendHolds(n) =>
                Cardinality(SendHolders') = Cardinality(SendHolders) + 1
           /\ ~SendHolds(n)' /\ SendHolds(n) =>
                Cardinality(SendHolders') = Cardinality(SendHolders) - 1
<1>1. /\ (SendHolds(n)' <=> SendHolds(n)) => SendHolders' = SendHolders
      /\ SendHolds(n)' /\ ~SendHolds(n) =>
           n \notin SendHolders /\ SendHolders' = SendHolders \cup {n}
      /\ ~SendHolds(n)' /\ SendHolds(n) =>
           n \in SendHolders /\ SendHolders' = SendHolders \ {n}
  BY DEF SendHolders, SendHolds, InState
<1> QED
  BY <1>1, HoldersAreFinite, JoinsAndLeaves

LEMMA SameCounts ==
    /\ thread' = thread => Cardinality(ThreadHolders') = Cardinality(ThreadHolders)
    /\ (\A n \in SendIds : SendHolds(n)' <=> SendHolds(n)) =>
         Cardinality(SendHolders') = Cardinality(SendHolders)
    /\ send' = send => Cardinality(SendHolders') = Cardinality(SendHolders)
<1>1. thread' = thread => ThreadHolders' = ThreadHolders
  BY DEF ThreadHolders, At
<1>2. (\A n \in SendIds : SendHolds(n)' <=> SendHolds(n)) => SendHolders' = SendHolders
  BY DEF SendHolders
<1>3. send' = send => \A n \in SendIds : SendHolds(n)' <=> SendHolds(n)
  BY DEF SendHolds, InState
<1> QED
  BY <1>1, <1>2, <1>3

\* RequestTarget_PendingCollectionListRemove, when a request is listed once.
LEMMA RemoveFirstOfDistinct ==
    ASSUME NEW S, NEW s \in Seq(S), NEW e,
           Distinct(s)
    PROVE  /\ RemoveFirst(s, e) \in Seq(S)
           /\ Distinct(RemoveFirst(s, e))
           /\ ToSet(RemoveFirst(s, e)) = ToSet(s) \ {e}
<1> USE DEF Distinct
<1>1. CASE ~ \E i \in 1 .. Len(s) : s[i] = e
  BY <1>1 DEF RemoveFirst, ToSet
<1>2. CASE \E i \in 1 .. Len(s) : s[i] = e
  <2>1. PICK k \in 1 .. Len(s) : s[k] = e
    BY <1>2
  <2>2. {i \in 1 .. Len(s) : s[i] = e} = {k}
    BY <2>1
  <2>3. SelectInSeq(s, LAMBDA v : v = e) = k
    BY <2>2 DEF SelectInSeq, Min
  <2> DEFINE q == SubSeq(s, 1, k - 1) \o SubSeq(s, k + 1, Len(s))
  <2>4. RemoveFirst(s, e) = q
    BY <1>2, <2>3 DEF RemoveFirst, RemoveAt
  <2>5. /\ q \in Seq(S) /\ Len(q) = Len(s) - 1
        /\ \A i \in 1 .. Len(q) : q[i] = IF i < k THEN s[i] ELSE s[i + 1]
    <3> DEFINE front == SubSeq(s, 1, k - 1)
               back  == SubSeq(s, k + 1, Len(s))
    <3>1. front \in Seq(S) /\ Len(front) = k - 1 /\ \A i \in 1 .. k - 1 : front[i] = s[i]
      BY <2>1
    <3>2. /\ back \in Seq(S) /\ Len(back) = Len(s) - k
          /\ \A i \in 1 .. Len(s) - k : back[i] = s[k + i]
      BY <2>1
    <3> HIDE DEF front, back
    <3>3. /\ front \o back \in Seq(S) /\ Len(front \o back) = Len(s) - 1
          /\ \A i \in 1 .. Len(s) - 1 :
               (front \o back)[i] = IF i <= k - 1 THEN front[i] ELSE back[i - (k - 1)]
      BY <2>1, <3>1, <3>2
    <3>4. ASSUME NEW i \in 1 .. Len(s) - 1
          PROVE  (front \o back)[i] = IF i < k THEN s[i] ELSE s[i + 1]
      <4>1. CASE i < k
        BY <2>1, <3>1, <3>3, <4>1
      <4>2. CASE i >= k
        <5>0. ~(i < k) /\ ~(i <= k - 1)
          BY <2>1, <4>2
        <5>1. i - (k - 1) \in 1 .. Len(s) - k /\ k + (i - (k - 1)) = i + 1
          BY <2>1, <4>2
        <5> QED
          BY <2>1, <3>2, <3>3, <5>0, <5>1
      <4>3. i < k \/ (i >= k /\ ~(i < k))
        BY <2>1
      <4> QED
        BY <4>1, <4>2, <4>3, Zenon
    <3> QED
      BY <3>3, <3>4 DEF front, back
  <2> HIDE DEF q
  <2>6. \A i, j \in 1 .. Len(q) : q[i] = q[j] => i = j
    BY <2>1, <2>5
  <2>7. ToSet(q) = ToSet(s) \ {e}
    <3>1. ASSUME NEW i \in 1 .. Len(q) PROVE q[i] \in ToSet(s) /\ q[i] # e
      BY <2>1, <2>5 DEF ToSet
    <3>2. ASSUME NEW j \in 1 .. Len(s), s[j] # e PROVE s[j] \in ToSet(q)
      <4>1. CASE j < k
        <5>1. j \in 1 .. Len(q) /\ q[j] = s[j]
          BY <2>1, <2>5, <4>1
        <5> QED
          BY <2>5, <5>1 DEF ToSet
      <4>2. CASE j > k
        <5>1. j - 1 \in 1 .. Len(q) /\ q[j - 1] = s[j]
          BY <2>1, <2>5, <4>2
        <5> QED
          BY <2>5, <5>1 DEF ToSet
      <4> QED
        BY <2>1, <3>2, <4>1, <4>2
    <3> QED
      BY <2>5, <3>1, <3>2 DEF ToSet
  <2> QED
    BY <2>4, <2>5, <2>6, <2>7
<1> QED
  BY <1>1, <1>2

LEMMA SendBeginsPreserves ==
    ASSUME Inv, NEW t \in Threads, NEW kind \in Kinds, NEW r \in Requests,
           NEW cancellable \in BOOLEAN,
           kind = "synchronous" => ~cancellable, SendBegins(t, kind, r, cancellable)
    PROVE  Inv'
<1> USE RequestAssumption DEF Inv, collections, requestVars, sendVars, moduleVars
<1>1. /\ At(t, {"idle"}) /\ sends' = sends + 1 /\ sends' \in SendIds
      /\ sends' <= sends' /\ \A n \in SendIds : n <= sends => n <= sends' /\ n # sends'
      /\ send[sends'].at = "none" /\ \A n \in SendIds : n > sends' => send[n].at = "none"
      /\ MovesThread(t, "prepare")
      /\ thread'[t].kind = kind /\ thread'[t].request = r /\ thread'[t].id = sends'
      /\ thread'[t].cancellable = cancellable /\ kind \in Kinds
      /\ references' = references + 1
      /\ UNCHANGED <<collections, send>>
      /\ \/ /\ kind = "reuse" /\ r \in PendingReuseRequests /\ ~RequestInUse[r]
            /\ Marks(RequestInUse', RequestInUse, r, TRUE) /\ UNCHANGED object
         \/ /\ kind # "reuse" /\ object[r] # "live"
            /\ Marks(RequestInUse', RequestInUse, r, FALSE) /\ Sets(object', object, r, "live")
  <2> DEFINE new == [at |-> "prepare", kind |-> kind, request |-> r, id |-> sends + 1,
                     cancellable |-> cancellable]
  <2>1. /\ At(t, {"idle"}) /\ sends' = sends + 1 /\ references' = references + 1
        /\ UNCHANGED <<collections, send>> /\ kind \in Kinds
    BY DEF SendBegins, ModuleReference
  <2>2. /\ sends' \in SendIds /\ sends' <= sends'
        /\ \A n \in SendIds : n <= sends => n <= sends' /\ n # sends'
        /\ \A n \in SendIds : n >= sends' => n > sends
    BY DEF SendBegins, ShapesOK, SendIds
  <2>3. send[sends'].at = "none" /\ \A n \in SendIds : n > sends' => send[n].at = "none"
    <3>1. \A n \in SendIds : n > sends' => n >= sends'
      BY <2>2 DEF SendIds
    <3>2. sends' >= sends'
      BY <2>2 DEF SendIds
    <3> QED
      BY <2>2, <3>1, <3>2 DEF IdInv
  <2>4. new \in ThreadRecords /\ new.at = "prepare" /\ new.kind = kind /\ new.request = r
        /\ new.id = sends + 1 /\ new.cancellable = cancellable
    BY <2>1, <2>2 DEF ThreadRecords, Undone
  <2>5. thread' = [thread EXCEPT ![t] = new]
    BY DEF SendBegins
  <2>6. /\ MovesThread(t, "prepare")
        /\ thread'[t].kind = kind /\ thread'[t].request = r /\ thread'[t].id = sends'
        /\ thread'[t].cancellable = cancellable
    <3> HIDE DEF new
    <3> QED
      BY <2>1, <2>4, <2>5 DEF ShapesOK, MovesThread
  <2>7. \/ /\ kind = "reuse" /\ r \in PendingReuseRequests /\ ~RequestInUse[r]
           /\ Marks(RequestInUse', RequestInUse, r, TRUE) /\ UNCHANGED object
        \/ /\ kind # "reuse" /\ object[r] # "live"
           /\ Marks(RequestInUse', RequestInUse, r, FALSE) /\ Sets(object', object, r, "live")
    <3>1. CASE kind = "reuse"
      BY <3>1 DEF SendBegins, ReuseListSearch, ShapesOK, Marks
    <3>2. CASE kind # "reuse"
      BY <3>2 DEF SendBegins, CreateRequest, Exists, ShapesOK, Marks, Sets
    <3> QED
      BY <3>1, <3>2
  <2> QED
    BY <2>1, <2>2, <2>3, <2>6, <2>7
<1>2. ShapesOK'
  <2>1. RequestInUse' \in [Requests -> BOOLEAN]
    BY DEF SendBegins, ShapesOK, CreateRequest, ReuseListSearch
  <2>2. object' \in [Requests -> {"none", "live", "deleted"}]
    BY DEF SendBegins, ShapesOK, CreateRequest, ReuseListSearch
  <2>3. references' \in Int
    BY <1>1 DEF ShapesOK
  <2> QED
    BY <1>1, <2>1, <2>2, <2>3 DEF ShapesOK, MovesThread, MovesSend, SendIds
<1>3. IdInv'
  <2>1. ASSUME NEW u \in Threads, At(u, Undone \cup Waiting)', u # t
        PROVE  /\ At(u, Undone \cup Waiting) /\ thread'[u] = thread[u]
               /\ thread[u].id \in SendIds /\ thread[u].id <= sends' /\ thread[u].id # sends'
    <3>1. At(u, Undone \cup Waiting) /\ thread'[u] = thread[u]
      BY <1>1, <2>1 DEF At, MovesThread
    <3>2. thread[u].id \in SendIds
      BY <3>1, Fields DEF At
    <3>3. thread[u].id <= sends
      BY <3>1 DEF IdInv, SynchronousInv, Undone, Waiting, At
    <3> QED
      BY <1>1, <3>1, <3>2, <3>3
  <2>2. ASSUME NEW u \in Threads, At(u, Undone)'
        PROVE  /\ thread'[u].id <= sends' /\ send'[thread'[u].id].at = "none"
               /\ thread'[u].kind = "synchronous" => ~thread'[u].cancellable
    BY <1>1, <2>1, <2>2 DEF IdInv, Undone, At, MovesThread
  <2>3. ASSUME NEW u1 \in Threads, NEW u2 \in Threads, u1 # u2,
               At(u1, Undone \cup Waiting)', At(u2, Undone \cup Waiting)'
        PROVE  thread'[u1].id # thread'[u2].id
    <3>1. CASE u1 # t /\ u2 # t
      <4>1. /\ At(u1, Undone \cup Waiting) /\ thread'[u1] = thread[u1]
            /\ At(u2, Undone \cup Waiting) /\ thread'[u2] = thread[u2]
        BY <2>1, <2>3, <3>1
      <4> QED
        BY <2>3, <4>1 DEF IdInv
    <3>2. CASE u1 = t \/ u2 = t
      BY <1>1, <2>1, <2>3, <3>2
    <3> QED
      BY <3>1, <3>2
  <2> QED
    BY <1>1, <2>2, <2>3 DEF IdInv
<1>4. SynchronousInv'
  <2>1. ASSUME NEW u \in Threads, At(u, Waiting)'
        PROVE  u # t /\ At(u, Waiting) /\ thread'[u] = thread[u] /\ thread[u].id \in SendIds
    BY <1>1, <2>1, Fields DEF At, Waiting, MovesThread
  <2>2. ASSUME NEW u \in Threads, At(u, Waiting) PROVE At(u, Waiting)' /\ thread'[u] = thread[u]
    BY <1>1, <2>2 DEF At, Waiting, MovesThread
  <2>3. ASSUME NEW u \in Threads, At(u, Waiting)'
        PROVE  /\ thread'[u].kind = "synchronous" /\ thread'[u].id <= sends'
               /\ send'[thread'[u].id].at = "target"
               /\ send'[thread'[u].id].kind = "synchronous"
               /\ send'[thread'[u].id].request = thread'[u].request
    <3>1. /\ At(u, Waiting) /\ thread'[u] = thread[u] /\ thread[u].id \in SendIds
      BY <2>1, <2>3
    <3>2. /\ thread[u].kind = "synchronous" /\ thread[u].id <= sends
          /\ send[thread[u].id].at = "target"
          /\ send[thread[u].id].kind = "synchronous"
          /\ send[thread[u].id].request = thread[u].request
      BY <3>1 DEF SynchronousInv
    <3>3. send' = send
      BY <1>1
    <3>4. thread[u].id <= sends'
      BY <1>1, <3>1, <3>2
    <3> QED
      BY <3>1, <3>2, <3>3, <3>4
  <2>4. ASSUME NEW n \in SendIds, ~InState(n, {"none", "failed"})', send'[n].kind = "synchronous"
        PROVE  \/ InState(n, {"done"})'
               \/ /\ InState(n, {"target"})'
                  /\ \E u \in Threads : At(u, Waiting)' /\ thread'[u].id = n
    BY <1>1, <2>2, <2>4 DEF SynchronousInv, InState
  <2> QED
    BY <2>3, <2>4 DEF SynchronousInv
<1>5. ReuseInv' /\ ThreadUserInv' /\ SendUserInv' /\ OneUserInv'
  BY <1>1
  DEF ReuseInv, ThreadUserInv, SendUserInv, OneUserInv, Waiting, ThreadUses, SendUses,
     ThreadReuses, SendReuses, At, InState, MovesThread, Sets, Marks
<1>6. CancelInv' /\ ListInv'
  BY <1>1, Fields
  DEF CancelInv, ListInv, Cancelling, At, InState, Listable, MovesThread, Sets, Marks
<1>7. CountInv'
  BY <1>1, HoldersAreFinite, ThreadCount, SameCounts
  DEF CountInv, At, ThreadPlaces, Holding, MovesThread
<1> QED
  BY <1>2, <1>3, <1>4, <1>5, <1>6, <1>7

LEMMA PreparesPreserves ==
    ASSUME Inv, NEW t \in Threads, Prepares(t)
    PROVE  Inv'
<1> USE RequestAssumption DEF Inv, collections, requestVars, sendVars, moduleVars
<1>1. /\ At(t, {"prepare"})
      /\ MovesThread(t, "send") /\ KeepsThread(t)
      /\ UNCHANGED <<PendingReuseRequests, RequestInUse, object, sendVars, moduleVars>>
      /\ IF thread[t].cancellable
            THEN PendingAsynchronousRequests' =
                   Append(PendingAsynchronousRequests, thread[t].request)
            ELSE UNCHANGED PendingAsynchronousRequests
  BY GotoMoves DEF Prepares, At, Undone
<1>2. ShapesOK'
  BY <1>1 DEF ShapesOK, MovesThread
<1>3. IdInv' /\ SynchronousInv'
  BY <1>1 DEF IdInv, SynchronousInv, Undone, Waiting, At, InState, MovesThread, KeepsThread
<1>4. ReuseInv' /\ ThreadUserInv' /\ SendUserInv' /\ OneUserInv'
  BY <1>1
  DEF ReuseInv, ThreadUserInv, SendUserInv, OneUserInv, Undone, ThreadUses, SendUses,
     ThreadReuses, SendReuses, At, InState, MovesThread, KeepsThread
<1>5. CancelInv'
  BY <1>1 DEF CancelInv, Cancelling, At, MovesThread
<1>6. ListInv'
  <2> SUFFICES ASSUME "timerOfListed" \notin Failures, thread[t].cancellable
               PROVE  ListInv'
    BY <1>1, Fields DEF ListInv, Listable, At, InState, MovesThread, KeepsThread
  <2> DEFINE s == PendingAsynchronousRequests
             e == thread[t].request
  <2>1. /\ s \in Seq(Requests) /\ Distinct(s) /\ e \in Requests /\ s' = Append(s, e)
        /\ \A r \in ToSet(s) : r \in Requests /\ Listable(r)
    BY <1>1, Fields DEF ListInv, At, ThreadPlaces, ToSet
  <2>2. e \notin ToSet(s)
    BY <1>1, <2>1 DEF Listable, OneUserInv, ThreadUses, SendUses, At, InState, Undone, Out
  <2>3. s' \in Seq(Requests) /\ Distinct(s') /\ ToSet(s') = ToSet(s) \cup {e}
    <3> HIDE DEF s, e
    <3>1. /\ s' \in Seq(Requests) /\ Len(s') = Len(s) + 1
          /\ \A i \in 1 .. Len(s) + 1 : s'[i] = IF i = Len(s) + 1 THEN e ELSE s[i]
      BY <2>1
    <3> QED
      BY <2>1, <2>2, <3>1 DEF Distinct, ToSet
  <2>4. ASSUME NEW r \in ToSet(s) \cup {e} PROVE Listable(r)'
    <3>1. CASE r = e
      BY <1>1, <3>1 DEF Listable, At, MovesThread, KeepsThread
    <3>2. CASE r \in ToSet(s)
      BY <1>1, <2>1, <3>2 DEF Listable, At, InState, MovesThread, KeepsThread
    <3> QED
      BY <3>1, <3>2
  <2> QED
    BY <2>3, <2>4 DEF ListInv
<1>7. CountInv'
  BY <1>1, ThreadCount, SameCounts DEF CountInv, At, ThreadPlaces, Holding, MovesThread
<1> QED
  BY <1>2, <1>3, <1>4, <1>5, <1>6, <1>7

LEMMA PrepareFailsPreserves ==
    ASSUME Inv, NEW t \in Threads, PrepareFails(t)
    PROVE  Inv'
<1> USE RequestAssumption DEF Inv, collections, requestVars, sendVars, moduleVars
<1>1. /\ At(t, {"prepare"})
      /\ MovesThread(t, "abort") /\ KeepsThread(t)
      /\ UNCHANGED <<collections, requestVars, sendVars, moduleVars>>
  BY GotoMoves DEF PrepareFails, At, Undone
<1>2. ShapesOK'
  BY <1>1 DEF ShapesOK, MovesThread
<1>3. IdInv' /\ SynchronousInv'
  BY <1>1 DEF IdInv, SynchronousInv, Undone, Waiting, At, InState, MovesThread, KeepsThread
<1>4. ReuseInv' /\ ThreadUserInv' /\ SendUserInv' /\ OneUserInv'
  BY <1>1
  DEF ReuseInv, ThreadUserInv, SendUserInv, OneUserInv, Undone, ThreadUses, SendUses,
     ThreadReuses, SendReuses, At, InState, MovesThread, KeepsThread
<1>5. CancelInv' /\ ListInv'
  BY <1>1 DEF CancelInv, ListInv, Cancelling, At, InState, Listable, MovesThread
<1>6. CountInv'
  BY <1>1, ThreadCount, SameCounts DEF CountInv, At, ThreadPlaces, Holding, MovesThread
<1> QED
  BY <1>2, <1>3, <1>4, <1>5, <1>6

LEMMA TimerFailsPreserves ==
    ASSUME Inv, NEW t \in Threads, TimerFails(t)
    PROVE  Inv'
<1> USE RequestAssumption DEF Inv, collections, requestVars, sendVars, moduleVars
<1>1. /\ At(t, {"send"})
      /\ MovesThread(t, "abort") /\ KeepsThread(t)
      /\ UNCHANGED <<collections, requestVars, sendVars, moduleVars>>
      /\ thread[t].cancellable => "timerOfListed" \in Failures
  BY GotoMoves DEF TimerFails, At, Undone
<1>2. ShapesOK'
  BY <1>1 DEF ShapesOK, MovesThread
<1>3. IdInv' /\ SynchronousInv'
  BY <1>1 DEF IdInv, SynchronousInv, Undone, Waiting, At, InState, MovesThread, KeepsThread
<1>4. ReuseInv' /\ ThreadUserInv' /\ SendUserInv' /\ OneUserInv'
  BY <1>1
  DEF ReuseInv, ThreadUserInv, SendUserInv, OneUserInv, Undone, ThreadUses, SendUses,
     ThreadReuses, SendReuses, At, InState, MovesThread, KeepsThread
<1>5. CancelInv' /\ ListInv'
  BY <1>1 DEF CancelInv, ListInv, Cancelling, At, InState, Listable, MovesThread
<1>6. CountInv'
  BY <1>1, ThreadCount, SameCounts DEF CountInv, At, ThreadPlaces, Holding, MovesThread
<1> QED
  BY <1>2, <1>3, <1>4, <1>5, <1>6

LEMMA SendsPreserves ==
    ASSUME Inv, NEW t \in Threads, Sends(t)
    PROVE  Inv'
<1> USE RequestAssumption DEF Inv, collections, requestVars, sendVars, moduleVars
<1>1. /\ At(t, {"send"}) /\ thread[t].id \in SendIds
      /\ ~(thread[t].id > sends) /\ send[thread[t].id].at = "none"
      /\ MovesSend(thread[t].id, "target")
      /\ send'[thread[t].id].request = thread[t].request
      /\ send'[thread[t].id].kind = thread[t].kind
      /\ \/ thread[t].kind = "synchronous" /\ MovesThread(t, "wait") /\ KeepsThread(t)
         \/ thread[t].kind # "synchronous" /\ MovesThread(t, "idle")
      /\ UNCHANGED <<collections, requestVars, sends, moduleVars>>
  <2> DEFINE new == [at |-> "target", request |-> thread[t].request, kind |-> thread[t].kind,
                     cancelled |-> FALSE]
             id == thread[t].id
  <2>1. id \in SendIds /\ At(t, {"send"})
    BY Fields DEF Sends, At, Undone
  <2>2. new \in SendRecords /\ new.at = "target" /\ new.request = thread[t].request
        /\ new.kind = thread[t].kind
    BY <2>1, Fields DEF SendRecords, At, Undone, ThreadPlaces, Out
  <2>3. send' = [send EXCEPT ![id] = new]
    BY DEF Sends
  <2>4. /\ MovesSend(id, "target")
        /\ send'[id].request = thread[t].request /\ send'[id].kind = thread[t].kind
    <3> HIDE DEF new, id
    <3> QED
      BY <2>1, <2>2, <2>3 DEF MovesSend, ShapesOK
  <2>5. \/ thread[t].kind = "synchronous" /\ MovesThread(t, "wait") /\ KeepsThread(t)
        \/ thread[t].kind # "synchronous" /\ MovesThread(t, "idle")
    BY <2>1, GotoMoves, ReturnMoves DEF Sends, At, Undone, Waiting
  <2>6. ~(thread[t].id > sends) /\ send[thread[t].id].at = "none"
    BY <2>1 DEF IdInv, ShapesOK, SendIds, At, Undone
  <2> QED
    BY <2>1, <2>4, <2>5, <2>6 DEF Sends
<1>2. ShapesOK'
  BY <1>1 DEF ShapesOK, MovesThread, MovesSend
<1>3. IdInv' /\ SynchronousInv'
  BY <1>1, Fields
  DEF IdInv, SynchronousInv, Undone, Waiting, At, InState, MovesThread, KeepsThread, MovesSend
<1>4. ReuseInv' /\ ThreadUserInv' /\ SendUserInv' /\ OneUserInv'
  BY <1>1
  DEF ReuseInv, ThreadUserInv, SendUserInv, OneUserInv, Undone, ThreadUses, SendUses,
     ThreadReuses, SendReuses, At, InState, MovesThread, MovesSend
<1>5. CancelInv' /\ ListInv'
  BY <1>1
  DEF IdInv, CancelInv, ListInv, Undone, Cancelling, At, InState, Listable, MovesThread,
     MovesSend
<1>6. CountInv'
  <2> PICK n \in SendIds : n = thread[t].id
    BY <1>1
  <2>1. ~SendHolds(n) /\ (SendHolds(n)' <=> thread[t].kind # "synchronous")
    BY <1>1 DEF SendHolds, InState, Out, MovesSend
  <2>2. At(t, Holding) /\ (At(t, Holding)' <=> thread[t].kind = "synchronous")
    BY <1>1 DEF At, Holding, ThreadPlaces, MovesThread
  <2>3. Cardinality(SendHolders') = Cardinality(SendHolders)
                                     + IF thread[t].kind # "synchronous" THEN 1 ELSE 0
    BY <1>1, <2>1, SendCount, HoldersAreFinite DEF MovesSend
  <2>4. Cardinality(ThreadHolders') = Cardinality(ThreadHolders)
                                       - IF thread[t].kind = "synchronous" THEN 0 ELSE 1
    BY <1>1, <2>2, ThreadCount, HoldersAreFinite DEF MovesThread
  <2> QED
    BY <1>1, <2>3, <2>4, HoldersAreFinite DEF CountInv
<1> QED
  BY <1>2, <1>3, <1>4, <1>5, <1>6

LEMMA SendFailsPreserves ==
    ASSUME Inv, NEW t \in Threads, SendFails(t)
    PROVE  Inv'
<1> USE RequestAssumption DEF Inv, collections, requestVars, sendVars, moduleVars
<1>1. /\ At(t, {"send"})
      /\ MovesThread(t, "abort") /\ KeepsThread(t)
      /\ UNCHANGED <<PendingReuseRequests, requestVars, sendVars, moduleVars>>
      /\ PendingAsynchronousRequests' =
           IF thread[t].cancellable
              THEN RemoveFirst(PendingAsynchronousRequests, thread[t].request)
              ELSE PendingAsynchronousRequests
  BY GotoMoves DEF SendFails, At, Undone
<1>2. ShapesOK'
  BY <1>1 DEF ShapesOK, MovesThread
<1>3. IdInv' /\ SynchronousInv'
  BY <1>1 DEF IdInv, SynchronousInv, Undone, Waiting, At, InState, MovesThread, KeepsThread
<1>4. ReuseInv' /\ ThreadUserInv' /\ SendUserInv' /\ OneUserInv'
  BY <1>1
  DEF ReuseInv, ThreadUserInv, SendUserInv, OneUserInv, Undone, ThreadUses, SendUses,
     ThreadReuses, SendReuses, At, InState, MovesThread, KeepsThread
<1>5. CancelInv' /\ ListInv'
  BY <1>1, RemoveFirstOfDistinct
  DEF CancelInv, ListInv, Cancelling, At, InState, Listable, MovesThread
<1>6. CountInv'
  BY <1>1, ThreadCount, SameCounts DEF CountInv, At, ThreadPlaces, Holding, MovesThread
<1> QED
  BY <1>2, <1>3, <1>4, <1>5, <1>6

LEMMA AbortsPreserves ==
    ASSUME Inv, NEW t \in Threads, Aborts(t)
    PROVE  Inv'
<1> USE RequestAssumption DEF Inv, collections, requestVars, sendVars, moduleVars
<1>0. PICK place \in Leaving : MovesThread(t, place) /\ KeepsThread(t)
  <2>1. PICK place \in Leaving : Goto(t, place)
    BY DEF Aborts, Leaving
  <2> QED
    BY <2>1, GotoMoves DEF Aborts, At, Undone, Leaving
<1>1. /\ At(t, {"abort"}) /\ KeepsThread(t) /\ MovesThread(t, place) /\ place \in Leaving
      /\ thread[t].request \in Requests
      /\ thread[t].id \in SendIds /\ ~(thread[t].id > sends) /\ send[thread[t].id].at = "none"
      /\ MovesSend(thread[t].id, "failed")
      /\ UNCHANGED <<collections, sends, moduleVars>>
      /\ \/ /\ thread[t].kind = "reuse"
            /\ Marks(RequestInUse', RequestInUse, thread[t].request, FALSE) /\ UNCHANGED object
         \/ /\ thread[t].kind # "reuse"
            /\ Sets(object', object, thread[t].request, "deleted") /\ UNCHANGED RequestInUse
  <2>1. At(t, {"abort"}) /\ thread[t].request \in Requests /\ thread[t].id \in SendIds
    BY Fields DEF Aborts, At, Undone, ThreadPlaces
  <2>2. MovesSend(thread[t].id, "failed")
    BY <2>1 DEF Aborts, MovesSend, ShapesOK, SendRecords
  <2>3. ~(thread[t].id > sends) /\ send[thread[t].id].at = "none"
    BY <2>1 DEF IdInv, ShapesOK, SendIds, At, Undone
  <2>4. \/ /\ thread[t].kind = "reuse"
           /\ Marks(RequestInUse', RequestInUse, thread[t].request, FALSE) /\ UNCHANGED object
        \/ /\ thread[t].kind # "reuse"
           /\ Sets(object', object, thread[t].request, "deleted") /\ UNCHANGED RequestInUse
    BY DEF Aborts, Sets, Marks, ShapesOK
  <2> QED
    BY <1>0, <2>1, <2>2, <2>3, <2>4 DEF Aborts
<1>2. ShapesOK'
  <2>1. RequestInUse' \in [Requests -> BOOLEAN]
    BY DEF Aborts, ShapesOK
  <2>2. object' \in [Requests -> {"none", "live", "deleted"}]
    BY DEF Aborts, ShapesOK
  <2> QED
    BY <1>1, <2>1, <2>2 DEF ShapesOK, MovesThread, MovesSend
<1>3. IdInv'
  <2>1. ~At(t, Undone \cup Waiting)'
    BY <1>1 DEF At, Undone, Waiting, Leaving, MovesThread
  <2> QED
    BY <1>1, <2>1, Fields DEF IdInv, Undone, Waiting, Leaving, At, InState, MovesThread, MovesSend
<1>7. SynchronousInv'
  BY <1>1, Fields DEF SynchronousInv, Undone, Waiting, Leaving, At, InState, MovesThread, MovesSend
<1>4. ReuseInv' /\ ThreadUserInv' /\ SendUserInv' /\ OneUserInv'
  BY <1>1
  DEF ReuseInv, ThreadUserInv, SendUserInv, OneUserInv, Undone, Leaving, Out, ThreadUses, SendUses,
     ThreadReuses, SendReuses, At, InState, MovesThread, MovesSend, Sets, Marks
<1>5. CancelInv' /\ ListInv'
  BY <1>1, Fields
  DEF CancelInv, ListInv, Cancelling, Leaving, At, InState, Listable, MovesThread, MovesSend, Sets,
     Marks
<1>6. CountInv'
  BY <1>1, ThreadCount, SendCount
  DEF CountInv, Out, Leaving, At, InState, ThreadPlaces, Holding, SendHolds, MovesThread, MovesSend
<1> QED
  BY <1>2, <1>3, <1>4, <1>5, <1>6, <1>7

LEMMA DeletesMemoryPreserves ==
    ASSUME Inv, NEW t \in Threads, DeletesMemory(t)
    PROVE  Inv'
<1> USE RequestAssumption DEF Inv, collections, requestVars, sendVars, moduleVars
<1>1. /\ At(t, {"freed"}) /\ MovesThread(t, "leave") /\ KeepsThread(t)
      /\ UNCHANGED <<collections, RequestInUse, object, sendVars, moduleVars>>
  BY GotoMoves DEF DeletesMemory, At, Leaving
<1>2. ShapesOK'
  BY <1>1 DEF ShapesOK, MovesThread
<1>3. IdInv' /\ SynchronousInv'
  BY <1>1 DEF IdInv, SynchronousInv, Undone, Waiting, At, InState, MovesThread
<1>4. ReuseInv' /\ ThreadUserInv' /\ SendUserInv' /\ OneUserInv'
  BY <1>1
  DEF ReuseInv, ThreadUserInv, SendUserInv, OneUserInv, Undone, ThreadUses, SendUses,
     ThreadReuses, SendReuses, At, InState, MovesThread
<1>5. CancelInv' /\ ListInv'
  BY <1>1 DEF CancelInv, ListInv, Cancelling, At, InState, Listable, MovesThread
<1>6. CountInv'
  BY <1>1, ThreadCount, SameCounts DEF CountInv, At, ThreadPlaces, Holding, MovesThread
<1> QED
  BY <1>2, <1>3, <1>4, <1>5, <1>6

LEMMA SendReturnsPreserves ==
    ASSUME Inv, NEW t \in Threads, SendReturns(t)
    PROVE  Inv'
<1> USE RequestAssumption DEF Inv, collections, requestVars, sendVars, moduleVars
<1>1. /\ At(t, {"leave"}) /\ MovesThread(t, "idle")
      /\ references' = references - 1
      /\ UNCHANGED <<collections, requestVars, sendVars>>
  BY ReturnMoves DEF SendReturns, ModuleDereference
<1>2. ShapesOK'
  BY <1>1 DEF ShapesOK, MovesThread
<1>3. IdInv' /\ SynchronousInv'
  BY <1>1 DEF IdInv, SynchronousInv, Undone, Waiting, At, InState, MovesThread
<1>4. ReuseInv' /\ ThreadUserInv' /\ SendUserInv' /\ OneUserInv'
  BY <1>1
  DEF ReuseInv, ThreadUserInv, SendUserInv, OneUserInv, Undone, ThreadUses, SendUses,
     ThreadReuses, SendReuses, At, InState, MovesThread
<1>5. CancelInv' /\ ListInv'
  BY <1>1 DEF CancelInv, ListInv, Cancelling, At, InState, Listable, MovesThread
<1>6. CountInv'
  BY <1>1, HoldersAreFinite, ThreadCount, SameCounts
  DEF CountInv, At, ThreadPlaces, Holding, MovesThread
<1> QED
  BY <1>2, <1>3, <1>4, <1>5, <1>6

LEMMA SynchronousEndsPreserves ==
    ASSUME Inv, NEW t \in Threads, SynchronousEnds(t)
    PROVE  Inv'
<1> USE RequestAssumption DEF Inv, collections, requestVars, sendVars, moduleVars
<1>1. /\ At(t, {"finish"}) /\ MovesThread(t, "leave") /\ thread[t].request \in Requests
      /\ thread[t].id \in SendIds
      /\ MovesSend(thread[t].id, "done") /\ KeepsSend(thread[t].id)
      /\ Sets(object', object, thread[t].request, "deleted")
      /\ UNCHANGED <<collections, RequestInUse, sends, moduleVars>>
  <2>1. At(t, {"finish"}) /\ thread[t].request \in Requests /\ thread[t].id \in SendIds
    BY Fields DEF SynchronousEnds, At, Waiting, ThreadPlaces
  <2>2. InState(thread[t].id, {"target"})
    BY <2>1 DEF SynchronousInv, At, Waiting, InState
  <2>3. Advance(thread[t].id, "done")
    BY DEF SynchronousEnds, Advance
  <2>4. MovesSend(thread[t].id, "done") /\ KeepsSend(thread[t].id)
    BY <2>1, <2>2, <2>3, AdvanceMoves DEF InState, Out
  <2> QED
    BY <2>1, <2>4, GotoMoves DEF SynchronousEnds, Sets, ShapesOK, At, Waiting, Leaving
<1>2. ShapesOK'
  BY <1>1 DEF SynchronousEnds, ShapesOK, MovesThread, MovesSend
<1>3. IdInv' /\ SynchronousInv'
  BY <1>1, Fields
  DEF IdInv, SynchronousInv, Undone, Waiting, At, InState, MovesThread, MovesSend
<1>4. ReuseInv' /\ ThreadUserInv' /\ SendUserInv' /\ OneUserInv'
  BY <1>1, Fields
  DEF SynchronousInv, ReuseInv, ThreadUserInv, SendUserInv, OneUserInv, Undone, Waiting, Out,
     ThreadUses, SendUses, ThreadReuses, SendReuses, At, InState, MovesThread, MovesSend, Sets
<1>5. CancelInv'
  BY <1>1, Fields DEF CancelInv, Cancelling, At, MovesThread, Sets
<1>6. ListInv'
  <2>1. ASSUME NEW r, Listable(r) PROVE Listable(r)'
    <3>1. send[thread[t].id].kind = "synchronous"
      BY <1>1 DEF SynchronousInv, At, Waiting
    <3> QED
      BY <1>1, <2>1, <3>1 DEF Listable, At, InState, MovesThread, MovesSend
  <2> QED
    BY <1>1, <2>1 DEF ListInv
<1>7. CountInv'
  BY <1>1, ThreadCount, SendCount
  DEF SynchronousInv, CountInv, Waiting, At, ThreadPlaces, Holding, SendHolds, MovesThread,
     MovesSend, KeepsSend
<1> QED
  BY <1>2, <1>3, <1>4, <1>5, <1>6, <1>7

LEMMA CancelsSentRequestPreserves ==
    ASSUME Inv, NEW t \in Threads, CancelsSentRequest(t)
    PROVE  Inv'
<1> USE RequestAssumption DEF Inv, collections, requestVars, sendVars, moduleVars
<1>1. /\ At(t, {"cancel"}) /\ MovesThread(t, "release") /\ KeepsThread(t)
      /\ send' \in [SendIds -> SendRecords]
      /\ \A n \in SendIds : send'[n].at = send[n].at /\ KeepsSend(n)
      /\ UNCHANGED <<collections, requestVars, sends, moduleVars>>
  <2>1. ASSUME NEW n \in SendIds
        PROVE  send'[n] \in SendRecords /\ send'[n].at = send[n].at /\ KeepsSend(n)
    <3>1. CASE send[n].at = "target"
      <4>1. send[n] \in [at : Out \cup {"calling", "done"}, request : Requests,
                         kind : {"fresh", "synchronous", "reuse"}, cancelled : BOOLEAN]
        BY <3>1 DEF ShapesOK, SendRecords
      <4>2. [send[n] EXCEPT !.cancelled = TRUE] \in SendRecords
        BY <4>1 DEF SendRecords
      <4>3. send'[n] = send[n] \/ send'[n] = [send[n] EXCEPT !.cancelled = TRUE]
        BY DEF CancelsSentRequest
      <4> QED
        BY <4>1, <4>2, <4>3 DEF ShapesOK, KeepsSend
    <3>2. CASE send[n].at # "target"
      BY <3>2 DEF CancelsSentRequest, InState, ShapesOK, KeepsSend
    <3> QED
      BY <3>1, <3>2
  <2>2. send' \in [SendIds -> SendRecords]
    BY <2>1 DEF CancelsSentRequest
  <2> QED
    BY <2>1, <2>2, GotoMoves DEF CancelsSentRequest, At, Cancelling
<1>2. ShapesOK'
  BY <1>1 DEF ShapesOK, MovesThread
<1>3. IdInv' /\ SynchronousInv'
  BY <1>1, Fields
  DEF IdInv, SynchronousInv, Undone, Waiting, At, InState, MovesThread, KeepsSend
<1>4. ReuseInv' /\ ThreadUserInv' /\ SendUserInv' /\ OneUserInv'
  BY <1>1
  DEF ReuseInv, ThreadUserInv, SendUserInv, OneUserInv, Undone, ThreadUses, SendUses,
     ThreadReuses, SendReuses, At, InState, MovesThread, KeepsSend
<1>5. CancelInv' /\ ListInv'
  BY <1>1
  DEF CancelInv, ListInv, Cancelling, At, InState, Listable, MovesThread, KeepsThread,
     KeepsSend
<1>6. CountInv'
  BY <1>1, ThreadCount, SameCounts
  DEF CountInv, At, InState, ThreadPlaces, Holding, SendHolds, MovesThread, KeepsSend
<1> QED
  BY <1>2, <1>3, <1>4, <1>5, <1>6

LEMMA CancelReturnsPreserves ==
    ASSUME Inv, NEW t \in Threads, CancelReturns(t)
    PROVE  Inv'
<1> USE RequestAssumption DEF Inv, collections, requestVars, sendVars, moduleVars
<1>1. /\ At(t, {"release"}) /\ MovesThread(t, "idle")
      /\ references' = references - 1
      /\ UNCHANGED <<collections, requestVars, sendVars>>
  BY ReturnMoves DEF CancelReturns, ModuleDereference
<1>2. ShapesOK'
  BY <1>1 DEF ShapesOK, MovesThread
<1>3. IdInv' /\ SynchronousInv'
  BY <1>1 DEF IdInv, SynchronousInv, Undone, Waiting, At, InState, MovesThread
<1>4. ReuseInv' /\ ThreadUserInv' /\ SendUserInv' /\ OneUserInv'
  BY <1>1
  DEF ReuseInv, ThreadUserInv, SendUserInv, OneUserInv, Undone, ThreadUses, SendUses,
     ThreadReuses, SendReuses, At, InState, MovesThread
<1>5. CancelInv' /\ ListInv'
  BY <1>1 DEF CancelInv, ListInv, Cancelling, At, InState, Listable, MovesThread
<1>6. CountInv'
  BY <1>1, HoldersAreFinite, ThreadCount, SameCounts
  DEF CountInv, At, ThreadPlaces, Holding, MovesThread
<1> QED
  BY <1>2, <1>3, <1>4, <1>5, <1>6

LEMMA ReuseDeletesPreserves ==
    ASSUME Inv, NEW t \in Threads, ReuseDeletes(t)
    PROVE  Inv'
<1> USE RequestAssumption DEF Inv, collections, requestVars, sendVars, moduleVars
<1>1. /\ At(t, {"delete"}) /\ MovesThread(t, "idle") /\ thread[t].request \in Requests
      /\ PendingReuseRequests' = PendingReuseRequests \ {thread[t].request}
      /\ Sets(object', object, thread[t].request, "deleted")
      /\ UNCHANGED <<PendingAsynchronousRequests, RequestInUse, sendVars, moduleVars>>
  BY Fields, ReturnMoves DEF ReuseDeletes, At, ThreadPlaces, Sets, ShapesOK
<1>2. ShapesOK'
  BY <1>1 DEF ReuseDeletes, ShapesOK, MovesThread
<1>3. IdInv' /\ SynchronousInv'
  BY <1>1 DEF IdInv, SynchronousInv, Undone, Waiting, At, InState, MovesThread
<1>4. ReuseInv' /\ ThreadUserInv' /\ SendUserInv' /\ OneUserInv'
  BY <1>1
  DEF ReuseInv, ThreadUserInv, SendUserInv, OneUserInv, Undone, ThreadUses, SendUses,
     ThreadReuses, SendReuses, At, InState, MovesThread, Sets
<1>5. CancelInv' /\ ListInv'
  BY <1>1, Fields DEF CancelInv, ListInv, Cancelling, At, InState, Listable, MovesThread, Sets
<1>6. CountInv'
  BY <1>1, ThreadCount, SameCounts DEF CountInv, At, ThreadPlaces, Holding, MovesThread
<1> QED
  BY <1>2, <1>3, <1>4, <1>5, <1>6

LEMMA TargetCompletesPreserves ==
    ASSUME Inv, NEW n \in SendIds, TargetCompletes(n)
    PROVE  Inv'
<1> USE RequestAssumption DEF Inv, collections, requestVars, sendVars, moduleVars
<1>1. /\ InState(n, {"target"})
      /\ UNCHANGED <<collections, requestVars, sends, moduleVars>>
      /\ \/ /\ send[n].kind = "synchronous" /\ UNCHANGED send
            /\ \E t \in Threads : /\ At(t, {"wait"}) /\ thread[t].id = n
                                  /\ MovesThread(t, "finish") /\ KeepsThread(t)
         \/ /\ send[n].kind # "synchronous" /\ UNCHANGED thread /\ KeepsSend(n)
            /\ \E place \in {"queued", "completed"} : MovesSend(n, place)
  <2>1. CASE send[n].kind = "synchronous"
    BY <2>1, GotoMoves DEF TargetCompletes, At, Waiting
  <2>2. CASE send[n].kind # "synchronous"
    <3>1. PICK place \in {"queued", "completed"} : Advance(n, place)
      BY <2>2, Zenon DEF TargetCompletes
    <3>2. InState(n, Out)
      BY DEF TargetCompletes, InState, Out
    <3> QED
      BY <2>2, <3>1, <3>2, AdvanceMoves DEF TargetCompletes, InState, Out
  <2> QED
    BY <2>1, <2>2
<1>2. ShapesOK'
  BY <1>1 DEF ShapesOK, MovesThread, MovesSend
<1>3. IdInv' /\ SynchronousInv'
  BY <1>1, Fields
  DEF IdInv, SynchronousInv, Undone, Waiting, At, InState, MovesThread, KeepsThread,
     MovesSend, KeepsSend
<1>4. ReuseInv' /\ ThreadUserInv' /\ SendUserInv' /\ OneUserInv'
  BY <1>1, Fields
  DEF ReuseInv, ThreadUserInv, SendUserInv, OneUserInv, Undone, ThreadUses, SendUses,
     ThreadReuses, SendReuses, At, InState, MovesThread, MovesSend, KeepsSend
<1>5. CancelInv' /\ ListInv'
  BY <1>1
  DEF CancelInv, ListInv, Cancelling, At, InState, Listable, MovesThread, MovesSend, KeepsSend
<1>6. CountInv'
  BY <1>1, ThreadCount, SameCounts
  DEF CountInv, Out, At, InState, ThreadPlaces, Holding, SendHolds, MovesThread, MovesSend,
     KeepsSend
<1> QED
  BY <1>2, <1>3, <1>4, <1>5, <1>6

LEMMA WorkItemRunsPreserves ==
    ASSUME Inv, NEW n \in SendIds, WorkItemRuns(n)
    PROVE  Inv'
<1> USE RequestAssumption DEF Inv, collections, requestVars, sendVars, moduleVars
<1>1. /\ InState(n, {"queued"}) /\ send[n].request \in Requests
      /\ MovesSend(n, "completed") /\ KeepsSend(n)
      /\ UNCHANGED <<collections, requestVars, thread, sends, moduleVars>>
  BY Fields, AdvanceMoves
  DEF WorkItemRuns, InState, Out
<1>2. ShapesOK'
  BY <1>1 DEF ShapesOK, MovesSend
<1>3. IdInv' /\ SynchronousInv'
  BY <1>1, Fields DEF IdInv, SynchronousInv, At, InState, MovesSend, KeepsSend
<1>4. ReuseInv' /\ ThreadUserInv' /\ SendUserInv' /\ OneUserInv'
  BY <1>1, Fields
  DEF ReuseInv, ThreadUserInv, SendUserInv, OneUserInv, ThreadUses, SendUses, ThreadReuses,
     SendReuses, At, InState, MovesSend, KeepsSend
<1>5. CancelInv' /\ ListInv'
  BY <1>1 DEF CancelInv, ListInv, At, InState, Listable, MovesSend, KeepsSend
<1>6. CountInv'
  BY <1>1, SameCounts DEF CountInv, Out, InState, SendHolds, MovesSend, KeepsSend
<1> QED
  BY <1>2, <1>3, <1>4, <1>5, <1>6

LEMMA CompletionRemovesPreserves ==
    ASSUME Inv, NEW n \in SendIds, CompletionRemoves(n)
    PROVE  Inv'
<1> USE RequestAssumption DEF Inv, collections, requestVars, sendVars, moduleVars
<1>1. /\ InState(n, {"completed"}) /\ send[n].request \in Requests
      /\ MovesSend(n, "removed") /\ KeepsSend(n)
      /\ UNCHANGED <<PendingReuseRequests, requestVars, thread, sends, moduleVars>>
      /\ PendingAsynchronousRequests' =
           RemoveFirst(PendingAsynchronousRequests, send[n].request)
  BY Fields, AdvanceMoves
  DEF CompletionRemoves, InState, Out
<1>2. ShapesOK'
  BY <1>1 DEF ShapesOK, MovesSend
<1>3. IdInv' /\ SynchronousInv'
  BY <1>1, Fields DEF IdInv, SynchronousInv, At, InState, MovesSend, KeepsSend
<1>4. ReuseInv' /\ ThreadUserInv' /\ SendUserInv' /\ OneUserInv'
  BY <1>1, Fields
  DEF ReuseInv, ThreadUserInv, SendUserInv, OneUserInv, ThreadUses, SendUses, ThreadReuses,
     SendReuses, At, InState, MovesSend, KeepsSend
<1>5. CancelInv' /\ ListInv'
  BY <1>1, RemoveFirstOfDistinct
  DEF SendUserInv, CancelInv, ListInv, At, InState, Listable, MovesSend
<1>6. CountInv'
  BY <1>1, SameCounts DEF CountInv, Out, InState, SendHolds, MovesSend, KeepsSend
<1> QED
  BY <1>2, <1>3, <1>4, <1>5, <1>6

LEMMA CompletionFreesPreserves ==
    ASSUME Inv, NEW n \in SendIds, CompletionFrees(n)
    PROVE  Inv'
<1> USE RequestAssumption DEF Inv, collections, requestVars, sendVars, moduleVars
<1>1. /\ InState(n, {"removed"}) /\ send[n].request \in Requests
      /\ MovesSend(n, "calling") /\ KeepsSend(n)
      /\ UNCHANGED <<collections, object, thread, sends, moduleVars>>
      /\ \/ send[n].kind = "reuse" /\ Marks(RequestInUse', RequestInUse, send[n].request, FALSE)
         \/ send[n].kind # "reuse" /\ UNCHANGED RequestInUse
  BY Fields, AdvanceMoves
  DEF CompletionFrees, InState, Out, Marks, ShapesOK
<1>2. ShapesOK'
  BY <1>1 DEF CompletionFrees, ShapesOK, MovesSend
<1>3. IdInv' /\ SynchronousInv'
  BY <1>1, Fields DEF IdInv, SynchronousInv, At, InState, MovesSend, KeepsSend
<1>4. ReuseInv' /\ ThreadUserInv' /\ SendUserInv' /\ OneUserInv'
  BY <1>1, Fields
  DEF ReuseInv, ThreadUserInv, SendUserInv, OneUserInv, Out, ThreadUses, SendUses,
     ThreadReuses, SendReuses, At, InState, MovesSend, KeepsSend, Marks
<1>5. CancelInv' /\ ListInv'
  BY <1>1 DEF CancelInv, ListInv, At, InState, Listable, MovesSend
<1>6. CountInv'
  BY <1>1, Fields, SameCounts DEF CountInv, InState, SendHolds, MovesSend, KeepsSend
<1> QED
  BY <1>2, <1>3, <1>4, <1>5, <1>6

LEMMA CallbackReturnsPreserves ==
    ASSUME Inv, NEW n \in SendIds, CallbackReturns(n)
    PROVE  Inv'
<1> USE RequestAssumption DEF Inv, collections, requestVars, sendVars, moduleVars
<1>1. /\ InState(n, {"calling"}) /\ send[n].request \in Requests
      /\ MovesSend(n, "done") /\ KeepsSend(n)
      /\ UNCHANGED <<collections, RequestInUse, thread, sends>>
      /\ references' = references - 1
      /\ \/ send[n].kind = "reuse" /\ UNCHANGED object
         \/ send[n].kind # "reuse" /\ Sets(object', object, send[n].request, "deleted")
  BY Fields, AdvanceMoves
  DEF CallbackReturns, InState, Out, Sets, ShapesOK, ModuleDereference
<1>2. ShapesOK'
  BY <1>1 DEF CallbackReturns, ShapesOK, MovesSend
<1>3. IdInv' /\ SynchronousInv'
  BY <1>1, Fields DEF IdInv, SynchronousInv, At, InState, MovesSend
<1>4. ReuseInv' /\ ThreadUserInv' /\ SendUserInv' /\ OneUserInv'
  BY <1>1, Fields
  DEF SynchronousInv, ReuseInv, ThreadUserInv, SendUserInv, OneUserInv, Out, ThreadUses,
     SendUses, ThreadReuses, SendReuses, At, InState, MovesSend, Sets
<1>5. CancelInv' /\ ListInv'
  BY <1>1, Fields DEF CancelInv, ListInv, Cancelling, At, InState, Listable, MovesSend, Sets
<1>6. CountInv'
  BY <1>1, HoldersAreFinite, SendCount, SameCounts
  DEF SynchronousInv, CountInv, Out, InState, SendHolds, MovesSend
<1> QED
  BY <1>2, <1>3, <1>4, <1>5, <1>6

LEMMA CancelSearchesPreserves ==
    ASSUME Inv, NEW t \in Threads, NEW n \in SendIds, CancelSearches(t, n)
    PROVE  Inv'
<1> USE RequestAssumption DEF Inv, collections, requestVars, sendVars, moduleVars
<1>1. /\ At(t, {"idle"}) /\ MovesThread(t, "cancel")
      /\ thread'[t].request \in Requests
      /\ thread'[t].request \in ToSet(PendingAsynchronousRequests)
      /\ references' = references + 1
      /\ UNCHANGED <<collections, requestVars, send, sends>>
  <2>1. PICK r \in Requests :
          /\ IsFound(r, n)
          /\ thread' = [thread EXCEPT ![t] = [at |-> "cancel", id |-> n, request |-> r,
                                              holds |-> TRUE]]
    BY DEF CancelSearches
  <2>2. MovesThread(t, "cancel") /\ thread'[t].request = r
    BY <2>1 DEF MovesThread, ShapesOK, ThreadRecords, Cancelling
  <2> QED
    BY <2>1, <2>2 DEF CancelSearches, ModuleReference, IsFound
<1>2. ShapesOK'
  BY <1>1 DEF ShapesOK, MovesThread
<1>3. IdInv' /\ SynchronousInv'
  BY <1>1 DEF IdInv, SynchronousInv, Undone, Waiting, At, InState, MovesThread
<1>4. ReuseInv' /\ ThreadUserInv' /\ SendUserInv' /\ OneUserInv'
  BY <1>1
  DEF ReuseInv, ThreadUserInv, SendUserInv, OneUserInv, Undone, ThreadUses, SendUses,
     ThreadReuses, SendReuses, At, InState, MovesThread
<1>5. CancelInv' /\ ListInv'
  BY <1>1, Fields
  DEF ThreadUserInv, SendUserInv, CancelInv, ListInv, Undone, ThreadUses, SendUses, At,
     InState, Listable, MovesThread
<1>6. CountInv'
  BY <1>1, HoldersAreFinite, ThreadCount, SameCounts
  DEF CountInv, At, ThreadPlaces, Holding, MovesThread
<1> QED
  BY <1>2, <1>3, <1>4, <1>5, <1>6

LEMMA ReuseCreatePreserves ==
    ASSUME Inv, NEW r \in Requests, ReuseCreate(r)
    PROVE  Inv'
<1> USE RequestAssumption DEF Inv, collections, requestVars, sendVars, moduleVars
<1>1. /\ object[r] # "live"
      /\ Marks(RequestInUse', RequestInUse, r, FALSE) /\ Sets(object', object, r, "live")
      /\ PendingReuseRequests' = PendingReuseRequests \cup {r}
      /\ UNCHANGED <<PendingAsynchronousRequests, thread, sendVars, moduleVars>>
  BY DEF ReuseCreate, CreateRequest, Exists, Sets, Marks, ShapesOK
<1>2. ShapesOK'
  BY <1>1 DEF ReuseCreate, ShapesOK, CreateRequest
<1>3. IdInv' /\ SynchronousInv'
  BY <1>1 DEF IdInv, SynchronousInv, At, InState
<1>4. ReuseInv' /\ ThreadUserInv' /\ SendUserInv' /\ OneUserInv'
  BY <1>1
  DEF ReuseInv, ThreadUserInv, SendUserInv, OneUserInv, ThreadUses, SendUses, ThreadReuses,
     SendReuses, At, InState, Sets, Marks
<1>5. CancelInv' /\ ListInv'
  BY <1>1, Fields DEF CancelInv, ListInv, Cancelling, At, InState, Listable, Sets
<1>6. CountInv'
  BY <1>1, SameCounts DEF CountInv
<1> QED
  BY <1>2, <1>3, <1>4, <1>5, <1>6

LEMMA ReuseDeleteSearchesPreserves ==
    ASSUME Inv, NEW t \in Threads, NEW r \in Requests, ReuseDeleteSearches(t, r)
    PROVE  Inv'
<1> USE RequestAssumption DEF Inv, collections, requestVars, sendVars, moduleVars
<1>1. /\ At(t, {"idle"}) /\ MovesThread(t, "delete") /\ thread'[t].request = r
      /\ r \in PendingReuseRequests /\ ~RequestInUse[r]
      /\ Marks(RequestInUse', RequestInUse, r, TRUE)
      /\ UNCHANGED <<collections, object, sendVars, moduleVars>>
  <2>1. MovesThread(t, "delete") /\ thread'[t].request = r
    BY DEF ReuseDeleteSearches, MovesThread, ShapesOK, ThreadRecords
  <2> QED
    BY <2>1 DEF ReuseDeleteSearches, ReuseListSearch, Marks, ShapesOK
<1>2. ShapesOK'
  BY <1>1 DEF ReuseDeleteSearches, ShapesOK, MovesThread, ReuseListSearch
<1>3. IdInv' /\ SynchronousInv'
  BY <1>1 DEF IdInv, SynchronousInv, Undone, Waiting, At, InState, MovesThread
<1>4. ReuseInv' /\ ThreadUserInv' /\ SendUserInv' /\ OneUserInv'
  BY <1>1
  DEF ReuseInv, ThreadUserInv, SendUserInv, OneUserInv, ThreadUses, SendUses, ThreadReuses,
     SendReuses, At, InState, MovesThread, Marks
<1>5. CancelInv' /\ ListInv'
  BY <1>1 DEF CancelInv, ListInv, Cancelling, At, InState, Listable, MovesThread
<1>6. CountInv'
  BY <1>1, ThreadCount, SameCounts DEF CountInv, At, ThreadPlaces, Holding, MovesThread
<1> QED
  BY <1>2, <1>3, <1>4, <1>5, <1>6

LEMMA CloseBeginsPreserves ==
    ASSUME Inv, CloseBegins
    PROVE  Inv'
<1> USE RequestAssumption DEF Inv, collections, requestVars, sendVars, moduleVars
<1>1. UNCHANGED <<collections, requestVars, thread, sendVars, references>>
  BY DEF CloseBegins
<1>2. ShapesOK'
  BY <1>1 DEF ShapesOK
<1>3. IdInv' /\ SynchronousInv'
  BY <1>1 DEF IdInv, SynchronousInv, At, InState
<1>4. ReuseInv' /\ ThreadUserInv' /\ SendUserInv' /\ OneUserInv'
  BY <1>1
  DEF ReuseInv, ThreadUserInv, SendUserInv, OneUserInv, ThreadUses, SendUses, ThreadReuses,
     SendReuses, At, InState
<1>5. CancelInv' /\ ListInv'
  BY <1>1 DEF CancelInv, ListInv, At, InState, Listable
<1>6. CountInv'
  BY <1>1, SameCounts DEF CountInv
<1> QED
  BY <1>2, <1>3, <1>4, <1>5, <1>6

LEMMA ClosePreserves ==
    ASSUME Inv, Close
    PROVE  Inv'
<1> USE RequestAssumption DEF Inv, collections, requestVars, sendVars, moduleVars
<1>1. UNCHANGED <<collections, requestVars, thread, sendVars, references>>
  BY DEF Close
<1>2. ShapesOK'
  BY <1>1 DEF ShapesOK
<1>3. IdInv' /\ SynchronousInv'
  BY <1>1 DEF IdInv, SynchronousInv, At, InState
<1>4. ReuseInv' /\ ThreadUserInv' /\ SendUserInv' /\ OneUserInv'
  BY <1>1
  DEF ReuseInv, ThreadUserInv, SendUserInv, OneUserInv, ThreadUses, SendUses, ThreadReuses,
     SendReuses, At, InState
<1>5. CancelInv' /\ ListInv'
  BY <1>1 DEF CancelInv, ListInv, At, InState, Listable
<1>6. CountInv'
  BY <1>1, SameCounts DEF CountInv
<1> QED
  BY <1>2, <1>3, <1>4, <1>5, <1>6

-----------------------------------------------------------------------------
LEMMA InitEstablishes == Init => Inv
<1> SUFFICES ASSUME Init PROVE Inv
  OBVIOUS
<1> USE RequestAssumption DEF Init
<1>1. /\ \A t \in Threads : thread[t].at = "idle"
      /\ \A n \in SendIds : send[n].at = "none"
  BY DEF Idle
<1>2. ShapesOK
  BY DEF ShapesOK, ThreadRecords, SendRecords, Idle
<1>3. IdInv /\ SynchronousInv
  BY <1>1 DEF IdInv, SynchronousInv, At, InState, Undone, Waiting
<1>4. ReuseInv /\ ThreadUserInv /\ SendUserInv /\ OneUserInv
  BY <1>1 DEF ReuseInv, ThreadUserInv, SendUserInv, OneUserInv, ThreadUses, SendUses, At, InState,
     Undone, Out
<1>5. CancelInv /\ ListInv
  BY <1>1 DEF CancelInv, ListInv, Distinct, ToSet, At, Cancelling
<1>6. CountInv
  <2>1. ThreadHolders = {} /\ SendHolders = {}
    BY <1>1 DEF ThreadHolders, SendHolders, SendHolds, At, InState, Holding, ThreadPlaces, Out
  <2> QED
    BY <2>1, FS_EmptySet DEF CountInv
<1> QED
  BY <1>2, <1>3, <1>4, <1>5, <1>6 DEF Inv

LEMMA StutterPreserves == ASSUME Inv, UNCHANGED vars PROVE Inv'
<1> USE DEF Inv, vars, collections, requestVars, sendVars, moduleVars
<1>1. ShapesOK' /\ IdInv' /\ SynchronousInv'
  BY DEF ShapesOK, IdInv, SynchronousInv, At, InState
<1>2. ReuseInv' /\ ThreadUserInv' /\ SendUserInv' /\ OneUserInv'
  BY DEF ReuseInv, ThreadUserInv, SendUserInv, OneUserInv, ThreadUses, SendUses, ThreadReuses,
     SendReuses, At, InState
<1>3. CancelInv' /\ ListInv'
  BY DEF CancelInv, ListInv, Listable, At, InState
<1>4. CountInv'
  BY SameCounts DEF CountInv
<1> QED
  BY <1>1, <1>2, <1>3, <1>4

LEMMA NextPreserves == Inv /\ [Next]_vars => Inv'
<1> SUFFICES ASSUME Inv, [Next]_vars PROVE Inv'
  OBVIOUS
<1>1. ASSUME NEW t \in Threads, NEW kind \in Kinds, NEW r \in Requests,
             NEW cancellable \in BOOLEAN, kind = "synchronous" => ~cancellable,
             SendBegins(t, kind, r, cancellable)
      PROVE  Inv'
  BY <1>1, SendBeginsPreserves
<1>2. ASSUME NEW t \in Threads, SendStep(t) PROVE Inv'
  BY <1>2, PreparesPreserves, PrepareFailsPreserves, TimerFailsPreserves, SendsPreserves,
     SendFailsPreserves, AbortsPreserves, DeletesMemoryPreserves, SynchronousEndsPreserves,
     SendReturnsPreserves DEF SendStep
<1>3. ASSUME NEW t \in Threads, NEW n \in SendIds, CancelSearches(t, n) PROVE Inv'
  BY <1>3, CancelSearchesPreserves
<1>4. ASSUME NEW t \in Threads, NEW r \in Requests, ReuseDeleteSearches(t, r) PROVE Inv'
  BY <1>4, ReuseDeleteSearchesPreserves
<1>5. ASSUME NEW t \in Threads, OtherStep(t) PROVE Inv'
  BY <1>5, CancelsSentRequestPreserves, CancelReturnsPreserves, ReuseDeletesPreserves
  DEF OtherStep
<1>6. ASSUME NEW n \in SendIds, CompletionStep(n) PROVE Inv'
  BY <1>6, TargetCompletesPreserves, WorkItemRunsPreserves, CompletionRemovesPreserves,
     CompletionFreesPreserves, CallbackReturnsPreserves DEF CompletionStep
<1>7. ASSUME NEW r \in Requests, ReuseCreate(r) PROVE Inv'
  BY <1>7, ReuseCreatePreserves
<1>8. CASE CloseBegins \/ Close
  BY <1>8, CloseBeginsPreserves, ClosePreserves
<1>9. CASE UNCHANGED vars
  BY <1>9, StutterPreserves
<1> QED
  BY <1>1, <1>2, <1>3, <1>4, <1>5, <1>6, <1>7, <1>8, <1>9 DEF Next

LEMMA Invariance == Spec => []Inv
BY InitEstablishes, NextPreserves, PTL DEF Spec

-----------------------------------------------------------------------------
LEMMA OneUserFollows == Inv => RequestHasOneUser
<1> SUFFICES ASSUME Inv, NEW r \in Requests PROVE Cardinality(Users(r)) <= 1
  BY DEF RequestHasOneUser
<1>1. ASSUME NEW x \in Users(r), NEW y \in Users(r) PROVE x = y
  <2>1. ASSUME NEW u \in Users(r)
        PROVE  \/ \E t \in Threads : ThreadUses(t, r) /\ u = <<"thread", t>>
               \/ \E n \in SendIds : SendUses(n, r) /\ u = <<"send", n>>
    BY DEF Users, ThreadUses, SendUses, Undone, Out, At, InState
  <2>2. /\ \A t1, t2 \in Threads : ThreadUses(t1, r) /\ ThreadUses(t2, r) => t1 = t2
        /\ \A n1, n2 \in SendIds : SendUses(n1, r) /\ SendUses(n2, r) => n1 = n2
        /\ \A t \in Threads, n \in SendIds : ~(ThreadUses(t, r) /\ SendUses(n, r))
    BY DEF Inv, OneUserInv
  <2> QED
    BY <2>1, <2>2, Zenon
<1>2. CASE Users(r) = {}
  BY <1>2, FS_EmptySet
<1>3. CASE Users(r) # {}
  <2>1. PICK x \in Users(r) : TRUE
    BY <1>3
  <2>2. Users(r) = {x}
    BY <1>1, <2>1, Zenon
  <2> QED
    BY <2>2, FS_Singleton
<1> QED
  BY <1>2, <1>3

\* A request has one user at a time, from the search that marks it until the
\* completion or the failure that gives it back (DMF_RequestTarget_ReuseSend,
\* ReuseDelete and the completion routines), for any set of requests, threads
\* and kinds of sends, and whatever fails.
THEOREM HasOneUser == Spec => []RequestHasOneUser
<1>1. Inv => RequestHasOneUser
  BY OneUserFollows
<1> QED
  BY <1>1, Invariance, PTL

LEMMA AliveFollows == ASSUME "timerOfListed" \notin Failures, Inv PROVE RequestsAreAlive
<1> USE DEF Inv
<1>1. ASSUME NEW t \in Threads, At(t, {"prepare", "send", "abort", "wait", "finish", "delete"})
      PROVE  object[thread[t].request] = "live"
  <2>1. CASE At(t, Undone \cup {"delete"})
    BY <2>1, Fields DEF ThreadUserInv, ThreadUses, At, Undone, ThreadPlaces
  <2>2. CASE At(t, Waiting)
    <3>1. /\ thread[t].id \in SendIds /\ send[thread[t].id].at = "target"
          /\ send[thread[t].id].request = thread[t].request /\ thread[t].request \in Requests
      BY <2>2, Fields DEF SynchronousInv, At, Waiting, ThreadPlaces
    <3> QED
      BY <3>1 DEF SendUserInv, SendUses, InState, Out
  <2> QED
    BY <1>1, <2>1, <2>2 DEF At, ThreadPlaces, Undone, Waiting
<1>2. ASSUME NEW t \in Threads, At(t, {"cancel", "release"})
      PROVE  Exists(thread[t].request)
  <2>1. thread[t].request \in Requests /\ thread[t].holds /\ object[thread[t].request] # "none"
    BY <1>2, Fields DEF CancelInv, At, Cancelling, ThreadPlaces
  <2> QED
    BY <1>2, <2>1 DEF Exists, Referenced, ShapesOK
<1>3. ASSUME NEW n \in SendIds,
             InState(n, Out) \/ (InState(n, {"calling"}) /\ send[n].kind = "fresh")
      PROVE  object[send[n].request] = "live"
  BY <1>3, Fields DEF SendUserInv, SendUses, InState, Out
<1>4. TouchesLiveRequest
  BY <1>1, <1>2, <1>3 DEF TouchesLiveRequest, InState, Out
<1>5. ASSUME references = 0
      PROVE  /\ PendingAsynchronousRequests = <<>>
             /\ \A n \in SendIds : InState(n, {"none", "failed", "done"})
  <2>1. Cardinality(ThreadHolders) = 0 /\ Cardinality(SendHolders) = 0
    BY <1>5, HoldersAreFinite DEF CountInv
  <2>2. ThreadHolders = {} /\ SendHolders = {}
    BY <2>1, HoldersAreFinite, FS_EmptySet
  <2>3. /\ \A t \in Threads : ~At(t, Holding)
        /\ \A n \in SendIds : ~SendHolds(n)
    BY <2>2 DEF ThreadHolders, SendHolders
  <2>4. ASSUME NEW r PROVE ~Listable(r)
    BY <2>3 DEF Listable, SendHolds, At, InState, Holding, ThreadPlaces, Out
  <2>5. PendingAsynchronousRequests = <<>>
    BY <2>4 DEF ListInv, ToSet
  <2>6. ASSUME NEW n \in SendIds PROVE InState(n, {"none", "failed", "done"})
    BY <2>3, Fields
    DEF SynchronousInv, SendHolds, At, InState, Holding, ThreadPlaces, Out, Waiting
  <2> QED
    BY <2>5, <2>6
<1> QED
  BY <1>4, <1>5 DEF RequestsAreAlive, CloseFindsNoRequest

\* From the sender, up to its send or to the step that gives the request back, to
\* Close whoever comes to a request finds it alive, a thread
\* that cancels finds at least its memory, and when the last reference to the
\* Module has gone no request is out or listed (what DMF_RequestTarget_Close
\* asserts): unless the timer of a listed request cannot be allocated.
THEOREM StaysAlive == "timerOfListed" \notin Failures => (Spec => []RequestsAreAlive)
<1> SUFFICES ASSUME "timerOfListed" \notin Failures PROVE Spec => []RequestsAreAlive
  OBVIOUS
<1>1. Inv => RequestsAreAlive
  BY AliveFollows
<1> QED
  BY <1>1, Invariance, PTL

-----------------------------------------------------------------------------
(* DMF_ContinuousRequestTarget. Where a request of the streams is: with a   *)
(* sender, or from the send to the end of its completion.                   *)

AtSend == {"send", "acquire", "acquired", "failed", "refused"}
InFlight == {"target", "queued", "completed", "callback", "ending"}
BufferPlaces == {"target", "queued", "completed", "callback"}
SentPlaces == {"acquire", "acquired", "failed"} \cup InFlight

Acquired == {r \in StreamRequests : request[r] = "acquired"}
WithBuffer == {r \in StreamRequests : request[r] \in BufferPlaces}

\* Each of these has taken a reference that it or a completion routine returns;
\* a request that is sent again has two, its routine's and that of the send.
Sent == {r \in StreamRequests : request[r] \in SentPlaces}
Resent == {r \in StreamRequests : request[r] \in AtSend /\ sender[r] = "completion"}
Removing == {p \in StreamRequests \X Nat : p[2] \in 1 .. setting[p[1]] + removing[p[1]]}

One(b) == IF b THEN 1 ELSE 0

\* The Client's thread is inside Start or StopAndWait.
ClientBusy == client \in {"starting", "sending", "releasing", "reducing", "setting", "rundown",
                          "cancelling", "signalling", "waiting"}

StreamShapes ==
    /\ mode \in Modes
    /\ Stopping \in BOOLEAN /\ event \in BOOLEAN /\ early \in BOOLEAN
    /\ isClosing \in BOOLEAN /\ waits \in BOOLEAN
    /\ TransientStreamRequestsCollection \in [StreamRequests -> Int]
    /\ rundown \in [open : BOOLEAN, count : Int]
    /\ request \in [StreamRequests -> Places]
    /\ cancelled \subseteq StreamRequests
    /\ sender \in [StreamRequests -> {"start", "completion"}]
    /\ releasing \in Nat /\ leaving \in Nat
    /\ setting \in [StreamRequests -> Nat] /\ removing \in [StreamRequests -> Nat]
    /\ PendingStreamingRequests \in Int /\ streamReferences \in Int
    /\ buffers \in Int /\ clientBuffers \in 0 .. MaxClientBuffers
    /\ StreamingRequestCount \in Int /\ (mode = "user" => StreamingRequestCount \in Nat)
    /\ client \in {"stopped", "starting", "sending", "releasing", "reducing", "setting",
                   "running", "rundown", "cancelling", "signalling", "waiting", "failed",
                   "closed"}
    /\ index \in 1 .. ContinuousRequestCount + 1

\* Start sends one request at a time, in the order of the collection.
LoopInv ==
    /\ client \in {"sending", "releasing"} => index \in StreamRequests
    /\ client = "sending" => request[index] \in AtSend /\ sender[index] = "start"
    /\ \A r \in StreamRequests :
         request[r] \in AtSend /\ sender[r] = "start" => client = "sending" /\ r = index
    /\ \A r \in Unstarted : request[r] = "idle"

\* While the Module closes the Client does nothing; after StopAndWait nothing is out,
\* if the event was not set too early.
ClientInv ==
    /\ isClosing => client \in {"stopped", "failed", "closed"}
    /\ client = "closed" \/ (client = "stopped" /\ ~early) => Streams = {} /\ releasing = 0

\* Who has acquired the rundown; it stays run down until the next Start.
RundownInv ==
    /\ rundown.count = Cardinality(Acquired) + releasing + One(client = "releasing")
    /\ mode # "user" /\ client \in {"cancelling", "signalling", "waiting", "failed", "stopped",
                                    "closed"}
         => ~rundown.open /\ rundown.count = 0

StreamBuffersInv == buffers = clientBuffers + Cardinality(WithBuffer)

\* When no stream is left the event is set, or somebody is about to set it; while one
\* is left only a late routine sets it.
Setting == client = "setting" \/ \E r \in StreamRequests : setting[r] > 0

StreamCountInv ==
    mode # "user" => /\ StreamingRequestCount = Cardinality(Streams \cup Unstarted)
                     /\ StreamingRequestCount = 0 => event \/ Setting
                     /\ event /\ StreamingRequestCount # 0 => early

\* A request is in the collection while it is out, and once for each routine
\* that has yet to remove it.
TransientInv ==
    \A r \in StreamRequests :
       TransientStreamRequestsCollection[r] =
         setting[r] + removing[r] + One(request[r] # "idle")

PendingInv ==
    /\ IsFiniteSet(Removing)
    /\ PendingStreamingRequests =
         Cardinality(Sent) + Cardinality(Resent) + releasing + leaving + Cardinality(Removing)
    /\ streamReferences = PendingStreamingRequests + One(ClientBusy)

StreamsInv ==
    /\ StreamShapes /\ LoopInv /\ ClientInv /\ RundownInv /\ StreamBuffersInv
    /\ StreamCountInv /\ TransientInv /\ PendingInv

-----------------------------------------------------------------------------
(* Counting requests.                                                       *)

LEMMA StreamRequestsAreFinite ==
    /\ IsFiniteSet(StreamRequests) /\ Cardinality(StreamRequests) = ContinuousRequestCount
    /\ \A S : S \subseteq StreamRequests => IsFiniteSet(S) /\ Cardinality(S) \in Nat
<1>1. IsFiniteSet(StreamRequests) /\ Cardinality(StreamRequests) = ContinuousRequestCount
  BY StreamAssumption, FS_Interval DEF StreamRequests
<1> QED BY <1>1, FS_Subset, FS_CardinalityType

\* A set of requests that changes by one of them at most.
LEMMA CountChanges ==
    ASSUME NEW S, S \subseteq StreamRequests, NEW T, T \subseteq StreamRequests,
           NEW r \in StreamRequests,
           \A q \in StreamRequests \ {r} : q \in S <=> q \in T
    PROVE  Cardinality(T) = Cardinality(S) - One(r \in S) + One(r \in T)
<1>1. IsFiniteSet(S) /\ IsFiniteSet(T) /\ Cardinality(S) \in Nat /\ Cardinality(T) \in Nat
  BY StreamRequestsAreFinite
<1>2. CASE r \in S /\ r \in T
  <2>1. S = T
    BY <1>2
  <2> QED BY <1>1, <1>2, <2>1 DEF One
<1>3. CASE r \notin S /\ r \notin T
  <2>1. S = T
    BY <1>3
  <2> QED BY <1>1, <1>3, <2>1 DEF One
<1>4. CASE r \in S /\ r \notin T
  <2>1. T = S \ {r}
    BY <1>4
  <2>2. Cardinality(T) = Cardinality(S) - 1
    BY <1>1, <1>4, <2>1, FS_RemoveElement
  <2> QED BY <1>1, <1>4, <2>2 DEF One
<1>5. CASE r \notin S /\ r \in T
  <2>1. T = S \cup {r}
    BY <1>5
  <2>2. Cardinality(T) = Cardinality(S) + 1
    BY <1>1, <1>5, <2>1, FS_AddElement
  <2> QED BY <1>1, <1>5, <2>2 DEF One
<1> QED BY <1>2, <1>3, <1>4, <1>5

\* One request moves.
LEMMA RequestMoves ==
    ASSUME NEW r \in StreamRequests,
           \A q \in StreamRequests \ {r} : request'[q] = request[q] /\ sender'[q] = sender[q]
    PROVE  /\ Cardinality(Acquired') = Cardinality(Acquired)
                - One(request[r] = "acquired") + One(request'[r] = "acquired")
           /\ Cardinality(WithBuffer') = Cardinality(WithBuffer)
                - One(request[r] \in BufferPlaces) + One(request'[r] \in BufferPlaces)
           /\ Cardinality(Sent') = Cardinality(Sent)
                - One(request[r] \in SentPlaces) + One(request'[r] \in SentPlaces)
           /\ Cardinality(Resent') = Cardinality(Resent)
                - One(request[r] \in AtSend /\ sender[r] = "completion")
                + One(request'[r] \in AtSend /\ sender'[r] = "completion")
<1>1. Cardinality(Acquired') = Cardinality(Acquired) - One(r \in Acquired) + One(r \in Acquired')
  <2>1. \A q \in StreamRequests \ {r} : q \in Acquired <=> q \in Acquired'
    BY DEF Acquired
  <2>2. Acquired \subseteq StreamRequests /\ Acquired' \subseteq StreamRequests
    BY DEF Acquired
  <2> QED BY <2>1, <2>2, CountChanges
<1>2. Cardinality(WithBuffer') =
        Cardinality(WithBuffer) - One(r \in WithBuffer) + One(r \in WithBuffer')
  <2>1. \A q \in StreamRequests \ {r} : q \in WithBuffer <=> q \in WithBuffer'
    BY DEF WithBuffer
  <2>2. WithBuffer \subseteq StreamRequests /\ WithBuffer' \subseteq StreamRequests
    BY DEF WithBuffer
  <2> QED BY <2>1, <2>2, CountChanges
<1>3. Cardinality(Sent') = Cardinality(Sent) - One(r \in Sent) + One(r \in Sent')
  <2>1. \A q \in StreamRequests \ {r} : q \in Sent <=> q \in Sent'
    BY DEF Sent
  <2>2. Sent \subseteq StreamRequests /\ Sent' \subseteq StreamRequests
    BY DEF Sent
  <2> QED BY <2>1, <2>2, CountChanges
<1>4. Cardinality(Resent') = Cardinality(Resent) - One(r \in Resent) + One(r \in Resent')
  <2>1. \A q \in StreamRequests \ {r} : q \in Resent <=> q \in Resent'
    BY DEF Resent
  <2>2. Resent \subseteq StreamRequests /\ Resent' \subseteq StreamRequests
    BY DEF Resent
  <2> QED BY <2>1, <2>2, CountChanges
<1>5. /\ r \in Acquired <=> request[r] = "acquired"
      /\ r \in Acquired' <=> request'[r] = "acquired"
      /\ r \in WithBuffer <=> request[r] \in BufferPlaces
      /\ r \in WithBuffer' <=> request'[r] \in BufferPlaces
      /\ r \in Sent <=> request[r] \in SentPlaces
      /\ r \in Sent' <=> request'[r] \in SentPlaces
      /\ r \in Resent <=> request[r] \in AtSend /\ sender[r] = "completion"
      /\ r \in Resent' <=> request'[r] \in AtSend /\ sender'[r] = "completion"
  BY DEF Acquired, WithBuffer, Sent, Resent
<1> QED BY <1>1, <1>2, <1>3, <1>4, <1>5 DEF One

\* None moves.
LEMMA RequestsStay ==
    ASSUME UNCHANGED <<request, sender>>
    PROVE  UNCHANGED <<Acquired, WithBuffer, Sent, Resent, Streams>>
BY DEF Acquired, WithBuffer, Sent, Resent, Streams

\* All of them can be counted.
LEMMA CountsAreNatural ==
    /\ Cardinality(Acquired) \in Nat /\ Cardinality(WithBuffer) \in Nat
    /\ Cardinality(Sent) \in Nat /\ Cardinality(Resent) \in Nat
    /\ Cardinality(Streams \cup Unstarted) \in Nat
    /\ IsFiniteSet(Removing) => Cardinality(Removing) \in Nat
    /\ \A b \in BOOLEAN : One(b) \in {0, 1}
<1>1. /\ Acquired \subseteq StreamRequests /\ WithBuffer \subseteq StreamRequests
      /\ Sent \subseteq StreamRequests /\ Resent \subseteq StreamRequests
      /\ Streams \cup Unstarted \subseteq StreamRequests
  BY DEF Acquired, WithBuffer, Sent, Resent, Streams, Unstarted
<1> QED BY <1>1, StreamRequestsAreFinite, FS_CardinalityType DEF One

-----------------------------------------------------------------------------
(* Steps of one request.                                                    *)

\* A request goes on, and its sender stays the one it was: the loop of Start,
\* the streams and their collection stay as they are.
LEMMA RequestGoesOn ==
    ASSUME StreamsInv, NEW r \in StreamRequests, request[r] # "idle", request'[r] # "idle",
           \A q \in StreamRequests \ {r} : request'[q] = request[q] /\ sender'[q] = sender[q],
           (request'[r] \in AtSend /\ sender'[r] = "start") <=>
               (request[r] \in AtSend /\ sender[r] = "start"),
           UNCHANGED <<mode, client, index, isClosing, StreamingRequestCount, event, early,
                       setting, removing, TransientStreamRequestsCollection>>
    PROVE  LoopInv' /\ ClientInv' /\ StreamCountInv' /\ TransientInv'
<1> USE DEF StreamsInv
<1>1. Streams' = Streams /\ Unstarted' = Unstarted
  BY DEF Streams, Unstarted
<1>2. LoopInv'
  <2>1. client = "sending" => request'[index] \in AtSend /\ sender'[index] = "start"
    <3>1. CASE index = r
      BY <3>1 DEF LoopInv
    <3>2. CASE index # r
      BY <3>2 DEF LoopInv
    <3> QED BY <3>1, <3>2
  <2>2. \A q \in StreamRequests :
          request'[q] \in AtSend /\ sender'[q] = "start" => client = "sending" /\ q = index
    BY DEF LoopInv
  <2>3. \A q \in Unstarted : request'[q] = "idle"
    BY DEF LoopInv, Unstarted
  <2> QED BY <1>1, <2>1, <2>2, <2>3 DEF LoopInv
<1>3. ClientInv'
  <2>1. r \in Streams
    BY DEF Streams
  <2> QED BY <1>1, <2>1 DEF ClientInv
<1>4. StreamCountInv'
  BY <1>1 DEF StreamCountInv, Setting
<1>5. TransientInv'
  <2> SUFFICES ASSUME NEW q \in StreamRequests
               PROVE  TransientStreamRequestsCollection[q] =
                        setting[q] + removing[q] + One(request'[q] # "idle")
    BY DEF TransientInv
  <2>1. (request'[q] # "idle") <=> (request[q] # "idle")
    OBVIOUS
  <2> QED BY <2>1 DEF TransientInv, One
<1> QED BY <1>2, <1>3, <1>4, <1>5

\* Where its place says it is with respect to the others.
LEMMA MoveMoves ==
    ASSUME StreamShapes, NEW r \in StreamRequests, NEW p, NEW q, Move(r, p, q)
    PROVE  /\ request[r] = p /\ request'[r] = q
           /\ \A s \in StreamRequests \ {r} : request'[s] = request[s]
           /\ q \in Places => request' \in [StreamRequests -> Places]
BY DEF StreamShapes, Move

LEMMA SendReferencesKeeps ==
    ASSUME StreamsInv, NEW r \in StreamRequests, SendReferences(r)
    PROVE  StreamsInv'
<1> USE DEF StreamsInv
<1>1. UNCHANGED <<mode, context, rundownVars, cancelled, sender, routineVars, bufferVars,
                  clientVars>>
  BY DEF SendReferences
<1> USE <1>1 DEF context, rundownVars, routineVars, bufferVars, clientVars
<1>2. /\ request[r] = "send" /\ request'[r] \in {"acquire", "refused"}
      /\ \A s \in StreamRequests \ {r} : request'[s] = request[s]
      /\ request' \in [StreamRequests -> Places]
      /\ request'[r] = "acquire" =>
           /\ PendingStreamingRequests' = PendingStreamingRequests + 1
           /\ streamReferences' = streamReferences + 1
      /\ request'[r] = "refused" =>
           /\ PendingStreamingRequests' = PendingStreamingRequests
           /\ streamReferences' = streamReferences
  BY MoveMoves DEF SendReferences, counted, Places
<1>3. LoopInv' /\ ClientInv' /\ StreamCountInv' /\ TransientInv'
  BY <1>2, RequestGoesOn DEF AtSend
<1>4. /\ Cardinality(Acquired') = Cardinality(Acquired)
      /\ Cardinality(WithBuffer') = Cardinality(WithBuffer)
      /\ Cardinality(Resent') = Cardinality(Resent)
      /\ Cardinality(Sent') = Cardinality(Sent) + One(request'[r] = "acquire")
  BY <1>2, RequestMoves, CountsAreNatural
     DEF AtSend, SentPlaces, InFlight, BufferPlaces, One
<1>5. StreamShapes'
  BY <1>2 DEF StreamShapes
<1>6. RundownInv' /\ StreamBuffersInv'
  BY <1>4 DEF RundownInv, StreamBuffersInv
<1>7. PendingInv'
  <2>1. Removing' = Removing /\ ClientBusy' = ClientBusy
    BY DEF Removing, ClientBusy
  <2> QED BY <1>2, <1>4, <2>1, CountsAreNatural DEF PendingInv, One, StreamShapes
<1> QED BY <1>3, <1>5, <1>6, <1>7

LEMMA SendAcquiresKeeps ==
    ASSUME StreamsInv, NEW r \in StreamRequests, SendAcquires(r)
    PROVE  StreamsInv'
<1> USE DEF StreamsInv
<1>1. UNCHANGED <<mode, context, event, early, cancelled, sender, routineVars, bufferVars,
                  clientVars, counted>>
  BY DEF SendAcquires
<1> USE <1>1 DEF context, routineVars, bufferVars, clientVars, counted
<1>2. /\ request[r] = "acquire" /\ request'[r] = "acquired"
      /\ \A s \in StreamRequests \ {r} : request'[s] = request[s]
      /\ request' \in [StreamRequests -> Places]
  BY MoveMoves DEF SendAcquires, Places
<1>3. LoopInv' /\ ClientInv' /\ StreamCountInv' /\ TransientInv'
  BY <1>2, RequestGoesOn DEF AtSend
<1>4. /\ Cardinality(Acquired') = Cardinality(Acquired) + 1
      /\ Cardinality(WithBuffer') = Cardinality(WithBuffer)
      /\ Cardinality(Resent') = Cardinality(Resent)
      /\ Cardinality(Sent') = Cardinality(Sent)
  BY <1>2, RequestMoves, CountsAreNatural
     DEF AtSend, SentPlaces, InFlight, BufferPlaces, One
<1>5. /\ mode # "user" => rundown.open
      /\ rundown'.open = rundown.open /\ rundown'.count = rundown.count + 1
      /\ rundown' \in [open : BOOLEAN, count : Int]
  BY DEF SendAcquires, RundownAcquire, StreamShapes
<1>6. StreamShapes'
  BY <1>2, <1>5 DEF StreamShapes
<1>7. RundownInv'
  BY <1>4, <1>5, CountsAreNatural DEF RundownInv, StreamShapes, One
<1>8. StreamBuffersInv'
  BY <1>4 DEF StreamBuffersInv
<1>9. PendingInv'
  BY <1>4 DEF PendingInv, Removing, ClientBusy
<1> QED BY <1>3, <1>6, <1>7, <1>8, <1>9

LEMMA SendIsRundownKeeps ==
    ASSUME StreamsInv, NEW r \in StreamRequests, SendIsRundown(r)
    PROVE  StreamsInv'
<1> USE DEF StreamsInv
<1>1. UNCHANGED <<mode, context, rundownVars, cancelled, sender, routineVars, bufferVars,
                  clientVars, counted>>
  BY DEF SendIsRundown
<1> USE <1>1 DEF context, rundownVars, routineVars, bufferVars, clientVars, counted
<1>2. /\ request[r] = "acquire" /\ request'[r] = "failed"
      /\ \A s \in StreamRequests \ {r} : request'[s] = request[s]
      /\ request' \in [StreamRequests -> Places]
  BY MoveMoves DEF SendIsRundown, Places
<1>3. LoopInv' /\ ClientInv' /\ StreamCountInv' /\ TransientInv'
  BY <1>2, RequestGoesOn DEF AtSend
<1>4. /\ Cardinality(Acquired') = Cardinality(Acquired)
      /\ Cardinality(WithBuffer') = Cardinality(WithBuffer)
      /\ Cardinality(Resent') = Cardinality(Resent)
      /\ Cardinality(Sent') = Cardinality(Sent)
  BY <1>2, RequestMoves, CountsAreNatural
     DEF AtSend, SentPlaces, InFlight, BufferPlaces, One
<1>5. StreamShapes'
  BY <1>2 DEF StreamShapes
<1>6. RundownInv' /\ StreamBuffersInv'
  BY <1>4 DEF RundownInv, StreamBuffersInv
<1>7. PendingInv'
  BY <1>4 DEF PendingInv, Removing, ClientBusy
<1> QED BY <1>3, <1>5, <1>6, <1>7

LEMMA StreamSendFailsKeeps ==
    ASSUME StreamsInv, NEW r \in StreamRequests, StreamSendFails(r)
    PROVE  StreamsInv'
<1> USE DEF StreamsInv
<1>1. UNCHANGED <<mode, context, event, early, cancelled, sender, routineVars, bufferVars,
                  clientVars, counted>>
  BY DEF StreamSendFails
<1> USE <1>1 DEF context, routineVars, bufferVars, clientVars, counted
<1>2. /\ request[r] = "acquired" /\ request'[r] = "failed"
      /\ \A s \in StreamRequests \ {r} : request'[s] = request[s]
      /\ request' \in [StreamRequests -> Places]
  BY MoveMoves DEF StreamSendFails, Places
<1>3. LoopInv' /\ ClientInv' /\ StreamCountInv' /\ TransientInv'
  BY <1>2, RequestGoesOn DEF AtSend
<1>4. /\ Cardinality(Acquired') = Cardinality(Acquired) - 1
      /\ Cardinality(WithBuffer') = Cardinality(WithBuffer)
      /\ Cardinality(Resent') = Cardinality(Resent)
      /\ Cardinality(Sent') = Cardinality(Sent)
  BY <1>2, RequestMoves, CountsAreNatural
     DEF AtSend, SentPlaces, InFlight, BufferPlaces, One
<1>5. /\ rundown'.open = rundown.open /\ rundown'.count = rundown.count - 1
      /\ rundown' \in [open : BOOLEAN, count : Int]
  BY DEF StreamSendFails, StreamShapes
<1>6. StreamShapes'
  BY <1>2, <1>5 DEF StreamShapes
<1>7. RundownInv'
  <2>1. Cardinality(Acquired') \in Nat
    BY StreamRequestsAreFinite DEF Acquired
  <2> QED BY <1>4, <1>5, <2>1, CountsAreNatural DEF RundownInv, StreamShapes, One
<1>8. StreamBuffersInv'
  BY <1>4 DEF StreamBuffersInv
<1>9. PendingInv'
  BY <1>4 DEF PendingInv, Removing, ClientBusy
<1> QED BY <1>3, <1>6, <1>7, <1>8, <1>9

LEMMA SendReturnsFailureKeeps ==
    ASSUME StreamsInv, NEW r \in StreamRequests, SendReturnsFailure(r)
    PROVE  StreamsInv'
<1> USE DEF StreamsInv
<1>1. UNCHANGED <<mode, context, rundownVars, cancelled, sender, routineVars, bufferVars,
                  clientVars>>
  BY DEF SendReturnsFailure
<1> USE <1>1 DEF context, rundownVars, routineVars, bufferVars, clientVars
<1>2. /\ request[r] = "failed" /\ request'[r] = "refused"
      /\ \A s \in StreamRequests \ {r} : request'[s] = request[s]
      /\ request' \in [StreamRequests -> Places]
      /\ PendingStreamingRequests' = PendingStreamingRequests - 1
      /\ streamReferences' = streamReferences - 1
  BY MoveMoves DEF SendReturnsFailure, Places
<1>3. LoopInv' /\ ClientInv' /\ StreamCountInv' /\ TransientInv'
  BY <1>2, RequestGoesOn DEF AtSend
<1>4. /\ Cardinality(Acquired') = Cardinality(Acquired)
      /\ Cardinality(WithBuffer') = Cardinality(WithBuffer)
      /\ Cardinality(Resent') = Cardinality(Resent)
      /\ Cardinality(Sent') = Cardinality(Sent) - 1
  BY <1>2, RequestMoves, CountsAreNatural
     DEF AtSend, SentPlaces, InFlight, BufferPlaces, One
<1>5. StreamShapes'
  BY <1>2 DEF StreamShapes
<1>6. RundownInv' /\ StreamBuffersInv'
  BY <1>4 DEF RundownInv, StreamBuffersInv
<1>7. PendingInv'
  <2>1. Removing' = Removing /\ ClientBusy' = ClientBusy
    BY DEF Removing, ClientBusy
  <2> QED BY <1>2, <1>4, <2>1, CountsAreNatural DEF PendingInv, One, StreamShapes
<1> QED BY <1>3, <1>5, <1>6, <1>7

\* The target completes a request, and DMF_QueuedWorkItem passes it on.
LEMMA StreamTargetCompletesKeeps ==
    ASSUME StreamsInv, NEW r \in StreamRequests, StreamTargetCompletes(r) \/ StreamWorkItemRuns(r)
    PROVE  StreamsInv'
<1> USE DEF StreamsInv
<1>1. UNCHANGED <<mode, context, rundownVars, sender, routineVars, bufferVars, clientVars,
                  counted>>
  BY DEF StreamTargetCompletes, StreamWorkItemRuns
<1> USE <1>1 DEF context, rundownVars, routineVars, bufferVars, clientVars, counted
<1>2. /\ request[r] \in {"target", "queued"} /\ request'[r] \in {"queued", "completed"}
      /\ \A s \in StreamRequests \ {r} : request'[s] = request[s]
      /\ request' \in [StreamRequests -> Places]
      /\ cancelled' \subseteq StreamRequests
  BY MoveMoves DEF StreamTargetCompletes, StreamWorkItemRuns, Places, StreamShapes
<1>3. LoopInv' /\ ClientInv' /\ StreamCountInv' /\ TransientInv'
  BY <1>2, RequestGoesOn DEF AtSend
<1>4. /\ Cardinality(Acquired') = Cardinality(Acquired)
      /\ Cardinality(WithBuffer') = Cardinality(WithBuffer)
      /\ Cardinality(Resent') = Cardinality(Resent)
      /\ Cardinality(Sent') = Cardinality(Sent)
  BY <1>2, RequestMoves, CountsAreNatural
     DEF AtSend, SentPlaces, InFlight, BufferPlaces, One
<1>5. StreamShapes'
  BY <1>2 DEF StreamShapes
<1>6. RundownInv' /\ StreamBuffersInv'
  BY <1>4 DEF RundownInv, StreamBuffersInv
<1>7. PendingInv'
  BY <1>4 DEF PendingInv, Removing, ClientBusy
<1> QED BY <1>3, <1>5, <1>6, <1>7

LEMMA CompletionTestsKeeps ==
    ASSUME StreamsInv, NEW r \in StreamRequests, CompletionTests(r)
    PROVE  StreamsInv'
<1> USE DEF StreamsInv
<1>1. UNCHANGED <<mode, context, rundownVars, cancelled, sender, routineVars, clientBuffers,
                  clientVars, counted>>
  BY DEF CompletionTests
<1> USE <1>1 DEF context, rundownVars, routineVars, clientVars, counted
<1>2. /\ request[r] = "completed" /\ request'[r] \in {"ending", "callback"}
      /\ \A s \in StreamRequests \ {r} : request'[s] = request[s]
      /\ request' \in [StreamRequests -> Places]
      /\ request'[r] = "ending" => buffers' = buffers - 1
      /\ request'[r] = "callback" => buffers' = buffers
  BY MoveMoves DEF CompletionTests, Places
<1>3. LoopInv' /\ ClientInv' /\ StreamCountInv' /\ TransientInv'
  BY <1>2, RequestGoesOn DEF AtSend
<1>4. /\ Cardinality(Acquired') = Cardinality(Acquired)
      /\ Cardinality(WithBuffer') = Cardinality(WithBuffer) - One(request'[r] = "ending")
      /\ Cardinality(Resent') = Cardinality(Resent)
      /\ Cardinality(Sent') = Cardinality(Sent)
  BY <1>2, RequestMoves, CountsAreNatural
     DEF AtSend, SentPlaces, InFlight, BufferPlaces, One
<1>5. StreamShapes'
  BY <1>2 DEF StreamShapes
<1>6. RundownInv'
  BY <1>4 DEF RundownInv
<1>7. StreamBuffersInv'
  BY <1>2, <1>4, CountsAreNatural DEF StreamBuffersInv, StreamShapes, One
<1>8. PendingInv'
  BY <1>4 DEF PendingInv, Removing, ClientBusy
<1> QED BY <1>3, <1>5, <1>6, <1>7, <1>8

LEMMA ClientReturnsKeeps ==
    ASSUME StreamsInv, NEW r \in StreamRequests, NEW keeps \in BOOLEAN, NEW continues \in BOOLEAN,
           ClientReturns(r, keeps, continues)
    PROVE  StreamsInv'
<1> USE DEF StreamsInv
<1>1. UNCHANGED <<mode, context, rundownVars, cancelled, routineVars, clientVars, counted>>
  BY DEF ClientReturns
<1> USE <1>1 DEF context, rundownVars, routineVars, clientVars, counted
<1>2. /\ request[r] = "callback" /\ request'[r] \in {"send", "ending"}
      /\ \A s \in StreamRequests \ {r} : request'[s] = request[s]
      /\ request' \in [StreamRequests -> Places]
  BY MoveMoves DEF ClientReturns, Places
<1>3. /\ sender'[r] = "completion" /\ \A s \in StreamRequests \ {r} : sender'[s] = sender[s]
      /\ sender' \in [StreamRequests -> {"start", "completion"}]
  BY DEF ClientReturns, StreamShapes
<1>4. /\ clientBuffers' \in 0 .. MaxClientBuffers /\ buffers' \in Int
      /\ buffers' - clientBuffers' = buffers - clientBuffers - 1
  <2>1. CASE keeps
    BY <2>1, StreamAssumption DEF ClientReturns, StreamShapes
  <2>2. CASE ~keeps
    BY <2>2, StreamAssumption DEF ClientReturns, StreamShapes
  <2> QED BY <2>1, <2>2
<1>5. LoopInv' /\ ClientInv' /\ StreamCountInv' /\ TransientInv'
  BY <1>2, <1>3, RequestGoesOn DEF AtSend
<1>6. /\ Cardinality(Acquired') = Cardinality(Acquired)
      /\ Cardinality(WithBuffer') = Cardinality(WithBuffer) - 1
      /\ Cardinality(Resent') + Cardinality(Sent') = Cardinality(Resent) + Cardinality(Sent)
  BY <1>2, <1>3, RequestMoves, CountsAreNatural
     DEF AtSend, SentPlaces, InFlight, BufferPlaces, One
<1>7. StreamShapes'
  BY <1>2, <1>3, <1>4 DEF StreamShapes
<1>8. RundownInv'
  BY <1>6 DEF RundownInv
<1>9. StreamBuffersInv'
  BY <1>4, <1>6, CountsAreNatural, StreamAssumption DEF StreamBuffersInv, StreamShapes
<1>10. PendingInv'
  <2>1. Removing' = Removing /\ ClientBusy' = ClientBusy
    BY DEF Removing, ClientBusy
  <2>2. Cardinality(Resent') \in Nat /\ Cardinality(Sent') \in Nat
    BY StreamRequestsAreFinite DEF Resent, Sent
  <2> QED BY <1>6, <2>1, <2>2, CountsAreNatural DEF PendingInv, One, StreamShapes
<1> QED BY <1>5, <1>7, <1>8, <1>9, <1>10

\* The sender has the rundown to release: Start itself, or a routine.
LEMMA SendSucceedsKeeps ==
    ASSUME StreamsInv, NEW r \in StreamRequests, SendSucceeds(r)
    PROVE  StreamsInv'
<1> USE DEF StreamsInv
<1>1. UNCHANGED <<mode, context, rundownVars, cancelled, sender, setting, removing, leaving,
                  clientBuffers, index, waits, isClosing, counted>>
  BY DEF SendSucceeds
<1> USE <1>1 DEF context, rundownVars, counted
<1>2. /\ request[r] = "acquired" /\ request'[r] = "target"
      /\ \A s \in StreamRequests \ {r} : request'[s] = request[s]
      /\ request' \in [StreamRequests -> Places]
      /\ buffers' = buffers + 1
  BY MoveMoves DEF SendSucceeds, Places
<1>3. sender[r] \in {"start", "completion"} /\ releasing \in Nat
  BY DEF StreamShapes
<1>4. \/ /\ sender[r] = "start" /\ client = "sending" /\ r = index
         /\ client' = "releasing" /\ releasing' = releasing
      \/ sender[r] = "completion" /\ client' = client /\ releasing' = releasing + 1
  <2>1. sender[r] = "start" => client = "sending" /\ r = index
    BY <1>2 DEF LoopInv, AtSend
  <2> QED BY <1>3, <2>1 DEF SendSucceeds
<1>5. Streams' = Streams /\ r \in Streams /\ Unstarted' = Unstarted
  <2>1. Streams' = Streams /\ r \in Streams
    BY <1>2 DEF Streams
  <2>2. Unstarted' = Unstarted
    BY <1>4 DEF Unstarted
  <2> QED BY <2>1, <2>2
<1>6. /\ Cardinality(Acquired') = Cardinality(Acquired) - 1
      /\ Cardinality(WithBuffer') = Cardinality(WithBuffer) + 1
      /\ Cardinality(Resent') = Cardinality(Resent) - One(sender[r] = "completion")
      /\ Cardinality(Sent') = Cardinality(Sent)
  BY <1>2, RequestMoves, CountsAreNatural
     DEF AtSend, SentPlaces, InFlight, BufferPlaces, One
<1>7. StreamShapes'
  BY <1>2, <1>4 DEF StreamShapes
<1>8. LoopInv'
  <2>1. \A s \in StreamRequests : request'[s] \in AtSend /\ sender[s] = "start" =>
                                     s # r /\ client = "sending" /\ s = index
    BY <1>2 DEF LoopInv, AtSend
  <2>2. \A s \in Unstarted : request'[s] = "idle"
    BY <1>2 DEF LoopInv, Unstarted
  <2>3. CASE client' = "releasing" /\ client = "sending" /\ r = index
    BY <1>5, <2>1, <2>2, <2>3 DEF LoopInv
  <2>4. CASE sender[r] = "completion" /\ client' = client
    <3>1. client = "sending" => index # r /\ request'[index] \in AtSend /\ sender[index] = "start"
      BY <1>2, <2>4 DEF LoopInv
    <3> QED BY <1>5, <2>1, <2>2, <2>4, <3>1 DEF LoopInv
  <2> QED BY <1>4, <2>3, <2>4
<1>9. ClientInv'
  BY <1>4, <1>5 DEF ClientInv
<1>10. RundownInv'
  <2>1. CASE client' = "releasing" /\ client = "sending" /\ releasing' = releasing
    BY <1>3, <1>6, <2>1, CountsAreNatural DEF RundownInv, One, StreamShapes
  <2>2. CASE client' = client /\ releasing' = releasing + 1
    BY <1>3, <1>6, <2>2, CountsAreNatural DEF RundownInv, One, StreamShapes
  <2> QED BY <1>4, <2>1, <2>2
<1>11. StreamBuffersInv'
  BY <1>2, <1>6, CountsAreNatural DEF StreamBuffersInv, StreamShapes
<1>12. StreamCountInv' /\ TransientInv'
  <2>1. StreamCountInv'
    BY <1>4, <1>5 DEF StreamCountInv, Setting
  <2>2. \A s \in StreamRequests : request'[s] # "idle" <=> request[s] # "idle"
    BY <1>2
  <2> QED BY <2>1, <2>2 DEF TransientInv, One
<1>13. PendingInv'
  <2>1. Removing' = Removing /\ ClientBusy' = ClientBusy
    BY <1>4 DEF Removing, ClientBusy
  <2>2. Cardinality(Resent') + releasing' = Cardinality(Resent) + releasing
    BY <1>3, <1>4, <1>6, CountsAreNatural DEF One
  <2>3. Cardinality(Resent') \in Nat /\ releasing' \in Nat /\ leaving \in Nat
    BY <1>3, <1>4, StreamRequestsAreFinite DEF Resent, StreamShapes
  <2> QED BY <1>3, <1>6, <2>1, <2>2, <2>3, CountsAreNatural DEF PendingInv, One, StreamShapes
<1> QED BY <1>7, <1>8, <1>9, <1>10, <1>11, <1>12, <1>13

\* A routine more, or one less, has to remove a request.
LEMMA RemovingMoves ==
    ASSUME setting \in [StreamRequests -> Nat], removing \in [StreamRequests -> Nat],
           setting' \in [StreamRequests -> Nat], removing' \in [StreamRequests -> Nat],
           NEW r \in StreamRequests, IsFiniteSet(Removing),
           \A q \in StreamRequests \ {r} : setting'[q] = setting[q] /\ removing'[q] = removing[q]
    PROVE  /\ setting'[r] + removing'[r] = setting[r] + removing[r] + 1 =>
                /\ IsFiniteSet(Removing')
                /\ Cardinality(Removing') = Cardinality(Removing) + 1
           /\ setting'[r] + removing'[r] = setting[r] + removing[r] - 1 =>
                /\ IsFiniteSet(Removing')
                /\ Cardinality(Removing') = Cardinality(Removing) - 1
           /\ setting'[r] + removing'[r] = setting[r] + removing[r] => Removing' = Removing
<1> DEFINE n == setting[r] + removing[r]
<1>1. n \in Nat
  OBVIOUS
<1> HIDE DEF n
<1>2. ASSUME setting'[r] + removing'[r] = n + 1
      PROVE  IsFiniteSet(Removing') /\ Cardinality(Removing') = Cardinality(Removing) + 1
  <2> DEFINE p == <<r, n + 1>>
  <2>1. p \notin Removing
    BY <1>1 DEF Removing, n
  <2>2. Removing' = Removing \cup {p}
    <3>1. ASSUME NEW q \in StreamRequests, NEW i \in Nat
          PROVE  i \in 1 .. setting'[q] + removing'[q] <=>
                   (i \in 1 .. setting[q] + removing[q] \/ <<q, i>> = p)
      BY <1>1, <1>2 DEF n
    <3>2. p \in StreamRequests \X Nat
      BY <1>1
    <3> QED BY <3>1, <3>2 DEF Removing
  <2> HIDE DEF p
  <2> QED BY <2>1, <2>2, FS_AddElement
<1>3. ASSUME setting'[r] + removing'[r] = n - 1
      PROVE  IsFiniteSet(Removing') /\ Cardinality(Removing') = Cardinality(Removing) - 1
  <2> DEFINE p == <<r, n>>
  <2>1. n > 0
    BY <1>1, <1>3
  <2>2. p \in Removing
    BY <1>1, <2>1 DEF Removing, n
  <2>3. Removing' = Removing \ {p}
    <3>1. ASSUME NEW q \in StreamRequests, NEW i \in Nat
          PROVE  i \in 1 .. setting'[q] + removing'[q] <=>
                   (i \in 1 .. setting[q] + removing[q] /\ <<q, i>> # p)
      BY <1>1, <1>3, <2>1 DEF n
    <3> QED BY <3>1 DEF Removing
  <2> HIDE DEF p
  <2> QED BY <2>2, <2>3, FS_RemoveElement
<1>4. ASSUME setting'[r] + removing'[r] = n PROVE Removing' = Removing
  <2>1. \A q \in StreamRequests : setting'[q] + removing'[q] = setting[q] + removing[q]
    BY <1>4 DEF n
  <2> QED BY <2>1 DEF Removing
<1> QED BY <1>2, <1>3, <1>4 DEF n

LEMMA StreamEndsKeeps ==
    ASSUME StreamsInv, NEW r \in StreamRequests, StreamEnds(r)
    PROVE  StreamsInv'
<1> USE DEF StreamsInv
<1>1. UNCHANGED <<mode, Stopping, TransientStreamRequestsCollection, rundownVars, cancelled,
                  sender, releasing, leaving, bufferVars, clientVars, counted>>
  BY DEF StreamEnds, Ended
<1> USE <1>1 DEF rundownVars, bufferVars, clientVars, counted
<1>2. /\ request[r] = "ending" \/ (request[r] = "refused" /\ sender[r] = "completion")
      /\ request'[r] = "idle"
      /\ \A s \in StreamRequests \ {r} : request'[s] = request[s]
      /\ request' \in [StreamRequests -> Places]
  BY DEF StreamEnds, Ends, Ended, StreamShapes, Places
<1>3. /\ setting' \in [StreamRequests -> Nat] /\ removing' \in [StreamRequests -> Nat]
      /\ setting'[r] + removing'[r] = setting[r] + removing[r] + 1
      /\ \A q \in StreamRequests \ {r} : setting'[q] = setting[q] /\ removing'[q] = removing[q]
      /\ IsLastStream => setting'[r] > 0
  BY DEF StreamEnds, Ended, StreamShapes
<1>4. IsFiniteSet(Removing') /\ Cardinality(Removing') = Cardinality(Removing) + 1
  BY <1>3, RemovingMoves DEF StreamShapes, PendingInv
<1>5. Streams' = Streams \ {r} /\ r \in Streams /\ Unstarted' = Unstarted /\ r \notin Unstarted
  <2>1. Streams' = Streams \ {r} /\ r \in Streams
    BY <1>2 DEF Streams
  <2>2. Unstarted' = Unstarted /\ r \notin Unstarted
    BY <1>2 DEF Unstarted, LoopInv
  <2> QED BY <2>1, <2>2
<1>6. \E k \in Nat : /\ Cardinality(Streams \cup Unstarted) = k + 1
                     /\ Cardinality(Streams' \cup Unstarted') = k
  <2>1. Streams' \cup Unstarted' = (Streams \cup Unstarted) \ {r} /\ r \in Streams \cup Unstarted
    BY <1>5
  <2>2. Streams \cup Unstarted \subseteq StreamRequests
    BY DEF Streams, Unstarted
  <2>3. IsFiniteSet(Streams \cup Unstarted) /\ Cardinality(Streams' \cup Unstarted') \in Nat
    BY <2>1, <2>2, StreamRequestsAreFinite
  <2>4. Cardinality(Streams' \cup Unstarted') = Cardinality(Streams \cup Unstarted) - 1
    BY <2>1, <2>3, FS_RemoveElement
  <2> QED BY <2>3, <2>4, CountsAreNatural
<1>7. /\ StreamingRequestCount' \in Int
      /\ mode = "user" => StreamingRequestCount' \in Nat
      /\ StreamCountInv'
  <2>1. CASE mode = "user"
    BY <2>1 DEF StreamEnds, DecreaseStreamRequestCount, StreamShapes, StreamCountInv
  <2>2. CASE mode # "user"
    <3>1. PICK k \in Nat : /\ Cardinality(Streams \cup Unstarted) = k + 1
                           /\ Cardinality(Streams' \cup Unstarted') = k
      BY <1>6
    <3>2. StreamingRequestCount = k + 1 /\ StreamingRequestCount' = k
      BY <2>2, <3>1 DEF StreamCountInv, StreamEnds, DecreaseStreamRequestCount
    <3>3. k = 0 => \E q \in StreamRequests : setting'[q] > 0
      BY <1>3, <2>2, <3>2 DEF IsLastStream
    <3>4. event /\ k # 0 => early
      BY <2>2, <3>2 DEF StreamCountInv
    <3> QED BY <2>2, <3>1, <3>2, <3>3, <3>4 DEF StreamCountInv, Setting
  <2> QED BY <2>1, <2>2
<1>8. /\ Cardinality(Acquired') = Cardinality(Acquired)
      /\ Cardinality(WithBuffer') = Cardinality(WithBuffer)
      /\ Cardinality(Resent') + Cardinality(Sent') = Cardinality(Resent) + Cardinality(Sent) - 1
  BY <1>2, RequestMoves, CountsAreNatural
     DEF AtSend, SentPlaces, InFlight, BufferPlaces, One
<1>9. StreamShapes'
  BY <1>2, <1>3, <1>7 DEF StreamShapes
<1>10. LoopInv'
  <2>1. client = "sending" => index # r
    BY <1>2 DEF LoopInv, AtSend
  <2>2. \A s \in StreamRequests : request'[s] \in AtSend /\ sender[s] = "start" =>
                                     client = "sending" /\ s = index
    BY <1>2 DEF LoopInv, AtSend
  <2>3. \A s \in Unstarted : request'[s] = "idle"
    BY <1>2, <1>5 DEF LoopInv, Unstarted
  <2> QED BY <1>2, <1>5, <2>1, <2>2, <2>3 DEF LoopInv
<1>11. ClientInv'
  BY <1>5 DEF ClientInv
<1>12. RundownInv' /\ StreamBuffersInv'
  BY <1>8 DEF RundownInv, StreamBuffersInv
<1>13. TransientInv'
  <2> SUFFICES ASSUME NEW s \in StreamRequests
               PROVE  TransientStreamRequestsCollection[s] =
                        setting'[s] + removing'[s] + One(request'[s] # "idle")
    BY DEF TransientInv
  <2>1. CASE s = r
    BY <1>2, <1>3, <2>1 DEF TransientInv, One, StreamShapes
  <2>2. CASE s # r
    BY <1>2, <1>3, <2>2 DEF TransientInv, One, StreamShapes
  <2> QED BY <2>1, <2>2
<1>14. PendingInv'
  <2>1. ClientBusy' = ClientBusy
    BY DEF ClientBusy
  <2>2. Cardinality(Resent') \in Nat /\ Cardinality(Sent') \in Nat
    BY StreamRequestsAreFinite DEF Resent, Sent
  <2>3. Cardinality(Removing) \in Nat
    BY CountsAreNatural DEF PendingInv
  <2> QED BY <1>4, <1>8, <2>1, <2>2, <2>3, CountsAreNatural DEF PendingInv, One, StreamShapes
<1> QED BY <1>7, <1>9, <1>10, <1>11, <1>12, <1>13, <1>14

-----------------------------------------------------------------------------
(* Steps of the routines, and of the Client with its buffers.               *)

\* No request moves, and the Client's thread stays where it is.
LEMMA LoopStays ==
    ASSUME StreamsInv, UNCHANGED <<request, sender, client, index, isClosing, mode>>
    PROVE  /\ LoopInv' /\ UNCHANGED <<Acquired, WithBuffer, Sent, Resent, Streams, Unstarted>>
           /\ (releasing' = releasing \/ releasing > 0) /\ (early => early') => ClientInv'
           /\ UNCHANGED <<StreamingRequestCount, event, early, setting>> => StreamCountInv'
           /\ ClientBusy' = ClientBusy
<1> USE DEF StreamsInv
<1>1. UNCHANGED <<Acquired, WithBuffer, Sent, Resent, Streams, Unstarted, ClientBusy>>
  BY RequestsStay DEF Unstarted, ClientBusy
<1>2. LoopInv'
  BY <1>1 DEF LoopInv
<1>3. ASSUME releasing' = releasing \/ releasing > 0, early => early' PROVE ClientInv'
  BY <1>1, <1>3 DEF ClientInv
<1>4. ASSUME UNCHANGED <<StreamingRequestCount, event, early, setting>> PROVE StreamCountInv'
  BY <1>1, <1>4 DEF StreamCountInv, Setting
<1> QED BY <1>1, <1>2, <1>3, <1>4

LEMMA CompletionReleasesKeeps ==
    ASSUME StreamsInv, CompletionReleases
    PROVE  StreamsInv'
<1> USE DEF StreamsInv
<1>1. /\ UNCHANGED <<mode, context, event, early, streams, setting, removing, bufferVars,
                     clientVars, counted>>
      /\ releasing > 0 /\ releasing' = releasing - 1 /\ leaving' = leaving + 1
      /\ rundown' = [rundown EXCEPT !.count = @ - 1]
  BY DEF CompletionReleases
<1> USE <1>1 DEF context, streams, bufferVars, clientVars, counted
<1>2. /\ rundown'.open = rundown.open /\ rundown'.count = rundown.count - 1
      /\ rundown' \in [open : BOOLEAN, count : Int]
      /\ releasing' \in Nat /\ leaving' \in Nat /\ releasing \in Nat /\ leaving \in Nat
  BY DEF StreamShapes
<1>3. LoopInv' /\ ClientInv' /\ StreamCountInv'
  BY <1>2, LoopStays
<1>4. UNCHANGED <<Acquired, WithBuffer, Sent, Resent, Streams, Unstarted, ClientBusy>>
  BY LoopStays
<1>5. StreamShapes'
  BY <1>2 DEF StreamShapes
<1>6. RundownInv'
  BY <1>2, <1>4, CountsAreNatural DEF RundownInv, One, StreamShapes
<1>7. StreamBuffersInv' /\ TransientInv'
  BY <1>4 DEF StreamBuffersInv, TransientInv
<1>8. PendingInv'
  <2>1. Removing' = Removing
    BY DEF Removing
  <2> QED BY <1>2, <1>4, <2>1, CountsAreNatural DEF PendingInv, One, StreamShapes
<1> QED BY <1>3, <1>5, <1>6, <1>7, <1>8

\* The last stream has ended, and its routine sets the event.
LEMMA StreamSetsEventKeeps ==
    ASSUME StreamsInv, NEW r \in StreamRequests, StreamSetsEvent(r)
    PROVE  StreamsInv'
<1> USE DEF StreamsInv
<1>1. /\ UNCHANGED <<mode, context, rundown, streams, releasing, leaving, bufferVars, clientVars,
                     counted>>
      /\ event' = TRUE /\ early' = (early \/ StreamingRequestCount # 0)
  BY DEF StreamSetsEvent, EventSet
<1>2. early' \in BOOLEAN /\ (early' <=> early \/ StreamingRequestCount # 0)
  <2>1. early \in BOOLEAN
    BY DEF StreamShapes
  <2> QED BY <1>1, <2>1, Zenon
<1>3. /\ UNCHANGED <<mode, context, rundown, streams, releasing, leaving, bufferVars, clientVars,
                     counted>>
      /\ event' = TRUE
  BY <1>1
<1> USE <1>3 DEF context, streams, bufferVars, clientVars, counted
<1>4. /\ setting' \in [StreamRequests -> Nat] /\ removing' \in [StreamRequests -> Nat]
      /\ setting'[r] + removing'[r] = setting[r] + removing[r]
      /\ \A q \in StreamRequests \ {r} : setting'[q] = setting[q] /\ removing'[q] = removing[q]
  BY DEF StreamSetsEvent, StreamShapes
<1>5. Removing' = Removing
  BY <1>4, RemovingMoves DEF StreamShapes, PendingInv
<1>6. LoopInv' /\ ClientInv'
  BY <1>2, LoopStays
<1>7. UNCHANGED <<Acquired, WithBuffer, Sent, Resent, Streams, Unstarted, ClientBusy>>
  BY LoopStays
<1>8. StreamShapes'
  BY <1>2, <1>4 DEF StreamShapes
<1>9. RundownInv' /\ StreamBuffersInv'
  BY <1>7 DEF RundownInv, StreamBuffersInv
<1>10. StreamCountInv'
  BY <1>2, <1>7 DEF StreamCountInv
<1>11. TransientInv'
  <2>1. \A q \in StreamRequests : setting'[q] + removing'[q] = setting[q] + removing[q]
    BY <1>4
  <2> QED BY <2>1 DEF TransientInv, One
<1>12. PendingInv'
  BY <1>5, <1>7 DEF PendingInv, One
<1> QED BY <1>6, <1>8, <1>9, <1>10, <1>11, <1>12

LEMMA StreamRemovesKeeps ==
    ASSUME StreamsInv, NEW r \in StreamRequests, StreamRemoves(r)
    PROVE  StreamsInv'
<1> USE DEF StreamsInv
<1>1. UNCHANGED <<mode, Stopping, StreamingRequestCount, rundownVars, streams, releasing,
                  setting, bufferVars, clientVars, counted>>
  BY DEF StreamRemoves
<1> USE <1>1 DEF rundownVars, streams, bufferVars, clientVars, counted
<1>2. /\ removing[r] > 0 /\ removing' = [removing EXCEPT ![r] = @ - 1]
      /\ removing' \in [StreamRequests -> Nat]
      /\ TransientStreamRequestsCollection' =
           [TransientStreamRequestsCollection EXCEPT ![r] = @ - 1]
      /\ TransientStreamRequestsCollection' \in [StreamRequests -> Int]
      /\ leaving' = leaving + 1 /\ leaving \in Nat
  BY DEF StreamRemoves, StreamShapes
<1>3. LoopInv' /\ ClientInv' /\ StreamCountInv'
  BY LoopStays
<1>4. UNCHANGED <<Acquired, WithBuffer, Sent, Resent, Streams, Unstarted, ClientBusy>>
  BY LoopStays
<1>5. IsFiniteSet(Removing') /\ Cardinality(Removing') = Cardinality(Removing) - 1
  <2>1. /\ setting'[r] + removing'[r] = setting[r] + removing[r] - 1
        /\ \A q \in StreamRequests \ {r} : setting'[q] = setting[q] /\ removing'[q] = removing[q]
    BY <1>2 DEF StreamShapes
  <2> QED BY <1>2, <2>1, RemovingMoves DEF StreamShapes, PendingInv
<1>6. StreamShapes'
  BY <1>2 DEF StreamShapes
<1>7. RundownInv' /\ StreamBuffersInv'
  BY <1>4 DEF RundownInv, StreamBuffersInv
<1>8. TransientInv'
  BY <1>2 DEF TransientInv, One, StreamShapes
<1>9. PendingInv'
  <2>1. Cardinality(Removing) \in Nat
    BY CountsAreNatural DEF PendingInv
  <2> QED BY <1>2, <1>4, <1>5, <2>1, CountsAreNatural DEF PendingInv, One, StreamShapes
<1> QED BY <1>3, <1>6, <1>7, <1>8, <1>9

LEMMA CompletionReturnsKeeps ==
    ASSUME StreamsInv, CompletionReturns
    PROVE  StreamsInv'
<1> USE DEF StreamsInv
<1>1. /\ UNCHANGED <<mode, context, rundownVars, streams, releasing, setting, removing,
                     bufferVars, clientVars>>
      /\ leaving > 0 /\ leaving' = leaving - 1
      /\ PendingStreamingRequests' = PendingStreamingRequests - 1
      /\ streamReferences' = streamReferences - 1
  BY DEF CompletionReturns
<1> USE <1>1 DEF context, rundownVars, streams, bufferVars, clientVars
<1>2. LoopInv' /\ ClientInv' /\ StreamCountInv'
  BY LoopStays
<1>3. UNCHANGED <<Acquired, WithBuffer, Sent, Resent, Streams, Unstarted, ClientBusy>>
  BY LoopStays
<1>4. StreamShapes'
  BY DEF StreamShapes
<1>5. RundownInv' /\ StreamBuffersInv' /\ TransientInv'
  BY <1>3 DEF RundownInv, StreamBuffersInv, TransientInv
<1>6. PendingInv'
  <2>1. Removing' = Removing
    BY DEF Removing
  <2> QED BY <1>3, <2>1, CountsAreNatural DEF PendingInv, One, StreamShapes
<1> QED BY <1>2, <1>4, <1>5, <1>6

LEMMA BufferPutKeeps ==
    ASSUME StreamsInv, BufferPut
    PROVE  StreamsInv'
<1> USE DEF StreamsInv
<1>1. /\ UNCHANGED <<mode, context, rundownVars, streams, routineVars, clientVars, counted>>
      /\ clientBuffers > 0 /\ clientBuffers' = clientBuffers - 1 /\ buffers' = buffers - 1
  BY DEF BufferPut
<1> USE <1>1 DEF context, rundownVars, streams, routineVars, clientVars, counted
<1>2. LoopInv' /\ ClientInv' /\ StreamCountInv'
  BY LoopStays
<1>3. UNCHANGED <<Acquired, WithBuffer, Sent, Resent, Streams, Unstarted, ClientBusy>>
  BY LoopStays
<1>4. StreamShapes'
  BY StreamAssumption DEF StreamShapes
<1>5. RundownInv' /\ TransientInv'
  BY <1>3 DEF RundownInv, TransientInv
<1>6. StreamBuffersInv'
  BY <1>3, CountsAreNatural, StreamAssumption DEF StreamBuffersInv, StreamShapes
<1>7. PendingInv'
  BY <1>3 DEF PendingInv, Removing
<1> QED BY <1>2, <1>4, <1>5, <1>6, <1>7

-----------------------------------------------------------------------------
(* Steps of the Client's thread.                                            *)

\* It goes on outside the loop of Start.
LEMMA ThreadGoesOn ==
    ASSUME StreamsInv, UNCHANGED <<request, sender>>,
           client \notin {"sending", "releasing"},
           client' \notin {"starting", "sending", "releasing", "reducing", "setting"}
    PROVE  /\ LoopInv' /\ Unstarted' = {}
           /\ (client \in {"starting", "reducing", "setting"} => index > ContinuousRequestCount)
                => Unstarted = {}
           /\ UNCHANGED <<Acquired, WithBuffer, Sent, Resent, Streams>>
<1> USE DEF StreamsInv
<1>1. UNCHANGED <<Acquired, WithBuffer, Sent, Resent, Streams>>
  BY RequestsStay
<1>2. Unstarted' = {}
  BY DEF Unstarted
<1>3. ASSUME client \in {"starting", "reducing", "setting"} => index > ContinuousRequestCount
      PROVE  Unstarted = {}
  BY <1>3, StreamAssumption DEF Unstarted, StreamRequests, StreamShapes
<1>4. LoopInv'
  BY <1>2 DEF LoopInv
<1> QED BY <1>1, <1>2, <1>3, <1>4

LEMMA StartKeeps ==
    ASSUME StreamsInv, Start
    PROVE  StreamsInv'
<1> USE DEF StreamsInv
<1>1. /\ UNCHANGED <<mode, TransientStreamRequestsCollection, streams, routineVars, bufferVars,
                     isClosing, waits, PendingStreamingRequests>>
      /\ client = "stopped" /\ ~isClosing /\ client' = "starting" /\ index' = 1
      /\ streamReferences' = streamReferences + 1
      /\ StreamingRequestCount' = ContinuousRequestCount
      /\ rundown' = [rundown EXCEPT !.open = TRUE]
  BY DEF Start
<1>2. event' = FALSE /\ early' = FALSE /\ Stopping' = FALSE
  BY DEF Start
<1> USE <1>1 DEF streams, routineVars, bufferVars
<1>3. /\ UNCHANGED <<Acquired, WithBuffer, Sent, Resent, Streams, Removing>>
      /\ Streams = {}
  BY RequestsStay DEF Start, Streams, Removing
<1>4. /\ rundown'.count = rundown.count /\ rundown' \in [open : BOOLEAN, count : Int]
  BY DEF StreamShapes
<1>5. StreamShapes'
  <2>1. index' \in 1 .. ContinuousRequestCount + 1 /\ StreamingRequestCount' \in Nat
    BY StreamAssumption
  <2>2. event' \in BOOLEAN /\ early' \in BOOLEAN /\ Stopping' \in BOOLEAN
    BY <1>2
  <2> HIDE <1>1
  <2>3. /\ UNCHANGED <<mode, TransientStreamRequestsCollection, streams, routineVars, bufferVars,
                       isClosing, waits, PendingStreamingRequests>>
        /\ client' = "starting" /\ streamReferences' = streamReferences + 1
    BY <1>1
  <2> QED BY <1>4, <2>1, <2>2, <2>3 DEF StreamShapes
<1>6. LoopInv'
  BY <1>3 DEF LoopInv, Streams, Unstarted, AtSend
<1>7. ClientInv'
  BY DEF ClientInv
<1>8. RundownInv'
  BY <1>3, <1>4 DEF RundownInv, One
<1>9. StreamBuffersInv' /\ TransientInv'
  BY <1>3 DEF StreamBuffersInv, TransientInv
<1>10. StreamCountInv'
  <2>1. Unstarted' = StreamRequests /\ Streams' \cup Unstarted' = StreamRequests
    BY <1>3 DEF Unstarted, StreamRequests
  <2> QED BY <1>2, <2>1, StreamRequestsAreFinite, StreamAssumption DEF StreamCountInv
<1>11. PendingInv'
  <2>1. ~ClientBusy /\ ClientBusy'
    BY DEF ClientBusy
  <2> QED BY <1>3, <2>1 DEF PendingInv, One, StreamShapes
<1> QED BY <1>5, <1>6, <1>7, <1>8, <1>9, <1>10, <1>11

LEMMA StartAddsKeeps ==
    ASSUME StreamsInv, StartAdds
    PROVE  StreamsInv'
<1> USE DEF StreamsInv
<1>1. /\ UNCHANGED <<mode, Stopping, StreamingRequestCount, rundownVars, cancelled, routineVars,
                     bufferVars, index, isClosing, waits, counted>>
      /\ client = "starting" /\ client' = "sending" /\ index <= ContinuousRequestCount
  BY DEF StartAdds
<1> USE <1>1 DEF rundownVars, routineVars, bufferVars, counted
<1>2. index \in StreamRequests
  BY StreamAssumption DEF StreamRequests, StreamShapes
<1>3. /\ request[index] = "idle" /\ request'[index] = "send"
      /\ \A s \in StreamRequests \ {index} : request'[s] = request[s]
      /\ request' \in [StreamRequests -> Places]
  BY <1>2, MoveMoves DEF StartAdds, Places
<1>4. /\ sender'[index] = "start"
      /\ \A s \in StreamRequests \ {index} : sender'[s] = sender[s]
      /\ sender' \in [StreamRequests -> {"start", "completion"}]
  BY <1>2 DEF StartAdds, StreamShapes
<1>5. /\ TransientStreamRequestsCollection' =
           [TransientStreamRequestsCollection EXCEPT ![index] = @ + 1]
      /\ TransientStreamRequestsCollection' \in [StreamRequests -> Int]
  BY <1>2 DEF StartAdds, StreamShapes
<1>6. /\ Cardinality(Acquired') = Cardinality(Acquired)
      /\ Cardinality(WithBuffer') = Cardinality(WithBuffer)
      /\ Cardinality(Resent') = Cardinality(Resent)
      /\ Cardinality(Sent') = Cardinality(Sent)
  BY <1>2, <1>3, <1>4, RequestMoves, CountsAreNatural
     DEF AtSend, SentPlaces, InFlight, BufferPlaces, One
<1>7. StreamShapes'
  BY <1>3, <1>4, <1>5 DEF StreamShapes
<1>8. LoopInv'
  <2>1. ASSUME NEW s \in StreamRequests, request'[s] \in AtSend, sender'[s] = "start"
        PROVE  s = index
    BY <1>3, <1>4, <2>1 DEF LoopInv
  <2>2. \A s \in Unstarted' : s \in StreamRequests /\ s # index /\ s \in Unstarted
    BY <1>2 DEF Unstarted, StreamRequests
  <2>3. \A s \in Unstarted' : request'[s] = "idle"
    BY <1>3, <2>2 DEF LoopInv
  <2> QED BY <1>2, <1>3, <1>4, <2>1, <2>3 DEF LoopInv, AtSend
<1>9. ClientInv'
  BY DEF ClientInv
<1>10. RundownInv' /\ StreamBuffersInv'
  BY <1>6 DEF RundownInv, StreamBuffersInv, One
<1>11. StreamCountInv'
  <2>1. Streams' = Streams \cup {index}
    BY <1>2, <1>3 DEF Streams
  <2>2. Unstarted = Unstarted' \cup {index}
    BY <1>2 DEF Unstarted, StreamRequests
  <2>3. Streams' \cup Unstarted' = Streams \cup Unstarted
    BY <2>1, <2>2
  <2>4. event' = event
    BY DEF StartAdds
  <2> QED BY <2>3, <2>4 DEF StreamCountInv, Setting
<1>12. TransientInv'
  <2> SUFFICES ASSUME NEW s \in StreamRequests
               PROVE  TransientStreamRequestsCollection'[s] =
                        setting[s] + removing[s] + One(request'[s] # "idle")
    BY DEF TransientInv
  <2>1. CASE s = index
    BY <1>2, <1>3, <1>5, <2>1 DEF TransientInv, One, StreamShapes
  <2>2. CASE s # index
    BY <1>2, <1>3, <1>5, <2>2 DEF TransientInv, One, StreamShapes
  <2> QED BY <2>1, <2>2
<1>13. PendingInv'
  BY <1>6 DEF PendingInv, Removing, ClientBusy, One
<1> QED BY <1>7, <1>8, <1>9, <1>10, <1>11, <1>12, <1>13

LEMMA StartReleasesKeeps ==
    ASSUME StreamsInv, StartReleases
    PROVE  StreamsInv'
<1> USE DEF StreamsInv
<1>1. /\ UNCHANGED <<mode, context, event, early, streams, routineVars, bufferVars, isClosing,
                     waits, counted>>
      /\ client = "releasing" /\ client' = "starting" /\ index' = index + 1
      /\ rundown' = [rundown EXCEPT !.count = @ - 1]
  BY DEF StartReleases
<1> USE <1>1 DEF context, streams, routineVars, bufferVars, counted
<1>2. /\ UNCHANGED <<Acquired, WithBuffer, Sent, Resent, Streams, Removing>>
      /\ index \in StreamRequests
  BY RequestsStay DEF LoopInv, Removing
<1>3. Unstarted' = Unstarted
  BY <1>2 DEF Unstarted, StreamRequests
<1>4. /\ rundown'.open = rundown.open /\ rundown'.count = rundown.count - 1
      /\ rundown' \in [open : BOOLEAN, count : Int]
  BY DEF StreamShapes
<1>5. StreamShapes'
  <2>1. index' \in 1 .. ContinuousRequestCount + 1
    BY <1>2, StreamAssumption DEF StreamRequests
  <2> QED BY <1>4, <2>1 DEF StreamShapes
<1>6. LoopInv'
  BY <1>3 DEF LoopInv
<1>7. ClientInv'
  BY DEF ClientInv
<1>8. RundownInv'
  BY <1>2, <1>4, CountsAreNatural DEF RundownInv, One, StreamShapes
<1>9. StreamBuffersInv' /\ TransientInv'
  BY <1>2 DEF StreamBuffersInv, TransientInv
<1>10. StreamCountInv'
  BY <1>2, <1>3 DEF StreamCountInv, Setting
<1>11. PendingInv'
  BY <1>2 DEF PendingInv, ClientBusy, One
<1> QED BY <1>5, <1>6, <1>7, <1>8, <1>9, <1>10, <1>11

\* The request that failed joins those that were not tried.
LEMMA StartFailsKeeps ==
    ASSUME StreamsInv, StartFails
    PROVE  StreamsInv'
<1> USE DEF StreamsInv
<1>1. /\ UNCHANGED <<mode, Stopping, StreamingRequestCount, rundownVars, cancelled, sender,
                     routineVars, bufferVars, index, isClosing, waits, counted>>
      /\ client = "sending" /\ client' = "reducing"
      /\ index \in StreamRequests
  BY DEF StartFails, LoopInv
<1> USE <1>1 DEF rundownVars, routineVars, bufferVars, counted
<1>2. /\ request[index] = "refused" /\ request'[index] = "idle"
      /\ \A s \in StreamRequests \ {index} : request'[s] = request[s]
      /\ request' \in [StreamRequests -> Places]
      /\ sender[index] = "start"
  BY MoveMoves DEF StartFails, Places, LoopInv
<1>3. /\ TransientStreamRequestsCollection' =
           [TransientStreamRequestsCollection EXCEPT ![index] = @ - 1]
      /\ TransientStreamRequestsCollection' \in [StreamRequests -> Int]
  BY DEF StartFails, StreamShapes
<1>4. /\ Unstarted' = Unstarted \cup {index} /\ Streams' = Streams \ {index}
      /\ index \in Streams
  <2>1. Unstarted' = Unstarted \cup {index}
    BY DEF Unstarted, StreamRequests
  <2>2. Streams' = Streams \ {index} /\ index \in Streams
    BY <1>2 DEF Streams
  <2> QED BY <2>1, <2>2
<1>5. StreamCountInv'
  <2>1. Streams' \cup Unstarted' = Streams \cup Unstarted
    BY <1>4
  <2> QED BY <2>1 DEF StreamCountInv, Setting
<1>6. /\ Cardinality(Acquired') = Cardinality(Acquired)
      /\ Cardinality(WithBuffer') = Cardinality(WithBuffer)
      /\ Cardinality(Resent') = Cardinality(Resent)
      /\ Cardinality(Sent') = Cardinality(Sent)
  BY <1>2, RequestMoves, CountsAreNatural
     DEF AtSend, SentPlaces, InFlight, BufferPlaces, One
<1>7. StreamShapes'
  BY <1>2, <1>3, <1>5 DEF StreamShapes
<1>8. LoopInv'
  <2>1. \A s \in StreamRequests : ~(request'[s] \in AtSend /\ sender[s] = "start")
    BY <1>2 DEF LoopInv, AtSend
  <2>2. \A s \in Unstarted' : request'[s] = "idle"
    <3>1. Unstarted \subseteq StreamRequests /\ index \notin Unstarted
      BY StreamAssumption DEF Unstarted, StreamRequests
    <3> QED BY <1>2, <1>4, <3>1 DEF LoopInv
  <2> QED BY <2>1, <2>2 DEF LoopInv
<1>9. ClientInv'
  BY DEF ClientInv
<1>10. RundownInv' /\ StreamBuffersInv'
  BY <1>6 DEF RundownInv, StreamBuffersInv, One
<1>11. TransientInv'
  <2> SUFFICES ASSUME NEW s \in StreamRequests
               PROVE  TransientStreamRequestsCollection'[s] =
                        setting[s] + removing[s] + One(request'[s] # "idle")
    BY DEF TransientInv
  <2>1. CASE s = index
    BY <1>2, <1>3, <2>1 DEF TransientInv, One, StreamShapes
  <2>2. CASE s # index
    BY <1>2, <1>3, <2>2 DEF TransientInv, One, StreamShapes
  <2> QED BY <2>1, <2>2
<1>12. PendingInv'
  BY <1>6 DEF PendingInv, Removing, ClientBusy, One
<1> QED BY <1>5, <1>7, <1>8, <1>9, <1>10, <1>11, <1>12

\* One of them less, or the event set for the last.
LEMMA StartReducesKeeps ==
    ASSUME StreamsInv, StartReduces \/ StartSetsEvent
    PROVE  StreamsInv'
<1> USE DEF StreamsInv
<1>1. /\ UNCHANGED <<mode, Stopping, TransientStreamRequestsCollection, rundown, streams,
                     routineVars, bufferVars, isClosing, waits, counted>>
      /\ client \in {"reducing", "setting"} /\ client' \in {"reducing", "setting"}
  BY DEF StartReduces, StartSetsEvent, rundownVars, context, clientVars
<1>2. UNCHANGED <<mode, Stopping, TransientStreamRequestsCollection, rundown, streams,
                  routineVars, bufferVars, isClosing, waits, counted>>
  BY <1>1
<1>3. UNCHANGED <<Acquired, WithBuffer, Sent, Resent, Streams, Removing>>
  BY <1>2, RequestsStay DEF streams, routineVars, Removing
<1>4. CASE StartReduces
  <2>1. /\ client = "reducing" /\ mode # "user" /\ index \in StreamRequests
        /\ index' = index + 1 /\ event' = event /\ early' = early
        /\ StreamingRequestCount' = StreamingRequestCount - 1
        /\ client' = IF StreamingRequestCount = 1 THEN "setting" ELSE "reducing"
    BY <1>4, StreamAssumption
       DEF StartReduces, IsReduced, IsLastStream, DecreaseStreamRequestCount, StreamRequests,
           StreamShapes, rundownVars
  <2>2. Unstarted' = Unstarted \ {index} /\ index \in Unstarted
    BY <2>1 DEF Unstarted, StreamRequests
  <2>3. index \notin Streams
    BY <2>2 DEF Streams, LoopInv
  <2>4. Cardinality(Streams' \cup Unstarted') = Cardinality(Streams \cup Unstarted) - 1
    <3>1. Streams' \cup Unstarted' = (Streams \cup Unstarted) \ {index}
      BY <1>3, <2>2, <2>3
    <3>2. Streams \cup Unstarted \subseteq StreamRequests
      BY DEF Streams, Unstarted
    <3> QED BY <2>2, <3>1, <3>2, StreamRequestsAreFinite, FS_RemoveElement
  <2>5. StreamCountInv'
    <3>1. Cardinality(Streams' \cup Unstarted') \in Nat
      <4>1. Streams' \cup Unstarted' \subseteq StreamRequests
        BY <1>3, <2>2 DEF Streams, Unstarted
      <4> QED BY <4>1, StreamRequestsAreFinite
    <3>2. /\ StreamingRequestCount = Cardinality(Streams \cup Unstarted)
          /\ event /\ StreamingRequestCount # 0 => early
      BY <2>1 DEF StreamCountInv
    <3>3. StreamingRequestCount' = Cardinality(Streams' \cup Unstarted')
      BY <2>1, <2>4, <3>2
    <3>4. StreamingRequestCount' = 0 => Setting'
      BY <2>1, <3>1, <3>2, <2>4, CountsAreNatural DEF Setting
    <3>5. event' /\ StreamingRequestCount' # 0 => early'
      BY <2>1, <3>1, <3>2, <2>4, CountsAreNatural
    <3> QED BY <3>3, <3>4, <3>5 DEF StreamCountInv
  <2>6. StreamShapes'
    <3>1. index' \in 1 .. ContinuousRequestCount + 1 /\ StreamingRequestCount' \in Int
      BY <2>1, StreamAssumption DEF StreamRequests, StreamShapes
    <3> QED BY <1>1, <1>2, <2>1, <3>1
            DEF StreamShapes, streams, routineVars, bufferVars, counted
  <2>7. LoopInv'
    BY <1>1, <1>2, <2>2 DEF LoopInv, streams
  <2> QED BY <1>1, <1>2, <1>3, <2>5, <2>6, <2>7
          DEF ClientInv, RundownInv, StreamBuffersInv, TransientInv, PendingInv, ClientBusy,
              One, streams, routineVars, bufferVars, counted
<1>5. CASE StartSetsEvent
  <2>1. /\ event' = TRUE /\ early' = (early \/ StreamingRequestCount # 0)
        /\ UNCHANGED <<index, StreamingRequestCount>>
        /\ client = "setting" /\ client' = "reducing"
    BY <1>5 DEF StartSetsEvent, EventSet, context
  <2>2. early' \in BOOLEAN /\ (early' <=> early \/ StreamingRequestCount # 0)
    <3>1. early \in BOOLEAN
      BY DEF StreamShapes
    <3> QED BY <2>1, <3>1, Zenon
  <2>3. /\ event' = TRUE /\ UNCHANGED <<index, StreamingRequestCount>>
        /\ client = "setting" /\ client' = "reducing"
    BY <2>1
  <2> HIDE <2>1
  <2>4. Unstarted' = Unstarted
    BY <2>3 DEF Unstarted
  <2>5. StreamCountInv'
    BY <1>2, <1>3, <2>2, <2>3, <2>4 DEF StreamCountInv
  <2>6. StreamShapes'
    BY <1>2, <2>2, <2>3 DEF StreamShapes, streams, routineVars, bufferVars, counted
  <2>7. LoopInv'
    BY <1>2, <2>3, <2>4 DEF LoopInv, streams
  <2> QED BY <1>2, <1>3, <2>3, <2>5, <2>6, <2>7
          DEF ClientInv, RundownInv, StreamBuffersInv, TransientInv, PendingInv, ClientBusy,
              One, streams, routineVars, bufferVars, counted
<1> QED BY <1>4, <1>5

\* The begin of StopAndWait, the return of Start, and that of one that failed to
\* the cancellation.
LEMMA StopBeginsKeeps ==
    ASSUME StreamsInv, StopAndWait \/ StartReturns \/ StartCancels
    PROVE  StreamsInv'
<1> USE DEF StreamsInv
<1>1. /\ UNCHANGED <<mode, StreamingRequestCount, TransientStreamRequestsCollection, rundownVars,
                     streams, routineVars, bufferVars, index, isClosing,
                     PendingStreamingRequests>>
      /\ Stopping' \in BOOLEAN /\ waits' \in BOOLEAN
      /\ \/ /\ client \in {"running", "failed", "stopped"} /\ client' = "rundown" /\ ~isClosing
            /\ streamReferences' = streamReferences + 1
         \/ /\ client = "starting" /\ client' = "running" /\ index > ContinuousRequestCount
            /\ streamReferences' = streamReferences - 1
         \/ /\ client = "reducing" /\ client' = "rundown"
            /\ mode = "user" \/ index > ContinuousRequestCount
            /\ streamReferences' = streamReferences
  BY DEF StopAndWait, StartReturns, StartCancels, IsReduced, context, counted, StreamShapes
<1> USE <1>1 DEF rundownVars, streams, routineVars, bufferVars
<1>2. /\ LoopInv' /\ Unstarted' = {} /\ (mode # "user" => Unstarted = {})
      /\ UNCHANGED <<Acquired, WithBuffer, Sent, Resent, Streams>>
  BY ThreadGoesOn
<1>3. StreamShapes'
  BY DEF StreamShapes
<1>4. ClientInv'
  BY DEF ClientInv
<1>5. RundownInv'
  BY <1>2 DEF RundownInv, One
<1>6. StreamBuffersInv' /\ TransientInv' /\ StreamCountInv'
  BY <1>2 DEF StreamBuffersInv, TransientInv, StreamCountInv, Setting
<1>7. PendingInv'
  <2>1. Removing' = Removing
    BY DEF Removing
  <2> QED BY <1>2, <2>1 DEF PendingInv, ClientBusy, One, StreamShapes
<1> QED BY <1>2, <1>3, <1>4, <1>5, <1>6, <1>7

\* The rundown, up to its end.
LEMMA RundownKeeps ==
    ASSUME StreamsInv, RundownBegins \/ RundownEnds
    PROVE  StreamsInv'
<1> USE DEF StreamsInv
<1>1. /\ UNCHANGED <<mode, context, event, early, streams, routineVars, bufferVars, isClosing,
                     waits, counted>>
      /\ client = "rundown"
      /\ \/ /\ client' = "rundown" /\ index' = index
            /\ rundown' = [rundown EXCEPT !.open = FALSE]
         \/ /\ client' = "cancelling" /\ index' = 1 /\ ~rundown.open
            /\ mode # "user" => rundown.count = 0
            /\ rundown' = rundown
  BY DEF RundownBegins, RundownEnds, rundownVars, clientVars
<1> USE <1>1 DEF context, streams, routineVars, bufferVars, counted
<1>2. /\ LoopInv' /\ Unstarted = {} /\ Unstarted' = {}
      /\ UNCHANGED <<Acquired, WithBuffer, Sent, Resent, Streams>>
  BY ThreadGoesOn
<1>3. rundown'.count = rundown.count /\ rundown' \in [open : BOOLEAN, count : Int]
  BY DEF StreamShapes
<1>4. StreamShapes'
  <2>1. index' \in 1 .. ContinuousRequestCount + 1
    BY StreamAssumption DEF StreamShapes
  <2> QED BY <1>3, <2>1 DEF StreamShapes
<1>5. ClientInv'
  BY DEF ClientInv
<1>6. RundownInv'
  BY <1>2, <1>3 DEF RundownInv, One
<1>7. StreamBuffersInv' /\ TransientInv' /\ StreamCountInv'
  BY <1>2 DEF StreamBuffersInv, TransientInv, StreamCountInv, Setting
<1>8. PendingInv'
  BY <1>2 DEF PendingInv, ClientBusy, One, Removing
<1> QED BY <1>2, <1>4, <1>5, <1>6, <1>7, <1>8

\* The cancellation of all requests, and of those that StopAndWait finds.
LEMMA CancelRequestsKeeps ==
    ASSUME StreamsInv, CancelRequests \/ StopPolls
    PROVE  StreamsInv'
<1> USE DEF StreamsInv
<1>1. /\ UNCHANGED <<mode, context, rundownVars, request, sender, routineVars, bufferVars,
                     isClosing, waits, counted>>
      /\ \/ client = "cancelling" /\ client' \in {"cancelling", "signalling"}
         \/ client = "waiting" /\ client' = "waiting"
  BY DEF CancelRequests, StopPolls, clientVars
<1> USE <1>1 DEF context, rundownVars, routineVars, bufferVars, counted
<1>2. /\ LoopInv' /\ Unstarted = {} /\ Unstarted' = {}
      /\ UNCHANGED <<Acquired, WithBuffer, Sent, Resent, Streams>>
  BY ThreadGoesOn
<1>3. cancelled' \subseteq StreamRequests
  BY DEF CancelRequests, StopPolls, WithTarget, StreamShapes
<1>4. StreamShapes'
  <2>1. index' \in 1 .. ContinuousRequestCount + 1
    <3>1. index' = index \/ (index' = index + 1 /\ index <= ContinuousRequestCount)
      BY DEF CancelRequests, StopPolls, clientVars
    <3> QED BY <3>1, StreamAssumption DEF StreamShapes
  <2> QED BY <1>3, <2>1 DEF StreamShapes
<1>5. ClientInv'
  BY DEF ClientInv
<1>6. RundownInv'
  BY <1>2 DEF RundownInv, One
<1>7. StreamBuffersInv' /\ TransientInv' /\ StreamCountInv'
  BY <1>2 DEF StreamBuffersInv, TransientInv, StreamCountInv, Setting
<1>8. PendingInv'
  BY <1>2 DEF PendingInv, ClientBusy, One, Removing
<1> QED BY <1>2, <1>4, <1>5, <1>6, <1>7, <1>8

\* The event is set if no stream is left.
LEMMA CancelSignalsKeeps ==
    ASSUME StreamsInv, CancelSignals
    PROVE  StreamsInv'
<1> USE DEF StreamsInv
<1>1. /\ UNCHANGED <<mode, context, rundown, early, streams, routineVars, bufferVars, isClosing,
                     waits, PendingStreamingRequests>>
      /\ client = "signalling" /\ index' = 1
      /\ \/ client' = "waiting" /\ streamReferences' = streamReferences
         \/ client' = "failed" /\ streamReferences' = streamReferences - 1
  BY DEF CancelSignals
<1> USE <1>1 DEF context, streams, routineVars, bufferVars
<1>2. event' = (event \/ (mode # "user" /\ StreamingRequestCount = 0))
  BY DEF CancelSignals
<1>3. event' \in BOOLEAN /\ (event' <=> event \/ (mode # "user" /\ StreamingRequestCount = 0))
  <2>1. event \in BOOLEAN
    BY DEF StreamShapes
  <2> QED BY <1>2, <2>1, Zenon
<1> HIDE <1>2
<1>4. /\ LoopInv' /\ Unstarted = {} /\ Unstarted' = {}
      /\ UNCHANGED <<Acquired, WithBuffer, Sent, Resent, Streams>>
  BY ThreadGoesOn
<1>5. StreamShapes'
  <2>1. index' \in 1 .. ContinuousRequestCount + 1
    BY StreamAssumption
  <2> QED BY <1>3, <2>1 DEF StreamShapes
<1>6. ClientInv'
  BY DEF ClientInv
<1>7. RundownInv'
  BY <1>4 DEF RundownInv, One
<1>8. StreamBuffersInv' /\ TransientInv' /\ StreamCountInv'
  BY <1>3, <1>4 DEF StreamBuffersInv, TransientInv, StreamCountInv, Setting
<1>9. PendingInv'
  <2>1. Removing' = Removing
    BY DEF Removing
  <2> QED BY <1>4, <2>1 DEF PendingInv, ClientBusy, One, StreamShapes
<1> QED BY <1>4, <1>5, <1>6, <1>7, <1>8, <1>9

\* Nothing is out when nothing is pending.
LEMMA NothingIsPending ==
    ASSUME StreamsInv, PendingStreamingRequests = 0, client # "sending"
    PROVE  /\ Streams = {} /\ releasing = 0
           /\ \A r \in StreamRequests : /\ TransientStreamRequestsCollection[r] = 0
                                         /\ setting[r] = 0
<1> USE DEF StreamsInv
<1>1. /\ Cardinality(Sent) = 0 /\ Cardinality(Resent) = 0 /\ Cardinality(Removing) = 0
      /\ releasing = 0
  BY CountsAreNatural DEF PendingInv, StreamShapes
<1>2. Sent = {} /\ Resent = {} /\ Removing = {}
  BY <1>1, StreamRequestsAreFinite, FS_EmptySet DEF Sent, Resent, PendingInv
<1>3. ASSUME NEW r \in StreamRequests PROVE request[r] = "idle"
  <2>1. request[r] \in Places /\ sender[r] \in {"start", "completion"}
    BY DEF StreamShapes
  <2>2. request[r] \notin SentPlaces
    BY <1>2 DEF Sent
  <2>3. request[r] \notin AtSend
    BY <1>2, <2>1 DEF Resent, LoopInv
  <2> QED BY <2>1, <2>2, <2>3 DEF Places, SentPlaces, InFlight, AtSend
<1>4. ASSUME NEW r \in StreamRequests PROVE removing[r] = 0 /\ setting[r] = 0
  <2>1. removing[r] \in Nat /\ setting[r] \in Nat
    BY DEF StreamShapes
  <2>2. setting[r] + removing[r] > 0 => <<r, 1>> \in Removing
    BY <2>1 DEF Removing
  <2> QED BY <1>2, <2>1, <2>2
<1> QED BY <1>1, <1>3, <1>4 DEF Streams, TransientInv, One

\* StopAndWait returns when all streams have ended.
LEMMA StopReturnsKeeps ==
    ASSUME StreamsInv, StopReturns
    PROVE  StreamsInv'
<1> USE DEF StreamsInv
<1>1. /\ UNCHANGED <<mode, context, rundownVars, streams, routineVars, bufferVars, index,
                     isClosing, waits, PendingStreamingRequests>>
      /\ client = "waiting" /\ client' = "stopped"
      /\ streamReferences' = streamReferences - 1
  BY DEF StopReturns
<1> USE <1>1 DEF context, rundownVars, streams, routineVars, bufferVars
<1>2. /\ LoopInv' /\ Unstarted = {} /\ Unstarted' = {}
      /\ UNCHANGED <<Acquired, WithBuffer, Sent, Resent, Streams>>
  BY ThreadGoesOn
<1>3. ~early => Streams = {} /\ releasing = 0
  <2>1. CASE mode = "user"
    <3>1. PendingStreamingRequests = 0
      BY <2>1 DEF StopReturns, HasStopped
    <3> QED BY <3>1, NothingIsPending
  <2>2. CASE mode # "user" /\ ~early
    <3>1. event
      BY <2>2 DEF StopReturns, HasStopped
    <3>2. Cardinality(Streams \cup Unstarted) = 0
      BY <2>2, <3>1 DEF StreamCountInv
    <3>3. Streams = {}
      BY <3>2, StreamRequestsAreFinite, FS_EmptySet DEF Streams, Unstarted
    <3>4. releasing = 0
      BY <2>2, CountsAreNatural DEF RundownInv, StreamShapes, One
    <3> QED BY <3>3, <3>4
  <2> QED BY <2>1, <2>2
<1>4. StreamShapes'
  BY DEF StreamShapes
<1>5. ClientInv'
  BY <1>2, <1>3 DEF ClientInv
<1>6. RundownInv'
  BY <1>2 DEF RundownInv, One
<1>7. StreamBuffersInv' /\ TransientInv' /\ StreamCountInv'
  BY <1>2 DEF StreamBuffersInv, TransientInv, StreamCountInv, Setting
<1>8. PendingInv'
  <2>1. Removing' = Removing
    BY DEF Removing
  <2> QED BY <1>2, <2>1 DEF PendingInv, ClientBusy, One, StreamShapes
<1> QED BY <1>2, <1>4, <1>5, <1>6, <1>7, <1>8

LEMMA StreamCloseKeeps ==
    ASSUME StreamsInv, StreamCloseBegins \/ StreamClose
    PROVE  StreamsInv'
<1> USE DEF StreamsInv
<1>1. /\ UNCHANGED <<mode, context, rundownVars, streams, routineVars, bufferVars, index, waits,
                     counted>>
      /\ client \in {"stopped", "failed"} /\ isClosing' = TRUE
      /\ \/ client' = client
         \/ client' = "closed" /\ streamReferences = 0
  BY DEF StreamCloseBegins, StreamClose, StreamShapes
<1> USE <1>1 DEF context, rundownVars, streams, routineVars, bufferVars, counted
<1>2. /\ LoopInv' /\ Unstarted = {} /\ Unstarted' = {}
      /\ UNCHANGED <<Acquired, WithBuffer, Sent, Resent, Streams>>
  BY ThreadGoesOn
<1>3. client' = "closed" => Streams = {} /\ releasing = 0
  <2>1. streamReferences = 0 => PendingStreamingRequests = 0
    BY DEF PendingInv, ClientBusy, One, StreamShapes
  <2> QED BY <2>1, NothingIsPending
<1>4. StreamShapes'
  BY DEF StreamShapes
<1>5. ClientInv'
  BY <1>2, <1>3 DEF ClientInv
<1>6. RundownInv'
  BY <1>2 DEF RundownInv, One
<1>7. StreamBuffersInv' /\ TransientInv' /\ StreamCountInv'
  BY <1>2 DEF StreamBuffersInv, TransientInv, StreamCountInv, Setting
<1>8. PendingInv'
  BY <1>2 DEF PendingInv, ClientBusy, One, Removing
<1> QED BY <1>2, <1>4, <1>5, <1>6, <1>7, <1>8

-----------------------------------------------------------------------------
(* All of them.                                                             *)

LEMMA StreamInitInv == StreamInit => StreamsInv
<1> SUFFICES ASSUME StreamInit PROVE StreamsInv
  OBVIOUS
<1>1. /\ Acquired = {} /\ WithBuffer = {} /\ Sent = {} /\ Resent = {} /\ Streams = {}
      /\ Unstarted = {} /\ Removing = {}
  BY DEF StreamInit, Acquired, WithBuffer, Sent, Resent, Streams, Unstarted, Removing,
         BufferPlaces, SentPlaces, InFlight, AtSend
<1>2. IsFiniteSet({}) /\ Cardinality({}) = 0
  BY FS_EmptySet
<1>3. StreamShapes
  <2>1. 1 \in 1 .. ContinuousRequestCount + 1 /\ 0 \in 0 .. MaxClientBuffers
    BY StreamAssumption
  <2>2. index \in 1 .. ContinuousRequestCount + 1 /\ clientBuffers \in 0 .. MaxClientBuffers
    BY <2>1 DEF StreamInit
  <2>3. /\ Stopping \in BOOLEAN /\ event \in BOOLEAN /\ early \in BOOLEAN
        /\ isClosing \in BOOLEAN /\ waits \in BOOLEAN
    BY Zenon DEF StreamInit
  <2>4. rundown \in [open : BOOLEAN, count : Int]
    <3>1. 0 \in Int
      OBVIOUS
    <3> QED BY <3>1, Zenon DEF StreamInit
  <2>5. /\ releasing \in Nat /\ leaving \in Nat /\ PendingStreamingRequests \in Int
        /\ streamReferences \in Int /\ buffers \in Int /\ StreamingRequestCount \in Nat
    BY DEF StreamInit
  <2>6. /\ TransientStreamRequestsCollection \in [StreamRequests -> Int]
        /\ request \in [StreamRequests -> Places]
        /\ sender \in [StreamRequests -> {"start", "completion"}]
        /\ setting \in [StreamRequests -> Nat] /\ removing \in [StreamRequests -> Nat]
    BY DEF StreamInit, Places
  <2>7. mode \in Modes /\ cancelled = {} /\ client = "stopped"
    BY DEF StreamInit
  <2> QED BY <2>2, <2>3, <2>4, <2>5, <2>6, <2>7 DEF StreamShapes
<1>4. LoopInv /\ ClientInv /\ TransientInv
  BY <1>1 DEF StreamInit, LoopInv, ClientInv, TransientInv, One, AtSend
<1>5. RundownInv /\ StreamBuffersInv /\ PendingInv
  BY <1>1, <1>2 DEF StreamInit, RundownInv, StreamBuffersInv, PendingInv, One, ClientBusy
<1>6. StreamCountInv
  BY <1>1, <1>2 DEF StreamInit, StreamCountInv
<1> QED BY <1>3, <1>4, <1>5, <1>6 DEF StreamsInv

LEMMA StreamStutterKeeps == ASSUME StreamsInv, UNCHANGED streamVars PROVE StreamsInv'
<1> USE DEF streamVars, context, rundownVars, streams, routineVars, bufferVars, clientVars, counted
<1>1. UNCHANGED <<Acquired, WithBuffer, Sent, Resent, Streams, Unstarted, Removing, ClientBusy>>
  BY RequestsStay DEF Unstarted, Removing, ClientBusy
<1>2. StreamShapes' /\ LoopInv' /\ ClientInv'
  BY <1>1 DEF StreamsInv, StreamShapes, LoopInv, ClientInv
<1>3. RundownInv' /\ StreamBuffersInv' /\ StreamCountInv' /\ TransientInv'
  BY <1>1 DEF StreamsInv, RundownInv, StreamBuffersInv, StreamCountInv, Setting, TransientInv
<1>4. PendingInv'
  BY <1>1 DEF StreamsInv, PendingInv, One
<1> QED BY <1>2, <1>3, <1>4 DEF StreamsInv

LEMMA StreamNextKeeps == StreamsInv /\ [StreamNext]_streamVars => StreamsInv'
<1> SUFFICES ASSUME StreamsInv, [StreamNext]_streamVars PROVE StreamsInv'
  OBVIOUS
<1>1. ASSUME NEW r \in StreamRequests, StreamSendStep(r) PROVE StreamsInv'
  BY <1>1, SendReferencesKeeps, SendAcquiresKeeps, SendIsRundownKeeps, SendSucceedsKeeps,
     StreamSendFailsKeeps, SendReturnsFailureKeeps DEF StreamSendStep
<1>2. ASSUME NEW r \in StreamRequests, StreamCompletionStep(r) \/ StreamTargetCompletes(r)
      PROVE  StreamsInv'
  <2>1. ASSUME NEW keeps \in BOOLEAN, NEW continues \in BOOLEAN,
               ClientReturns(r, keeps, continues)
        PROVE  StreamsInv'
    BY <2>1, ClientReturnsKeeps
  <2> QED BY <1>2, <2>1, StreamTargetCompletesKeeps, CompletionTestsKeeps, StreamEndsKeeps,
             StreamSetsEventKeeps, StreamRemovesKeeps DEF StreamCompletionStep
<1>3. CASE CompletionReleases \/ CompletionReturns \/ BufferPut
  BY <1>3, CompletionReleasesKeeps, CompletionReturnsKeeps, BufferPutKeeps
<1>4. CASE Start \/ StartStep \/ StopAndWait
  BY <1>4, StartKeeps, StartAddsKeeps, StartReleasesKeeps, StartFailsKeeps,
     StartReducesKeeps, StopBeginsKeeps DEF StartStep
<1>5. CASE StopStep
  BY <1>5, RundownKeeps, CancelRequestsKeeps, CancelSignalsKeeps, StopReturnsKeeps DEF StopStep
<1>6. CASE StreamCloseBegins \/ StreamClose
  BY <1>6, StreamCloseKeeps
<1>7. CASE UNCHANGED streamVars
  BY <1>7, StreamStutterKeeps
<1> QED BY <1>1, <1>2, <1>3, <1>4, <1>5, <1>6, <1>7 DEF StreamNext

LEMMA StreamInvariance == StreamSpec => []StreamsInv
BY StreamInitInv, StreamNextKeeps, PTL DEF StreamSpec

\* No counter of DMF_CONTEXT_ContinuousRequestTarget becomes negative, nor the
\* count of the rundown or of a request in the transient collection, and every
\* field keeps its range.
THEOREM StreamTypesHold == StreamSpec => []StreamTypeOK
<1>1. ASSUME StreamsInv PROVE StreamTypeOK
  <2> USE <1>1 DEF StreamsInv
  <2>1. rundown.count \in Nat
    BY CountsAreNatural DEF RundownInv, StreamShapes, One
  <2>2. rundown \in [open : BOOLEAN, count : Nat]
    BY <2>1 DEF StreamShapes
  <2>3. buffers \in Nat
    BY CountsAreNatural, StreamAssumption DEF StreamBuffersInv, StreamShapes
  <2>4. StreamingRequestCount \in Nat
    BY CountsAreNatural DEF StreamCountInv, StreamShapes
  <2>5. PendingStreamingRequests \in Nat /\ streamReferences \in Nat
    BY CountsAreNatural DEF PendingInv, StreamShapes, One
  <2>6. TransientStreamRequestsCollection \in [StreamRequests -> Nat]
    <3>1. \A r \in StreamRequests : TransientStreamRequestsCollection[r] \in Nat
      BY DEF TransientInv, StreamShapes, One
    <3> QED BY <3>1 DEF StreamShapes
  <2> QED BY <2>2, <2>3, <2>4, <2>5, <2>6 DEF StreamTypeOK, StreamShapes
<1> QED BY <1>1, StreamInvariance, PTL

\* DMF_ContinuousRequestTarget_StopAndWait: when it has returned, no request of
\* the streams is with the target or in a completion routine that goes on with
\* it, nobody has the rundown to release, and the only buffers out of the pool
\* are those that the Client keeps; in all three modes, whatever failed before,
\* unless a routine of an earlier Start has set the event since the last one
\* while a stream was left. When the Module is closed it is so in any case.
THEOREM StopLeavesNothingOut == StreamSpec => []StoppedIsQuiet
<1>1. ASSUME StreamsInv PROVE StoppedIsQuiet
  <2>1. ASSUME client = "closed" \/ (client = "stopped" /\ ~early)
        PROVE  Streams = {} /\ releasing = 0 /\ buffers = clientBuffers
    <3>1. Streams = {} /\ releasing = 0
      BY <1>1, <2>1 DEF StreamsInv, ClientInv
    <3>2. WithBuffer = {}
      BY <3>1 DEF WithBuffer, BufferPlaces, Streams
    <3>3. buffers = clientBuffers
      BY <1>1, <3>2, FS_EmptySet, StreamAssumption
         DEF StreamsInv, StreamBuffersInv, StreamShapes
    <3> QED BY <3>1, <3>3
  <2> QED BY <2>1 DEF StoppedIsQuiet, IsQuiet
<1> QED BY <1>1, StreamInvariance, PTL

\* ContinuousRequestTarget_DecreaseStreamRequestCount reaches zero with the last
\* stream, also when Start has failed in the middle, and then the event is set or
\* is about to be, by a routine that is late or not; while a stream is left only
\* a late one sets it. DMF_ContinuousRequestTarget_Close finds no pending request,
\* an empty collection and, in kernel mode, the event set when the last reference
\* to the Module has gone.
THEOREM StreamCountsAreRight == StreamSpec => []StreamsAreCounted
<1>1. ASSUME StreamsInv PROVE StreamsAreCounted
  <2> USE <1>1 DEF StreamsInv
  <2>1. ASSUME isClosing, streamReferences = 0
        PROVE  /\ PendingStreamingRequests = 0
               /\ \A r \in StreamRequests : TransientStreamRequestsCollection[r] = 0
               /\ mode # "user" => event
    <3>1. client \in {"stopped", "failed", "closed"}
      BY <2>1 DEF ClientInv
    <3>2. PendingStreamingRequests = 0
      BY <2>1, <3>1 DEF PendingInv, ClientBusy, One, StreamShapes
    <3>3. /\ Streams = {} /\ Unstarted = {}
          /\ \A r \in StreamRequests : /\ TransientStreamRequestsCollection[r] = 0
                                        /\ setting[r] = 0
      BY <3>1, <3>2, NothingIsPending DEF Unstarted
    <3>4. ~Setting
      BY <3>1, <3>3 DEF Setting
    <3>5. mode # "user" => event
      <4>1. Cardinality(Streams \cup Unstarted) = 0
        <5>1. Streams \cup Unstarted = {}
          BY <3>3
        <5> QED BY <5>1, FS_EmptySet
      <4> QED BY <3>4, <4>1 DEF StreamCountInv
    <3> QED BY <3>2, <3>3, <3>5
  <2> QED BY <2>1 DEF StreamsAreCounted, StreamCountInv, Setting
<1> QED BY <1>1, StreamInvariance, PTL

-----------------------------------------------------------------------------
(* DMF_DeviceInterfaceTarget.                                               *)

\* The targets that exist: open, or closed until the query is answered.
Kept == {t \in Targets : target[t] \in {"open", "queryClosed"}}

\* The target of the Module is open.
Attached == IoTarget # NULL /\ target[IoTarget] = "open"

\* The driver is to close the Module, or closes it.
DriverCloses == pc["driver"] \in {"reasonSet"} \cup Closing

\* A close has done its work, and nothing arrived since.
Over == phase = "closed" /\ Kept = {}

\* PnP notifies while the driver is registered, and not beside a callback.
RegisteredInv ==
    /\ registered <=> pc["driver"] \in {"registering", "running"}
    /\ pc["interface"] # "idle" =>
          pc["driver"] \in {"registering", "running"} /\ pc["target"] = "idle"

\* There is one target at a time, and the name is that of its interface.
KeptInv ==
    /\ \A t, u \in Kept : t = u
    /\ link <=> Kept # {}
    /\ \A t \in Targets : target[t] = "open" => IoTarget = t
    /\ \A t \in Targets : target[t] = "none" => query[t] = "none"

\* The phase of the Module is that of the thread that closes it.
PhaseInv ==
    /\ phase \in {"open", "draining"} => Attached /\ sink = IoTarget
    /\ phase \in {"closed", "closing"} => users = {}
    /\ phase # "destroyed"
    /\ phase = "draining" => \E t \in InterfaceThreads : pc[t] = "drain"
    /\ phase = "closing" =>
          \E t \in InterfaceThreads : pc[t] \in {"deviceClose", "closed"}
    /\ phase = "closed" /\ IoTarget # NULL =>
          pc["interface"] \in {"created", "open"} \/ pc["target"] = "reopen"

\* What the thread that closes the Module has done.
ClosingInv(t) ==
    /\ pc[t] = "close" => phase = "open"
    /\ pc[t] = "drain" => phase = "draining"
    /\ pc[t] = "deviceClose" => phase = "closing" /\ Attached
    /\ pc[t] = "closed" => phase = "closing" /\ IoTarget # NULL
    /\ pc[t] = "closed" /\ closeReason = "QueryRemove" => target[IoTarget] = "queryClosed"
    /\ pc[t] = "closed" /\ closeReason # "QueryRemove" => Kept = {}

\* An arrival has a target, and the Module is closed until it opens.
ArrivalInv ==
    /\ pc["interface"] \in {"created", "open"} => /\ phase = "closed"
                                                  /\ Attached
                                                  /\ query[IoTarget] = "none"
    /\ pc["interface"] = "open" => closeReason = "NotSet"
    /\ pc["interface"] \in Closing => closeReason = "NotificationRemoval"

\* What a callback of a target finds.
CallbackInv ==
    /\ pc["target"] # "idle" => calledFor # NULL
    /\ pc["target"] = "queryRemove" =>
          target[calledFor] = "open" /\ query[calledFor] = "accepted"
    /\ pc["target"] = "ask" =>
          phase = "open" /\ IoTarget = calledFor /\ query[calledFor] = "accepted"
    /\ pc["target"] = "removeCancel" =>
          /\ query[calledFor] = "none"
          /\ calledFor \in Kept
          /\ phase = IF target[calledFor] = "open" THEN "open" ELSE "closed"
    /\ pc["target"] = "reopen" =>
          /\ phase = "closed" /\ IoTarget = calledFor /\ Attached
          /\ query[calledFor] = "none"
    /\ pc["target"] = "cancelled" =>
          phase = "open" /\ IoTarget = calledFor /\ query[calledFor] = "none"
    /\ pc["target"] = "cancelFailed" => Over
    /\ pc["target"] = "removeComplete" =>
          calledFor \in Kept /\ query[calledFor] = "gone"
    /\ pc["target"] \in Closing => IoTarget = calledFor

\* While nobody closes: the Module has the target, open or about to be.
NotSetInv ==
    closeReason = "NotSet" /\ pc["interface"] # "created" =>
        /\ pc["interface"] \in {"idle", "open"}
        /\ pc["target"] \in {"idle", "queryRemove", "removeComplete"}
        /\ ~DriverCloses
        /\ \A t \in Kept :
              /\ IoTarget = t /\ target[t] = "open"
              /\ phase = IF pc["interface"] = "open" THEN "closed" ELSE "open"
              /\ query[t] # "none" => pc["target"] # "idle" /\ calledFor = t
        /\ Kept = {} => phase = "closed"

\* The removal of the interface, or of the device, closes or has closed.
RemovedInv ==
    /\ closeReason = "NotificationRemoval" =>
          /\ pc["target"] = "idle" /\ ~DriverCloses
          /\ pc["interface"] \in Closing \/ pc["interface"] = "created" \/ Over
          /\ pc["interface"] \in Closing =>
                \A t \in Kept : query[t] = "none"
    /\ closeReason = "RemoveComplete" =>
          /\ pc["target"] \in Closing \cup {"idle"} /\ ~DriverCloses
          /\ pc["target"] \in Closing \/ pc["interface"] = "created" \/ Over
          /\ pc["target"] \in Closing => query[calledFor] = "gone"

\* So does the driver that unregisters, itself or after a RemoveCancel.
UnregisteredInv ==
    closeReason = "NotificationUnregister" =>
        \/ /\ DriverCloses
           /\ pc["target"] \in {"idle", "queryRemove", "removeComplete"}
           /\ pc["driver"] = "reasonSet" => phase \in {"open", "closed"}
           /\ pc["driver"] = "reasonSet" /\ phase = "closed" => Kept = {}
        \/ ~DriverCloses /\ pc["target"] \in Closing
        \/ ~DriverCloses /\ pc["target"] = "idle"
              /\ (Over \/ pc["interface"] = "created")

\* The driver that closes was the first.
DriverInv == DriverCloses => closeReason = "NotificationUnregister"

\* A query owns the target from its start to its answer.
QueryRemoveInv ==
    closeReason = "QueryRemove" =>
        /\ pc["target"] # "queryRemove"
        /\ pc["target"] \in Closing => query[calledFor] = "accepted"
        /\ pc["target"] \in {"idle", "removeComplete"} =>
              \/ Over \/ pc["interface"] = "created"
              \/ phase = "open" /\ pc["target"] = "idle" /\ query[IoTarget] = "vetoed"
              \/ /\ phase = "closed" /\ IoTarget = NULL
                 /\ \A t \in Kept : query[t] = IF pc["target"] = "idle"
                                               THEN "accepted" ELSE "gone"

\* Nobody else closes a target that waits for the answer to a query.
QueryClosedInv ==
    /\ \A t \in Targets : target[t] = "queryClosed" => closeReason = "QueryRemove"
    /\ pc["target"] \in {"ask", "removeCancel", "reopen", "cancelled", "cancelFailed"} =>
          closeReason = "QueryRemove"

\* The invariant as long as nothing has strayed: with the reason that was set
\* first, it says for each step of each thread which of them has the target.
TargetInv ==
    /\ InterfaceTypeOK
    /\ RegisteredInv
    /\ KeptInv
    /\ PhaseInv
    /\ \A t \in InterfaceThreads : ClosingInv(t)
    /\ ArrivalInv
    /\ CallbackInv
    /\ NotSetInv
    /\ RemovedInv
    /\ UnregisteredInv
    /\ DriverInv
    /\ QueryRemoveInv
    /\ QueryClosedInv

\* Thread t has gone on to step s, and the others are where they were.
WentTo(t, s) ==
    /\ pc' \in [InterfaceThreads -> UNION {Steps[u] : u \in InterfaceThreads}]
    /\ \A u \in InterfaceThreads : pc'[u] \in Steps[u]
    /\ \A u \in InterfaceThreads : pc'[u] = IF u = t THEN s ELSE pc[u]

LEMMA GoingOn ==
    ASSUME InterfaceTypeOK, NEW t \in InterfaceThreads, NEW s \in Steps[t], GoesTo(t, s)
    PROVE WentTo(t, s)
<1>1. pc \in [InterfaceThreads -> UNION {Steps[u] : u \in InterfaceThreads}]
    BY DEF InterfaceTypeOK
<1>2. s \in UNION {Steps[u] : u \in InterfaceThreads}
    OBVIOUS
<1>3. \A u \in InterfaceThreads : pc'[u] = IF u = t THEN s ELSE pc[u]
    BY <1>1 DEF GoesTo
<1>4. pc' \in [InterfaceThreads -> UNION {Steps[u] : u \in InterfaceThreads}]
    BY <1>1, <1>2 DEF GoesTo
<1> QED BY <1>3, <1>4 DEF InterfaceTypeOK, WentTo

LEMMA InterfaceThreadsAre ==
    /\ "interface" \in InterfaceThreads /\ "target" \in InterfaceThreads
    /\ "driver" \in InterfaceThreads
    /\ \A t \in InterfaceThreads : t \in {"interface", "target", "driver"}
    /\ \A t \in InterfaceThreads : Closing \subseteq Steps[t] /\ "idle" \in Steps[t]
BY DEF InterfaceThreads, Steps, Closing

LEMMA InterfaceStepsAre ==
    /\ {"created", "open"} \subseteq Steps["interface"]
    /\ {"queryRemove", "ask", "removeCancel", "reopen", "cancelled", "cancelFailed",
        "removeComplete"} \subseteq Steps["target"]
    /\ {"registering", "running", "unregistered", "reasonSet"} \subseteq Steps["driver"]
BY DEF Steps

\* Two threads never close the Module at the same time.
LEMMA OneCloses ==
    ASSUME TargetInv
    PROVE \A t, u \in InterfaceThreads : pc[t] \in Closing /\ pc[u] \in Closing => t = u
BY InterfaceThreadsAre DEF TargetInv, RegisteredInv, UnregisteredInv, DriverInv, ArrivalInv,
   DriverCloses, Closing

\* The target of the Module is the one that is kept, once it is open.
LEMMA KeptAre ==
    ASSUME TargetInv
    PROVE /\ Attached => IoTarget \in Targets /\ Kept = {IoTarget}
          /\ \A t \in Kept : t \in Targets /\ Kept = {t}
          /\ \A t \in Targets : target[t] \in {"open", "queryClosed"} <=> t \in Kept
          /\ calledFor # NULL => calledFor \in Targets
          /\ IoTarget # NULL => IoTarget \in Targets
BY DEF TargetInv, KeptInv, Kept, Attached, InterfaceTypeOK, NULL

\* The three outcomes of RemoveCancel.
CancelFindsOpen ==
    /\ pc["target"] = "removeCancel" /\ IoTarget # NULL
    /\ GoesTo("target", "cancelled")
    /\ UNCHANGED <<accessVars, targetContext, reasonVars, registration, calledFor, target,
                   query, strayed>>

CancelReopens ==
    /\ pc["target"] = "removeCancel" /\ IoTarget = NULL
    /\ target[calledFor] = "queryClosed"
    /\ IoTarget' = calledFor
    /\ target' = [target EXCEPT ![calledFor] = "open"]
    /\ GoesTo("target", "reopen")
    /\ UNCHANGED <<accessVars, sink, link, reasonVars, registration, calledFor, query,
                   strayed>>

CancelFails ==
    /\ pc["target"] = "removeCancel" /\ IoTarget = NULL
    /\ target' = [target EXCEPT ![calledFor] = "deleted"]
    /\ link' = FALSE
    /\ GoesTo("target", "cancelFailed")
    /\ UNCHANGED <<accessVars, IoTarget, sink, reasonVars, registration, calledFor, query,
                   strayed>>

(* One lemma for each action: what it changes, then each part.              *)

LEMMA ModuleCloseKeeps ==
    ASSUME TargetInv, NEW t \in InterfaceThreads, ModuleClose(t)
    PROVE TargetInv'
<1> USE InterfaceThreadsAre DEF ModuleClose, Access!ABeginClose, TargetInv, WentTo, Closing,
       accessVars, targetContext, reasonVars, registration
<1>1. WentTo(t, IF phase = "open" THEN "drain" ELSE "idle")
    BY GoingOn, InterfaceStepsAre
<1>2. \A v, w \in InterfaceThreads : pc[v] \in Closing /\ pc[w] \in Closing => v = w
    BY OneCloses
<1>3. Kept' = Kept
    BY DEF Kept
<1>4. InterfaceTypeOK'
    BY <1>1 DEF InterfaceTypeOK, Access!ATypeOK, Access!Phases, Reasons, NULL, Targets,
           IsFirst
<1>5. RegisteredInv'  BY <1>1 DEF RegisteredInv
<1>6. KeptInv'  BY <1>1 DEF KeptInv, Kept
<1>7. PhaseInv'  BY <1>1 DEF PhaseInv, Attached
<1>8. ASSUME NEW u \in InterfaceThreads PROVE ClosingInv(u)'
    BY <1>1, <1>2, <1>3 DEF ClosingInv, Attached, PhaseInv
<1>9. ArrivalInv'  BY <1>1 DEF ArrivalInv, Attached
<1>10. CallbackInv'
    BY <1>1 DEF CallbackInv, Kept, Over, Attached, ArrivalInv, RemovedInv, UnregisteredInv,
           DriverInv, DriverCloses
<1>11. NotSetInv'  BY <1>1 DEF NotSetInv, DriverCloses, Kept
<1>12. RemovedInv'  BY <1>1 DEF RemovedInv, DriverCloses, Over, Kept, ClosingInv
<1>13. UnregisteredInv'
    BY <1>1 DEF UnregisteredInv, DriverCloses, Over, Kept, ArrivalInv, ClosingInv
<1>14. DriverInv'  BY <1>1 DEF DriverInv, DriverCloses
<1>15. QueryRemoveInv'
    BY <1>1 DEF QueryRemoveInv, Over, Kept, ArrivalInv, DriverInv, DriverCloses, ClosingInv
<1>16. QueryClosedInv'  BY <1>1 DEF QueryClosedInv
<1> QED BY <1>4, <1>5, <1>6, <1>7, <1>8, <1>9, <1>10, <1>11, <1>12, <1>13, <1>14, <1>15, <1>16

LEMMA DrainedKeeps ==
    ASSUME TargetInv, NEW t \in InterfaceThreads, Drained(t)
    PROVE TargetInv'
<1> USE InterfaceThreadsAre DEF Drained, Access!ADrained, TargetInv, WentTo, Closing,
       accessVars, targetContext, reasonVars, registration
<1>1. WentTo(t, "deviceClose")
    BY GoingOn, InterfaceStepsAre
<1>2. \A v, w \in InterfaceThreads : pc[v] \in Closing /\ pc[w] \in Closing => v = w
    BY OneCloses
<1>3. Kept' = Kept
    BY DEF Kept
<1>4. InterfaceTypeOK'
    BY <1>1 DEF InterfaceTypeOK, Access!ATypeOK, Access!Phases, Reasons, NULL, Targets,
           IsFirst
<1>5. RegisteredInv'  BY <1>1 DEF RegisteredInv
<1>6. KeptInv'  BY <1>1 DEF KeptInv, Kept
<1>7. PhaseInv'  BY <1>1 DEF PhaseInv, Attached
<1>8. ASSUME NEW u \in InterfaceThreads PROVE ClosingInv(u)'
    BY <1>1, <1>2, <1>3 DEF ClosingInv, Attached, PhaseInv
<1>9. ArrivalInv'  BY <1>1 DEF ArrivalInv, Attached
<1>10. CallbackInv'  BY <1>1 DEF CallbackInv, Kept, Over, Attached
<1>11. NotSetInv'  BY <1>1 DEF NotSetInv, DriverCloses, Kept
<1>12. RemovedInv'  BY <1>1 DEF RemovedInv, DriverCloses, Over, Kept
<1>13. UnregisteredInv'  BY <1>1 DEF UnregisteredInv, DriverCloses, Over, Kept
<1>14. DriverInv'  BY <1>1 DEF DriverInv, DriverCloses
<1>15. QueryRemoveInv'  BY <1>1 DEF QueryRemoveInv, Over, Kept
<1>16. QueryClosedInv'  BY <1>1 DEF QueryClosedInv
<1> QED BY <1>4, <1>5, <1>6, <1>7, <1>8, <1>9, <1>10, <1>11, <1>12, <1>13, <1>14, <1>15, <1>16

LEMMA DeviceCloseKeeps ==
    ASSUME TargetInv, NEW t \in InterfaceThreads, DeviceClose(t)
    PROVE TargetInv'
<1> USE InterfaceThreadsAre DEF DeviceClose, TargetAfterClose, TargetInv, WentTo, Closing,
       accessVars, targetContext, reasonVars, registration
<1>1. WentTo(t, "closed")
    BY GoingOn, InterfaceStepsAre
<1>2. \A v, w \in InterfaceThreads : pc[v] \in Closing /\ pc[w] \in Closing => v = w
    BY OneCloses
<1>3. closeReason # "NotSet"
    BY DEF NotSetInv, ArrivalInv, RegisteredInv, DriverCloses
<1>4. Attached /\ IoTarget \in Targets /\ Kept = {IoTarget}
    BY KeptAre DEF ClosingInv
<1>5. target' = [target EXCEPT ![IoTarget] = IF closeReason = "QueryRemove"
          THEN "queryClosed" ELSE "deleted"]
    BY <1>3
<1>6. Kept' = IF closeReason = "QueryRemove" THEN Kept ELSE {}
    BY <1>4, <1>5 DEF InterfaceTypeOK, Targets, NULL, Kept
<1>7. phase' = "closing" /\ UNCHANGED <<IoTarget, closeReason>>
    BY DEF ClosingInv
<1>8. closeReason = "QueryRemove" => target'[IoTarget] = "queryClosed"
    BY <1>4, <1>5 DEF InterfaceTypeOK
<1>9. InterfaceTypeOK'
    BY <1>1 DEF InterfaceTypeOK, Access!ATypeOK, Access!Phases, Reasons, NULL, Targets,
           IsFirst
<1>10. RegisteredInv'  BY <1>1 DEF RegisteredInv
<1>11. KeptInv'  BY <1>3, <1>4, <1>5, <1>6 DEF KeptInv, InterfaceTypeOK
<1>12. PhaseInv'  BY <1>1 DEF PhaseInv, Attached, ClosingInv
<1>13. ASSUME NEW u \in InterfaceThreads PROVE ClosingInv(u)'
    BY <1>1, <1>2, <1>4, <1>6, <1>7, <1>8 DEF ClosingInv, Attached
<1>14. ArrivalInv'  BY <1>1 DEF ArrivalInv, Attached, RegisteredInv, IsFirst
<1>15. CallbackInv'
    BY <1>1 DEF CallbackInv, Kept, Over, Attached, ArrivalInv, DriverInv, DriverCloses
<1>16. NotSetInv'  BY <1>1 DEF NotSetInv, DriverCloses, Kept
<1>17. RemovedInv'  BY <1>1 DEF RemovedInv, DriverCloses, Over, Kept
<1>18. UnregisteredInv'  BY <1>1 DEF UnregisteredInv, DriverCloses, Over, Kept
<1>19. DriverInv'  BY <1>1 DEF DriverInv, DriverCloses
<1>20. QueryRemoveInv'
    BY <1>1 DEF QueryRemoveInv, Over, Kept, ArrivalInv, DriverInv, DriverCloses
<1>21. QueryClosedInv'  BY <1>1 DEF QueryClosedInv
<1> QED BY <1>9, <1>10, <1>11, <1>12, <1>13, <1>14, <1>15, <1>16, <1>17, <1>18, <1>19, <1>20, <1>21

LEMMA DeviceCloseEndKeeps ==
    ASSUME TargetInv, NEW t \in InterfaceThreads, DeviceCloseEnd(t)
    PROVE TargetInv'
<1> USE InterfaceThreadsAre DEF DeviceCloseEnd, Access!AEndClose, TargetInv, WentTo,
       Closing, accessVars, targetContext, reasonVars, registration
<1>1. WentTo(t, "idle")
    BY GoingOn, InterfaceStepsAre
<1>2. \A v, w \in InterfaceThreads : pc[v] \in Closing /\ pc[w] \in Closing => v = w
    BY OneCloses
<1>3. Kept' = Kept
    BY DEF Kept
<1>4. \A v \in Targets : target[v] # "open"
    BY KeptAre DEF ClosingInv, KeptInv, NULL
<1>5. InterfaceTypeOK'
    BY <1>1 DEF InterfaceTypeOK, Access!ATypeOK, Access!Phases, Reasons, NULL, Targets,
           IsFirst
<1>6. RegisteredInv'  BY <1>1 DEF RegisteredInv
<1>7. KeptInv'  BY <1>3, <1>4 DEF KeptInv
<1>8. PhaseInv'  BY <1>1 DEF PhaseInv, Attached
<1>9. ASSUME NEW u \in InterfaceThreads PROVE ClosingInv(u)'
    BY <1>1, <1>2, <1>3 DEF ClosingInv, Attached
<1>10. ArrivalInv'  BY <1>1 DEF ArrivalInv, Attached
<1>11. CallbackInv'
    BY <1>1 DEF CallbackInv, Kept, Over, Attached, ArrivalInv, RemovedInv, UnregisteredInv,
           DriverInv, DriverCloses
<1>12. NotSetInv'  BY <1>1 DEF NotSetInv, DriverCloses, Kept
<1>13. RemovedInv'  BY <1>1 DEF RemovedInv, DriverCloses, Over, Kept, ClosingInv
<1>14. UnregisteredInv'
    BY <1>1 DEF UnregisteredInv, DriverCloses, Over, Kept, RegisteredInv, ArrivalInv,
           IsFirst, NotSetInv, RemovedInv, DriverInv, QueryRemoveInv, QueryClosedInv,
           PhaseInv, KeptInv, CallbackInv, Attached, InterfaceTypeOK, NULL, ClosingInv
<1>15. DriverInv'  BY <1>1 DEF DriverInv, DriverCloses
<1>16. QueryRemoveInv'
    BY <1>1 DEF QueryRemoveInv, Over, Kept, KeptInv, CallbackInv, InterfaceTypeOK,
           ClosingInv
<1>17. QueryClosedInv'  BY <1>1 DEF QueryClosedInv
<1> QED BY <1>5, <1>6, <1>7, <1>8, <1>9, <1>10, <1>11, <1>12, <1>13, <1>14, <1>15, <1>16, <1>17

LEMMA ArrivalKeeps ==
    ASSUME TargetInv, strayed' = {}, NEW t \in Targets, Arrival(t)
    PROVE TargetInv'
<1> USE InterfaceThreadsAre DEF Arrival, InterfaceNotified, TargetInv, WentTo,
       Closing, accessVars, targetContext, reasonVars, registration
<1>1. WentTo("interface", "created")
    BY GoingOn, InterfaceStepsAre
<1>2. Kept = {} /\ Kept' = {t}
    BY DEF KeptInv, InterfaceTypeOK, Targets, NULL, Kept
<1>3. /\ pc["target"] = "idle" /\ pc["interface"] = "idle"
      /\ pc["driver"] \in {"registering", "running"}
    BY DEF RegisteredInv, StrayIf
<1>4. phase = "closed"
    BY <1>2, <1>3, KeptAre DEF PhaseInv, InterfaceTypeOK, Access!ATypeOK, Access!Phases
<1>5. t # NULL /\ target'[t] = "open" /\ query'[t] = "none" /\ IoTarget' = t
    BY BoundAssumption DEF KeptInv, InterfaceTypeOK, Targets, NULL
<1>6. \A v \in Targets : target[v] # "open"
    BY <1>2 DEF Kept
<1>7. InterfaceTypeOK'
    BY <1>1 DEF InterfaceTypeOK, Access!ATypeOK, Access!Phases, Reasons, NULL, Targets,
           IsFirst
<1>8. RegisteredInv'  BY <1>1, <1>3 DEF RegisteredInv
<1>9. KeptInv'  BY <1>2, <1>5, <1>6 DEF KeptInv, InterfaceTypeOK
<1>10. PhaseInv'  BY <1>1 DEF PhaseInv, Attached, KeptInv, Kept, InterfaceTypeOK
<1>11. (\A u \in InterfaceThreads : ClosingInv(u))'
    BY <1>1, <1>3 DEF ClosingInv, Attached, Kept, RegisteredInv
<1>12. ArrivalInv'  BY <1>1, <1>3, <1>4, <1>5 DEF ArrivalInv, Attached
<1>13. CallbackInv'  BY <1>1, <1>3 DEF CallbackInv, Kept, Over, Attached
<1>14. NotSetInv'  BY <1>1 DEF NotSetInv, DriverCloses, Kept
<1>15. RemovedInv'  BY <1>1 DEF RemovedInv, DriverCloses, Over, Kept
<1>16. UnregisteredInv'
    BY <1>1 DEF UnregisteredInv, DriverCloses, Over, Kept, RegisteredInv
<1>17. DriverInv'  BY <1>1 DEF DriverInv, DriverCloses
<1>18. QueryRemoveInv'  BY <1>1 DEF QueryRemoveInv, Over, Kept
<1>19. QueryClosedInv'  BY <1>1 DEF QueryClosedInv
<1> QED BY <1>7, <1>8, <1>9, <1>10, <1>11, <1>12, <1>13, <1>14, <1>15, <1>16, <1>17, <1>18, <1>19

\* An arrival that fails strays.
LEMMA RefusalsStray ==
    ASSUME ArrivalVetoed \/ ArrivalOpenFails
    PROVE strayed' # {}
BY DEF ArrivalVetoed, ArrivalOpenFails

LEMMA ArrivalResetKeeps ==
    ASSUME TargetInv, ArrivalReset
    PROVE TargetInv'
<1> USE InterfaceThreadsAre DEF ArrivalReset, TargetInv, WentTo, Closing, accessVars,
       targetContext, reasonVars, registration
<1>1. WentTo("interface", "open")
    BY GoingOn, InterfaceStepsAre
<1>2. \A v, w \in InterfaceThreads : pc[v] \in Closing /\ pc[w] \in Closing => v = w
    BY OneCloses
<1>3. Kept' = Kept
    BY DEF Kept
<1>4. Attached /\ IoTarget \in Targets /\ Kept = {IoTarget}
    BY KeptAre DEF ArrivalInv
<1>5. InterfaceTypeOK'
    BY <1>1 DEF InterfaceTypeOK, Access!ATypeOK, Access!Phases, Reasons, NULL, Targets,
           IsFirst
<1>6. RegisteredInv'  BY <1>1 DEF RegisteredInv
<1>7. KeptInv'  BY <1>1 DEF KeptInv, Kept
<1>8. PhaseInv'  BY <1>1 DEF PhaseInv, Attached
<1>9. ASSUME NEW u \in InterfaceThreads PROVE ClosingInv(u)'
    BY <1>1, <1>2, <1>3 DEF ClosingInv, Attached, RegisteredInv
<1>10. ArrivalInv'  BY <1>1 DEF ArrivalInv, Attached
<1>11. CallbackInv'  BY <1>1 DEF CallbackInv, Kept, Over, Attached
<1>12. NotSetInv'
    BY <1>1, <1>3, <1>4 DEF NotSetInv, RegisteredInv, ArrivalInv, Attached, DriverCloses
<1>13. RemovedInv'  BY <1>1 DEF RemovedInv, DriverCloses, Over, Kept
<1>14. UnregisteredInv'  BY <1>1 DEF UnregisteredInv, DriverCloses, Over, Kept
<1>15. DriverInv'  BY <1>1 DEF DriverInv, DriverCloses, RegisteredInv
<1>16. QueryRemoveInv'  BY <1>1 DEF QueryRemoveInv, Over, Kept
<1>17. QueryClosedInv'
    BY <1>1, <1>3, <1>4 DEF QueryClosedInv, RegisteredInv, Attached, KeptInv, Kept
<1> QED BY <1>5, <1>6, <1>7, <1>8, <1>9, <1>10, <1>11, <1>12, <1>13, <1>14, <1>15, <1>16, <1>17

LEMMA ArrivalOpenKeeps ==
    ASSUME TargetInv, ArrivalOpen
    PROVE TargetInv'
<1> USE InterfaceThreadsAre DEF ArrivalOpen, Access!AOpen, TargetInv, WentTo, Closing,
       accessVars, targetContext, reasonVars, registration
<1>1. WentTo("interface", "idle")
    BY GoingOn, InterfaceStepsAre
<1>2. \A v, w \in InterfaceThreads : pc[v] \in Closing /\ pc[w] \in Closing => v = w
    BY OneCloses
<1>3. Kept' = Kept
    BY DEF Kept
<1>4. InterfaceTypeOK'
    BY <1>1 DEF InterfaceTypeOK, Access!ATypeOK, Access!Phases, Reasons, NULL, Targets,
           IsFirst
<1>5. RegisteredInv'  BY <1>1 DEF RegisteredInv
<1>6. KeptInv'  BY <1>1 DEF KeptInv, Kept
<1>7. PhaseInv'  BY <1>1 DEF PhaseInv, Attached, ArrivalInv
<1>8. ASSUME NEW u \in InterfaceThreads PROVE ClosingInv(u)'
    BY <1>1, <1>2, <1>3 DEF ClosingInv, Attached, RegisteredInv
<1>9. ArrivalInv'  BY <1>1 DEF ArrivalInv, Attached
<1>10. CallbackInv'  BY <1>1 DEF CallbackInv, Kept, Over, Attached, RegisteredInv
<1>11. NotSetInv'
    BY <1>1 DEF NotSetInv, DriverCloses, Kept, ArrivalInv, Attached, InterfaceTypeOK
<1>12. RemovedInv'  BY <1>1 DEF RemovedInv, DriverCloses, Over, Kept, ArrivalInv
<1>13. UnregisteredInv'  BY <1>1 DEF UnregisteredInv, DriverCloses, Over, Kept, ArrivalInv
<1>14. DriverInv'  BY <1>1 DEF DriverInv, DriverCloses
<1>15. QueryRemoveInv'  BY <1>1 DEF QueryRemoveInv, Over, Kept, ArrivalInv
<1>16. QueryClosedInv'  BY <1>1 DEF QueryClosedInv
<1> QED BY <1>4, <1>5, <1>6, <1>7, <1>8, <1>9, <1>10, <1>11, <1>12, <1>13, <1>14, <1>15, <1>16

LEMMA RemovalKeeps ==
    ASSUME TargetInv, Removal
    PROVE TargetInv'
<1> USE InterfaceThreadsAre DEF Removal, InterfaceNotified, ReasonSet, IsFirst,
       TargetInv, WentTo, Closing, accessVars, targetContext, reasonVars, registration
<1>1. WentTo("interface", IF IsFirst /\ IoTarget # NULL THEN "close" ELSE "idle")
    BY GoingOn, InterfaceStepsAre
<1>2. InterfaceTypeOK'
    BY <1>1 DEF InterfaceTypeOK, Access!ATypeOK, Access!Phases, Reasons, NULL, Targets
<1>3. RegisteredInv'  BY <1>1 DEF RegisteredInv
<1>4. KeptInv'  BY <1>1 DEF KeptInv, Kept
<1>5. PhaseInv'  BY <1>1 DEF PhaseInv, Attached
<1>6. (\A u \in InterfaceThreads : ClosingInv(u))'
    BY <1>1 DEF ClosingInv, Attached, Kept, NotSetInv, KeptInv
<1>7. ArrivalInv'  BY <1>1 DEF ArrivalInv, Attached
<1>8. CallbackInv'  BY <1>1 DEF CallbackInv, Kept, Over, Attached
<1>9. NotSetInv'  BY <1>1 DEF NotSetInv, DriverCloses, Kept
<1>10. RemovedInv'
    BY <1>1 DEF RemovedInv, DriverCloses, Over, Kept, NotSetInv, PhaseInv, Attached
<1>11. UnregisteredInv'  BY <1>1 DEF UnregisteredInv, DriverCloses, Over, Kept
<1>12. DriverInv'  BY <1>1 DEF DriverInv, DriverCloses
<1>13. QueryRemoveInv'  BY <1>1 DEF QueryRemoveInv, Over, Kept
<1>14. QueryClosedInv'  BY <1>1 DEF QueryClosedInv
<1> QED BY <1>2, <1>3, <1>4, <1>5, <1>6, <1>7, <1>8, <1>9, <1>10, <1>11, <1>12, <1>13, <1>14

LEMMA QueryRemoveBeginKeeps ==
    ASSUME TargetInv, strayed' = {}, NEW t \in Targets, QueryRemoveBegin(t)
    PROVE TargetInv'
<1> USE InterfaceThreadsAre DEF QueryRemoveBegin, TargetNotified, StrayIf, TargetInv,
       WentTo, Closing, accessVars, targetContext, reasonVars, registration
<1>1. WentTo("target", "queryRemove")
    BY GoingOn, InterfaceStepsAre
<1>2. \A v, w \in InterfaceThreads : pc[v] \in Closing /\ pc[w] \in Closing => v = w
    BY OneCloses
<1>3. Kept' = Kept /\ t \in Kept
    BY DEF Kept
<1>4. target[t] = "open"
    BY <1>3, KeptAre DEF QueryRemoveInv, QueryClosedInv, PhaseInv, Attached, RegisteredInv,
           Over
<1>5. t # NULL /\ query'[t] = "accepted"
    BY DEF InterfaceTypeOK, Targets, NULL
<1>6. InterfaceTypeOK'
    BY <1>1 DEF InterfaceTypeOK, Access!ATypeOK, Access!Phases, Reasons, NULL, Targets,
           IsFirst
<1>7. RegisteredInv'  BY <1>1 DEF RegisteredInv
<1>8. KeptInv'  BY <1>3, <1>4 DEF KeptInv, InterfaceTypeOK
<1>9. PhaseInv'  BY <1>1 DEF PhaseInv, Attached
<1>10. ASSUME NEW u \in InterfaceThreads PROVE ClosingInv(u)'
    BY <1>1, <1>2, <1>3 DEF ClosingInv, Attached
<1>11. ArrivalInv'  BY <1>1 DEF ArrivalInv, Attached, RegisteredInv, IsFirst
<1>12. CallbackInv'  BY <1>1, <1>3, <1>4, <1>5 DEF CallbackInv
<1>13. NotSetInv'  BY <1>1 DEF NotSetInv, DriverCloses, Kept
<1>14. RemovedInv'  BY <1>1 DEF RemovedInv, DriverCloses, Over, Kept, RegisteredInv
<1>15. UnregisteredInv'
    BY <1>1 DEF UnregisteredInv, DriverCloses, Over, Kept, RegisteredInv
<1>16. DriverInv'  BY <1>1 DEF DriverInv, DriverCloses
<1>17. QueryRemoveInv'
    BY <1>1, <1>3, KeptAre DEF QueryRemoveInv, PhaseInv, Attached, RegisteredInv,
           InterfaceTypeOK, Over
<1>18. QueryClosedInv'  BY <1>1 DEF QueryClosedInv
<1> QED BY <1>6, <1>7, <1>8, <1>9, <1>10, <1>11, <1>12, <1>13, <1>14, <1>15, <1>16, <1>17, <1>18

LEMMA QueryRemoveKeeps ==
    ASSUME TargetInv, QueryRemove
    PROVE TargetInv'
<1> USE InterfaceThreadsAre DEF QueryRemove, ReasonSet, IsFirst, TargetInv, WentTo, Closing,
       accessVars, targetContext, reasonVars, registration
<1>1. WentTo("target", IF IsFirst THEN "ask" ELSE "idle")
    BY GoingOn, InterfaceStepsAre
<1>2. InterfaceTypeOK'
    BY <1>1 DEF InterfaceTypeOK, Access!ATypeOK, Access!Phases, Reasons, NULL, Targets
<1>3. RegisteredInv'  BY <1>1 DEF RegisteredInv
<1>4. KeptInv'  BY <1>1 DEF KeptInv, Kept
<1>5. PhaseInv'  BY <1>1 DEF PhaseInv, Attached
<1>6. (\A u \in InterfaceThreads : ClosingInv(u))'
    BY <1>1 DEF ClosingInv, Attached, Kept, ArrivalInv, NotSetInv
<1>7. ArrivalInv'  BY <1>1 DEF ArrivalInv, Attached, RegisteredInv
<1>8. CallbackInv'
    BY <1>1 DEF CallbackInv, Kept, Over, Attached, RegisteredInv, NotSetInv, InterfaceTypeOK
<1>9. NotSetInv'  BY <1>1 DEF NotSetInv, DriverCloses, Kept
<1>10. RemovedInv'  BY <1>1 DEF RemovedInv, DriverCloses, Over, Kept
<1>11. UnregisteredInv'  BY <1>1 DEF UnregisteredInv, DriverCloses, Over, Kept
<1>12. DriverInv'  BY <1>1 DEF DriverInv, DriverCloses
<1>13. QueryRemoveInv'  BY <1>1 DEF QueryRemoveInv, Over, Kept
<1>14. QueryClosedInv'  BY <1>1 DEF QueryClosedInv
<1> QED BY <1>2, <1>3, <1>4, <1>5, <1>6, <1>7, <1>8, <1>9, <1>10, <1>11, <1>12, <1>13, <1>14

LEMMA QueryRemoveAllowedKeeps ==
    ASSUME TargetInv, QueryRemoveAllowed
    PROVE TargetInv'
<1> USE InterfaceThreadsAre DEF QueryRemoveAllowed, TargetInv, WentTo, Closing, accessVars,
       targetContext, reasonVars, registration
<1>1. WentTo("target", "close")
    BY GoingOn, InterfaceStepsAre
<1>2. InterfaceTypeOK'
    BY <1>1 DEF InterfaceTypeOK, Access!ATypeOK, Access!Phases, Reasons, NULL, Targets,
           IsFirst
<1>3. RegisteredInv'  BY <1>1 DEF RegisteredInv
<1>4. KeptInv'  BY <1>1 DEF KeptInv, Kept
<1>5. PhaseInv'  BY <1>1 DEF PhaseInv, Attached
<1>6. (\A u \in InterfaceThreads : ClosingInv(u))'
    BY <1>1 DEF ClosingInv, Attached, Kept, CallbackInv
<1>7. ArrivalInv'  BY <1>1 DEF ArrivalInv, Attached
<1>8. CallbackInv'  BY <1>1 DEF CallbackInv, Kept, Over, Attached
<1>9. NotSetInv'  BY <1>1 DEF NotSetInv, DriverCloses, Kept
<1>10. RemovedInv'  BY <1>1 DEF RemovedInv, DriverCloses, Over, Kept
<1>11. UnregisteredInv'  BY <1>1 DEF UnregisteredInv, DriverCloses, Over, Kept
<1>12. DriverInv'  BY <1>1 DEF DriverInv, DriverCloses
<1>13. QueryRemoveInv'  BY <1>1 DEF QueryRemoveInv, Over, Kept, CallbackInv
<1>14. QueryClosedInv'  BY <1>1 DEF QueryClosedInv
<1> QED BY <1>2, <1>3, <1>4, <1>5, <1>6, <1>7, <1>8, <1>9, <1>10, <1>11, <1>12, <1>13, <1>14

LEMMA QueryRemoveVetoedKeeps ==
    ASSUME TargetInv, QueryRemoveVetoed
    PROVE TargetInv'
<1> USE InterfaceThreadsAre DEF QueryRemoveVetoed, TargetInv, WentTo, Closing, accessVars,
       targetContext, reasonVars, registration
<1>1. WentTo("target", "idle")
    BY GoingOn, InterfaceStepsAre
<1>2. InterfaceTypeOK'
    BY <1>1 DEF InterfaceTypeOK, Access!ATypeOK, Access!Phases, Reasons, NULL, Targets,
           IsFirst
<1>3. RegisteredInv'  BY <1>1 DEF RegisteredInv
<1>4. KeptInv'  BY <1>1 DEF KeptInv, Kept, CallbackInv
<1>5. PhaseInv'  BY <1>1 DEF PhaseInv, Attached
<1>6. (\A u \in InterfaceThreads : ClosingInv(u))'
    BY <1>1 DEF ClosingInv, Attached, Kept
<1>7. ArrivalInv'  BY <1>1 DEF ArrivalInv, Attached, RegisteredInv, IsFirst
<1>8. CallbackInv'  BY <1>1 DEF CallbackInv, Kept, Over, Attached
<1>9. NotSetInv'  BY <1>1 DEF NotSetInv, DriverCloses, Kept
<1>10. RemovedInv'  BY <1>1 DEF RemovedInv, DriverCloses, Over, Kept
<1>11. UnregisteredInv'  BY <1>1 DEF UnregisteredInv, DriverCloses, Over, Kept
<1>12. DriverInv'  BY <1>1 DEF DriverInv, DriverCloses
<1>13. QueryRemoveInv'  BY <1>1 DEF QueryRemoveInv, Over, Kept, CallbackInv, InterfaceTypeOK
<1>14. QueryClosedInv'  BY <1>1 DEF QueryClosedInv
<1> QED BY <1>2, <1>3, <1>4, <1>5, <1>6, <1>7, <1>8, <1>9, <1>10, <1>11, <1>12, <1>13, <1>14

LEMMA RemoveCancelBeginKeeps ==
    ASSUME TargetInv, strayed' = {}, NEW t \in Targets, RemoveCancelBegin(t)
    PROVE TargetInv'
<1> USE InterfaceThreadsAre DEF RemoveCancelBegin, TargetNotified, StrayIf, TargetInv,
       WentTo, Closing, accessVars, targetContext, reasonVars, registration
<1>1. WentTo("target", "removeCancel")
    BY GoingOn, InterfaceStepsAre
<1>2. \A v, w \in InterfaceThreads : pc[v] \in Closing /\ pc[w] \in Closing => v = w
    BY OneCloses
<1>3. Kept' = Kept /\ t \in Kept
    BY DEF Kept
<1>4. pc["target"] = "idle" /\ pc["interface"] = "idle" /\ ~DriverCloses /\ query[t] # "none"
    <2>1. closeReason \in {"NotSet", "QueryRemove"} /\ pc["interface"] = "idle"
        BY DEF StrayIf
    <2> QED BY <2>1 DEF RegisteredInv, DriverInv
<1>5. closeReason = "QueryRemove"
    BY <1>3, <1>4 DEF NotSetInv, RemovedInv, UnregisteredInv, Over, InterfaceTypeOK, Reasons
<1>6. phase = IF target[t] = "open" THEN "open" ELSE "closed"
    BY <1>3, <1>4, <1>5, KeptAre DEF QueryRemoveInv, Over, PhaseInv, Attached, KeptInv,
           NULL, Targets
<1>7. t # NULL /\ query'[t] = "none"
    BY DEF InterfaceTypeOK, Targets, NULL
<1>8. InterfaceTypeOK'
    BY <1>1 DEF InterfaceTypeOK, Access!ATypeOK, Access!Phases, Reasons, NULL, Targets,
           IsFirst
<1>9. RegisteredInv'  BY <1>1 DEF RegisteredInv
<1>10. KeptInv'  BY <1>3 DEF KeptInv, InterfaceTypeOK
<1>11. PhaseInv'  BY <1>1 DEF PhaseInv, Attached
<1>12. ASSUME NEW u \in InterfaceThreads PROVE ClosingInv(u)'
    BY <1>1, <1>2, <1>3 DEF ClosingInv, Attached
<1>13. ArrivalInv'  BY <1>1 DEF ArrivalInv, Attached
<1>14. CallbackInv'  BY <1>1, <1>3, <1>6, <1>7 DEF CallbackInv
<1>15. NotSetInv'  BY <1>1 DEF NotSetInv, DriverCloses, Kept
<1>16. RemovedInv'  BY <1>1 DEF RemovedInv, DriverCloses, Over, Kept, RegisteredInv
<1>17. UnregisteredInv'
    BY <1>1 DEF UnregisteredInv, DriverCloses, Over, Kept, RegisteredInv
<1>18. DriverInv'  BY <1>1 DEF DriverInv, DriverCloses
<1>19. QueryRemoveInv'  BY <1>1 DEF QueryRemoveInv, Over, Kept
<1>20. QueryClosedInv'  BY <1>1, <1>5 DEF QueryClosedInv
<1> QED BY <1>8, <1>9, <1>10, <1>11, <1>12, <1>13, <1>14, <1>15, <1>16, <1>17, <1>18, <1>19, <1>20

LEMMA CancelFindsOpenKeeps ==
    ASSUME TargetInv, CancelFindsOpen
    PROVE TargetInv'
<1> USE InterfaceThreadsAre DEF CancelFindsOpen, TargetInv, WentTo, Closing, accessVars,
       targetContext, reasonVars, registration
<1>1. WentTo("target", "cancelled")
    BY GoingOn, InterfaceStepsAre
<1>2. calledFor \in Targets /\ Kept = {calledFor} /\ closeReason = "QueryRemove"
    BY KeptAre DEF CallbackInv, QueryClosedInv
<1>3. phase = IF target[calledFor] = "open" THEN "open" ELSE "closed"
    BY DEF CallbackInv
<1>4. phase = "open" /\ IoTarget = calledFor
    BY <1>2, <1>3 DEF PhaseInv, RegisteredInv, KeptInv
<1>5. Kept' = Kept
    BY DEF Kept
<1>6. InterfaceTypeOK'
    BY <1>1 DEF InterfaceTypeOK, Access!ATypeOK, Access!Phases, Reasons, NULL, Targets,
           IsFirst
<1>7. RegisteredInv'  BY <1>1 DEF RegisteredInv
<1>8. KeptInv'  BY <1>1 DEF KeptInv, Kept
<1>9. PhaseInv'  BY <1>1 DEF PhaseInv, Attached
<1>10. (\A u \in InterfaceThreads : ClosingInv(u))'
    BY <1>1 DEF ClosingInv, Attached, Kept
<1>11. ArrivalInv'  BY <1>1 DEF ArrivalInv, Attached
<1>12. CallbackInv'  BY <1>1, <1>2, <1>4 DEF CallbackInv
<1>13. NotSetInv'  BY <1>1 DEF NotSetInv, DriverCloses, Kept
<1>14. RemovedInv'  BY <1>1 DEF RemovedInv, DriverCloses, Over, Kept
<1>15. UnregisteredInv'  BY <1>1 DEF UnregisteredInv, DriverCloses, Over, Kept
<1>16. DriverInv'  BY <1>1 DEF DriverInv, DriverCloses
<1>17. QueryRemoveInv'  BY <1>1 DEF QueryRemoveInv, Over, Kept
<1>18. QueryClosedInv'  BY <1>1 DEF QueryClosedInv
<1> QED BY <1>6, <1>7, <1>8, <1>9, <1>10, <1>11, <1>12, <1>13, <1>14, <1>15, <1>16, <1>17, <1>18

LEMMA CancelReopensKeeps ==
    ASSUME TargetInv, CancelReopens
    PROVE TargetInv'
<1> USE InterfaceThreadsAre DEF CancelReopens, TargetInv, WentTo, Closing, accessVars,
       targetContext, reasonVars, registration
<1>1. WentTo("target", "reopen")
    BY GoingOn, InterfaceStepsAre
<1>2. calledFor \in Targets /\ Kept = {calledFor} /\ closeReason = "QueryRemove"
    BY KeptAre DEF CallbackInv, QueryClosedInv
<1>3. phase = IF target[calledFor] = "open" THEN "open" ELSE "closed"
    BY DEF CallbackInv
<1>4. Kept' = Kept
    BY <1>2 DEF InterfaceTypeOK, Targets, NULL, Kept
<1>5. phase = "closed" /\ target'[calledFor] = "open" /\ calledFor # NULL
    BY <1>2, <1>3 DEF InterfaceTypeOK, Targets, NULL
<1>6. InterfaceTypeOK'
    BY <1>1 DEF InterfaceTypeOK, Access!ATypeOK, Access!Phases, Reasons, NULL, Targets,
           IsFirst
<1>7. RegisteredInv'  BY <1>1 DEF RegisteredInv
<1>8. KeptInv'  BY <1>2, <1>4, <1>5 DEF KeptInv, InterfaceTypeOK, Kept
<1>9. PhaseInv'  BY <1>1 DEF PhaseInv, Attached
<1>10. ASSUME NEW u \in InterfaceThreads PROVE ClosingInv(u)'
    BY <1>1, <1>2, <1>4 DEF ClosingInv, Attached
<1>11. ArrivalInv'  BY <1>1 DEF ArrivalInv, Attached
<1>12. CallbackInv'  BY <1>1, <1>2, <1>5 DEF CallbackInv, Attached
<1>13. NotSetInv'  BY <1>1 DEF NotSetInv, DriverCloses, Kept
<1>14. RemovedInv'  BY <1>1 DEF RemovedInv, DriverCloses, Over, Kept
<1>15. UnregisteredInv'  BY <1>1 DEF UnregisteredInv, DriverCloses, Over, Kept
<1>16. DriverInv'  BY <1>1 DEF DriverInv, DriverCloses
<1>17. QueryRemoveInv'  BY <1>1 DEF QueryRemoveInv, Over, Kept
<1>18. QueryClosedInv'  BY <1>1 DEF QueryClosedInv
<1> QED BY <1>6, <1>7, <1>8, <1>9, <1>10, <1>11, <1>12, <1>13, <1>14, <1>15, <1>16, <1>17, <1>18

LEMMA CancelFailsKeeps ==
    ASSUME TargetInv, CancelFails
    PROVE TargetInv'
<1> USE InterfaceThreadsAre DEF CancelFails, TargetInv, WentTo, Closing, accessVars,
       targetContext, reasonVars, registration
<1>1. WentTo("target", "cancelFailed")
    BY GoingOn, InterfaceStepsAre
<1>2. calledFor \in Targets /\ Kept = {calledFor} /\ closeReason = "QueryRemove"
    BY KeptAre DEF CallbackInv, QueryClosedInv
<1>3. phase = IF target[calledFor] = "open" THEN "open" ELSE "closed"
    BY DEF CallbackInv
<1>4. Kept' = {}
    BY <1>2 DEF InterfaceTypeOK, Targets, NULL, Kept
<1>5. phase = "closed"
    BY <1>2, <1>3 DEF KeptInv, NULL, Targets
<1>6. InterfaceTypeOK'
    BY <1>1 DEF InterfaceTypeOK, Access!ATypeOK, Access!Phases, Reasons, NULL, Targets,
           IsFirst
<1>7. RegisteredInv'  BY <1>1 DEF RegisteredInv
<1>8. KeptInv'  BY <1>2, <1>4, <1>5 DEF KeptInv, InterfaceTypeOK, Kept
<1>9. PhaseInv'  BY <1>1 DEF PhaseInv, Attached
<1>10. (\A u \in InterfaceThreads : ClosingInv(u))'
    BY <1>1 DEF ClosingInv, Attached, Kept
<1>11. ArrivalInv'  BY <1>1 DEF ArrivalInv, Attached
<1>12. CallbackInv'
    BY <1>1, <1>2, <1>4, <1>5 DEF CallbackInv, Over, InterfaceTypeOK, NULL, Targets
<1>13. NotSetInv'  BY <1>1 DEF NotSetInv, DriverCloses, Kept
<1>14. RemovedInv'  BY <1>1 DEF RemovedInv, DriverCloses, Over, Kept
<1>15. UnregisteredInv'  BY <1>1 DEF UnregisteredInv, DriverCloses, Over, Kept
<1>16. DriverInv'  BY <1>1 DEF DriverInv, DriverCloses
<1>17. QueryRemoveInv'  BY <1>1 DEF QueryRemoveInv, Over, Kept
<1>18. QueryClosedInv'  BY <1>1 DEF QueryClosedInv
<1> QED BY <1>6, <1>7, <1>8, <1>9, <1>10, <1>11, <1>12, <1>13, <1>14, <1>15, <1>16, <1>17, <1>18

LEMMA RemoveCancelKeeps ==
    ASSUME TargetInv, RemoveCancel
    PROVE TargetInv'
<1>1. CancelFindsOpen \/ CancelReopens \/ CancelFails
    BY DEF RemoveCancel, CancelFindsOpen, CancelReopens, CancelFails, targetContext
<1> QED BY <1>1, CancelFindsOpenKeeps, CancelReopensKeeps, CancelFailsKeeps

LEMMA RemoveCancelOpensKeeps ==
    ASSUME TargetInv, RemoveCancelOpens
    PROVE TargetInv'
<1> USE InterfaceThreadsAre DEF RemoveCancelOpens, Access!AOpen, TargetInv, WentTo, Closing,
       accessVars, targetContext, reasonVars, registration
<1>1. WentTo("target", "cancelled")
    BY GoingOn, InterfaceStepsAre
<1>2. InterfaceTypeOK'
    BY <1>1 DEF InterfaceTypeOK, Access!ATypeOK, Access!Phases, Reasons, NULL, Targets,
           IsFirst
<1>3. RegisteredInv'  BY <1>1 DEF RegisteredInv
<1>4. KeptInv'  BY <1>1 DEF KeptInv, Kept
<1>5. PhaseInv'  BY <1>1 DEF PhaseInv, Attached, CallbackInv
<1>6. (\A u \in InterfaceThreads : ClosingInv(u))'
    BY <1>1 DEF ClosingInv, Attached, Kept
<1>7. ArrivalInv'  BY <1>1 DEF ArrivalInv, Attached, RegisteredInv, IsFirst
<1>8. CallbackInv'  BY <1>1 DEF CallbackInv, Kept, Over, Attached
<1>9. NotSetInv'  BY <1>1 DEF NotSetInv, DriverCloses, Kept
<1>10. RemovedInv'  BY <1>1 DEF RemovedInv, DriverCloses, Over, Kept
<1>11. UnregisteredInv'  BY <1>1 DEF UnregisteredInv, DriverCloses, Over, Kept
<1>12. DriverInv'  BY <1>1 DEF DriverInv, DriverCloses
<1>13. QueryRemoveInv'  BY <1>1 DEF QueryRemoveInv, Over, Kept
<1>14. QueryClosedInv'  BY <1>1 DEF QueryClosedInv
<1> QED BY <1>2, <1>3, <1>4, <1>5, <1>6, <1>7, <1>8, <1>9, <1>10, <1>11, <1>12, <1>13, <1>14

LEMMA RemoveCancelOpenFailsKeeps ==
    ASSUME TargetInv, RemoveCancelOpenFails
    PROVE TargetInv'
<1> USE InterfaceThreadsAre DEF RemoveCancelOpenFails, TargetInv, WentTo, Closing,
       accessVars, targetContext, reasonVars, registration
<1>1. WentTo("target", "cancelFailed")
    BY GoingOn, InterfaceStepsAre
<1>2. calledFor \in Targets /\ Kept = {calledFor}
    BY KeptAre DEF CallbackInv
<1>3. Kept' = {}
    BY <1>2 DEF InterfaceTypeOK, Targets, NULL, Kept
<1>4. InterfaceTypeOK'
    BY <1>1 DEF InterfaceTypeOK, Access!ATypeOK, Access!Phases, Reasons, NULL, Targets,
           IsFirst
<1>5. RegisteredInv'  BY <1>1 DEF RegisteredInv
<1>6. KeptInv'  BY <1>1 DEF KeptInv, Kept, CallbackInv, Attached, InterfaceTypeOK
<1>7. PhaseInv'  BY <1>1 DEF PhaseInv, Attached, CallbackInv
<1>8. (\A u \in InterfaceThreads : ClosingInv(u))'
    BY <1>1 DEF ClosingInv, Attached, Kept, ArrivalInv, RemovedInv, UnregisteredInv,
           DriverInv, DriverCloses
<1>9. ArrivalInv'  BY <1>1 DEF ArrivalInv, Attached, RegisteredInv, IsFirst
<1>10. CallbackInv'  BY <1>1, <1>2, <1>3 DEF CallbackInv, Over, NULL
<1>11. NotSetInv'  BY <1>1 DEF NotSetInv, DriverCloses, Kept
<1>12. RemovedInv'  BY <1>1 DEF RemovedInv, DriverCloses, Over, Kept
<1>13. UnregisteredInv'  BY <1>1 DEF UnregisteredInv, DriverCloses, Over, Kept
<1>14. DriverInv'  BY <1>1 DEF DriverInv, DriverCloses
<1>15. QueryRemoveInv'  BY <1>1 DEF QueryRemoveInv, Over, Kept
<1>16. QueryClosedInv'  BY <1>1 DEF QueryClosedInv
<1> QED BY <1>4, <1>5, <1>6, <1>7, <1>8, <1>9, <1>10, <1>11, <1>12, <1>13, <1>14, <1>15, <1>16

LEMMA RemoveCancelExitKeeps ==
    ASSUME TargetInv, RemoveCancelExit
    PROVE TargetInv'
<1> USE InterfaceThreadsAre DEF RemoveCancelExit, ReasonAfterCancel, TargetInv, WentTo,
       Closing, accessVars, targetContext, reasonVars, registration
<1>1. WentTo("target", IF closeAfterCancel /\ pc["target"] = "cancelled"
          THEN "close" ELSE "idle")
    BY GoingOn, InterfaceStepsAre
<1>2. Kept' = Kept /\ closeReason = "QueryRemove"
    BY DEF Kept, QueryClosedInv
<1>3. pc["target"] = "cancelled" => phase = "open" /\ Attached /\ Kept = {IoTarget}
          /\ IoTarget = calledFor /\ query[calledFor] = "none"
    BY KeptAre DEF PhaseInv, CallbackInv
<1>4. pc["target"] = "cancelFailed" => phase = "closed" /\ Kept = {}
    BY DEF CallbackInv, Over
<1>5. pc["target"] \in {"cancelled", "cancelFailed"}
          /\ UNCHANGED <<accessVars, targetContext, closeAfterCancel, registration, calledFor,
                         target, query>>
    OBVIOUS
<1>6. closeReason' = IF closeAfterCancel THEN "NotificationUnregister" ELSE "NotSet"
    OBVIOUS
<1>7. InterfaceTypeOK'
    BY <1>1 DEF InterfaceTypeOK, Access!ATypeOK, Access!Phases, Reasons, NULL, Targets,
           IsFirst
<1>8. RegisteredInv'  BY <1>1 DEF RegisteredInv
<1>9. KeptInv'  BY <1>1 DEF KeptInv, Kept
<1>10. PhaseInv'  BY <1>1 DEF PhaseInv, Attached
<1>11. (\A u \in InterfaceThreads : ClosingInv(u))'
    BY <1>1 DEF ClosingInv, Attached, Kept, Over, CallbackInv
<1>12. ArrivalInv'  BY <1>1 DEF ArrivalInv, Attached, RegisteredInv, IsFirst
<1>13. CallbackInv'  BY <1>1 DEF CallbackInv, Kept, Over, Attached
<1>14. NotSetInv'
    BY <1>1, <1>2, <1>3, <1>4, <1>5, <1>6 DEF NotSetInv, Attached, DriverCloses, DriverInv,
           RegisteredInv
<1>15. RemovedInv'  BY <1>1 DEF RemovedInv, DriverCloses, Over, Kept
<1>16. UnregisteredInv'
    BY <1>1 DEF UnregisteredInv, DriverCloses, Over, Kept, DriverInv, CallbackInv
<1>17. DriverInv'  BY <1>1 DEF DriverInv, DriverCloses, UnregisteredInv
<1>18. QueryRemoveInv'  BY <1>1 DEF QueryRemoveInv, Over, Kept
<1>19. QueryClosedInv'
    BY <1>1, <1>2, <1>3, <1>4, <1>5, <1>6 DEF QueryClosedInv, Attached, Kept
<1> QED BY <1>7, <1>8, <1>9, <1>10, <1>11, <1>12, <1>13, <1>14, <1>15, <1>16, <1>17, <1>18, <1>19

LEMMA RemoveCompleteBeginKeeps ==
    ASSUME TargetInv, strayed' = {}, NEW t \in Targets, RemoveCompleteBegin(t)
    PROVE TargetInv'
<1> USE InterfaceThreadsAre DEF RemoveCompleteBegin, TargetNotified, StrayIf, TargetInv,
       WentTo, Closing, accessVars, targetContext, reasonVars, registration
<1>1. WentTo("target", "removeComplete")
    BY GoingOn, InterfaceStepsAre
<1>2. \A v, w \in InterfaceThreads : pc[v] \in Closing /\ pc[w] \in Closing => v = w
    BY OneCloses
<1>3. Kept' = Kept /\ t \in Kept
    BY DEF Kept
<1>4. InterfaceTypeOK'
    BY <1>1 DEF InterfaceTypeOK, Access!ATypeOK, Access!Phases, Reasons, NULL, Targets,
           IsFirst
<1>5. RegisteredInv'  BY <1>1 DEF RegisteredInv
<1>6. KeptInv'  BY <1>3 DEF KeptInv, InterfaceTypeOK, Kept
<1>7. PhaseInv'  BY <1>1 DEF PhaseInv, Attached
<1>8. ASSUME NEW u \in InterfaceThreads PROVE ClosingInv(u)'
    BY <1>1, <1>2, <1>3 DEF ClosingInv, Attached
<1>9. ArrivalInv'  BY <1>1 DEF ArrivalInv, Attached, RegisteredInv, IsFirst
<1>10. CallbackInv'  BY <1>1, <1>3 DEF CallbackInv, NULL, Targets, InterfaceTypeOK
<1>11. NotSetInv'  BY <1>1 DEF NotSetInv, DriverCloses, Kept
<1>12. RemovedInv'  BY <1>1 DEF RemovedInv, DriverCloses, Over, Kept, RegisteredInv
<1>13. UnregisteredInv'
    BY <1>1 DEF UnregisteredInv, DriverCloses, Over, Kept, RegisteredInv
<1>14. DriverInv'  BY <1>1 DEF DriverInv, DriverCloses
<1>15. QueryRemoveInv'
    BY <1>1 DEF QueryRemoveInv, Over, Kept, PhaseInv, KeptInv, Attached, InterfaceTypeOK
<1>16. QueryClosedInv'  BY <1>1 DEF QueryClosedInv
<1> QED BY <1>4, <1>5, <1>6, <1>7, <1>8, <1>9, <1>10, <1>11, <1>12, <1>13, <1>14, <1>15, <1>16

LEMMA RemoveCompleteKeeps ==
    ASSUME TargetInv, RemoveComplete
    PROVE TargetInv'
<1> USE InterfaceThreadsAre DEF RemoveComplete, ReasonSet, IsFirst, TargetInv, WentTo,
       Closing, accessVars, targetContext, reasonVars, registration
<1>1. WentTo("target", IF IsFirst THEN "close" ELSE "idle")
    BY GoingOn, InterfaceStepsAre
<1>2. calledFor \in Targets /\ Kept = {calledFor} /\ query[calledFor] = "gone"
          /\ pc["target"] = "removeComplete"
    BY KeptAre DEF CallbackInv
<1>3. IF closeReason = "QueryRemove"
          THEN target' = [target EXCEPT ![calledFor] = "deleted"] /\ link' = FALSE
          ELSE UNCHANGED <<target, link>>
    OBVIOUS
<1>4. Kept' = IF closeReason = "QueryRemove" THEN {} ELSE Kept
    BY <1>2, <1>3 DEF InterfaceTypeOK, Targets, NULL, Kept
<1>5. closeReason' = IF IsFirst THEN "RemoveComplete" ELSE closeReason
    OBVIOUS
<1>6. closeAfterCancel' \in BOOLEAN
          /\ UNCHANGED <<accessVars, IoTarget, sink, registration, calledFor, query>>
    BY DEF InterfaceTypeOK
<1>7. closeReason = "QueryRemove" => phase = "closed" /\ IoTarget = NULL
    BY <1>2 DEF QueryRemoveInv, Over, RegisteredInv
<1>8. closeReason = "NotSet" => phase = "open" /\ IoTarget = calledFor /\ Attached
          /\ ~DriverCloses
    BY <1>2 DEF NotSetInv, RegisteredInv, Attached, NULL, Targets
<1>9. link' \in BOOLEAN /\ target' \in [Targets -> {"none", "open", "queryClosed", "deleted"}]
    BY <1>3 DEF InterfaceTypeOK
<1>10. InterfaceTypeOK'
    BY <1>1, <1>9, <1>5, <1>6 DEF InterfaceTypeOK, Reasons, Access!ATypeOK
<1>11. RegisteredInv'  BY <1>1 DEF RegisteredInv
<1>12. KeptInv'  BY <1>2, <1>3, <1>4, <1>7 DEF KeptInv, InterfaceTypeOK
<1>13. PhaseInv'
    BY <1>1, <1>2, <1>3, <1>4, <1>5, <1>6, <1>7, <1>8 DEF PhaseInv, InterfaceTypeOK,
           Attached
<1>14. ASSUME NEW u \in InterfaceThreads PROVE ClosingInv(u)'
    BY <1>1, <1>2, <1>3, <1>4, <1>5, <1>6, <1>7, <1>8 DEF ClosingInv, InterfaceTypeOK,
           Attached, DriverInv, RegisteredInv, DriverCloses
<1>15. ArrivalInv'  BY <1>1 DEF ArrivalInv, Attached, RegisteredInv
<1>16. CallbackInv'  BY <1>1 DEF CallbackInv, Kept, Over, Attached, RegisteredInv, NotSetInv
<1>17. NotSetInv'  BY <1>1 DEF NotSetInv, DriverCloses, Kept
<1>18. RemovedInv'  BY <1>1 DEF RemovedInv, DriverCloses, Over, Kept, DriverInv, CallbackInv
<1>19. UnregisteredInv'  BY <1>1 DEF UnregisteredInv, DriverCloses, Over, Kept
<1>20. DriverInv'  BY <1>1 DEF DriverInv, DriverCloses
<1>21. QueryRemoveInv'
    BY <1>1, <1>2, <1>3, <1>4, <1>5, <1>6, <1>7, <1>8 DEF QueryRemoveInv, Over
<1>22. QueryClosedInv'  BY <1>1 DEF QueryClosedInv
<1> QED BY <1>10, <1>11, <1>12, <1>13, <1>14, <1>15, <1>16, <1>17, <1>18, <1>19, <1>20, <1>21, <1>22

LEMMA RegisterKeeps ==
    ASSUME TargetInv, Register
    PROVE TargetInv'
<1> USE InterfaceThreadsAre DEF Register, TargetInv, WentTo, Closing, accessVars,
       targetContext, reasonVars, registration
<1>1. WentTo("driver", "registering")
    BY GoingOn, InterfaceStepsAre
<1>2. registrations' \in 0 .. MaxRegistrations
    BY BoundAssumption DEF InterfaceTypeOK
<1>3. InterfaceTypeOK'  BY <1>1, <1>2 DEF InterfaceTypeOK, Access!ATypeOK
<1>4. RegisteredInv'  BY <1>1 DEF RegisteredInv
<1>5. KeptInv'  BY <1>1 DEF KeptInv, Kept
<1>6. PhaseInv'  BY <1>1 DEF PhaseInv, Attached
<1>7. (\A u \in InterfaceThreads : ClosingInv(u))'
    BY <1>1 DEF ClosingInv, Attached, Kept
<1>8. ArrivalInv'  BY <1>1 DEF ArrivalInv, Attached
<1>9. CallbackInv'  BY <1>1 DEF CallbackInv, Kept, Over, Attached
<1>10. NotSetInv'  BY <1>1 DEF NotSetInv, DriverCloses, Kept
<1>11. RemovedInv'  BY <1>1 DEF RemovedInv, DriverCloses, Over, Kept
<1>12. UnregisteredInv'  BY <1>1 DEF UnregisteredInv, DriverCloses, Over, Kept
<1>13. DriverInv'  BY <1>1 DEF DriverInv, DriverCloses
<1>14. QueryRemoveInv'  BY <1>1 DEF QueryRemoveInv, Over, Kept
<1>15. QueryClosedInv'  BY <1>1 DEF QueryClosedInv
<1> QED BY <1>3, <1>4, <1>5, <1>6, <1>7, <1>8, <1>9, <1>10, <1>11, <1>12, <1>13, <1>14, <1>15

LEMMA RegisteredKeeps ==
    ASSUME TargetInv, Registered
    PROVE TargetInv'
<1> USE InterfaceThreadsAre DEF Registered, TargetInv, WentTo, Closing, accessVars,
       targetContext, reasonVars, registration
<1>1. WentTo("driver", "running")
    BY GoingOn, InterfaceStepsAre
<1>2. InterfaceTypeOK'
    BY <1>1 DEF InterfaceTypeOK, Access!ATypeOK, Access!Phases, Reasons, NULL, Targets,
           IsFirst
<1>3. RegisteredInv'  BY <1>1 DEF RegisteredInv
<1>4. KeptInv'  BY <1>1 DEF KeptInv, Kept
<1>5. PhaseInv'  BY <1>1 DEF PhaseInv, Attached
<1>6. (\A u \in InterfaceThreads : ClosingInv(u))'
    BY <1>1 DEF ClosingInv, Attached, Kept
<1>7. ArrivalInv'  BY <1>1 DEF ArrivalInv, Attached
<1>8. CallbackInv'  BY <1>1 DEF CallbackInv, Kept, Over, Attached
<1>9. NotSetInv'  BY <1>1 DEF NotSetInv, DriverCloses, Kept
<1>10. RemovedInv'  BY <1>1 DEF RemovedInv, DriverCloses, Over, Kept
<1>11. UnregisteredInv'  BY <1>1 DEF UnregisteredInv, DriverCloses, Over, Kept
<1>12. DriverInv'  BY <1>1 DEF DriverInv, DriverCloses
<1>13. QueryRemoveInv'  BY <1>1 DEF QueryRemoveInv, Over, Kept
<1>14. QueryClosedInv'  BY <1>1 DEF QueryClosedInv
<1> QED BY <1>2, <1>3, <1>4, <1>5, <1>6, <1>7, <1>8, <1>9, <1>10, <1>11, <1>12, <1>13, <1>14

LEMMA UnregisterKeeps ==
    ASSUME TargetInv, Unregister
    PROVE TargetInv'
<1> USE InterfaceThreadsAre DEF Unregister, TargetInv, WentTo, Closing, accessVars,
       targetContext, reasonVars, registration
<1>1. WentTo("driver", "unregistered")
    BY GoingOn, InterfaceStepsAre
<1>2. Kept' = Kept
    BY DEF Kept
<1>3. InterfaceTypeOK'
    BY <1>1 DEF InterfaceTypeOK, Access!ATypeOK, Access!Phases, Reasons, NULL, Targets,
           IsFirst
<1>4. RegisteredInv'  BY <1>1 DEF RegisteredInv
<1>5. KeptInv'  BY <1>1 DEF KeptInv, Kept
<1>6. PhaseInv'  BY <1>1 DEF PhaseInv, Attached
<1>7. (\A u \in InterfaceThreads : ClosingInv(u))'
    BY <1>1 DEF ClosingInv, Attached, Kept
<1>8. ArrivalInv'  BY <1>1 DEF ArrivalInv, Attached
<1>9. CallbackInv'  BY <1>1 DEF CallbackInv, Kept, Over, Attached
<1>10. NotSetInv'  BY <1>1, <1>2 DEF NotSetInv, DriverCloses
<1>11. RemovedInv'  BY <1>1 DEF RemovedInv, DriverCloses, Over, Kept
<1>12. UnregisteredInv'  BY <1>1 DEF UnregisteredInv, DriverCloses, Over, Kept
<1>13. DriverInv'  BY <1>1 DEF DriverInv, DriverCloses
<1>14. QueryRemoveInv'  BY <1>1 DEF QueryRemoveInv, Over, Kept
<1>15. QueryClosedInv'  BY <1>1 DEF QueryClosedInv
<1> QED BY <1>3, <1>4, <1>5, <1>6, <1>7, <1>8, <1>9, <1>10, <1>11, <1>12, <1>13, <1>14, <1>15

LEMMA UnregisterReasonKeeps ==
    ASSUME TargetInv, UnregisterReason
    PROVE TargetInv'
<1> USE InterfaceThreadsAre DEF UnregisterReason, ReasonSet, IsFirst, TargetInv, WentTo,
       Closing, accessVars, targetContext, reasonVars, registration
<1>1. WentTo("driver", IF IsFirst THEN "reasonSet" ELSE "idle")
    BY GoingOn, InterfaceStepsAre
<1>2. InterfaceTypeOK'
    BY <1>1 DEF InterfaceTypeOK, Access!ATypeOK, Access!Phases, Reasons, NULL, Targets
<1>3. RegisteredInv'  BY <1>1 DEF RegisteredInv
<1>4. KeptInv'  BY <1>1 DEF KeptInv, Kept
<1>5. PhaseInv'  BY <1>1 DEF PhaseInv, Attached
<1>6. (\A u \in InterfaceThreads : ClosingInv(u))'
    BY <1>1 DEF ClosingInv, Attached, Kept
<1>7. ArrivalInv'  BY <1>1 DEF ArrivalInv, Attached, RegisteredInv
<1>8. CallbackInv'  BY <1>1 DEF CallbackInv, Kept, Over, Attached
<1>9. NotSetInv'  BY <1>1 DEF NotSetInv, DriverCloses, Kept
<1>10. RemovedInv'  BY <1>1 DEF RemovedInv, DriverCloses, Over, Kept
<1>11. UnregisteredInv'
    BY <1>1 DEF UnregisteredInv, DriverCloses, Over, Kept, RegisteredInv, NotSetInv
<1>12. DriverInv'  BY <1>1 DEF DriverInv, DriverCloses
<1>13. QueryRemoveInv'  BY <1>1 DEF QueryRemoveInv, Over, Kept
<1>14. QueryClosedInv'  BY <1>1 DEF QueryClosedInv
<1> QED BY <1>2, <1>3, <1>4, <1>5, <1>6, <1>7, <1>8, <1>9, <1>10, <1>11, <1>12, <1>13, <1>14

LEMMA UnregisterCheckKeeps ==
    ASSUME TargetInv, UnregisterCheck
    PROVE TargetInv'
<1> USE InterfaceThreadsAre DEF UnregisterCheck, TargetInv, WentTo, Closing, accessVars,
       targetContext, reasonVars, registration
<1>1. WentTo("driver", IF IoTarget # NULL THEN "close" ELSE "idle")
    BY GoingOn, InterfaceStepsAre
<1>2. \A v, w \in InterfaceThreads : pc[v] \in Closing /\ pc[w] \in Closing => v = w
    BY OneCloses
<1>3. Kept' = Kept
    BY DEF Kept
<1>4. InterfaceTypeOK'
    BY <1>1 DEF InterfaceTypeOK, Access!ATypeOK, Access!Phases, Reasons, NULL, Targets,
           IsFirst
<1>5. RegisteredInv'  BY <1>1 DEF RegisteredInv
<1>6. KeptInv'  BY <1>1 DEF KeptInv, Kept
<1>7. PhaseInv'  BY <1>1 DEF PhaseInv, Attached
<1>8. ASSUME NEW u \in InterfaceThreads PROVE ClosingInv(u)'
    BY <1>1, <1>2, <1>3 DEF ClosingInv, Attached, PhaseInv, RegisteredInv, DriverCloses,
           DriverInv, UnregisteredInv
<1>9. ArrivalInv'  BY <1>1 DEF ArrivalInv, Attached
<1>10. CallbackInv'  BY <1>1 DEF CallbackInv, Kept, Over, Attached
<1>11. NotSetInv'  BY <1>1 DEF NotSetInv, DriverCloses, Kept
<1>12. RemovedInv'  BY <1>1 DEF RemovedInv, DriverCloses, Over, Kept
<1>13. UnregisteredInv'
    BY <1>1 DEF UnregisteredInv, DriverCloses, Over, Kept, PhaseInv, CallbackInv, Attached,
           InterfaceTypeOK
<1>14. DriverInv'  BY <1>1 DEF DriverInv, DriverCloses
<1>15. QueryRemoveInv'  BY <1>1 DEF QueryRemoveInv, Over, Kept
<1>16. QueryClosedInv'  BY <1>1 DEF QueryClosedInv
<1> QED BY <1>4, <1>5, <1>6, <1>7, <1>8, <1>9, <1>10, <1>11, <1>12, <1>13, <1>14, <1>15, <1>16

LEMMA MethodKeeps ==
    ASSUME TargetInv, NEW c \in Callers, Method(c)
    PROVE TargetInv'
<1> USE InterfaceThreadsAre DEF Method, Access!AEnter, Access!ALeave, TargetInv, WentTo,
       Closing, accessVars, targetContext, reasonVars, registration
<1>1. InterfaceTypeOK'
    BY DEF InterfaceTypeOK, Access!ATypeOK, Access!Phases, Reasons, NULL, Targets, IsFirst
<1>2. RegisteredInv'  BY DEF RegisteredInv
<1>3. KeptInv'  BY DEF KeptInv, Kept
<1>4. PhaseInv'  BY DEF PhaseInv, Attached
<1>5. (\A u \in InterfaceThreads : ClosingInv(u))'
    BY DEF ClosingInv, Attached, Kept
<1>6. ArrivalInv'  BY DEF ArrivalInv, Attached
<1>7. CallbackInv'  BY DEF CallbackInv, Kept, Over, Attached
<1>8. NotSetInv'  BY DEF NotSetInv, DriverCloses, Kept
<1>9. RemovedInv'  BY DEF RemovedInv, DriverCloses, Over, Kept
<1>10. UnregisteredInv'  BY DEF UnregisteredInv, DriverCloses, Over, Kept
<1>11. DriverInv'  BY DEF DriverInv, DriverCloses
<1>12. QueryRemoveInv'  BY DEF QueryRemoveInv, Over, Kept
<1>13. QueryClosedInv'  BY DEF QueryClosedInv
<1> QED BY <1>1, <1>2, <1>3, <1>4, <1>5, <1>6, <1>7, <1>8, <1>9, <1>10, <1>11, <1>12, <1>13

-----------------------------------------------------------------------------
LEMMA TargetInvStarts ==
    ASSUME InterfaceInit
    PROVE TargetInv
<1> USE InterfaceThreadsAre DEF InterfaceInit, Access!AInit
<1>1. pc \in [InterfaceThreads -> UNION {Steps[t] : t \in InterfaceThreads}]
    <2>1. pc = [t \in InterfaceThreads |-> "idle"]
        BY DEF InterfaceThreads
    <2>2. "idle" \in UNION {Steps[t] : t \in InterfaceThreads}
        OBVIOUS
    <2> QED BY <2>1, <2>2
<1>2. \A t \in InterfaceThreads : pc[t] \in Steps[t]
    BY DEF InterfaceThreads
<1>3. Access!ATypeOK /\ registrations \in 0 .. MaxRegistrations
    BY BoundAssumption DEF Access!ATypeOK, Access!Phases
<1>4. /\ target \in [Targets -> {"none", "open", "queryClosed", "deleted"}]
      /\ query \in [Targets -> {"none", "accepted", "vetoed", "gone"}]
    OBVIOUS
<1>5. InterfaceTypeOK
    BY <1>1, <1>2, <1>3, <1>4 DEF InterfaceTypeOK
<1>6. \A t \in InterfaceThreads : pc[t] = "idle"
    BY DEF InterfaceThreads
<1>7. Kept = {}
    BY DEF Kept
<1> QED
    BY <1>5, <1>6, <1>7 DEF TargetInv, RegisteredInv, KeptInv, PhaseInv, ClosingInv, ArrivalInv,
       CallbackInv, NotSetInv, RemovedInv, UnregisteredInv, DriverInv, QueryRemoveInv,
       QueryClosedInv, DriverCloses, Over, Closing

\* A step that changes nothing keeps the invariant.
LEMMA TargetInvStutters ==
    ASSUME TargetInv, UNCHANGED interfaceVars
    PROVE TargetInv'
BY DEF TargetInv, interfaceVars, accessVars, targetContext, reasonVars, registration,
   InterfaceTypeOK, RegisteredInv, KeptInv, PhaseInv, ClosingInv, ArrivalInv, CallbackInv,
   NotSetInv, RemovedInv, UnregisteredInv, DriverInv, QueryRemoveInv, QueryClosedInv,
   Kept, Attached, DriverCloses, Over, Access!ATypeOK

LEMMA TargetInvIsKept ==
    ASSUME strayed' = {}, TargetInv, [InterfaceNext]_interfaceVars
    PROVE TargetInv'
<1>1. CASE Interface
    BY <1>1, ArrivalKeeps, ArrivalResetKeeps, ArrivalOpenKeeps, RefusalsStray, RemovalKeeps
       DEF Interface, ArrivalEnds
<1>2. CASE \E t \in Targets : TargetBegins(t)
    BY <1>2, QueryRemoveBeginKeeps, RemoveCancelBeginKeeps, RemoveCompleteBeginKeeps
       DEF TargetBegins
<1>3. CASE TargetSteps
    BY <1>3, QueryRemoveKeeps, QueryRemoveAllowedKeeps, QueryRemoveVetoedKeeps,
       RemoveCancelKeeps, RemoveCancelOpensKeeps, RemoveCancelOpenFailsKeeps,
       RemoveCancelExitKeeps, RemoveCompleteKeeps DEF TargetSteps
<1>4. CASE Register \/ Unregister \/ DriverSteps
    BY <1>4, RegisterKeeps, UnregisterKeeps, RegisteredKeeps, UnregisterReasonKeeps,
       UnregisterCheckKeeps DEF DriverSteps
<1>5. CASE CloseSteps
    BY <1>5, ModuleCloseKeeps, DrainedKeeps, DeviceCloseKeeps, DeviceCloseEndKeeps
       DEF CloseSteps
<1>6. CASE \E c \in Callers : Method(c)
    BY <1>6, MethodKeeps
<1>7. CASE UNCHANGED interfaceVars
    BY <1>7, TargetInvStutters
<1> QED BY <1>1, <1>2, <1>3, <1>4, <1>5, <1>6, <1>7 DEF InterfaceNext

\* What has strayed stays.
LEMMA StrayedStays ==
    ASSUME strayed' = {}, [InterfaceNext]_interfaceVars
    PROVE strayed = {}
<1>1. CASE Interface
    BY <1>1 DEF Interface, ArrivalEnds, Arrival, ArrivalReset, ArrivalOpen, ArrivalVetoed,
       ArrivalOpenFails, Removal
<1>2. CASE \E t \in Targets : TargetBegins(t)
    BY <1>2 DEF TargetBegins, QueryRemoveBegin, RemoveCancelBegin, RemoveCompleteBegin,
       TargetNotified
<1>3. CASE TargetSteps
    BY <1>3 DEF TargetSteps, QueryRemove, QueryRemoveAllowed, QueryRemoveVetoed, RemoveCancel,
       RemoveCancelOpens, RemoveCancelOpenFails, RemoveCancelExit, RemoveComplete
<1>4. CASE Register \/ Unregister \/ DriverSteps
    BY <1>4 DEF DriverSteps, Register, Unregister, Registered, UnregisterReason,
       UnregisterCheck
<1>5. CASE CloseSteps
    BY <1>5 DEF CloseSteps, ModuleClose, Drained, DeviceClose, DeviceCloseEnd
<1>6. CASE \E c \in Callers : Method(c)
    BY <1>6 DEF Method
<1>7. CASE UNCHANGED interfaceVars
    BY <1>7 DEF interfaceVars
<1> QED BY <1>1, <1>2, <1>3, <1>4, <1>5, <1>6, <1>7 DEF InterfaceNext

LEMMA TargetInvHolds == InterfaceSpec => [](strayed = {} => TargetInv)
<1>1. InterfaceInit => TargetInv
    BY TargetInvStarts
<1>2. (strayed = {} => TargetInv) /\ [InterfaceNext]_interfaceVars
          => (strayed = {} => TargetInv)'
    <2> SUFFICES ASSUME strayed = {} => TargetInv, [InterfaceNext]_interfaceVars, strayed' = {}
                 PROVE TargetInv'
        OBVIOUS
    <2>1. TargetInv
        BY StrayedStays
    <2> QED BY <2>1, TargetInvIsKept
<1> QED BY <1>1, <1>2, PTL DEF InterfaceSpec

\* Whichever of PnP, the target's own callbacks and the driver closes first,
\* a Method sends to a WDFIOTARGET that is open, and the close finds one.
THEOREM MethodsFindTheirTarget == InterfaceSpec => []UsesOpenTarget
<1>1. ASSUME TargetInv PROVE UsesOpenTarget
    <2>1. MethodsUseOpenTarget
        <3>1. users # {} => phase \in {"open", "draining"}
            BY <1>1 DEF TargetInv, PhaseInv, InterfaceTypeOK, Access!ATypeOK, Access!Phases
        <3> QED BY <1>1, <3>1 DEF TargetInv, PhaseInv, Attached, MethodsUseOpenTarget, NULL
    <2>2. ClosesOpenTarget
        <3>1. /\ \A t \in InterfaceThreads : pc[t] = "deviceClose" =>
                    IoTarget # NULL /\ target[IoTarget] = "open"
              /\ pc["target"] = "close" => IoTarget = calledFor
            BY <1>1, InterfaceThreadsAre DEF TargetInv, ClosingInv, CallbackInv, Attached,
               Closing
        <3>2. ASSUME InterfaceNotified, pc["target"] = "idle", ~link
              PROVE IoTarget = NULL
            <4>1. /\ Kept = {}
                  /\ pc["interface"] = "idle" /\ pc["driver"] \in {"registering", "running"}
                BY <1>1, <3>2 DEF InterfaceNotified, TargetInv, KeptInv, RegisteredInv
            <4>2. ~Attached
                BY <1>1, <4>1, KeptAre
            <4>3. \A t \in InterfaceThreads : pc[t] \notin Closing
                BY <3>2, <4>1, InterfaceThreadsAre DEF Closing
            <4> QED BY <1>1, <3>2, <4>1, <4>2, <4>3 DEF TargetInv, PhaseInv, Closing,
                       InterfaceTypeOK, Access!ATypeOK, Access!Phases
        <3> QED BY <3>1, <3>2 DEF ClosesOpenTarget
    <2> QED BY <2>1, <2>2 DEF UsesOpenTarget
<1>2. (strayed = {} => TargetInv) => UsesOpenTarget
    BY <1>1 DEF UsesOpenTarget, MethodsUseOpenTarget, ClosesOpenTarget
<1> QED BY <1>2, TargetInvHolds, PTL

\* However removals, their cancellation and the driver interleave, a target
\* that is open is the Module's, and one that is closed for a query is left
\* to the query.
THEOREM TargetsAreOwned == InterfaceSpec => []TargetsHaveOwners
<1>1. ASSUME TargetInv PROVE TargetsHaveOwners
    <2>1. ASSUME pc["target"] = "idle", NEW t \in Targets, target[t] = "queryClosed"
          PROVE phase = "closed" /\ IoTarget = NULL /\ link
        <3>a. t \in Kept /\ closeReason = "QueryRemove"
            BY <1>1, <2>1 DEF TargetInv, QueryClosedInv, Kept
        <3>1. t \in Kept /\ closeReason = "QueryRemove" /\ ~Attached
            BY <1>1, <2>1, <3>a, KeptAre DEF Attached
        <3>2. pc["interface"] # "created" /\ phase # "open"
            BY <1>1, <3>1 DEF TargetInv, ArrivalInv, PhaseInv
        <3> QED BY <1>1, <2>1, <3>1, <3>2 DEF TargetInv, QueryRemoveInv, Over, KeptInv
    <2>2. QueryOwnsTarget
        BY <2>1 DEF QueryOwnsTarget
    <2> QED BY <1>1, <2>2 DEF TargetInv, KeptInv, NoTargetIsLeaked, TargetsHaveOwners
<1>2. (strayed = {} => TargetInv) => TargetsHaveOwners
    BY <1>1 DEF TargetsHaveOwners, QueryOwnsTarget, NoTargetIsLeaked
<1> QED BY <1>2, TargetInvHolds, PTL
=============================================================================
