--------------------------- MODULE BufferPool_proofs ---------------------------
(***************************************************************************)
(* The two DMF_BufferPools of a DMF_BufferQueue, and the Modules that are  *)
(* built from one: for any buffers, whatever the Client, the timers, Flush *)
(* and the close do meanwhile, each buffer is in one place, and a timer    *)
(* serves the use of its buffer that started it (BufferQueue); work has    *)
(* one owner and its answer reaches the caller (ThreadedBufferQueue).      *)
(***************************************************************************)
EXTENDS BufferQueue, ThreadedBufferQueue, FiniteSetTheorems, SequenceTheorems, TLAPS

-----------------------------------------------------------------------------
(* Lists.                                                                   *)

\* An empty list.
LEMMA EmptyToSet == ToSet(<<>>) = {} /\ IsInjective(<<>>)
BY DEF ToSet, IsInjective

\* The elements of a list, and that none is in it twice, by its places.
LEMMA InToSet ==
    ASSUME NEW S, NEW s \in Seq(S)
    PROVE  /\ \A e : e \in ToSet(s) <=> \E i \in 1 .. Len(s) : s[i] = e
           /\ IsInjective(s) <=> \A i, j \in 1 .. Len(s) : s[i] = s[j] => i = j
           /\ ToSet(s) \subseteq S
<1>1. DOMAIN s = 1 .. Len(s) /\ \A i \in 1 .. Len(s) : s[i] \in S
  OBVIOUS
<1> QED BY <1>1 DEF ToSet, IsInjective

\* A new element at the end.
LEMMA AppendToSet ==
    ASSUME NEW S, NEW s \in Seq(S), NEW e \in S
    PROVE  /\ Append(s, e) \in Seq(S)
           /\ ToSet(Append(s, e)) = ToSet(s) \cup {e}
           /\ IsInjective(s) /\ e \notin ToSet(s) => IsInjective(Append(s, e))
<1> DEFINE t == Append(s, e)
<1>1. t \in Seq(S) /\ Len(t) = Len(s) + 1 /\ Len(s) \in Nat
  OBVIOUS
<1>2. (\A i \in 1 .. Len(s) : t[i] = s[i]) /\ t[Len(s) + 1] = e
  OBVIOUS
<1> HIDE DEF t
<1>3. \A x : x \in ToSet(t) <=> x \in ToSet(s) \cup {e}
  BY <1>1, <1>2, InToSet
<1>4. IsInjective(s) /\ e \notin ToSet(s) => IsInjective(t)
  BY <1>1, <1>2, InToSet
<1> QED BY <1>1, <1>3, <1>4 DEF t

\* The first element goes.
LEMMA HeadTailToSet ==
    ASSUME NEW S, NEW s \in Seq(S), s # <<>>
    PROVE  /\ Head(s) \in ToSet(s) /\ Tail(s) \in Seq(S)
           /\ ToSet(s) = ToSet(Tail(s)) \cup {Head(s)}
           /\ IsInjective(s) => IsInjective(Tail(s)) /\ Head(s) \notin ToSet(Tail(s))
<1> DEFINE t == Tail(s)
<1>1. t \in Seq(S) /\ Len(t) = Len(s) - 1 /\ Len(s) \in Nat \ {0} /\ Head(s) = s[1]
  OBVIOUS
<1>2. \A i \in 1 .. Len(t) : t[i] = s[i + 1]
  OBVIOUS
<1> HIDE DEF t
<1>3. \A i \in 1 .. Len(s) : i = 1 \/ \E j \in 1 .. Len(t) : s[i] = t[j]
  <2>1. ASSUME NEW i \in 1 .. Len(s), i # 1 PROVE \E j \in 1 .. Len(t) : s[i] = t[j]
    <3>1. i - 1 \in 1 .. Len(t) /\ (i - 1) + 1 = i
      BY <1>1, <2>1
    <3> QED BY <1>2, <3>1
  <2> QED BY <2>1
<1>4. ToSet(s) = ToSet(t) \cup {Head(s)}
  <2>1. ASSUME NEW x, x \in ToSet(s) PROVE x = Head(s) \/ x \in ToSet(t)
    BY <1>1, <1>3, <2>1, InToSet
  <2>2. ASSUME NEW x, x \in ToSet(t) PROVE x \in ToSet(s)
    <3>1. PICK i \in 1 .. Len(t) : t[i] = x
      BY <1>1, <2>2, InToSet
    <3>2. i + 1 \in 1 .. Len(s) /\ s[i + 1] = x
      BY <1>1, <1>2, <3>1
    <3> QED BY <3>2, InToSet
  <2>3. Head(s) \in ToSet(s)
    BY <1>1, InToSet
  <2> QED BY <2>1, <2>2, <2>3
<1>5. IsInjective(s) => IsInjective(t) /\ Head(s) \notin ToSet(t)
  <2> SUFFICES ASSUME IsInjective(s) PROVE IsInjective(t) /\ Head(s) \notin ToSet(t)
    OBVIOUS
  <2>1. \A i, j \in 1 .. Len(s) : s[i] = s[j] => i = j
    BY InToSet
  <2>2. \A i, j \in 1 .. Len(t) : t[i] = t[j] => i = j
    BY <1>1, <1>2, <2>1
  <2>3. \A i \in 1 .. Len(t) : t[i] # s[1]
    BY <1>1, <1>2, <2>1
  <2> QED BY <1>1, <2>2, <2>3, InToSet
<1> QED BY <1>1, <1>4, <1>5 DEF t

\* One element is unlinked.
LEMMA RemoveAtToSet ==
    ASSUME NEW S, NEW s \in Seq(S), NEW i \in DOMAIN s, IsInjective(s)
    PROVE  /\ RemoveAt(s, i) \in Seq(S) /\ IsInjective(RemoveAt(s, i))
           /\ Len(RemoveAt(s, i)) = Len(s) - 1
           /\ ToSet(RemoveAt(s, i)) = ToSet(s) \ {s[i]}
<1> DEFINE a == SubSeq(s, 1, i - 1)
           b == SubSeq(s, i + 1, Len(s))
           t == a \o b
<1>1. i \in 1 .. Len(s) /\ Len(s) \in Nat /\ \A j, k \in 1 .. Len(s) : s[j] = s[k] => j = k
  BY InToSet
<1>2. a \in Seq(S) /\ Len(a) = i - 1 /\ \A j \in 1 .. i - 1 : a[j] = s[j]
  BY <1>1, SubSeqProperties
<1>3. b \in Seq(S) /\ Len(b) = Len(s) - i /\ \A j \in 1 .. Len(s) - i : b[j] = s[i + j]
  BY <1>1, SubSeqProperties
<1> HIDE DEF a, b
<1>4. /\ t \in Seq(S) /\ Len(t) = Len(s) - 1
      /\ \A j \in 1 .. Len(s) - 1 : t[j] = IF j < i THEN s[j] ELSE s[j + 1]
  <2>1. /\ t \in Seq(S) /\ Len(t) = Len(a) + Len(b)
        /\ \A j \in 1 .. Len(a) + Len(b) : t[j] = IF j <= Len(a) THEN a[j] ELSE b[j - Len(a)]
    BY <1>2, <1>3, ConcatProperties
  <2> HIDE DEF t
  <2>2. Len(t) = Len(s) - 1 /\ \A j \in 1 .. Len(s) - 1 : j < i => t[j] = s[j]
    <3>1. Len(t) = Len(s) - 1
      BY <1>1, <1>2, <1>3, <2>1
    <3>2. ASSUME NEW j \in 1 .. Len(s) - 1, j < i PROVE t[j] = s[j]
      <4>1. j \in 1 .. i - 1 /\ j <= Len(a) /\ j \in 1 .. Len(a) + Len(b)
        BY <1>1, <1>2, <1>3, <3>2
      <4>2. t[j] = a[j]
        BY <2>1, <4>1
      <4> QED BY <1>2, <4>1, <4>2
    <3> QED BY <3>1, <3>2
  <2>3. ASSUME NEW j \in 1 .. Len(s) - 1, j >= i PROVE t[j] = s[j + 1]
    <3>1. t[j] = b[j - (i - 1)] /\ j - (i - 1) \in 1 .. Len(s) - i /\ i + (j - (i - 1)) = j + 1
      <4>1. j \in 1 .. Len(a) + Len(b) /\ ~(j <= Len(a)) /\ Len(a) = i - 1
        BY <1>1, <1>2, <1>3, <2>3
      <4>2. t[j] = b[j - Len(a)]
        BY <2>1, <4>1
      <4> QED BY <1>1, <2>3, <4>1, <4>2
    <3> QED BY <1>3, <3>1
  <2> QED BY <1>1, <2>1, <2>2, <2>3
<1> HIDE DEF t
<1>5. IsInjective(t)
  BY <1>1, <1>4, InToSet
<1>6. ASSUME NEW x, x \in ToSet(t) PROVE x \in ToSet(s) /\ x # s[i]
  <2>1. PICK j \in 1 .. Len(t) : t[j] = x
    BY <1>4, <1>6, InToSet
  <2>2. CASE j < i
    BY <1>1, <1>4, <2>1, <2>2, InToSet
  <2>3. CASE j >= i
    <3>1. j + 1 \in 1 .. Len(s) /\ s[j + 1] = x /\ j + 1 # i
      BY <1>1, <1>4, <2>1, <2>3
    <3> QED BY <1>1, <3>1, InToSet
  <2> QED BY <1>1, <1>4, <2>1, <2>2, <2>3
<1>7. ASSUME NEW x, x \in ToSet(s), x # s[i] PROVE x \in ToSet(t)
  <2>1. PICK j \in 1 .. Len(s) : s[j] = x
    BY <1>7, InToSet
  <2>2. CASE j < i
    BY <1>1, <1>4, <2>1, <2>2, InToSet
  <2>3. CASE j > i
    <3>1. j - 1 \in 1 .. Len(t) /\ t[j - 1] = x
      BY <1>1, <1>4, <2>1, <2>3
    <3> QED BY <1>4, <3>1, InToSet
  <2> QED BY <1>1, <1>7, <2>1, <2>2, <2>3
<1> QED BY <1>4, <1>5, <1>6, <1>7 DEF t, a, b, RemoveAt

\* A list without duplicates loses one element.
LEMMA RemoveFirstToSet ==
    ASSUME NEW S, NEW s \in Seq(S), NEW e \in ToSet(s), IsInjective(s)
    PROVE  /\ RemoveFirst(s, e) \in Seq(S) /\ IsInjective(RemoveFirst(s, e))
           /\ Len(RemoveFirst(s, e)) = Len(s) - 1
           /\ ToSet(RemoveFirst(s, e)) = ToSet(s) \ {e}
<1>1. PICK k \in 1 .. Len(s) : s[k] = e
  BY InToSet
<1>2. {i \in 1 .. Len(s) : s[i] = e} = {k}
  BY <1>1, InToSet
<1>3. SelectInSeq(s, LAMBDA v : v = e) = k
  BY <1>2 DEF SelectInSeq, Min
<1>4. RemoveFirst(s, e) = RemoveAt(s, k)
  BY <1>1, <1>3 DEF RemoveFirst
<1> QED BY <1>1, <1>4, RemoveAtToSet

\* A new element at the head.
LEMMA ConsToSet ==
    ASSUME NEW S, NEW s \in Seq(S), NEW e \in S
    PROVE  /\ <<e>> \o s \in Seq(S)
           /\ ToSet(<<e>> \o s) = ToSet(s) \cup {e}
           /\ IsInjective(s) /\ e \notin ToSet(s) => IsInjective(<<e>> \o s)
<1> DEFINE t == <<e>> \o s
<1>1. t \in Seq(S) /\ Len(t) = Len(s) + 1 /\ Len(s) \in Nat
  OBVIOUS
<1>2. t[1] = e /\ \A i \in 1 .. Len(s) : t[i + 1] = s[i]
  OBVIOUS
<1> HIDE DEF t
<1>3. \A i \in 1 .. Len(t) : i = 1 \/ \E j \in 1 .. Len(s) : i = j + 1
  <2>1. ASSUME NEW i \in 1 .. Len(t), i # 1 PROVE \E j \in 1 .. Len(s) : i = j + 1
    <3>1. i - 1 \in 1 .. Len(s) /\ i = (i - 1) + 1
      BY <1>1, <2>1
    <3> QED BY <3>1
  <2> QED BY <2>1
<1>4. \A x : x \in ToSet(t) <=> x \in ToSet(s) \cup {e}
  <2>1. ASSUME NEW x, x \in ToSet(t) PROVE x \in ToSet(s) \cup {e}
    BY <1>1, <1>2, <1>3, <2>1, InToSet
  <2>2. ASSUME NEW x, x \in ToSet(s) PROVE x \in ToSet(t)
    <3>1. PICK j \in 1 .. Len(s) : s[j] = x
      BY <2>2, InToSet
    <3>2. j + 1 \in 1 .. Len(t) /\ t[j + 1] = x
      BY <1>1, <1>2, <3>1
    <3> QED BY <1>1, <3>2, InToSet
  <2>3. e \in ToSet(t)
    BY <1>1, <1>2, InToSet
  <2> QED BY <2>1, <2>2, <2>3
<1>5. IsInjective(s) /\ e \notin ToSet(s) => IsInjective(t)
  <2> SUFFICES ASSUME IsInjective(s), e \notin ToSet(s) PROVE IsInjective(t)
    OBVIOUS
  <2>1. /\ \A i, j \in 1 .. Len(s) : s[i] = s[j] => i = j
        /\ \A i \in 1 .. Len(s) : s[i] # e
    BY InToSet
  <2>2. ASSUME NEW i \in 1 .. Len(t), NEW j \in 1 .. Len(t), t[i] = t[j] PROVE i = j
    <3>1. CASE i = 1 \/ j = 1
      BY <1>2, <1>3, <2>1, <2>2, <3>1
    <3>2. CASE i # 1 /\ j # 1
      <4>1. PICK k \in 1 .. Len(s) : i = k + 1
        BY <1>3, <3>2
      <4>2. PICK l \in 1 .. Len(s) : j = l + 1
        BY <1>3, <3>2
      <4> QED BY <1>2, <2>1, <2>2, <4>1, <4>2
    <3> QED BY <3>1, <3>2
  <2> QED BY <1>1, <2>2, InToSet
<1> QED BY <1>1, <1>4, <1>5 DEF t

-----------------------------------------------------------------------------
(* The two pools, one operation at a time.                                  *)

\* OneOwner, pair by pair.
Apart ==
    /\ source \cap InSink = {} /\ source \cap held = {} /\ source \cap Expiring = {}
    /\ source \cap destroying = {}
    /\ InSink \cap held = {} /\ InSink \cap Expiring = {} /\ InSink \cap destroying = {}
    /\ held \cap Expiring = {} /\ held \cap destroying = {}
    /\ Expiring \cap destroying = {}
    /\ IsInjective(sink)

PoolTypes ==
    /\ source \subseteq Buffers /\ held \subseteq Buffers /\ destroying \subseteq Buffers
    /\ sink \in Seq(Buffers)
    /\ additional \in Nat
    /\ handler \in [Buffers -> {"idle", "removed", "calling"}]

\* A buffer has a TimerExpirationCallback only while it is, or was, in the sink.
TimersInv ==
    /\ TimersBelongToTheSink
    /\ expirationCallback \cap (source \cup held \cup Expiring) = {}

PoolInv == PoolTypes /\ Apart /\ TimersInv

\* What the property says, from the pairs.
LEMMA ApartIsOneOwner == Apart => OneOwner
<1> SUFFICES ASSUME Apart PROVE OneOwner
  OBVIOUS
<1> DEFINE owner == <<source, InSink, held, Expiring, destroying>>
<1>1. DOMAIN owner = 1 .. 5
  OBVIOUS
<1>2. ASSUME NEW i \in 1 .. 5, NEW j \in 1 .. 5, i # j
      PROVE  owner[i] \cap owner[j] = {}
  <2>1. /\ i = 1 \/ i = 2 \/ i = 3 \/ i = 4 \/ i = 5
        /\ j = 1 \/ j = 2 \/ j = 3 \/ j = 4 \/ j = 5
    OBVIOUS
  <2>2. /\ owner[1] = source /\ owner[2] = InSink /\ owner[3] = held /\ owner[4] = Expiring
        /\ owner[5] = destroying
    OBVIOUS
  <2> HIDE DEF owner
  <2> QED BY <1>2, <2>1, <2>2 DEF Apart
<1> QED BY <1>1, <1>2 DEF OneOwner, Apart

\* The initial pools.
LEMMA PoolInitInv ==
    ASSUME PoolInit
    PROVE  PoolInv /\ AllocationIsExact
<1>1. /\ source \in SUBSET Buffers /\ Cardinality(source) = BufferCount
      /\ sink = <<>> /\ held = {} /\ additional = 0 /\ expirationCallback = {}
      /\ timer = {} /\ due = {} /\ handler = [b \in Buffers |-> "idle"] /\ destroying = {}
  BY DEF PoolInit
<1>2. InSink = {} /\ IsInjective(sink) /\ Expiring = {}
  BY <1>1, EmptyToSet DEF InSink, Expiring
<1>3. Allocated = source
  BY <1>1, <1>2 DEF Allocated
<1>4. BufferCount \in Nat
  BY SourceAssumption, FS_CardinalityType DEF SourceAssumption
<1> QED BY <1>1, <1>2, <1>3, <1>4
        DEF PoolInv, PoolTypes, Apart, TimersInv, TimersBelongToTheSink, AllocationIsExact

\* What stays as it is when the sink and the handlers do.
LEMMA SinkStays ==
    /\ UNCHANGED sink => UNCHANGED InSink
    /\ UNCHANGED handler => UNCHANGED Expiring
BY DEF InSink, Expiring

\* There are finitely many buffers.
LEMMA AllocatedIsFinite ==
    ASSUME PoolInv
    PROVE  /\ IsFiniteSet(Allocated) /\ Cardinality(Allocated) \in Nat
           /\ Allocated \subseteq Buffers /\ BufferCount \in Nat
<1>1. ToSet(sink) \subseteq Buffers
  BY InToSet DEF PoolInv, PoolTypes
<1>2. Allocated \subseteq Buffers
  BY <1>1 DEF PoolInv, PoolTypes, Allocated, InSink, Expiring
<1> QED BY <1>2, SourceAssumption, FS_Subset, FS_CardinalityType DEF SourceAssumption

\* DMF_BufferPool_Get of the source: an existing buffer, or a new one.
LEMMA SourceGetInv ==
    ASSUME PoolInv, NEW b \in Buffers, SourceGet(b)
    PROVE  PoolInv' /\ (AllocationIsExact => AllocationIsExact')
<1>1. UNCHANGED <<sink, timer, due, handler, destroying, InSink, Expiring>>
  BY SinkStays DEF SourceGet
<1>2. held' = held \cup {b}
  BY DEF SourceGet
<1>3. CASE GetExisting(b)
  <2>1. b \in source /\ source' = source \ {b} /\ UNCHANGED <<additional, expirationCallback>>
    BY <1>3 DEF GetExisting
  <2>2. Allocated' = Allocated
    BY <1>1, <1>2, <2>1 DEF Allocated
  <2> QED BY <1>1, <1>2, <2>1, <2>2
          DEF PoolInv, PoolTypes, Apart, TimersInv, TimersBelongToTheSink, AllocationIsExact
<1>4. CASE GetNew(b)
  <2>1. /\ source = {} /\ b \notin Allocated /\ additional' = additional + 1
        /\ expirationCallback' = expirationCallback \ {b} /\ UNCHANGED source
    BY <1>4 DEF GetNew
  <2>2. Allocated' = Allocated \cup {b}
    BY <1>1, <1>2, <2>1 DEF Allocated
  <2>3. PoolInv'
    BY <1>1, <1>2, <2>1 DEF PoolInv, PoolTypes, Apart, TimersInv, TimersBelongToTheSink, Allocated
  <2>4. AllocationIsExact => AllocationIsExact'
    <3>1. /\ Cardinality(Allocated \cup {b}) = Cardinality(Allocated) + 1
          /\ additional \in Nat /\ BufferCount \in Nat
      BY <2>1, AllocatedIsFinite, FS_AddElement DEF PoolInv, PoolTypes
    <3> QED BY <2>1, <2>2, <3>1 DEF AllocationIsExact
  <2> QED BY <2>3, <2>4
<1> QED BY <1>3, <1>4 DEF SourceGet

\* DMF_BufferPool_Put into the source: an additional buffer is deleted.
LEMMA SourcePutInv ==
    ASSUME PoolInv, NEW b \in Buffers, SourcePut(b)
    PROVE  PoolInv' /\ (AllocationIsExact => AllocationIsExact')
<1> USE DEF SourcePut, timerVars
<1>1. /\ UNCHANGED <<sink, timer, due, handler, destroying, InSink, Expiring, expirationCallback>>
      /\ b \in held /\ held' = held \ {b}
  BY SinkStays
<1>2. CASE EnableLookAside /\ additional > 0
  <2>1. additional' = additional - 1 /\ UNCHANGED source
    BY <1>2
  <2>2. Allocated' = Allocated \ {b} /\ b \in Allocated
    BY <1>1, <2>1 DEF Allocated, PoolInv, Apart
  <2>3. PoolInv'
    BY <1>1, <1>2, <2>1 DEF PoolInv, PoolTypes, Apart, TimersInv, TimersBelongToTheSink
  <2>4. AllocationIsExact => AllocationIsExact'
    <3>1. /\ Cardinality(Allocated \ {b}) = Cardinality(Allocated) - 1
          /\ additional \in Nat /\ BufferCount \in Nat
      BY <2>2, AllocatedIsFinite, FS_RemoveElement DEF PoolInv, PoolTypes
    <3> QED BY <2>1, <2>2, <3>1 DEF AllocationIsExact
  <2> QED BY <2>3, <2>4
<1>3. CASE ~(EnableLookAside /\ additional > 0)
  <2>1. source' = source \cup {b} /\ UNCHANGED additional
    BY <1>3
  <2>2. Allocated' = Allocated
    BY <1>1, <2>1 DEF Allocated
  <2> QED BY <1>1, <2>1, <2>2
          DEF PoolInv, PoolTypes, Apart, TimersInv, TimersBelongToTheSink, AllocationIsExact
<1> QED BY <1>2, <1>3

\* DMF_BufferPool_Put, PutAtHead and PutInSinkWithTimer: the new buffer is the
\* only one that may have a new timer.
LEMMA SinkPutInv ==
    ASSUME PoolInv, NEW b \in Buffers, SinkPut(b) \/ SinkPutAtHead(b) \/ SinkPutWithTimer(b)
    PROVE  /\ PoolInv' /\ (AllocationIsExact => AllocationIsExact')
           /\ b \in held /\ InSink' = InSink \cup {b} /\ Expiring' = Expiring
           /\ ~SinkPutWithTimer(b) => UNCHANGED <<expirationCallback, timer>>
           /\ SinkPutWithTimer(b) => expirationCallback' = expirationCallback \cup {b}
<1>1. /\ UNCHANGED <<source, additional, due, handler, destroying, Expiring>>
      /\ b \in held /\ held' = held \ {b}
  BY SinkStays DEF SinkPut, SinkPutAtHead, SinkPutWithTimer, SinkPutIn
<1>2. sink' = Append(sink, b) \/ sink' = <<b>> \o sink
  BY DEF SinkPut, SinkPutAtHead, SinkPutWithTimer, SinkPutIn
<1>3. /\ InSink' = InSink \cup {b} /\ sink' \in Seq(Buffers)
      /\ b \notin InSink /\ IsInjective(sink) => IsInjective(sink')
  <2>1. sink \in Seq(Buffers)
    BY DEF PoolInv, PoolTypes
  <2>2. CASE sink' = Append(sink, b)
    BY <2>1, <2>2, AppendToSet DEF InSink
  <2>3. CASE sink' = <<b>> \o sink
    BY <2>1, <2>3, ConsToSet DEF InSink
  <2> QED BY <1>2, <2>2, <2>3
<1>4. Allocated' = Allocated
  <2>1. held' \cup InSink' = held \cup InSink
    BY <1>1, <1>3
  <2> QED BY <1>1, <2>1, Zenon DEF Allocated
<1>5. PoolTypes' /\ Apart'
  BY <1>1, <1>3 DEF PoolInv, PoolTypes, Apart
<1>6. /\ ~SinkPutWithTimer(b) => UNCHANGED <<expirationCallback, timer>>
      /\ SinkPutWithTimer(b) => /\ expirationCallback' = expirationCallback \cup {b}
                                /\ timer' = timer \cup {b}
  <2>1. ~SinkPutWithTimer(b) => UNCHANGED <<expirationCallback, timer>>
    BY DEF SinkPut, SinkPutAtHead
  <2>2. SinkPutWithTimer(b) => /\ expirationCallback' = expirationCallback \cup {b}
                               /\ timer' = timer \cup {b}
    BY DEF SinkPutWithTimer
  <2> QED BY <2>1, <2>2
<1>7. TimersInv'
  BY <1>1, <1>3, <1>6 DEF PoolInv, Apart, TimersInv, TimersBelongToTheSink
<1> QED BY <1>1, <1>3, <1>4, <1>5, <1>6, <1>7 DEF PoolInv, AllocationIsExact

\* The buffer is removed from the sink after its timer has been stopped: no
\* timer and no handler comes for it later.
LEMMA SinkRemoveInv ==
    ASSUME PoolInv, NEW b \in InSink, CanStop(b), SinkRemove(b)
    PROVE  /\ PoolInv' /\ (AllocationIsExact => AllocationIsExact')
           /\ InSink' = InSink \ {b} /\ held' = held \cup {b} /\ Expiring' = Expiring
           /\ expirationCallback' = expirationCallback \ {b}
<1> USE DEF SinkRemove, StopTimer
<1>1. /\ UNCHANGED <<source, additional, due, handler, destroying, Expiring>>
      /\ held' = held \cup {b} /\ sink' = RemoveFirst(sink, b)
      /\ expirationCallback' = expirationCallback \ {b} /\ timer' = timer \ {b}
  BY SinkStays
<1>2. InSink' = InSink \ {b} /\ sink' \in Seq(Buffers) /\ IsInjective(sink') /\ b \in Buffers
  BY <1>1, RemoveFirstToSet, InToSet DEF PoolInv, PoolTypes, Apart, InSink
<1>3. Allocated' = Allocated
  BY <1>1, <1>2 DEF Allocated
<1>4. PoolTypes' /\ Apart'
  BY <1>1, <1>2 DEF PoolInv, PoolTypes, Apart
<1>5. b \notin due
  BY DEF CanStop, PoolInv, Apart, TimersInv, TimersBelongToTheSink
<1>6. TimersInv'
  BY <1>1, <1>2, <1>5 DEF PoolInv, Apart, TimersInv, TimersBelongToTheSink
<1> QED BY <1>1, <1>2, <1>3, <1>4, <1>6 DEF PoolInv, AllocationIsExact

\* DMF_BufferPool_Get of the sink, with any timer.
LEMMA SinkGetInv ==
    ASSUME PoolInv, NEW b \in Buffers, SinkGet(b)
    PROVE  /\ PoolInv' /\ (AllocationIsExact => AllocationIsExact')
           /\ b \in InSink /\ InSink' = InSink \ {b} /\ held' = held \cup {b}
           /\ Expiring' = Expiring /\ expirationCallback' = expirationCallback \ {b}
<1>1. b \in InSink /\ CanStop(b) /\ SinkRemove(b)
  BY InToSet DEF SinkGet, IsNext, InSink, PoolInv, PoolTypes
<1> QED BY <1>1, SinkRemoveInv

\* DMF_BufferPool_Enumerate.
LEMMA EnumerateInv ==
    ASSUME PoolInv, NEW b \in Buffers, EnumerateRemove(b) \/ EnumerateStopTimer(b)
    PROVE  /\ PoolInv' /\ (AllocationIsExact => AllocationIsExact')
           /\ InSink' \subseteq InSink /\ Expiring' = Expiring
           /\ expirationCallback' \subseteq expirationCallback
<1>1. CASE EnumerateRemove(b)
  BY <1>1, SinkRemoveInv DEF EnumerateRemove
<1>2. CASE EnumerateStopTimer(b)
  <2>1. /\ UNCHANGED <<source, sink, held, additional, due, handler, destroying>>
        /\ UNCHANGED <<InSink, Expiring, Allocated>>
        /\ b \in InSink /\ CanStop(b)
        /\ expirationCallback' = expirationCallback \ {b} /\ timer' = timer \ {b}
    BY <1>2, SinkStays DEF EnumerateStopTimer, StopTimer, lists, Allocated, InSink, Expiring
  <2>2. b \notin due
    BY <2>1 DEF CanStop, PoolInv, Apart, TimersInv, TimersBelongToTheSink
  <2> QED BY <2>1, <2>2
          DEF PoolInv, PoolTypes, Apart, TimersInv, TimersBelongToTheSink, AllocationIsExact
<1> QED BY <1>1, <1>2

\* The timer expires, and its handler takes the lock: it removes the buffer only
\* if that has not been got, deleted or put again without a timer meanwhile.
LEMMA ExpireInv ==
    ASSUME PoolInv, NEW b \in Buffers, TimerExpires(b) \/ HandlerRemoves(b)
    PROVE  /\ PoolInv' /\ (AllocationIsExact => AllocationIsExact')
           /\ InSink' \subseteq InSink /\ expirationCallback' \subseteq expirationCallback
           /\ Expiring' \subseteq Expiring \cup (InSink \cap expirationCallback)
<1>1. CASE TimerExpires(b)
  <2>1. /\ UNCHANGED <<source, sink, held, additional, expirationCallback, handler, destroying>>
        /\ UNCHANGED <<InSink, Expiring, Allocated>>
        /\ b \in timer /\ timer' = timer \ {b} /\ due' = due \cup {b}
    BY <1>1, SinkStays DEF TimerExpires, lists, Allocated, InSink, Expiring
  <2> QED BY <2>1
          DEF PoolInv, PoolTypes, Apart, TimersInv, TimersBelongToTheSink, AllocationIsExact
<1>2. CASE HandlerRemoves(b) /\ HandlerFinds(b)
  <2>1. /\ UNCHANGED <<source, held, additional, timer, destroying>>
        /\ b \in due /\ b \in InSink /\ b \in expirationCallback
        /\ due' = due \ {b} /\ sink' = RemoveFirst(sink, b)
        /\ expirationCallback' = expirationCallback \ {b}
        /\ handler' = [handler EXCEPT ![b] = "removed"]
    BY <1>2 DEF HandlerRemoves, HandlerFinds
  <2>2. InSink' = InSink \ {b} /\ sink' \in Seq(Buffers) /\ IsInjective(sink')
    BY <2>1, RemoveFirstToSet DEF PoolInv, PoolTypes, Apart, InSink
  <2>3. Expiring' = Expiring \cup {b} /\ PoolTypes'
    BY <2>1, <2>2 DEF PoolInv, PoolTypes, Expiring
  <2>4. Allocated' = Allocated
    BY <2>1, <2>2, <2>3 DEF Allocated
  <2>5. Apart'
    BY <2>1, <2>2, <2>3 DEF PoolInv, Apart
  <2>6. TimersInv'
    BY <2>1, <2>2, <2>3 DEF PoolInv, Apart, TimersInv, TimersBelongToTheSink
  <2> QED BY <2>1, <2>2, <2>3, <2>4, <2>5, <2>6 DEF PoolInv, AllocationIsExact
<1>3. CASE HandlerRemoves(b) /\ ~HandlerFinds(b)
  <2>1. /\ UNCHANGED <<source, sink, held, additional, expirationCallback, timer, handler,
                       destroying>>
        /\ UNCHANGED <<InSink, Expiring, Allocated>>
        /\ due' = due \ {b}
    BY <1>3, SinkStays DEF HandlerRemoves, Allocated, InSink, Expiring
  <2> QED BY <2>1
          DEF PoolInv, PoolTypes, Apart, TimersInv, TimersBelongToTheSink, AllocationIsExact
<1> QED BY <1>1, <1>2, <1>3

\* The handler gives the buffer to the Client, whose callback returns.
LEMMA HandlerInv ==
    ASSUME PoolInv, NEW b \in Buffers, HandlerCalls(b) \/ HandlerReturns(b)
    PROVE  /\ PoolInv' /\ (AllocationIsExact => AllocationIsExact')
           /\ InSink' = InSink /\ expirationCallback' = expirationCallback
           /\ HandlerCalls(b) => b \in Expiring /\ Expiring' = Expiring \ {b}
           /\ HandlerReturns(b) => Expiring' = Expiring
<1>1. CASE HandlerCalls(b)
  <2>1. /\ UNCHANGED <<source, sink, additional, expirationCallback, timer, due, destroying>>
        /\ UNCHANGED InSink /\ held' = held \cup {b} /\ handler[b] = "removed"
        /\ handler' = [handler EXCEPT ![b] = "calling"]
    BY <1>1, SinkStays DEF HandlerCalls
  <2>2. b \in Expiring /\ Expiring' = Expiring \ {b} /\ PoolTypes'
    BY <2>1 DEF PoolInv, PoolTypes, Expiring
  <2>3. Allocated' = Allocated
    BY <2>1, <2>2 DEF Allocated
  <2>4. Apart' /\ TimersInv'
    BY <2>1, <2>2 DEF PoolInv, Apart, TimersInv, TimersBelongToTheSink
  <2>5. ~HandlerReturns(b)
    BY <2>1 DEF HandlerReturns
  <2> QED BY <2>1, <2>2, <2>3, <2>4, <2>5 DEF PoolInv, AllocationIsExact
<1>2. CASE HandlerReturns(b)
  <2>1. /\ UNCHANGED <<source, sink, held, additional, expirationCallback, timer, due, destroying>>
        /\ UNCHANGED InSink /\ handler[b] = "calling"
        /\ handler' = [handler EXCEPT ![b] = "idle"]
    BY <1>2, SinkStays DEF HandlerReturns, lists
  <2>2. Expiring' = Expiring /\ PoolTypes'
    BY <2>1 DEF PoolInv, PoolTypes, Expiring
  <2>3. ~HandlerCalls(b) /\ Allocated' = Allocated
    BY <2>1, <2>2 DEF HandlerCalls, Allocated
  <2> QED BY <2>1, <2>2, <2>3 DEF PoolInv, Apart, TimersInv, TimersBelongToTheSink,
                                  AllocationIsExact
<1> QED BY <1>1, <1>2

\* The close of the sink deletes a buffer when no handler will come for it.
LEMMA DestroyInv ==
    ASSUME PoolInv, NEW b \in Buffers, DestroyRemoves(b) \/ DestroyDeletes(b)
    PROVE  /\ PoolInv' /\ InSink' \subseteq InSink
           /\ UNCHANGED <<expirationCallback, Expiring>>
<1>1. CASE DestroyRemoves(b)
  <2>1. /\ UNCHANGED <<source, held, additional, expirationCallback, timer, due, handler, Expiring>>
        /\ destroying = {} /\ destroying' = {b}
        /\ sink # <<>> /\ b = Head(sink) /\ sink' = Tail(sink)
    BY <1>1, SinkStays DEF DestroyRemoves, timerVars
  <2>2. /\ sink' \in Seq(Buffers) /\ IsInjective(sink') /\ InSink = InSink' \cup {b}
        /\ b \notin InSink'
    BY <2>1, HeadTailToSet DEF PoolInv, PoolTypes, Apart, InSink
  <2> QED BY <2>1, <2>2 DEF PoolInv, PoolTypes, Apart, TimersInv, TimersBelongToTheSink
<1>2. CASE DestroyDeletes(b)
  <2>1. /\ UNCHANGED <<source, sink, held, additional, expirationCallback, due, handler>>
        /\ UNCHANGED <<InSink, Expiring>>
        /\ b \notin due /\ timer' = timer \ {b} /\ destroying' = destroying \ {b}
    BY <1>2, SinkStays DEF DestroyDeletes, HandlerIsOver, lists
  <2> QED BY <2>1 DEF PoolInv, PoolTypes, Apart, TimersInv, TimersBelongToTheSink
<1> QED BY <1>1, <1>2

\* The pools are left alone.
LEMMA PoolStays ==
    ASSUME PoolInv, UNCHANGED poolVars
    PROVE  /\ PoolInv' /\ (AllocationIsExact => AllocationIsExact')
           /\ UNCHANGED <<InSink, Expiring, expirationCallback>>
<1> USE DEF poolVars, lists, timerVars
<1>1. UNCHANGED <<InSink, Expiring, Allocated>>
  BY SinkStays DEF Allocated, InSink, Expiring
<1> QED BY <1>1
        DEF PoolInv, PoolTypes, Apart, TimersInv, TimersBelongToTheSink, AllocationIsExact

-----------------------------------------------------------------------------
(* DMF_BufferQueue.                                                         *)

\* A buffer that may expire has the callback of the Client that its handler
\* will look for.
CallbackInv ==
    /\ InSink \cap expirationCallback \subseteq clientCallback
    /\ Expiring \subseteq clientCallback

ExactInv == phase \in {"open", "closing"} => AllocationIsExact

QueueInv == PoolInv /\ ExactInv /\ CallbackInv

\* The Client's Methods: what it fetches is no longer in the sink.
LEMMA ClientKeepsQueue ==
    ASSUME QueueInv, NEW b \in Buffers, ClientStep(b)
    PROVE  QueueInv'
<1> USE DEF QueueInv, ExactInv, moduleVars
<1>1. CASE Fetch(b)
  <2>1. /\ UNCHANGED <<sink, handler, InSink, Expiring>>
        /\ expirationCallback' \subseteq expirationCallback
    BY <1>1, SinkStays DEF Fetch, SourceGet, GetExisting, GetNew
  <2>2. b \notin InSink /\ b \notin Expiring
    BY <1>1 DEF Fetch, SourceGet, GetExisting, GetNew, PoolInv, Apart, Allocated
  <2> QED BY <1>1, <2>1, <2>2, SourceGetInv DEF Fetch, CallbackInv
<1>2. CASE Enqueue(b)
  <2>1. ~SinkPutWithTimer(b) \/ UNCHANGED <<expirationCallback, timer>>
    BY <1>2 DEF Enqueue, SinkPut, SinkPutAtHead
  <2>2. b \in held /\ UNCHANGED expirationCallback
    BY <1>2 DEF Enqueue, SinkPut, SinkPutAtHead, SinkPutIn
  <2>3. b \notin expirationCallback
    BY <2>2 DEF PoolInv, TimersInv
  <2> QED BY <1>2, <2>2, <2>3, SinkPutInv DEF Enqueue, CallbackInv
<1>3. CASE EnqueueWithTimer(b)
  BY <1>3, SinkPutInv DEF EnqueueWithTimer, CallbackInv
<1>4. CASE Dequeue(b)
  BY <1>4, SinkGetInv DEF Dequeue, CallbackInv
<1>5. CASE Enumerate(b)
  BY <1>5, EnumerateInv DEF Enumerate, CallbackInv
<1>6. CASE Reuse(b)
  <2>1. UNCHANGED <<InSink, Expiring, expirationCallback, clientCallback, phase>>
    BY <1>6, SinkStays DEF Reuse, ReuseBuffer, SourcePut, timerVars
  <2> QED BY <1>6, <2>1, SourcePutInv DEF Reuse, ReuseBuffer, CallbackInv
<1> QED BY <1>1, <1>2, <1>3, <1>4, <1>5, <1>6 DEF ClientStep

\* The timers: the Client's callback is taken out of the buffer when it is
\* called, and the buffer is the Client's from then on.
LEMMA TimersKeepQueue ==
    ASSUME QueueInv, NEW b \in Buffers, TimerStep(b)
    PROVE  QueueInv'
<1> USE DEF QueueInv, ExactInv, moduleVars
<1>1. CASE Expire(b)
  BY <1>1, ExpireInv DEF Expire, CallbackInv
<1>2. CASE TimerCallback(b)
  <2>1. b \notin InSink' /\ b \notin Expiring'
    BY <1>2, HandlerInv DEF TimerCallback, PoolInv, Apart
  <2> QED BY <1>2, <2>1, HandlerInv DEF TimerCallback, CallbackInv
<1>3. CASE TimerCallbackReturns(b)
  BY <1>3, HandlerInv DEF TimerCallbackReturns, CallbackInv
<1> QED BY <1>1, <1>2, <1>3 DEF TimerStep

\* Flush and the close.
LEMMA CloseKeepsQueue ==
    ASSUME QueueInv, FlushBegin \/ CloseBegin \/ CloseStep
    PROVE  QueueInv'
<1> USE DEF QueueInv, ExactInv, moduleVars
<1>1. CASE FlushBegin \/ CloseBegin \/ ConsumerClose \/ ConsumerClosed \/ FlushEnd
  BY <1>1, PoolStays
     DEF FlushBegin, CloseBegin, ConsumerClose, ConsumerClosed, FlushEnd, CallbackInv
<1>2. ASSUME NEW b \in Buffers, FlushGets(b) PROVE QueueInv'
  BY <1>2, SinkGetInv DEF FlushGets, CallbackInv
<1>3. ASSUME NEW b \in Buffers, FlushReuses(b) PROVE QueueInv'
  <2>1. UNCHANGED <<InSink, Expiring, expirationCallback, clientCallback, phase>>
    BY <1>3, SinkStays DEF FlushReuses, ReuseBuffer, SourcePut, timerVars
  <2> QED BY <1>3, <2>1, SourcePutInv DEF FlushReuses, ReuseBuffer, CallbackInv
<1>4. ASSUME NEW b \in Buffers, ConsumerDestroys(b) PROVE QueueInv'
  BY <1>4, DestroyInv DEF ConsumerDestroys, CallbackInv
<1> QED BY <1>1, <1>2, <1>3, <1>4 DEF CloseStep, FlushStep

\* At first every buffer is in the source.
LEMMA QueueInitInv == Init => QueueInv
<1>1. Init => InSink = {} /\ Expiring = {}
  BY EmptyToSet DEF Init, PoolInit, InSink, Expiring
<1> QED BY <1>1, PoolInitInv DEF Init, QueueInv, ExactInv, CallbackInv

\* Every step keeps it.
LEMMA QueueNextInv == QueueInv /\ [Next]_vars => QueueInv'
<1> SUFFICES ASSUME QueueInv, [Next]_vars PROVE QueueInv'
  OBVIOUS
<1>1. CASE UNCHANGED vars
  BY <1>1, PoolStays DEF vars, QueueInv, ExactInv, CallbackInv
<1>2. CASE Next
  BY <1>2, ClientKeepsQueue, TimersKeepQueue, CloseKeepsQueue DEF Next
<1> QED BY <1>1, <1>2

\* DMF_BufferQueue: however the Client, the timers, Flush and the close come
\* together, every buffer has one owner, and while the queue is open as many
\* are there as were made.
THEOREM BuffersStayInPlace == Spec => []BuffersHavePlaces
<1>1. QueueInv => BuffersHavePlaces
  BY ApartIsOneOwner DEF QueueInv, PoolInv, ExactInv, BuffersHavePlaces, BuffersAreAccountedFor
<1>2. Spec => Init /\ [][Next]_vars
  BY DEF Spec
<1> QED BY <1>1, <1>2, QueueInitInv, QueueNextInv, PTL

\* A timer that fires, however late, finds the buffer waiting in the sink for
\* it, or with the close that waits for it, and its handler the callback that
\* the Client enqueued the buffer with.
THEOREM TimersFindTheirUse == Spec => []TimersServeTheirUse
<1>1. QueueInv => TimersServeTheirUse
  BY DEF QueueInv, PoolInv, TimersInv, CallbackInv, TimersServeTheirUse, TimerFindsClientCallback
<1>2. Spec => Init /\ [][Next]_vars
  BY DEF Spec
<1> QED BY <1>1, <1>2, QueueInitInv, QueueNextInv, PTL

-----------------------------------------------------------------------------
(* DMF_ThreadedBufferQueue. Its pools take part in the moves above only.    *)

\* A buffer that is got from the source was in nobody's hand, and is then.
LEMMA SourceGetMoves ==
    ASSUME PoolInv, NEW b \in Buffers, SourceGet(b)
    PROVE  PoolInv' /\ b \notin held /\ b \notin InSink /\ held' = held \cup {b} /\ UNCHANGED InSink
<1>1. held' = held \cup {b} /\ UNCHANGED InSink
  BY SinkStays DEF SourceGet
<1>2. b \notin held /\ b \notin InSink
  BY DEF SourceGet, GetExisting, GetNew, PoolInv, Apart, Allocated
<1> QED BY <1>1, <1>2, SourceGetInv

\* The other moves between the source, the sink and a hand.
LEMMA SourcePutMoves ==
    ASSUME PoolInv, NEW b \in Buffers, SourcePut(b)
    PROVE  PoolInv' /\ b \in held /\ b \notin InSink /\ held' = held \ {b} /\ UNCHANGED InSink
<1>1. b \in held /\ held' = held \ {b} /\ UNCHANGED InSink
  BY SinkStays DEF SourcePut
<1> QED BY <1>1, SourcePutInv DEF PoolInv, Apart

\* Either end of the sink takes a buffer.
LEMMA SinkPutMoves ==
    ASSUME PoolInv, NEW b \in Buffers, SinkPut(b) \/ SinkPutAtHead(b)
    PROVE  /\ PoolInv' /\ b \in held /\ b \notin InSink
           /\ held' = held \ {b} /\ InSink' = InSink \cup {b}
<1>1. b \in held /\ held' = held \ {b}
  BY DEF SinkPut, SinkPutAtHead, SinkPutIn
<1> QED BY <1>1, SinkPutInv DEF PoolInv, Apart

\* It gives one.
LEMMA SinkGetMoves ==
    ASSUME PoolInv, NEW b \in Buffers, SinkGet(b)
    PROVE  /\ PoolInv' /\ b \in InSink /\ b \notin held
           /\ held' = held \cup {b} /\ InSink' = InSink \ {b}
BY SinkGetInv DEF PoolInv, Apart

\* The buffers in the hands of the callers.
InHand == {fetched[c] : c \in {d \in Callers : caller[d] = "fetched"}}

ThreadedTypes ==
    /\ caller \in [Callers -> {"idle", "fetched", "enqueued", "toWait", "waiting"}]
    /\ fetched \in [Callers -> Buffers \cup {NULL}]
    /\ wakes \in [Buffers -> Callers \cup {NULL}]
    /\ event \in [Callers -> BOOLEAN]
    /\ status \in [Callers -> {"none", "done", "cancelled"}]
    /\ step \in [Buffers -> {"none", "client", "write", "signal", "reuse"}]
    /\ executed \subseteq Callers

\* HeldByOne, pair by pair.
HandsInv ==
    /\ held = InHand \cup working \cup pending \cup flushedWork
    /\ InHand \cap working = {} /\ InHand \cap pending = {} /\ InHand \cap flushedWork = {}
    /\ working \cap pending = {} /\ working \cap flushedWork = {} /\ pending \cap flushedWork = {}
    /\ \A c, d \in Callers :
          c # d /\ caller[c] = "fetched" /\ caller[d] = "fetched" => fetched[c] # fetched[d]

\* Where the thread is while the controller starts, stops and closes it: of
\* Stop, EvtThreadPost and StopComplete a Stop has one at a time.
ThreadInv ==
    /\ thread = "ended" \/ "Close" \in events => controller \in {"destroy", "closed"}
    /\ controller \in {"closeFlush", "destroy", "closed"} => isStopped
    /\ isStopped => /\ thread \in {"idle", "ended"}
                    /\ events \subseteq {"WorkReady", "Close"}
                    /\ controller \notin {"stop", "closeStop"}
    /\ "Start" \in events => thread = "idle" /\ "StopComplete" \notin events
    /\ "Stop" \in events \/ thread = "post" \/ "StopComplete" \in events
          => controller \in {"stop", "closeStop"}
    /\ thread = "post" => "Stop" \notin events
    /\ "StopComplete" \in events => thread = "idle" /\ "Stop" \notin events
    /\ events \subseteq {"Start", "Stop", "WorkReady", "StopComplete", "Close"}
    /\ isStopped \in BOOLEAN

\* The thread has one buffer, and only while it works, and a buffer is on its way to
\* completion exactly while the thread, Flush or the Client has it.
WorkInv ==
    /\ working # {} => thread = "working"
    /\ \A b, c \in working : b = c
    /\ \A b \in Buffers : /\ step[b] = "none" <=> b \notin working \cup pending \cup flushedWork
                          /\ step[b] = "client" => b \notin flushedWork

\* A caller waits for the buffer, in the queue or before its event is set.
Awaited(b) == wakes[b] # NULL /\ (b \in InSink \/ step[b] \in {"client", "write", "signal"})

\* The Client has done the work, and the caller has not been told.
Executed(b) == step[b] \in {"write", "signal"} /\ b \notin flushedWork

WaitInv ==
    /\ \A b \in Buffers :
          Awaited(b) =>
             /\ caller[wakes[b]] \in {"toWait", "waiting"} /\ fetched[wakes[b]] = b
             /\ ~event[wakes[b]]
             /\ wakes[b] \in executed <=> Executed(b)
             /\ step[b] = "signal" =>
                   status[wakes[b]] = IF b \in flushedWork THEN "cancelled" ELSE "done"
    /\ \A c \in Callers :
          /\ event[c] \/ c \in executed => caller[c] \in {"toWait", "waiting"}
          /\ event[c] => status[c] = IF c \in executed THEN "done" ELSE "cancelled"

OwnersInv == PoolInv /\ ThreadedTypes /\ HandsInv
ThreadedInv == OwnersInv /\ ThreadInv /\ WorkInv /\ WaitInv

\* HandsInv gives the property.
LEMMA HandsAreApart == HandsInv => HeldByOne
<1> SUFFICES ASSUME HandsInv PROVE HeldByOne
  OBVIOUS
<1> DEFINE holder == <<InHand, working, pending, flushedWork>>
<1>1. ASSUME NEW i \in 1 .. 4, NEW j \in 1 .. 4, i # j PROVE holder[i] \cap holder[j] = {}
  <2>1. (i = 1 \/ i = 2 \/ i = 3 \/ i = 4) /\ (j = 1 \/ j = 2 \/ j = 3 \/ j = 4)
    OBVIOUS
  <2>2. holder[1] = InHand /\ holder[2] = working /\ holder[3] = pending /\ holder[4] = flushedWork
    OBVIOUS
  <2> HIDE DEF holder
  <2> QED BY <1>1, <2>1, <2>2 DEF HandsInv
<1>2. DOMAIN holder = 1 .. 4
  OBVIOUS
<1> QED BY <1>1, <1>2 DEF HandsInv, HeldByOne, InHand

\* Nobody's hand changes.
LEMMA HandsStay ==
    ASSUME UNCHANGED fetched,
           \A c \in Callers : caller[c] = "fetched" <=> caller'[c] = "fetched"
    PROVE  UNCHANGED InHand
BY DEF InHand

\* One hand is emptied.
LEMMA HandGives ==
    ASSUME ThreadedTypes, HandsInv, NEW c \in Callers, caller[c] = "fetched",
           \A d \in Callers \ {c} : caller'[d] = caller[d] /\ fetched'[d] = fetched[d],
           caller'[c] # "fetched"
    PROVE  /\ InHand' = InHand \ {fetched[c]} /\ fetched[c] \in InHand
           /\ \A d, e \in Callers : d # e /\ caller'[d] = "fetched" /\ caller'[e] = "fetched"
                                    => fetched'[d] # fetched'[e]
<1>1. \A x : x \in InHand <=> \E d \in Callers : caller[d] = "fetched" /\ fetched[d] = x
  BY DEF InHand
<1>2. \A x : x \in InHand' <=> \E d \in Callers : caller'[d] = "fetched" /\ fetched'[d] = x
  BY DEF InHand
<1>3. \A d, e \in Callers : d # e /\ caller[d] = "fetched" /\ caller[e] = "fetched"
                            => fetched[d] # fetched[e]
  BY DEF HandsInv
<1>4. \A x : x \in InHand' <=> x \in InHand /\ x # fetched[c]
  BY <1>1, <1>2, <1>3
<1> QED BY <1>1, <1>3, <1>4

\* One hand is filled.
LEMMA HandTakes ==
    ASSUME ThreadedTypes, HandsInv, NEW c \in Callers, caller[c] # "fetched",
           NEW b, b \notin InHand,
           \A d \in Callers \ {c} : caller'[d] = caller[d] /\ fetched'[d] = fetched[d],
           caller'[c] = "fetched", fetched'[c] = b
    PROVE  /\ InHand' = InHand \cup {b}
           /\ \A d, e \in Callers : d # e /\ caller'[d] = "fetched" /\ caller'[e] = "fetched"
                                    => fetched'[d] # fetched'[e]
<1>1. \A x : x \in InHand <=> \E d \in Callers : caller[d] = "fetched" /\ fetched[d] = x
  BY DEF InHand
<1>2. \A x : x \in InHand' <=> \E d \in Callers : caller'[d] = "fetched" /\ fetched'[d] = x
  BY DEF InHand
<1>3. \A d, e \in Callers : d # e /\ caller[d] = "fetched" /\ caller[e] = "fetched"
                            => fetched[d] # fetched[e]
  BY DEF HandsInv
<1>4. \A x : x \in InHand' <=> x \in InHand \/ x = b
  BY <1>1, <1>2
<1> QED BY <1>1, <1>3, <1>4

\* ThreadInv is about the thread and the controller alone.
LEMMA ThreadRests ==
    ASSUME ThreadInv, UNCHANGED <<thread, events, isStopped>>,
           UNCHANGED controller \/ {controller, controller'} \subseteq {"idle", "flush"}
    PROVE  ThreadInv'
BY DEF ThreadInv

\* WorkInv is about the thread and the buffers it, Flush and the Client have.
LEMMA WorkRests ==
    ASSUME WorkInv, UNCHANGED <<thread, working, pending, flushedWork, step>>
    PROVE  WorkInv'
BY DEF WorkInv

\* A caller fetches a buffer.
LEMMA FetchKeeps ==
    ASSUME NULL \notin Callers, ThreadedInv, NEW c \in Callers, NEW b \in Buffers,
           ThreadedFetch(c, b)
    PROVE  ThreadedInv'
<1>1. /\ caller[c] = "idle" /\ SourceGet(b)
      /\ caller' = [caller EXCEPT ![c] = "fetched"] /\ fetched' = [fetched EXCEPT ![c] = b]
      /\ UNCHANGED <<thread, events, isStopped, event, status, wakes, working, pending, flushedWork,
                     step, controller, executed>>
  BY DEF ThreadedFetch, threadVars, bufferVars
<1>2. PoolInv' /\ b \notin held /\ held' = held \cup {b} /\ UNCHANGED InSink
  BY <1>1, SourceGetMoves DEF ThreadedInv, OwnersInv
<1>3. /\ caller'[c] = "fetched" /\ fetched'[c] = b
      /\ \A d \in Callers \ {c} : caller'[d] = caller[d] /\ fetched'[d] = fetched[d]
      /\ ThreadedTypes'
  BY <1>1 DEF ThreadedInv, OwnersInv, ThreadedTypes
<1>4. HandsInv'
  <2>1. b \notin InHand /\ b \notin working \cup pending \cup flushedWork
    BY <1>2 DEF ThreadedInv, OwnersInv, HandsInv
  <2>2. /\ InHand' = InHand \cup {b}
        /\ \A d, e \in Callers : d # e /\ caller'[d] = "fetched" /\ caller'[e] = "fetched"
                                 => fetched'[d] # fetched'[e]
    BY <1>1, <1>3, <2>1, HandTakes DEF ThreadedInv, OwnersInv
  <2> QED BY <1>1, <1>2, <2>1, <2>2 DEF ThreadedInv, OwnersInv, HandsInv
<1>5. WaitInv'
  BY <1>1, <1>2, <1>3 DEF ThreadedInv, OwnersInv, ThreadedTypes, WaitInv, Awaited, Executed
<1> QED BY <1>1, <1>2, <1>3, <1>4, <1>5, ThreadRests, WorkRests DEF ThreadedInv, OwnersInv

\* It puts the buffer back.
LEMMA ReuseKeeps ==
    ASSUME NULL \notin Callers, ThreadedInv, NEW c \in Callers, ThreadedReuse(c)
    PROVE  ThreadedInv'
<1> DEFINE b == fetched[c]
<1>1. /\ caller[c] = "fetched" /\ SourcePut(b)
      /\ wakes' = [wakes EXCEPT ![b] = NULL]
      /\ caller' = [caller EXCEPT ![c] = "idle"] /\ fetched' = [fetched EXCEPT ![c] = NULL]
      /\ UNCHANGED <<thread, events, isStopped, event, status, working, pending, flushedWork,
                     step, controller, executed>>
  BY DEF ThreadedReuse, threadVars
<1>2. /\ caller'[c] = "idle"
      /\ \A d \in Callers \ {c} : caller'[d] = caller[d] /\ fetched'[d] = fetched[d]
  BY <1>1 DEF ThreadedInv, OwnersInv, ThreadedTypes
<1>3. /\ InHand' = InHand \ {b} /\ b \in InHand
      /\ \A d, e \in Callers : d # e /\ caller'[d] = "fetched" /\ caller'[e] = "fetched"
                                 => fetched'[d] # fetched'[e]
  BY <1>1, <1>2, HandGives DEF ThreadedInv, OwnersInv
<1>4. b \in Buffers
  BY <1>3 DEF ThreadedInv, OwnersInv, HandsInv, PoolInv, PoolTypes
<1> HIDE DEF b
<1>5. PoolInv' /\ b \notin InSink /\ held' = held \ {b} /\ UNCHANGED InSink
  BY <1>1, <1>4, SourcePutMoves DEF ThreadedInv, OwnersInv
<1>6. ThreadedTypes' /\ \A x \in Buffers : wakes'[x] = IF x = b THEN NULL ELSE wakes[x]
  BY <1>1, <1>4 DEF ThreadedInv, OwnersInv, ThreadedTypes
<1>7. HandsInv'
  BY <1>1, <1>3, <1>5 DEF ThreadedInv, OwnersInv, HandsInv
<1>8. WaitInv'
  BY <1>1, <1>2, <1>5, <1>6 DEF ThreadedInv, OwnersInv, ThreadedTypes, WaitInv, Awaited, Executed
<1> QED BY <1>1, <1>5, <1>6, <1>7, <1>8, ThreadRests, WorkRests DEF ThreadedInv, OwnersInv

\* It enqueues the buffer, and may be about to wait for it: nothing that was
\* left of an earlier use of the buffer or of its event is found then.
LEMMA EnqueueKeeps ==
    ASSUME NULL \notin Callers, ThreadedInv, NEW c \in Callers,
           ThreadedEnqueue(c) \/ EnqueueAndWait(c)
    PROVE  ThreadedInv'
<1> DEFINE b == fetched[c]
<1>1. /\ caller[c] = "fetched" /\ PutInQueue(b)
      /\ UNCHANGED <<thread, events, isStopped, event, status, working, pending, flushedWork,
                     step, controller, executed>>
      /\ \/ /\ wakes' = [wakes EXCEPT ![b] = NULL]
            /\ caller' = [caller EXCEPT ![c] = "enqueued"]
            /\ fetched' = [fetched EXCEPT ![c] = NULL]
         \/ /\ wakes' = [wakes EXCEPT ![b] = c]
            /\ caller' = [caller EXCEPT ![c] = "toWait"] /\ UNCHANGED fetched
  BY DEF ThreadedEnqueue, EnqueueAndWait, threadVars
<1>2. /\ \A d \in Callers \ {c} : caller'[d] = caller[d] /\ fetched'[d] = fetched[d]
      /\ caller'[c] \in {"enqueued", "toWait"}
  BY <1>1 DEF ThreadedInv, OwnersInv, ThreadedTypes
<1>3. /\ InHand' = InHand \ {b} /\ b \in InHand
      /\ \A d, e \in Callers : d # e /\ caller'[d] = "fetched" /\ caller'[e] = "fetched"
                                 => fetched'[d] # fetched'[e]
  BY <1>1, <1>2, HandGives DEF ThreadedInv, OwnersInv
<1>4. b \in Buffers /\ b \notin working \cup pending \cup flushedWork
  BY <1>3 DEF ThreadedInv, OwnersInv, HandsInv, PoolInv, PoolTypes
<1>5. \/ wakes'[b] = NULL
      \/ wakes'[b] = c /\ caller'[c] = "toWait" /\ fetched'[c] = b
  BY <1>1, <1>4 DEF ThreadedInv, OwnersInv, ThreadedTypes
<1>6. ThreadedTypes' /\ \A x \in Buffers \ {b} : wakes'[x] = wakes[x]
  BY <1>1, <1>4 DEF ThreadedInv, OwnersInv, ThreadedTypes
<1> HIDE DEF b
<1>7. PoolInv' /\ held' = held \ {b} /\ InSink' = InSink \cup {b}
  BY <1>1, <1>4, SinkPutMoves DEF ThreadedInv, OwnersInv, PutInQueue
<1>8. HandsInv'
  BY <1>1, <1>3, <1>7 DEF ThreadedInv, OwnersInv, HandsInv
<1>9. WaitInv'
  <2>1. ~event[c] /\ c \notin executed /\ step[b] = "none"
    BY <1>1, <1>4 DEF ThreadedInv, WaitInv, WorkInv
  <2>2. ASSUME NEW x \in Buffers \ {b}, Awaited(x)' PROVE Awaited(x) /\ wakes[x] \in Callers \ {c}
    BY <1>1, <1>6, <1>7, <2>2 DEF Awaited, ThreadedInv, OwnersInv, ThreadedTypes, WaitInv
  <2> QED BY <1>1, <1>2, <1>5, <1>6, <1>7, <2>1, <2>2
          DEF ThreadedInv, OwnersInv, ThreadedTypes, WaitInv, Executed, Awaited
<1> QED BY <1>1, <1>6, <1>7, <1>8, <1>9, ThreadRests, WorkRests DEF ThreadedInv, OwnersInv

\* It tells the thread that work is ready, and goes on or waits.
LEMMA SetWorkReadyKeeps ==
    ASSUME NULL \notin Callers, ThreadedInv, NEW c \in Callers, SetWorkReady(c)
    PROVE  ThreadedInv'
<1>1. /\ caller[c] \in {"enqueued", "toWait"}
      /\ events' = events \cup {"WorkReady"}
      /\ caller' = [caller EXCEPT ![c] = IF @ = "toWait" THEN "waiting" ELSE "idle"]
      /\ UNCHANGED <<thread, isStopped, fetched, event, status, wakes, working, pending,
                     flushedWork, step, controller, executed, poolVars>>
  BY DEF SetWorkReady, WorkReady, bufferVars, poolVars, lists, timerVars
<1>2. PoolInv' /\ UNCHANGED <<InSink, held>>
  BY <1>1, PoolStays DEF ThreadedInv, OwnersInv, poolVars, lists
<1>3. /\ \A d \in Callers \ {c} : caller'[d] = caller[d]
      /\ caller'[c] = IF caller[c] = "toWait" THEN "waiting" ELSE "idle"
      /\ ThreadedTypes'
  BY <1>1 DEF ThreadedInv, OwnersInv, ThreadedTypes
<1>4. HandsInv'
  BY <1>1, <1>2, <1>3, HandsStay DEF ThreadedInv, OwnersInv, HandsInv
<1>5. WaitInv'
  BY <1>1, <1>2, <1>3 DEF ThreadedInv, OwnersInv, ThreadedTypes, WaitInv, Awaited, Executed
<1>6. ThreadInv'
  BY <1>1 DEF ThreadedInv, ThreadInv
<1> QED BY <1>1, <1>2, <1>3, <1>4, <1>5, <1>6, WorkRests DEF ThreadedInv, OwnersInv

\* Its event is set and it returns: nobody is about to write to its stack.
LEMMA ReturnKeeps ==
    ASSUME NULL \notin Callers, ThreadedInv, NEW c \in Callers, Return(c)
    PROVE  ThreadedInv'
<1>1. /\ caller[c] = "waiting" /\ event[c]
      /\ caller' = [caller EXCEPT ![c] = "idle"] /\ fetched' = [fetched EXCEPT ![c] = NULL]
      /\ event' = [event EXCEPT ![c] = FALSE] /\ status' = [status EXCEPT ![c] = "none"]
      /\ executed' = executed \ {c}
      /\ UNCHANGED <<thread, events, isStopped, wakes, working, pending, flushedWork,
                     step, controller, poolVars>>
  BY DEF Return, threadVars, bufferVars, poolVars, lists, timerVars
<1>2. PoolInv' /\ UNCHANGED <<InSink, held>>
  BY <1>1, PoolStays DEF ThreadedInv, OwnersInv, poolVars, lists
<1>3. /\ \A d \in Callers \ {c} : /\ caller'[d] = caller[d] /\ fetched'[d] = fetched[d]
                                  /\ event'[d] = event[d] /\ status'[d] = status[d]
      /\ caller'[c] = "idle" /\ ~event'[c]
      /\ ThreadedTypes'
  BY <1>1 DEF ThreadedInv, OwnersInv, ThreadedTypes
<1>4. HandsInv'
  <2>1. UNCHANGED InHand
    BY <1>1, <1>3 DEF InHand
  <2> QED BY <1>1, <1>2, <1>3, <2>1 DEF ThreadedInv, OwnersInv, HandsInv
<1>5. WaitInv'
  <2>1. ASSUME NEW x \in Buffers, Awaited(x)' PROVE Awaited(x) /\ wakes[x] \in Callers \ {c}
    BY <1>1, <1>2, <2>1 DEF Awaited, ThreadedInv, OwnersInv, ThreadedTypes, WaitInv
  <2> QED BY <1>1, <1>2, <1>3, <2>1
          DEF ThreadedInv, OwnersInv, ThreadedTypes, WaitInv, Awaited, Executed
<1> QED BY <1>1, <1>2, <1>3, <1>4, <1>5, ThreadRests, WorkRests DEF ThreadedInv, OwnersInv

\* The completion of a buffer begins with the NtStatus of the caller.
LEMMA WriteStatusKeeps ==
    ASSUME NULL \notin Callers, ThreadedInv, NEW b \in Buffers, WriteStatus(b)
    PROVE  ThreadedInv'
<1>1. /\ step[b] = "write"
      /\ \/ wakes[b] = NULL /\ UNCHANGED status /\ step' = [step EXCEPT ![b] = "reuse"]
         \/ /\ wakes[b] # NULL /\ step' = [step EXCEPT ![b] = "signal"]
            /\ status' = [status EXCEPT ![wakes[b]] =
                             IF b \in flushedWork THEN "cancelled" ELSE "done"]
      /\ UNCHANGED <<thread, events, isStopped, caller, fetched, event, wakes, working, pending,
                     flushedWork, controller, executed, poolVars>>
  BY DEF WriteStatus, threadVars, poolVars, lists, timerVars
<1>2. PoolInv' /\ UNCHANGED <<InSink, held>>
  BY <1>1, PoolStays DEF ThreadedInv, OwnersInv, poolVars, lists
<1>3. /\ \A x \in Buffers \ {b} : step'[x] = step[x]
      /\ ThreadedTypes'
  BY <1>1 DEF ThreadedInv, OwnersInv, ThreadedTypes
<1>4. HandsInv'
  BY <1>1, <1>2, HandsStay DEF ThreadedInv, OwnersInv, HandsInv
<1>5. WorkInv'
  BY <1>1, <1>3 DEF ThreadedInv, WorkInv, OwnersInv, ThreadedTypes
<1>6. WaitInv'
  <2>1. CASE wakes[b] = NULL
    BY <1>1, <1>2, <1>3, <2>1 DEF ThreadedInv, WaitInv, Awaited, Executed
  <2>2. CASE wakes[b] # NULL
    <3> DEFINE w == wakes[b]
    <3>1. /\ w \in Callers /\ fetched[w] = b /\ ~event[w]
          /\ caller[w] \in {"toWait", "waiting"} /\ w \in executed <=> b \notin flushedWork
      BY <1>1, <2>2 DEF ThreadedInv, OwnersInv, ThreadedTypes, WaitInv, Awaited, Executed
    <3>2. /\ status'[w] = IF b \in flushedWork THEN "cancelled" ELSE "done"
          /\ step'[b] = "signal" /\ \A c \in Callers \ {w} : status'[c] = status[c]
      BY <1>1, <2>2, <3>1 DEF ThreadedInv, OwnersInv, ThreadedTypes
    <3>3. \A x \in Buffers \ {b} : Awaited(x)' => Awaited(x) /\ wakes[x] \in Callers \ {w}
      BY <1>1, <1>2, <1>3, <3>1 DEF ThreadedInv, OwnersInv, ThreadedTypes, WaitInv, Awaited
    <3> HIDE DEF w
    <3>4. w = wakes[b]
      BY DEF w
    <3> QED BY <1>1, <1>2, <1>3, <3>1, <3>2, <3>3, <3>4 DEF ThreadedInv, WaitInv, Awaited, Executed
  <2> QED BY <2>1, <2>2
<1> QED BY <1>1, <1>2, <1>3, <1>4, <1>5, <1>6, ThreadRests DEF ThreadedInv, OwnersInv

\* Then its event is set: the answer is there.
LEMMA SetEventKeeps ==
    ASSUME NULL \notin Callers, ThreadedInv, NEW b \in Buffers, SetEvent(b)
    PROVE  ThreadedInv'
<1> DEFINE w == wakes[b]
<1>1. /\ step[b] = "signal"
      /\ event' = [event EXCEPT ![w] = TRUE] /\ step' = [step EXCEPT ![b] = "reuse"]
      /\ UNCHANGED <<thread, events, isStopped, caller, fetched, status, wakes, working, pending,
                     flushedWork, controller, executed, poolVars>>
  BY DEF SetEvent, threadVars, poolVars, lists, timerVars
<1>2. PoolInv' /\ UNCHANGED <<InSink, held>>
  BY <1>1, PoolStays DEF ThreadedInv, OwnersInv, poolVars, lists
<1>3. /\ step'[b] = "reuse" /\ \A x \in Buffers \ {b} : step'[x] = step[x]
      /\ \A c \in Callers \ {w} : event'[c] = event[c]
      /\ ThreadedTypes'
  BY <1>1 DEF ThreadedInv, OwnersInv, ThreadedTypes
<1>4. HandsInv'
  BY <1>1, <1>2, HandsStay DEF ThreadedInv, OwnersInv, HandsInv
<1>5. WorkInv' /\ b \notin InSink
  <2>1. b \notin InSink
    BY <1>1 DEF ThreadedInv, WorkInv, OwnersInv, HandsInv, PoolInv, Apart
  <2> QED BY <1>1, <1>3, <2>1 DEF ThreadedInv, WorkInv
<1>6. WaitInv'
  <2>1. w \in Callers => \A x \in Buffers \ {b} : Awaited(x) => wakes[x] # w
    BY <1>1 DEF ThreadedInv, OwnersInv, ThreadedTypes, WaitInv, Awaited
  <2>2. w \in Callers => /\ status[w] = IF w \in executed THEN "done" ELSE "cancelled"
                         /\ caller[w] \in {"toWait", "waiting"}
    BY <1>1 DEF ThreadedInv, WaitInv, Awaited, Executed
  <2>3. \A x \in Buffers : Awaited(x)' => x # b /\ Awaited(x)
    BY <1>1, <1>2, <1>3, <1>5 DEF Awaited
  <2>4. \A x \in Buffers : Awaited(x)' => wakes[x] \in Callers \ {w}
    BY <2>1, <2>3 DEF ThreadedInv, OwnersInv, ThreadedTypes, Awaited
  <2> HIDE DEF w
  <2> QED BY <1>1, <1>2, <1>3, <2>2, <2>3, <2>4 DEF ThreadedInv, WaitInv, Awaited, Executed
<1> QED BY <1>1, <1>2, <1>3, <1>4, <1>5, <1>6, ThreadRests DEF ThreadedInv, OwnersInv

\* And the buffer is put back.
LEMMA ReuseCompletedKeeps ==
    ASSUME NULL \notin Callers, ThreadedInv, NEW b \in Buffers, ReuseCompleted(b)
    PROVE  ThreadedInv'
<1>1. /\ step[b] = "reuse" /\ SourcePut(b)
      /\ wakes' = [wakes EXCEPT ![b] = NULL] /\ step' = [step EXCEPT ![b] = "none"]
      /\ working' = working \ {b} /\ pending' = pending \ {b} /\ flushedWork' = flushedWork \ {b}
      /\ UNCHANGED <<thread, events, isStopped, caller, fetched, event, status, controller,
                     executed>>
  BY DEF ReuseCompleted, threadVars, callerVars
<1>2. PoolInv' /\ b \notin InSink /\ held' = held \ {b} /\ UNCHANGED InSink
  BY <1>1, SourcePutMoves DEF ThreadedInv, OwnersInv
<1>3. /\ step'[b] = "none" /\ wakes'[b] = NULL
      /\ \A x \in Buffers \ {b} : step'[x] = step[x] /\ wakes'[x] = wakes[x]
      /\ ThreadedTypes'
  BY <1>1 DEF ThreadedInv, OwnersInv, ThreadedTypes
<1>4. HandsInv'
  <2>1. b \in working \cup pending \cup flushedWork
    BY <1>1 DEF ThreadedInv, WorkInv
  <2>2. UNCHANGED InHand
    BY <1>1, HandsStay
  <2> QED BY <1>1, <1>2, <2>1, <2>2 DEF ThreadedInv, OwnersInv, HandsInv
<1>5. WorkInv'
  BY <1>1, <1>3 DEF ThreadedInv, WorkInv
<1>6. WaitInv'
  BY <1>1, <1>2, <1>3 DEF ThreadedInv, WaitInv, Awaited, Executed
<1> QED BY <1>1, <1>2, <1>3, <1>4, <1>5, <1>6, ThreadRests DEF ThreadedInv, OwnersInv

\* The thread and Flush take a buffer out.
LEMMA DequeueKeeps ==
    ASSUME NULL \notin Callers, ThreadedInv, NEW b \in Buffers,
           WorkDequeue(b) \/ FlushDequeue(b)
    PROVE  ThreadedInv'
<1>1. /\ SinkGet(b)
      /\ \/ /\ thread = "working" /\ working = {} /\ working' = {b}
            /\ step' = [step EXCEPT ![b] = "client"] /\ UNCHANGED flushedWork
         \/ /\ flushedWork = {} /\ flushedWork' = {b}
            /\ step' = [step EXCEPT ![b] = "write"] /\ UNCHANGED working
      /\ UNCHANGED <<thread, events, isStopped, caller, fetched, event, status, wakes, pending,
                     controller, executed>>
  BY DEF WorkDequeue, FlushDequeue, threadVars,
                      callerVars
<1>2. PoolInv' /\ b \in InSink /\ b \notin held /\ held' = held \cup {b} /\ InSink' = InSink \ {b}
  BY <1>1, SinkGetMoves DEF ThreadedInv, OwnersInv
<1>3. /\ \/ working' = {b} /\ step'[b] = "client" /\ b \notin flushedWork
         \/ flushedWork' = {b} /\ UNCHANGED working /\ step'[b] = "write"
      /\ \A x \in Buffers \ {b} : step'[x] = step[x]
      /\ ThreadedTypes' /\ step[b] = "none"
  BY <1>1, <1>2 DEF ThreadedInv, OwnersInv, ThreadedTypes, HandsInv, WorkInv
<1>4. HandsInv'
  <2>1. UNCHANGED InHand
    BY <1>1, HandsStay
  <2> QED BY <1>1, <1>2, <2>1 DEF ThreadedInv, OwnersInv, HandsInv
<1>5. WorkInv'
  <2>1. b \notin working \cup pending \cup flushedWork
    BY <1>2 DEF ThreadedInv, OwnersInv, HandsInv
  <2>2. CASE working' = {b} /\ step'[b] = "client"
    BY <1>1, <1>3, <2>1, <2>2 DEF ThreadedInv, WorkInv
  <2>3. CASE flushedWork' = {b} /\ UNCHANGED working /\ step'[b] = "write"
    BY <1>1, <1>3, <2>1, <2>3 DEF ThreadedInv, WorkInv
  <2> QED BY <1>1, <1>3, <2>1, <2>2, <2>3
<1>6. WaitInv'
  <2>1. \A x \in Buffers : Awaited(x)' => Awaited(x)
    BY <1>1, <1>2, <1>3 DEF Awaited
  <2>2. \A x \in Buffers : Executed(x)' <=> Executed(x)
    BY <1>1, <1>2, <1>3 DEF Executed
  <2> QED BY <1>1, <1>2, <1>3, <2>1, <2>2 DEF ThreadedInv, WaitInv
<1> QED BY <1>1, <1>2, <1>3, <1>4, <1>5, <1>6, ThreadRests DEF ThreadedInv, OwnersInv

\* The Client has done the work, at once or later.
LEMMA ClientCompletesKeeps ==
    ASSUME NULL \notin Callers, ThreadedInv, NEW b \in Buffers,
           ClientCompletes(b) \/ CompletePending(b)
    PROVE  ThreadedInv'
<1>1. /\ step[b] = "client" /\ step' = [step EXCEPT ![b] = "write"]
      /\ executed' = executed \cup ({wakes[b]} \ {NULL})
      /\ UNCHANGED <<thread, events, isStopped, caller, fetched, event, status, wakes, working,
                     pending, flushedWork, controller, poolVars>>
  BY DEF ClientCompletes, CompletePending, threadVars, callerVars, poolVars, lists, timerVars
<1>2. PoolInv' /\ UNCHANGED <<InSink, held>>
  BY <1>1, PoolStays DEF ThreadedInv, OwnersInv, poolVars, lists
<1>3. /\ step'[b] = "write" /\ b \notin flushedWork
      /\ \A x \in Buffers \ {b} : step'[x] = step[x]
      /\ ThreadedTypes'
  BY <1>1 DEF ThreadedInv, OwnersInv, ThreadedTypes, WorkInv
<1>4. HandsInv'
  BY <1>1, <1>2, HandsStay DEF ThreadedInv, OwnersInv, HandsInv
<1>5. WorkInv'
  BY <1>1, <1>3 DEF ThreadedInv, WorkInv
<1>6. WaitInv'
  <2>1. \A x \in Buffers : Awaited(x)' <=> Awaited(x)
    BY <1>1, <1>2, <1>3 DEF Awaited
  <2>2. \A x \in Buffers \ {b} : Executed(x)' <=> Executed(x)
    BY <1>1, <1>3 DEF Executed
  <2>3. Executed(b)'
    BY <1>1, <1>3 DEF Executed
  <2>4. wakes[b] # NULL => Awaited(b) /\ wakes[b] \in executed'
    BY <1>1 DEF Awaited
  <2>5. \A x \in Buffers \ {b} : Awaited(x) => wakes[x] # wakes[b]
    BY <2>4 DEF ThreadedInv, WaitInv, Awaited
  <2>6. \A x \in Buffers \ {b} : Awaited(x) => (wakes[x] \in executed' <=> wakes[x] \in executed)
    BY <1>1, <2>5
  <2>7. ASSUME NEW x \in Buffers, Awaited(x)'
        PROVE  /\ caller'[wakes'[x]] \in {"toWait", "waiting"} /\ fetched'[wakes'[x]] = x
               /\ ~event'[wakes'[x]]
               /\ wakes'[x] \in executed' <=> Executed(x)'
               /\ step'[x] = "signal" =>
                     status'[wakes'[x]] = IF x \in flushedWork' THEN "cancelled" ELSE "done"
    <3>1. CASE x = b
      BY <1>1, <1>3, <2>1, <2>3, <2>4, <2>7, <3>1 DEF ThreadedInv, WaitInv, Awaited
    <3>2. CASE x # b
      BY <1>1, <1>3, <2>1, <2>2, <2>6, <2>7, <3>2 DEF ThreadedInv, WaitInv
    <3> QED BY <3>1, <3>2
  <2>8. ASSUME NEW c \in Callers
        PROVE  /\ event'[c] \/ c \in executed' => caller'[c] \in {"toWait", "waiting"}
               /\ event'[c] => status'[c] = IF c \in executed' THEN "done" ELSE "cancelled"
    <3>1. CASE c = wakes[b]
      <4>1. wakes[b] # NULL /\ ~event[c] /\ caller[c] \in {"toWait", "waiting"}
        BY <2>4, <3>1 DEF ThreadedInv, WaitInv
      <4> QED BY <1>1, <4>1
    <3>2. CASE c # wakes[b]
      BY <1>1, <3>2 DEF ThreadedInv, WaitInv
    <3> QED BY <3>1, <3>2
  <2> QED BY <2>7, <2>8 DEF WaitInv
<1> QED BY <1>1, <1>2, <1>3, <1>4, <1>5, <1>6, ThreadRests DEF ThreadedInv, OwnersInv

\* What is left alone when the callers and the pools are.
LEMMA CallersRest ==
    ASSUME ThreadedInv, UNCHANGED poolVars,
           UNCHANGED <<caller, fetched, event, status, wakes, flushedWork, step, executed>>
    PROVE  /\ PoolInv' /\ ThreadedTypes' /\ WaitInv' /\ UNCHANGED <<InHand, held, InSink>>
           /\ UNCHANGED <<working, pending>> => HandsInv'
<1>1. PoolInv' /\ UNCHANGED <<InSink, held>>
  BY PoolStays DEF ThreadedInv, OwnersInv, poolVars, lists
<1>2. UNCHANGED InHand
  BY HandsStay
<1> QED BY <1>1, <1>2
        DEF ThreadedInv, OwnersInv, ThreadedTypes, HandsInv, WaitInv, Awaited, Executed

\* The Client keeps the buffer, and the thread leaves the loop.
LEMMA ClientPendsKeeps ==
    ASSUME NULL \notin Callers, ThreadedInv, NEW b \in Buffers, ClientPends(b)
    PROVE  ThreadedInv'
<1>1. /\ step[b] = "client" /\ b \in working /\ working' = {} /\ pending' = pending \cup {b}
      /\ thread = "working" /\ thread' = "returning"
      /\ UNCHANGED <<events, isStopped, caller, fetched, event, status, wakes, flushedWork, step,
                     controller, executed, poolVars>>
  BY DEF ClientPends, LeavesWork, callerVars, poolVars, lists, timerVars
<1>2. working = {b}
  BY <1>1 DEF ThreadedInv, WorkInv
<1>3. /\ PoolInv' /\ ThreadedTypes' /\ WaitInv' /\ UNCHANGED <<InHand, held>>
  BY <1>1, CallersRest
<1>4. HandsInv'
  BY <1>1, <1>2, <1>3 DEF ThreadedInv, OwnersInv, HandsInv
<1>5. WorkInv'
  BY <1>1, <1>2 DEF ThreadedInv, WorkInv
<1>6. ThreadInv'
  BY <1>1 DEF ThreadedInv, ThreadInv
<1> QED BY <1>3, <1>4, <1>5, <1>6 DEF ThreadedInv, OwnersInv

\* The thread and the controller otherwise: the next Start, the next Stop and
\* the close find no event of an earlier one.
LEMMA ThreadKeeps ==
    ASSUME NULL \notin Callers, ThreadedInv,
           \/ ThreadSteps \/ NoMoreWork
           \/ Start \/ Stop \/ StopReturns \/ Flush
           \/ FlushReturns \/ ThreadedCloseBegin \/ CloseFlushed
           \/ ThreadEnded
    PROVE  ThreadedInv'
<1> USE DEF callerVars, bufferVars, poolVars, lists,
            timerVars, threadVars
<1>1. UNCHANGED <<caller, fetched, event, status, wakes, working, pending, flushedWork, step,
                  executed>>
  BY DEF ThreadSteps, NoMoreWork, Start, Stop,
         StopReturns, Flush, FlushReturns, ThreadedCloseBegin,
         CloseFlushed, ThreadEnded
<1>2. UNCHANGED poolVars
  BY DEF ThreadSteps, NoMoreWork, Start, Stop,
         StopReturns, Flush, FlushReturns, ThreadedCloseBegin,
         CloseFlushed, ThreadEnded, poolVars, lists, timerVars
<1>3. OwnersInv' /\ WaitInv'
  BY <1>1, <1>2, CallersRest DEF OwnersInv
<1>4. ThreadInv' /\ (working # {} => UNCHANGED thread)
  <2> USE DEF ThreadedInv, ThreadInv
  <2>1. CASE ThreadSteps
    <3>1. UNCHANGED <<isStopped, controller>> /\ (working # {} => thread = "working")
      BY <2>1 DEF ThreadSteps, Starts, BeginsWork, EndsWork,
                  Stops, Stopped, Ends, WorkInv
    <3>2. CASE Starts
      BY <3>1, <3>2 DEF Starts
    <3>3. CASE BeginsWork
      BY <3>1, <3>3 DEF BeginsWork
    <3>4. CASE EndsWork
      BY <3>1, <3>4 DEF EndsWork
    <3>5. CASE Stops
      BY <3>1, <3>5 DEF Stops
    <3>6. CASE Stopped
      BY <3>1, <3>6 DEF Stopped
    <3>7. CASE Ends
      BY <3>1, <3>7 DEF Ends
    <3> QED BY <2>1, <3>2, <3>3, <3>4, <3>5, <3>6, <3>7 DEF ThreadSteps
  <2>2. CASE NoMoreWork
    BY <2>2 DEF NoMoreWork, LeavesWork
  <2>3. CASE Start
    BY <2>3 DEF Start, ThreadStart
  <2>4. CASE Stop
    BY <2>4 DEF Stop, StopBegin
  <2>5. CASE StopReturns
    BY <2>5 DEF StopReturns, StopEnd
  <2>6. CASE Flush \/ FlushReturns
    <3>1. /\ UNCHANGED <<thread, events, isStopped>>
          /\ {controller, controller'} \subseteq {"idle", "flush"}
      BY <2>6 DEF Flush, FlushReturns
    <3> QED BY <3>1, ThreadRests
  <2>7. CASE ThreadedCloseBegin
    <3>1. /\ UNCHANGED <<thread, isStopped>> /\ controller = "idle"
          /\ \/ ~isStopped /\ events' = events \cup {"Stop"} /\ controller' = "closeStop"
             \/ isStopped /\ UNCHANGED events /\ controller' = "closeFlush"
      BY <2>7 DEF ThreadedCloseBegin, StopBegin
    <3> QED BY <3>1
  <2>8. CASE CloseFlushed
    BY <2>8 DEF CloseFlushed, DestroyBegin
  <2>9. CASE ThreadEnded
    BY <2>9 DEF ThreadEnded
  <2> QED BY <2>1, <2>2, <2>3, <2>4, <2>5, <2>6, <2>7, <2>8, <2>9
<1>5. WorkInv'
  BY <1>1, <1>4 DEF ThreadedInv, WorkInv
<1> QED BY <1>3, <1>4, <1>5 DEF ThreadedInv

\* At first nobody has or waits for anything.
LEMMA ThreadedInitInv == ThreadedInit => ThreadedInv
<1> SUFFICES ASSUME ThreadedInit PROVE ThreadedInv
  OBVIOUS
<1>1. /\ caller = [c \in Callers |-> "idle"] /\ fetched = [c \in Callers |-> NULL]
      /\ wakes = [b \in Buffers |-> NULL] /\ event = [c \in Callers |-> FALSE]
      /\ status = [c \in Callers |-> "none"] /\ working = {} /\ pending = {} /\ flushedWork = {}
      /\ step = [b \in Buffers |-> "none"] /\ controller = "idle" /\ executed = {}
      /\ thread = "idle" /\ events = {} /\ isStopped = TRUE
  BY DEF ThreadedInit, ThreadInit
<1>2. PoolInit
  BY DEF ThreadedInit, PoolInit
<1>3. PoolInv /\ held = {}
  BY <1>2, PoolInitInv DEF PoolInit
<1>4. InHand = {}
  BY <1>1 DEF InHand
<1> QED BY <1>1, <1>3, <1>4 DEF ThreadedInv, OwnersInv, ThreadedTypes, HandsInv, ThreadInv,
                                WorkInv, WaitInv, Awaited

\* Every step keeps it.
LEMMA ThreadedNextInv ==
    ASSUME NULL \notin Callers, ThreadedInv, [ThreadedNext]_threadedVars
    PROVE  ThreadedInv'
<1>1. CASE UNCHANGED threadedVars
  <2>1. /\ UNCHANGED <<caller, fetched, event, status, wakes, working, pending, flushedWork, step,
                       executed, thread, events, isStopped, controller>>
        /\ UNCHANGED poolVars
    BY <1>1 DEF threadedVars, callerVars, bufferVars, threadVars, poolVars,
                lists, timerVars
  <2> QED BY <2>1, CallersRest, ThreadRests, WorkRests DEF ThreadedInv, OwnersInv
<1>2. ASSUME NEW b \in Buffers, WorkCompleted(b) PROVE ThreadedInv'
  BY <1>2, WriteStatusKeeps, SetEventKeeps, ReuseCompletedKeeps DEF WorkCompleted
<1>3. ASSUME NEW c \in Callers,
             \/ CallerStep(c) \/ ThreadedReuse(c) \/ ThreadedEnqueue(c)
             \/ EnqueueAndWait(c) \/ \E b \in Buffers : ThreadedFetch(c, b)
      PROVE  ThreadedInv'
  BY <1>3, FetchKeeps, ReuseKeeps, EnqueueKeeps, SetWorkReadyKeeps, ReturnKeeps
     DEF CallerStep
<1>4. working \subseteq Buffers /\ flushedWork \subseteq Buffers
  BY DEF ThreadedInv, OwnersInv, HandsInv, PoolInv, PoolTypes
<1>5. CASE WorkerStep
  BY <1>2, <1>4, <1>5, ThreadKeeps, DequeueKeeps, ClientCompletesKeeps, ClientPendsKeeps
     DEF WorkerStep
<1>6. CASE ControllerStep
  BY <1>2, <1>4, <1>6, ThreadKeeps, DequeueKeeps DEF ControllerStep
<1>7. ASSUME NEW b \in Buffers, PendingStep(b) PROVE ThreadedInv'
  BY <1>2, <1>7, ClientCompletesKeeps DEF PendingStep
<1>8. CASE Start \/ Stop \/ Flush \/ ThreadedCloseBegin
  BY <1>8, ThreadKeeps
<1> QED BY <1>1, <1>3, <1>5, <1>6, <1>7, <1>8 DEF ThreadedNext

\* DMF_ThreadedBufferQueue: a buffer of work is with one caller, the thread,
\* Flush or the Client that left it pending, whatever they do meanwhile; and
\* from the return of Stop to the next Start the thread has none and no event
\* is left that would start, stop or end it.
THEOREM WorkStaysWithOne == ThreadedSpec => []WorkHasOneOwner
<1>1. ThreadedInv => WorkHasOneOwner
  BY HandsAreApart DEF ThreadedInv, OwnersInv, ThreadInv, WorkInv, WorkHasOneOwner,
                       StoppedHoldsNothing, StoppedIsQuiet
<1>2. ThreadedSpec => ThreadedInit /\ [][ThreadedNext]_threadedVars
  BY DEF ThreadedSpec
<1>3. ThreadedInv /\ [ThreadedNext]_threadedVars => ThreadedInv'
  BY CallersAssumption, ThreadedNextInv DEF CallersAssumption
<1> QED BY <1>1, <1>2, <1>3, ThreadedInitInv, PTL

\* The answer to work goes to the stack of the caller that still waits for it,
\* which reads done if the Client did the work and cancelled if Flush took it.
THEOREM AnswersReachCallers == ThreadedSpec => []AnswersReachTheirCaller
<1>1. ThreadedInv => AnswersReachTheirCaller
  BY DEF ThreadedInv, WaitInv, Awaited, AnswersReachTheirCaller,
         WakesWaitingCaller, WaiterGetsItsStatus
<1>2. ThreadedSpec => ThreadedInit /\ [][ThreadedNext]_threadedVars
  BY DEF ThreadedSpec
<1>3. ThreadedInv /\ [ThreadedNext]_threadedVars => ThreadedInv'
  BY CallersAssumption, ThreadedNextInv DEF CallersAssumption
<1> QED BY <1>1, <1>2, <1>3, ThreadedInitInv, PTL
=============================================================================
